--------------------------- MODULE ControlChannels ---------------------------
(***************************************************************************)
(* The server's registry of control channels: the accept loop              *)
(* (Server::run), the handle_connection task of every accepted connection, *)
(* the hot reload of services, and the two shared maps with their locks,   *)
(* `services` and `control_channels`.                                      *)
(*                                                                         *)
(* A connection that completes a control channel handshake becomes a       *)
(* session: the handle in the map and the tasks that hold the port of the  *)
(* service. Inside, a session is the state machine of TcpService or of     *)
(* UdpTunnel; here it binds its port, may be held up in an arm of its      *)
(* select, and ends, because its handle was dropped or by itself. The      *)
(* session key is a digest of the token and a fresh nonce, so it names the *)
(* connection it was made for.                                             *)
(***************************************************************************)
EXTENDS Integers, Sequences, MultiMap

CONSTANTS Service,     \* service digests
          Udp,         \* those of services of type UDP
          MaxConns,    \* bound: connections accepted in one behaviour
          MaxChanges   \* bound: hot reload events in one behaviour

ASSUME BoundsAssumption ==
  /\ Service # {} /\ Udp \subseteq Service
  /\ MaxConns \in Nat /\ MaxChanges \in Nat

Conn == 1..MaxConns
NoConn == 0
Main == 0            \* the accept loop, as a waiter for a lock
Absent == 0          \* the version of a service that is not configured
Versions == 0..(MaxChanges + 1)
Changes == [kind : {"add", "delete"}, service : Service]

VARIABLES
  main,      \* where Server::run is
  change,    \* the ConfigChange that handle_hot_reload works on
  changes,   \* hot reload events received so far
  services,  \* the services map: the version of each configured service
  channels,  \* the control_channels map, see MultiMap
  queue,     \* tasks in line for the lock of control_channels, first first
  state,     \* where the handle_connection task of each connection is
  service,   \* the service digest in a control channel hello
  config,    \* the version of service_config that a handshake cloned
  target,    \* the session whose key a data channel hello carries
  session    \* the task that has the port of a session: the listener of TCP,
             \* the pool of UDP

vars == <<main, change, changes, services, channels, queue, state, service,
          config, target, session>>
hello == <<service, target>>

NoChange == [kind |-> "none"]

-----------------------------------------------------------------------------
(* The maps and the locks. *)

(* The session key of c leads to a handle. *)
Registered(c) == Get2(channels, c) # {}

(* The handle of session c has not been dropped: an item owns it. *)
HandleLives(c) == \E a \in Items(channels) : channels.heap[a].v = c

(* Variant: the guard of services.read() lives until the auth is checked. *)
ReadsServices_UntilAuth(c) == state[c] \in {"refusing", "auth"}

(***************************************************************************)
(* The guard of services.read() is a temporary of the match: it lives      *)
(* through the write of Ack::ServiceNotExist and, when the service is      *)
(* found, no longer than the clone of its config.                          *)
(***************************************************************************)
ReadsServices(c) == state[c] = "refusing"

(* Variant: Add lets go of the services lock before it takes the other. *)
ServicesLocked_NotByAdd == main = "services"

(***************************************************************************)
(* services is closed to new readers while the accept loop waits for the   *)
(* write lock and, in the Add branch, until it is done with both maps.     *)
(***************************************************************************)
ServicesLocked ==
  \/ main = "services"
  \/ main \in {"asking", "channels"} /\ change.kind = "add"

(* The holders of the lock of control_channels, across an await. *)
Writing(c) == state[c] = "ack"
Reading(c) == state[c] = "sending"

(* tokio's RwLock is fair: it is granted in the order of the requests. *)
ReadGranted(t) ==
  /\ queue # <<>> /\ Head(queue) = t
  /\ \A d \in Conn : ~Writing(d)

WriteGranted(t) ==
  /\ ReadGranted(t)
  /\ \A d \in Conn : ~Reading(d)

Goto(c, l) == state' = [state EXCEPT ![c] = l]

(* Handshake tasks that have not returned: each holds both Arcs. *)
Handling(c) == state[c] \notin {"new", "transport", "done"}

(* The task waits for bytes from its peer, with no timeout. *)
WaitsForPeer(c) == state[c] \in {"hello", "auth"}

Init ==
  /\ main = "select" /\ change = NoChange /\ changes = 0
  /\ services = [s \in Service |-> 1]
  /\ channels = Empty /\ queue = <<>>
  /\ state = [c \in Conn |-> "new"]
  /\ service \in [Conn -> {CHOOSE s \in Service : TRUE}]
  /\ config = [c \in Conn |-> Absent]
  /\ target = [c \in Conn |-> NoConn]
  /\ session = [c \in Conn |-> "none"]

-----------------------------------------------------------------------------
(* The accept loop. *)

(* transport.accept, then the transport handshake inside the select arm. *)
Accept(c) ==
  /\ main = "select"
  /\ state[c] = "new"
  /\ \A d \in 1..(c - 1) : state[d] # "new"
  /\ main' = "handshake"
  /\ Goto(c, "transport")
  /\ UNCHANGED <<change, changes, services, channels, queue, hello, config, session>>

(* The handshake ends within HANDSHAKE_TIMEOUT, well or not. *)
TransportHandshake(c) ==
  /\ main = "handshake"
  /\ state[c] = "transport"
  /\ main' = "select"
  /\ Goto(c, "hello") \/ Goto(c, "done")
  /\ UNCHANGED <<change, changes, services, channels, queue, hello, config, session>>

(* update_rx.recv() = Some(e) *)
TakeUpdate(e) ==
  /\ main = "select"
  /\ changes < MaxChanges
  /\ changes' = changes + 1
  /\ change' = e
  /\ main' = "services"
  /\ UNCHANGED <<services, channels, queue, state, hello, config, session>>

(* services.write() and the insert or the remove. *)
ReloadServices ==
  /\ main = "services"
  /\ \A c \in Conn : ~ReadsServices(c)
  /\ services' = [services EXCEPT ![change.service] =
                    IF change.kind = "add" THEN changes + 1 ELSE Absent]
  /\ main' = "asking"
  /\ UNCHANGED <<change, changes, channels, queue, state, hello, config, session>>

(* The write lock of control_channels is asked for. *)
AskChannels ==
  /\ main = "asking"
  /\ main' = "channels"
  /\ queue' = Append(queue, Main)
  /\ UNCHANGED <<change, changes, services, channels, state, hello, config, session>>

(* control_channels.write() and remove1 *)
ReloadChannels ==
  /\ main = "channels"
  /\ WriteGranted(Main)
  /\ channels' = Remove1(channels, change.service)
  /\ queue' = Tail(queue)
  /\ main' = "select"
  /\ change' = NoChange
  /\ UNCHANGED <<changes, services, state, hello, config, session>>

(* shutdown_rx.recv(): Server::run returns and the Server is dropped. *)
Shutdown ==
  /\ main = "select"
  /\ main' = "stopped"
  /\ UNCHANGED <<change, changes, services, channels, queue, state, hello,
                 config, session>>

(* Variant: the last Arc of the map is never dropped. *)
DropMap_Never == FALSE /\ UNCHANGED vars

(***************************************************************************)
(* The map goes with its last Arc: the Server's and those of all the       *)
(* handle_connection tasks.                                                *)
(***************************************************************************)
DropMap ==
  /\ main = "stopped"
  /\ channels # Empty
  /\ \A c \in Conn : ~Handling(c)
  /\ channels' = Drop(channels)
  /\ UNCHANGED <<main, change, changes, services, queue, state, hello, config, session>>

-----------------------------------------------------------------------------
(* handle_connection. *)

(***************************************************************************)
(* read_hello: a control channel for a service, a data channel with the    *)
(* key of some session (only its client knows it, from the handshake), or  *)
(* an error. A control channel hello is answered before the lookup.        *)
(***************************************************************************)
ReadHello(c) ==
  /\ state[c] = "hello"
  /\ \/ \E s \in Service :
          /\ service' = [service EXCEPT ![c] = s]
          /\ Goto(c, "lookup") \/ Goto(c, "done")
          /\ UNCHANGED <<target, queue>>
     \/ \E k \in Conn :
          /\ session[k] # "none"
          /\ target' = [target EXCEPT ![c] = k]
          /\ Goto(c, "data")
          /\ queue' = Append(queue, c)
          /\ UNCHANGED service
     \/ Goto(c, "done") /\ UNCHANGED <<hello, queue>>
  /\ UNCHANGED <<main, change, changes, services, channels, config, session>>

(* services.read() and get(&service_digest), to_owned() *)
Lookup(c) ==
  /\ state[c] = "lookup"
  /\ ~ServicesLocked
  /\ \/ /\ services[service[c]] # Absent
        /\ config' = [config EXCEPT ![c] = services[service[c]]]
        /\ Goto(c, "auth")
     \/ /\ services[service[c]] = Absent
        /\ Goto(c, "refusing")
        /\ UNCHANGED config
  /\ UNCHANGED <<main, change, changes, services, channels, queue, hello, session>>

(* Ack::ServiceNotExist is written, or the write failed. *)
Refuse(c) ==
  /\ state[c] = "refusing"
  /\ Goto(c, "done")
  /\ UNCHANGED <<main, change, changes, services, channels, queue, hello,
                 config, session>>

(***************************************************************************)
(* read_auth and the comparison with the token of the cloned config: wrong *)
(* or missing auth ends the task, otherwise it asks for the write lock.    *)
(***************************************************************************)
ReadAuth(c) ==
  /\ state[c] = "auth"
  /\ \/ Goto(c, "lock") /\ queue' = Append(queue, c)
     \/ Goto(c, "done") /\ UNCHANGED queue
  /\ UNCHANGED <<main, change, changes, services, channels, hello, config, session>>

(* Variant: the lock is let go between remove1 and insert. *)
ReplaceChannel_Unlocked(c) ==
  /\ state[c] = "lock"
  /\ queue # <<>> /\ Head(queue) = c
  /\ \A d \in Conn : ~Reading(d)
  /\ channels' = Remove1(channels, service[c])
  /\ queue' = Tail(queue)
  /\ Goto(c, "ack")
  /\ UNCHANGED <<main, change, changes, services, hello, config, session>>

(* Variant: the previous channel is dropped without the write lock. *)
ReplaceChannel_NoLock(c) ==
  /\ state[c] = "lock"
  /\ queue # <<>> /\ Head(queue) = c
  /\ channels' = Remove1(channels, service[c])
  /\ queue' = Tail(queue)
  /\ Goto(c, "ack")
  /\ UNCHANGED <<main, change, changes, services, hello, config, session>>

(* control_channels.write() and remove1 of the previous control channel. *)
ReplaceChannel(c) ==
  /\ state[c] = "lock"
  /\ WriteGranted(c)
  /\ channels' = Remove1(channels, service[c])
  /\ queue' = Tail(queue)
  /\ Goto(c, "ack")
  /\ UNCHANGED <<main, change, changes, services, hello, config, session>>

(* Variant: the two keys, both digests of the same type, change places. *)
SendAck_KeysSwapped(c) ==
  /\ state[c] = "ack"
  /\ Goto(c, "done")
  /\ \/ /\ session' = [session EXCEPT ![c] = "binding"]
        /\ channels' = Insert(channels, c, c, service[c], c)
     \/ UNCHANGED <<session, channels>>
  /\ UNCHANGED <<main, change, changes, services, queue, hello, config>>

(***************************************************************************)
(* Ack::Ok is written under the lock. Then the handle is made from the     *)
(* cloned config and inserted, at the address c stands for; the result is  *)
(* ignored, and a handle that insert refuses is dropped. If the write      *)
(* fails the task ends, and the previous channel is gone all the same.     *)
(***************************************************************************)
SendAck(c) ==
  /\ state[c] = "ack"
  /\ Goto(c, "done")
  /\ \/ /\ session' = [session EXCEPT ![c] = "binding"]
        /\ channels' = Insert(channels, c, service[c], c, c)
     \/ UNCHANGED <<session, channels>>
  /\ UNCHANGED <<main, change, changes, services, queue, hello, config>>

(* do_data_channel_handshake: control_channels.read() and get2(&nonce). *)
LookupSession(c) ==
  /\ state[c] = "data"
  /\ ReadGranted(c)
  /\ queue' = Tail(queue)
  /\ Goto(c, IF Registered(target[c]) THEN "sending" ELSE "done")
  /\ UNCHANGED <<main, change, changes, services, channels, hello, config, session>>

(* data_ch_tx.send(conn).await: it never waits, see NoBlockedSend. *)
SendChannel(c) ==
  /\ state[c] = "sending"
  /\ Goto(c, "done")
  /\ UNCHANGED <<main, change, changes, services, channels, queue, hello,
                 config, session>>

-----------------------------------------------------------------------------
(* The tasks of a session. *)

Bound(c) == session[c] \in {"listening", "busy"}

Port(s) == {c \in Conn : service[c] = s /\ Bound(c)}

(* Variant: the bind is tried once. *)
Bind_Once(c) ==
  /\ session[c] = "binding"
  /\ session' = [session EXCEPT ![c] = IF Port(service[c]) = {}
                                        THEN "listening" ELSE "stopped"]
  /\ UNCHANGED <<main, change, changes, services, channels, queue, state,
                 hello, config>>

(* The bind is retried until the port is free. *)
Bind(c) ==
  /\ session[c] = "binding"
  /\ Port(service[c]) = {}
  /\ session' = [session EXCEPT ![c] = "listening"]
  /\ UNCHANGED <<main, change, changes, services, channels, queue, state,
                 hello, config>>

(***************************************************************************)
(* A pool of UDP is in an arm of its select: it writes the packet of a     *)
(* visitor to the data channel, or reads the rest of a frame. How long     *)
(* that takes is up to the client, and shutdown_rx is not looked at.       *)
(***************************************************************************)
EnterArm(c) ==
  /\ session[c] = "listening"
  /\ service[c] \in Udp
  /\ session' = [session EXCEPT ![c] = "busy"]
  /\ UNCHANGED <<main, change, changes, services, channels, queue, state,
                 hello, config>>

LeaveArm(c) ==
  /\ session[c] = "busy"
  /\ session' = [session EXCEPT ![c] = "listening"]
  /\ UNCHANGED <<main, change, changes, services, channels, queue, state,
                 hello, config>>

(***************************************************************************)
(* A session ends by itself, with its handle still in the map or not: the  *)
(* listener when a visitor comes after a failed write has ended the        *)
(* control task, the pool of UDP on any error of its socket or channel.    *)
(* Before it is bound neither of them looks at anything but shutdown_rx.   *)
(***************************************************************************)
FailSession(c) ==
  /\ Bound(c)
  /\ session' = [session EXCEPT ![c] = "failed"]
  /\ UNCHANGED <<main, change, changes, services, channels, queue, state,
                 hello, config>>

(***************************************************************************)
(* The handle was dropped, and with it _shutdown_tx and the sender of the  *)
(* data channels: one of them ends the wait of the listener, or of a pool  *)
(* of UDP that is not in an arm.                                           *)
(***************************************************************************)
StopSession(c) ==
  /\ session[c] \in {"binding", "listening"}
  /\ ~HandleLives(c)
  /\ session' = [session EXCEPT ![c] = "stopped"]
  /\ UNCHANGED <<main, change, changes, services, channels, queue, state,
                 hello, config>>

-----------------------------------------------------------------------------
ServerStep(c) ==
  \/ TransportHandshake(c)
  \/ Lookup(c) \/ Refuse(c) \/ ReplaceChannel(c) \/ SendAck(c)
  \/ LookupSession(c) \/ SendChannel(c)

SessionStep(c) ==
  Bind(c) \/ EnterArm(c) \/ LeaveArm(c) \/ FailSession(c) \/ StopSession(c)

Next ==
  \/ \E c \in Conn : Accept(c) \/ ReadHello(c) \/ ReadAuth(c)
                     \/ ServerStep(c) \/ SessionStep(c)
  \/ \E e \in Changes : TakeUpdate(e)
  \/ ReloadServices \/ AskChannels \/ ReloadChannels
  \/ Shutdown \/ DropMap

Spec == Init /\ [][Next]_vars

(***************************************************************************)
(* A step the server can take by itself is eventually taken: tasks are     *)
(* polled when woken, the transport handshake has a timeout and a write of *)
(* a few bytes completes or fails. A free port can be bound: its address   *)
(* is good and no other program has it. The select of a UDP pool chooses   *)
(* at random, so a shutdown is seen although packets keep it busy.         *)
(* Nothing makes a peer send its hello or its auth, a client take what the *)
(* pool writes, a session fail, or the operator change the configuration   *)
(* or stop the server.                                                     *)
(***************************************************************************)
Fairness ==
  /\ \A c \in Conn : /\ WF_vars(ServerStep(c))
                   /\ WF_vars(Bind(c)) /\ SF_vars(StopSession(c))
  /\ WF_vars(ReloadServices) /\ WF_vars(AskChannels) /\ WF_vars(ReloadChannels)
  /\ WF_vars(DropMap)

FairSpec == Spec /\ Fairness

-----------------------------------------------------------------------------
(* ControlChannelMap<T>, the MultiMap of the server. *)
MapType(m) ==
  /\ m.map1 \subseteq Conn /\ m.map2 \subseteq Conn
  /\ m.heap \in [Items(m) -> [k1 : Service, k2 : Conn, v : Conn]]

(* Type invariant: the places of the tasks and the contents of the maps. *)
TypeOK ==
  /\ main \in {"select", "handshake", "services", "asking", "channels", "stopped"}
  /\ change \in Changes \cup {NoChange}
  /\ changes \in 0..MaxChanges
  /\ services \in [Service -> Versions]
  /\ MapType(channels)
  /\ queue \in Seq(Conn \cup {Main})
  /\ state \in [Conn -> {"new", "transport", "hello", "lookup", "refusing",
                         "auth", "lock", "ack", "data", "sending", "done"}]
  /\ service \in [Conn -> Service]
  /\ config \in [Conn -> Versions]
  /\ target \in [Conn -> Conn \cup {NoConn}]
  /\ session \in [Conn -> {"none", "binding", "listening", "busy", "failed", "stopped"}]

(***************************************************************************)
(* A handshake that is about to insert its handle finds both keys free.    *)
(* The result of wg.insert is ignored: were it refused, the client would   *)
(* have its Ack and the server no session for it.                          *)
(***************************************************************************)
InsertNeverRefused ==
  \A c \in Conn :
    state[c] = "ack" => Get1(channels, service[c]) = {} /\ ~Registered(c)

(***************************************************************************)
(* The raw pointers of the map stay sound through every interleaving of    *)
(* handshakes, reloads and the shutdown: no key or item is read or dropped *)
(* after it is freed, and no handle is left behind with its port bound.    *)
(***************************************************************************)
MapWellFormed == WellFormed(channels)

(***************************************************************************)
(* While do_data_channel_handshake sends a data channel, the session whose *)
(* key it carries stays in the map: no reload and no new control channel   *)
(* drops the handle under it.                                              *)
(***************************************************************************)
HandleOutlivesSend ==
  \A c \in Conn : state[c] = "sending" => Registered(target[c])

(***************************************************************************)
(* A hot reload never drops a session that runs the configuration it has   *)
(* just installed: the Add branch keeps the services lock until it removed *)
(* the old channel, so no handshake can slip in between with the new one.  *)
(***************************************************************************)
ReloadSparesNewConfig ==
  [][\A c \in Conn :
        main = "channels" /\ main' = "select" /\ HandleLives(c) /\ ~HandleLives(c)'
          => config[c] # services[service[c]]]_vars

(***************************************************************************)
(* handle_hot_reload ends, whatever the peers of the handshakes do or fail *)
(* to do: the accept loop goes back to its select.                         *)
(***************************************************************************)
ReloadCompletes == main \in {"services", "asking", "channels"} ~> main = "select"

(* Another session of the service is in an arm, and has the port. *)
HeldByAnother(c) == \E d \in Port(service[c]) : d # c /\ session[d] = "busy"

(* Session c is registered and has not been able to bind its port. *)
Unbound(c) == Registered(c) /\ ~Bound(c) /\ session[c] # "failed"

(***************************************************************************)
(* A session that stays registered gets the port of its service, although  *)
(* the session it replaced may still hold it when the new one starts to    *)
(* bind. The one way to keep it from the port for good is a UDP pool that  *)
(* never comes out of an arm and so never sees that it was replaced.       *)
(***************************************************************************)
TakesOverPort ==
  <>[](\E c \in Conn : Unbound(c)) => <>[](\E c \in Conn : Unbound(c) /\ HeldByAnother(c))

Ended(c) == session[c] \in {"none", "failed", "stopped"}

(***************************************************************************)
(* After the shutdown every session ends. A UDP pool that never comes out  *)
(* of an arm stays up by itself; any other does only if some connection    *)
(* owes the server its hello or auth for ever and so keeps the map alive.  *)
(***************************************************************************)
ShutdownStopsSessions ==
  <>[](main = "stopped" /\ \E c \in Conn : ~Ended(c) /\ session[c] # "busy")
    => <>[](\E d \in Conn : WaitsForPeer(d))

(***************************************************************************)
(* lib.rs: "shutdown_tx owns the instance". Stopping the instance stops    *)
(* every session it started.                                               *)
(***************************************************************************)
InstanceOwned == main = "stopped" ~> \A c \in Conn : Ended(c)

(***************************************************************************)
(* README: services can be removed by hot reload. Once a service is        *)
(* removed no session listens on its port any more, until it is added.     *)
(***************************************************************************)
RemovedServiceStops ==
  \A s \in Service :
    services[s] = Absent ~> services[s] # Absent \/ Port(s) = {}

=============================================================================
