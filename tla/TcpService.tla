----------------------------- MODULE TcpService -----------------------------
(***************************************************************************)
(* One session of a TCP service: what ControlChannelHandle::new starts on  *)
(* the server (the listener task, the connection pool task, the control    *)
(* channel task), the client's control loop and data channel tasks that    *)
(* answer it, and the handshake tasks that bring the data channels back.   *)
(*                                                                         *)
(*   visitor --> listener --visitor_ch--> pool <--data_ch-- handshakes     *)
(*                  |                      |                     ^         *)
(*                  +------ requests ------+                     |         *)
(*                             |                                 |         *)
(*                       control task --cmds--> client --> dialing         *)
(*                                                                         *)
(* Every data channel is anonymous until the pool pairs it with a visitor, *)
(* so requests, commands and channels under way are counted; the data_ch   *)
(* queue keeps its order because a channel may break while it waits.       *)
(***************************************************************************)
EXTENDS Integers, Sequences

CONSTANTS ChanSize,     \* CHAN_SIZE, 2048 in the code
          PoolSize,     \* TCP_POOL_SIZE, 8 in the code
          MaxVisitors,  \* bound: visitors of one behaviour
          MaxFaults     \* bound: failed dials, broken channels, disconnects

ASSUME SizesAssumption ==
  /\ ChanSize \in Nat /\ PoolSize \in Nat \ {0}
  /\ MaxVisitors \in Nat /\ MaxFaults \in Nat

(***************************************************************************)
(* The two constants of the code satisfy this with a wide margin           *)
(* (8 + 2 <= 2048); nothing in the code states it.                         *)
(***************************************************************************)
ASSUME RoomAssumption == PoolSize + 2 <= ChanSize

Visitor == 1..MaxVisitors
NoVisitor == 0

VARIABLES
  handle,     \* is the ControlChannelHandle in the control_channels map
  writer,     \* is a task queued for the write lock of that map
  control,    \* server ControlChannel::run
  listener,   \* tcp_listen_and_send task
  incoming,   \* the visitor the listener holds in tx.send(incoming).await
  visitor_ch, \* mpsc::channel(CHAN_SIZE) from the listener to the pool
  pool,       \* run_tcp_connection_pool task
  current,    \* the visitor the pool holds while it waits for a channel
  requests,   \* data_ch_req: create requests not yet received
  conn,       \* the control connection as the client sees it
  cmds,       \* CreateDataChannel commands on the wire
  client,     \* client ControlChannel::run
  dialing,    \* client run_data_channel tasks before their hello
  arriving,   \* server handle_connection tasks before the map lookup
  sending,    \* handshakes in data_ch_tx.send, holding the read lock
  data_ch,    \* mpsc::channel(CHAN_SIZE * 2) of data channels
  visitors,   \* what has become of each visitor
  lost,       \* requests that will never put a channel in data_ch
  faults      \* injected failures so far

vars == <<handle, writer, control, listener, incoming, visitor_ch, pool,
          current, requests, conn, cmds, client, dialing, arriving, sending,
          data_ch, visitors, lost, faults>>

serverTasks == <<control, listener, incoming, visitor_ch, pool, current>>
clientSide  == <<conn, cmds, client, dialing>>
registry    == <<handle, writer>>

-----------------------------------------------------------------------------
Held(v) == IF v = NoVisitor THEN 0 ELSE 1

(* Visitors that were accepted and are not yet paired with a channel. *)
Pending == Held(incoming) + Len(visitor_ch) + Held(current)

(* Variant: data_ch as large as the other queues. *)
DataChCapacity_Single == ChanSize

(* mpsc::channel(CHAN_SIZE * 2) in ControlChannelHandle::new *)
DataChCapacity == ChanSize * 2

(* Sequence q as a set of visitors. *)
Queued(q) == {q[i] : i \in DOMAIN q}

(* Dropping the streams of the visitors in S closes their connections. *)
Close(S) == visitors' = [v \in Visitor |-> IF v \in S THEN "closed" ELSE visitors[v]]

(***************************************************************************)
(* ControlChannelHandle::new: PoolSize requests are queued before the      *)
(* tasks are spawned; the caller still holds the write lock and inserts    *)
(* the handle before any data channel can look it up.                      *)
(***************************************************************************)
Init ==
  /\ handle = "registered" /\ writer = "none"
  /\ control = "running" /\ conn = "up" /\ client = "running"
  /\ listener = "binding" /\ incoming = NoVisitor /\ visitor_ch = <<>>
  /\ pool = "visitor" /\ current = NoVisitor
  /\ requests = PoolSize /\ cmds = 0 /\ dialing = 0
  /\ arriving = 0 /\ sending = 0 /\ data_ch = <<>>
  /\ visitors = [v \in Visitor |-> "outside"]
  /\ lost = 0 /\ faults = 0

-----------------------------------------------------------------------------
(* The listener task. *)

(* retry_notify_with_deadline: the bind succeeded. *)
Bind ==
  /\ listener = "binding"
  /\ listener' = "listening"
  /\ UNCHANGED <<registry, control, incoming, visitor_ch, pool, current,
                 requests, clientSide, arriving, sending, data_ch, visitors,
                 lost, faults>>

(* Variant: the listener relies on the channels the pool has cached. *)
Accept_NoRequest(v) ==
  /\ listener = "listening"
  /\ visitors[v] = "outside"
  /\ \A u \in 1..(v - 1) : visitors[u] # "outside"
  /\ incoming' = v
  /\ listener' = "sending"
  /\ visitors' = [visitors EXCEPT ![v] = "accepted"]
  /\ UNCHANGED <<registry, control, visitor_ch, pool, current, requests,
                 clientSide, arriving, sending, data_ch, lost, faults>>

(***************************************************************************)
(* l.accept(): one request per visitor, then the visitor is sent to the    *)
(* pool. A failed request means that the control task dropped its          *)
(* receiver; the listener stops and the visitor's stream is dropped.       *)
(***************************************************************************)
Accept(v) ==
  /\ listener = "listening"
  /\ visitors[v] = "outside"
  /\ \A u \in 1..(v - 1) : visitors[u] # "outside"
  /\ \/ /\ control = "running"
        /\ requests' = requests + 1
        /\ incoming' = v
        /\ listener' = "sending"
        /\ visitors' = [visitors EXCEPT ![v] = "accepted"]
     \/ /\ control = "stopped"
        /\ listener' = "stopped"
        /\ visitors' = [visitors EXCEPT ![v] = "closed"]
        /\ UNCHANGED <<requests, incoming>>
  /\ UNCHANGED <<registry, control, visitor_ch, pool, current, clientSide,
                 arriving, sending, data_ch, lost, faults>>

(* Variant: try_send, so that a full queue turns the visitor away. *)
Deliver_TrySend ==
  /\ listener = "sending"
  /\ \/ /\ pool # "stopped"
        /\ Len(visitor_ch) < ChanSize
        /\ visitor_ch' = Append(visitor_ch, incoming)
        /\ UNCHANGED visitors
     \/ /\ pool = "stopped" \/ Len(visitor_ch) = ChanSize
        /\ visitors' = [visitors EXCEPT ![incoming] = "closed"]
        /\ UNCHANGED visitor_ch
  /\ listener' = "listening"
  /\ incoming' = NoVisitor
  /\ UNCHANGED <<registry, control, pool, current, requests, clientSide,
                 arriving, sending, data_ch, lost, faults>>

(***************************************************************************)
(* tx.send(incoming).await, outside the select: it waits while the queue   *)
(* is full and fails, silently, once the pool dropped the receiver.        *)
(***************************************************************************)
Deliver ==
  /\ listener = "sending"
  /\ \/ /\ pool # "stopped"
        /\ Len(visitor_ch) < ChanSize
        /\ visitor_ch' = Append(visitor_ch, incoming)
        /\ UNCHANGED visitors
     \/ /\ pool = "stopped"
        /\ visitors' = [visitors EXCEPT ![incoming] = "closed"]
        /\ UNCHANGED visitor_ch
  /\ listener' = "listening"
  /\ incoming' = NoVisitor
  /\ UNCHANGED <<registry, control, pool, current, requests, clientSide,
                 arriving, sending, data_ch, lost, faults>>

(* Variant: the listener waits for the pool instead of the dropped handle. *)
ListenerShutdown_AfterPool ==
  /\ pool = "stopped"
  /\ listener \in {"binding", "listening"}
  /\ listener' = "stopped"
  /\ UNCHANGED <<registry, control, incoming, visitor_ch, pool, current,
                 requests, clientSide, arriving, sending, data_ch, visitors,
                 lost, faults>>

(***************************************************************************)
(* shutdown_rx.recv() while binding or in the select: the dropped          *)
(* _shutdown_tx closes the broadcast channel.                              *)
(***************************************************************************)
ListenerShutdown ==
  /\ handle = "removed"
  /\ listener \in {"binding", "listening"}
  /\ listener' = "stopped"
  /\ UNCHANGED <<registry, control, incoming, visitor_ch, pool, current,
                 requests, clientSide, arriving, sending, data_ch, visitors,
                 lost, faults>>

-----------------------------------------------------------------------------
(* The connection pool task. *)

(* Leaving 'pool drops visitor_rx, data_ch_rx and the visitor in hand. *)
PoolStops ==
  /\ pool' = "stopped"
  /\ Close(Queued(visitor_ch) \cup {current})
  /\ visitor_ch' = <<>>
  /\ current' = NoVisitor
  /\ data_ch' = <<>>

(* visitor_rx.recv() *)
TakeVisitor ==
  /\ pool = "visitor"
  /\ visitor_ch # <<>>
  /\ current' = Head(visitor_ch)
  /\ visitor_ch' = Tail(visitor_ch)
  /\ pool' = "channel"
  /\ UNCHANGED <<registry, control, listener, incoming, requests, clientSide,
                 arriving, sending, data_ch, visitors, lost, faults>>

(* visitor_rx.recv() = None: the listener is gone and the queue is empty. *)
NoMoreVisitors ==
  /\ pool = "visitor"
  /\ visitor_ch = <<>>
  /\ listener = "stopped"
  /\ PoolStops
  /\ UNCHANGED <<registry, control, listener, incoming, requests, clientSide,
                 arriving, sending, lost, faults>>

(***************************************************************************)
(* data_ch_rx.recv() and a successful write of StartForwardTcp. A write to *)
(* a broken channel may still succeed (the peer's reset is not there yet); *)
(* the copy then ends at once and closes the visitor.                      *)
(***************************************************************************)
Pair ==
  /\ pool = "channel"
  /\ data_ch # <<>>
  /\ visitors' = [visitors EXCEPT ![current] =
                    IF Head(data_ch) = "open" THEN "forwarding" ELSE "closed"]
  /\ data_ch' = Tail(data_ch)
  /\ current' = NoVisitor
  /\ pool' = "visitor"
  /\ UNCHANGED <<registry, control, listener, incoming, visitor_ch, requests,
                 clientSide, arriving, sending, lost, faults>>

(* Variant: the broken channel is dropped and no new one is requested. *)
ReplaceBroken_NoRequest ==
  /\ pool = "channel"
  /\ data_ch # <<>>
  /\ Head(data_ch) = "broken"
  /\ data_ch' = Tail(data_ch)
  /\ UNCHANGED <<registry, control, listener, incoming, visitor_ch, pool,
                 current, requests, clientSide, arriving, sending, visitors,
                 lost, faults>>

(* Variant: the visitor goes to the back of the queue to be tried again. *)
ReplaceBroken_Requeue ==
  /\ pool = "channel"
  /\ data_ch # <<>>
  /\ Head(data_ch) = "broken"
  /\ control = "running"
  /\ data_ch' = Tail(data_ch)
  /\ requests' = requests + 1
  /\ visitor_ch' = Append(visitor_ch, current)
  /\ current' = NoVisitor
  /\ pool' = "visitor"
  /\ UNCHANGED <<registry, control, listener, incoming, clientSide, arriving,
                 sending, visitors, lost, faults>>

(***************************************************************************)
(* The write failed: the channel is dropped and a new one requested; if    *)
(* the control task is gone the pool stops.                                *)
(***************************************************************************)
ReplaceBroken ==
  /\ pool = "channel"
  /\ data_ch # <<>>
  /\ Head(data_ch) = "broken"
  /\ \/ /\ control = "running"
        /\ data_ch' = Tail(data_ch)
        /\ requests' = requests + 1
        /\ UNCHANGED <<pool, visitor_ch, current, visitors>>
     \/ /\ control = "stopped"
        /\ PoolStops
        /\ UNCHANGED requests
  /\ UNCHANGED <<registry, control, listener, incoming, clientSide, arriving,
                 sending, lost, faults>>

(***************************************************************************)
(* data_ch_rx.recv() = None: the only sender is in the handle, so this     *)
(* happens once the handle was removed and the queue is drained.           *)
(***************************************************************************)
NoMoreChannels ==
  /\ pool = "channel"
  /\ data_ch = <<>>
  /\ handle = "removed"
  /\ PoolStops
  /\ UNCHANGED <<registry, control, listener, incoming, requests, clientSide,
                 arriving, sending, lost, faults>>

-----------------------------------------------------------------------------
(* The control channel task of the server. *)

(* Leaving run() drops data_ch_req_rx with the requests still queued. *)
ControlStops ==
  /\ control' = "stopped"
  /\ requests' = 0
  /\ lost' = lost + requests

(* Variant: the command is written without waiting for a request. *)
SendCreate_NoRecv ==
  /\ control = "running"
  /\ conn = "up"
  /\ requests' = requests - 1
  /\ cmds' = cmds + 1
  /\ UNCHANGED <<registry, serverTasks, conn, client, dialing, arriving,
                 sending, data_ch, visitors, lost, faults>>

(***************************************************************************)
(* data_ch_req_rx.recv() and write_and_flush of CreateDataChannel. On a    *)
(* dead connection the write may fail, which ends the task, or vanish in   *)
(* the socket buffer.                                                      *)
(***************************************************************************)
SendCreate ==
  /\ control = "running"
  /\ requests > 0
  /\ \/ /\ conn = "up"
        /\ requests' = requests - 1
        /\ cmds' = cmds + 1
        /\ UNCHANGED <<control, lost>>
     \/ /\ conn = "down"
        /\ requests' = requests - 1
        /\ lost' = lost + 1
        /\ UNCHANGED <<control, cmds>>
     \/ /\ conn = "down"
        /\ ControlStops
        /\ UNCHANGED cmds
  /\ UNCHANGED <<registry, listener, incoming, visitor_ch, pool, current,
                 conn, client, dialing, arriving, sending, data_ch, visitors,
                 faults>>

(***************************************************************************)
(* The other ways out of ControlChannel::run: a heartbeat that cannot be   *)
(* written, both request senders dropped, or the shutdown signal.          *)
(***************************************************************************)
ControlEnds ==
  /\ control = "running"
  /\ \/ conn = "down"
     \/ requests = 0 /\ listener = "stopped" /\ pool = "stopped"
     \/ handle = "removed"
  /\ ControlStops
  /\ UNCHANGED <<registry, listener, incoming, visitor_ch, pool, current,
                 clientSide, arriving, sending, data_ch, visitors, faults>>

-----------------------------------------------------------------------------
(* The client. *)

(* read_control_cmd: CreateDataChannel spawns run_data_channel. *)
ReceiveCreate ==
  /\ client = "running"
  /\ conn = "up"
  /\ cmds > 0
  /\ cmds' = cmds - 1
  /\ dialing' = dialing + 1
  /\ UNCHANGED <<registry, serverTasks, requests, conn, client, arriving,
                 sending, data_ch, visitors, lost, faults>>

(* read_control_cmd fails: the server closed or the connection is dead. *)
ClientEnds ==
  /\ client = "running"
  /\ \/ conn = "down"
     \/ control = "stopped" /\ cmds = 0
  /\ client' = "stopped"
  /\ UNCHANGED <<registry, serverTasks, requests, conn, cmds, dialing,
                 arriving, sending, data_ch, visitors, lost, faults>>

(* The control connection dies: network, client shutdown or heartbeat. *)
Disconnect ==
  /\ conn = "up"
  /\ faults < MaxFaults
  /\ faults' = faults + 1
  /\ conn' = "down"
  /\ cmds' = 0
  /\ lost' = lost + cmds
  /\ UNCHANGED <<registry, serverTasks, requests, client, dialing, arriving,
                 sending, data_ch, visitors>>

(* do_data_channel_handshake (client): connected and sent its hello. *)
DialOk ==
  /\ dialing > 0
  /\ dialing' = dialing - 1
  /\ arriving' = arriving + 1
  /\ UNCHANGED <<registry, serverTasks, requests, conn, cmds, client, sending,
                 data_ch, visitors, lost, faults>>

(***************************************************************************)
(* The dial gave up after 10 s or the hello could not be written: the task *)
(* logs a warning and ends. Nothing tells the server.                      *)
(***************************************************************************)
DialFail ==
  /\ dialing > 0
  /\ faults < MaxFaults
  /\ faults' = faults + 1
  /\ dialing' = dialing - 1
  /\ lost' = lost + 1
  /\ UNCHANGED <<registry, serverTasks, requests, conn, cmds, client, arriving,
                 sending, data_ch, visitors>>

(* A data channel that waits in the queue loses its connection. *)
BreakChannel ==
  /\ faults < MaxFaults
  /\ faults' = faults + 1
  /\ \E i \in DOMAIN data_ch :
        /\ data_ch[i] = "open"
        /\ data_ch' = [data_ch EXCEPT ![i] = "broken"]
  /\ UNCHANGED <<registry, serverTasks, requests, clientSide, arriving,
                 sending, visitors, lost>>

-----------------------------------------------------------------------------
(* The registry: handshakes under the read lock, removal under the write   *)
(* lock. tokio's RwLock is fair, so a queued writer holds back new readers.*)

(* control_channels.read().await and get2(&nonce). *)
LookupHandle ==
  /\ arriving > 0
  /\ writer = "none"
  /\ arriving' = arriving - 1
  /\ \/ /\ handle = "registered"
        /\ sending' = sending + 1
        /\ UNCHANGED lost
     \/ /\ handle = "removed"
        /\ lost' = lost + 1
        /\ UNCHANGED sending
  /\ UNCHANGED <<registry, serverTasks, requests, clientSide, data_ch,
                 visitors, faults>>

(* Variant: the receiver outlives the pool, so a send to it is never refused. *)
SendChannel_NeverRefused ==
  /\ sending > 0
  /\ pool # "stopped"
  /\ Len(data_ch) < DataChCapacity
  /\ sending' = sending - 1
  /\ data_ch' = Append(data_ch, "open")
  /\ UNCHANGED <<registry, serverTasks, requests, clientSide, arriving,
                 visitors, lost, faults>>

(* handle.data_ch_tx.send(conn).await, with the read guard still held. *)
SendChannel ==
  /\ sending > 0
  /\ sending' = sending - 1
  /\ \/ /\ pool # "stopped"
        /\ Len(data_ch) < DataChCapacity
        /\ data_ch' = Append(data_ch, "open")
        /\ UNCHANGED lost
     \/ /\ pool = "stopped"
        /\ lost' = lost + 1
        /\ UNCHANGED data_ch
  /\ UNCHANGED <<registry, serverTasks, requests, clientSide, arriving,
                 visitors, faults>>

(* A hot reload or a new control channel asks for the write lock. *)
WantRemoval ==
  /\ handle = "registered"
  /\ writer = "none"
  /\ writer' = "waiting"
  /\ UNCHANGED <<handle, serverTasks, requests, clientSide, arriving, sending,
                 data_ch, visitors, lost, faults>>

(* remove1(&digest): dropping the handle drops _shutdown_tx and data_ch_tx. *)
RemoveHandle ==
  /\ writer = "waiting"
  /\ sending = 0
  /\ handle' = "removed"
  /\ writer' = "none"
  /\ UNCHANGED <<serverTasks, requests, clientSide, arriving, sending, data_ch,
                 visitors, lost, faults>>

-----------------------------------------------------------------------------
ListenerStep == Bind \/ Deliver \/ ListenerShutdown
PoolStep == TakeVisitor \/ NoMoreVisitors \/ Pair \/ ReplaceBroken \/ NoMoreChannels
ControlStep == SendCreate \/ ControlEnds
ClientStep == ReceiveCreate \/ ClientEnds

Next ==
  \/ ListenerStep
  \/ \E v \in Visitor : Accept(v)
  \/ PoolStep
  \/ ControlStep
  \/ ClientStep
  \/ DialOk \/ DialFail
  \/ LookupHandle \/ SendChannel
  \/ WantRemoval \/ RemoveHandle
  \/ Disconnect \/ BreakChannel

Spec == Init /\ [][Next]_vars

(***************************************************************************)
(* Every task is polled again when it is woken, so each ready step of a    *)
(* task is eventually taken. Visitors, faults and removals are not fair:   *)
(* nothing makes them happen. A dial ends, one way or the other, because   *)
(* its backoff has a max_elapsed_time of 10 s.                             *)
(***************************************************************************)
Fairness ==
  /\ WF_vars(ListenerStep)
  /\ WF_vars(PoolStep)
  /\ WF_vars(ControlStep)
  /\ WF_vars(ClientStep)
  /\ WF_vars(DialOk \/ DialFail)
  /\ WF_vars(LookupHandle)
  /\ WF_vars(SendChannel)
  /\ WF_vars(RemoveHandle)

FairSpec == Spec /\ Fairness

-----------------------------------------------------------------------------
(* Type invariant: the range of every variable of the session. *)
TypeOK ==
  /\ handle \in {"registered", "removed"}
  /\ writer \in {"none", "waiting"}
  /\ control \in {"running", "stopped"}
  /\ listener \in {"binding", "listening", "sending", "stopped"}
  /\ incoming \in Visitor \cup {NoVisitor}
  /\ visitor_ch \in Seq(Visitor)
  /\ pool \in {"visitor", "channel", "stopped"}
  /\ current \in Visitor \cup {NoVisitor}
  /\ requests \in Nat
  /\ conn \in {"up", "down"}
  /\ cmds \in Nat
  /\ client \in {"running", "stopped"}
  /\ dialing \in Nat
  /\ arriving \in Nat
  /\ sending \in Nat
  /\ data_ch \in Seq({"open", "broken"})
  /\ visitors \in [Visitor -> {"outside", "accepted", "forwarding", "closed"}]
  /\ lost \in Nat
  /\ faults \in 0..MaxFaults

(***************************************************************************)
(* The books balance while the pool runs: the requests, commands, dials    *)
(* and channels under way, plus those lost for good, are the PoolSize      *)
(* spares and one for each visitor that still waits. It is what makes      *)
(* "for every visitor, request to create a data channel"                   *)
(* (connection.rs) enough to serve them.                                   *)
(***************************************************************************)
Ledger ==
  pool # "stopped" =>
    requests + cmds + dialing + arriving + sending + Len(data_ch) + lost
      = PoolSize + Pending

(***************************************************************************)
(* data_ch_tx.send never waits: do_data_channel_handshake awaits it with   *)
(* the read lock of control_channels in hand, so a full queue would stop   *)
(* every new control channel and every hot reload of the server until some *)
(* visitor came to this one service.                                       *)
(***************************************************************************)
NoBlockedSend ==
  sending > 0 /\ pool # "stopped" => Len(data_ch) < DataChCapacity

(***************************************************************************)
(* Visitors are served in the order they were accepted: no visitor starts  *)
(* forwarding while an earlier one still waits for its channel.            *)
(***************************************************************************)
ServedInOrder ==
  [][\A v \in Visitor :
        visitors[v] = "accepted" /\ visitors'[v] = "forwarding"
          => \A u \in 1..(v - 1) : visitors[u] \in {"forwarding", "closed"}]_vars

(***************************************************************************)
(* The pool hides up to PoolSize lost requests: a visitor is served, or    *)
(* its stream closed, unless more than PoolSize channels were lost or the  *)
(* control connection died.                                                *)
(***************************************************************************)
SpareChannelsCover ==
  \A v \in Visitor :
    visitors[v] = "accepted"
      ~> \/ visitors[v] # "accepted"
         \/ lost > PoolSize
         \/ conn = "down"

(***************************************************************************)
(* The session keeps the promise of VisitorQueue. The line is what the     *)
(* pool holds, the queue, and what the listener holds, in this order.      *)
(***************************************************************************)
Hand(v) == IF v = NoVisitor THEN <<>> ELSE <<v>>

Line == Hand(current) \o visitor_ch \o Hand(incoming)

Clean == faults = 0 /\ handle = "registered"

Promise == INSTANCE VisitorQueue
  WITH clean <- Clean, serving <- (pool # "stopped"), waiting <- Line

KeepsPromise == Promise!FairSpec

(***************************************************************************)
(* "Shutdown the control channel by dropping it" (control_channel.rs):     *)
(* once the handle is out of the map all three server tasks end, whatever  *)
(* they were waiting for, and the service port is free again.              *)
(***************************************************************************)
DropStopsTasks ==
  handle = "removed"
    ~> listener = "stopped" /\ pool = "stopped" /\ control = "stopped"

(***************************************************************************)
(* A task that wants the write lock of control_channels gets it, however   *)
(* many data channels are on their way in.                                 *)
(***************************************************************************)
RemovalNotBlocked == writer = "waiting" ~> writer = "none"

=============================================================================
