----------------------- MODULE ControlChannelsProofs ------------------------
(***************************************************************************)
(* The registry of the server for any number of services, connections and  *)
(* changes: what the operations of its multi map keep and return, its      *)
(* types, its raw pointers, and that the locks do what the handshakes, the *)
(* data channels and the reloads rely on.                                  *)
(***************************************************************************)
EXTENDS ControlChannels, SequenceTheorems, TLAPS

-----------------------------------------------------------------------------
(***************************************************************************)
(* MultiMap, for maps of any size, keys and values of any kind. remove2,   *)
(* which nothing in the server calls yet, is covered too.                  *)
(***************************************************************************)

(* Dropping boxes keeps the others as they are. *)
LEMMA FreeKeeps ==
  ASSUME NEW m, NEW A
  PROVE  /\ DOMAIN Free(m, A) = Items(m) \ A
         /\ \A a \in Items(m) \ A : Free(m, A)[a] = m.heap[a]
  BY DEF Free, Items

(* A look-up in a well-formed map finds one item or none, in either map. *)
LEMMA FindsOne ==
  ASSUME NEW m, WellFormed(m), NEW k, NEW a \in Find1(m, k)
  PROVE  /\ Find1(m, k) = {a} /\ a \in Items(m)
         /\ Find2(m, m.heap[a].k2) = {a}
  BY DEF WellFormed, Find1, Find2

(* The same for the second map. *)
LEMMA FindsOneToo ==
  ASSUME NEW m, WellFormed(m), NEW k, NEW a \in Find2(m, k)
  PROVE  /\ Find2(m, k) = {a} /\ a \in Items(m)
         /\ Find1(m, m.heap[a].k1) = {a}
  BY DEF WellFormed, Find1, Find2

(***************************************************************************)
(* remove1 and remove2 take the same items out of both maps that they      *)
(* free, so they come down to this.                                        *)
(***************************************************************************)
Without(m, A) == [map1 |-> m.map1 \ A, map2 |-> m.map2 \ A, heap |-> Free(m, A)]

(* remove1 takes the item it finds out of both maps. *)
LEMMA Remove1Symmetric ==
  ASSUME NEW m, WellFormed(m), NEW k
  PROVE  Remove1(m, k) = Without(m, Find1(m, k))
<1>1. UNION {Find2(m, m.heap[a].k2) : a \in Find1(m, k)} = Find1(m, k)
  BY FindsOne
<1> QED BY <1>1 DEF Remove1, Without

(* remove2 takes the item it finds out of both maps. *)
LEMMA Remove2Symmetric ==
  ASSUME NEW m, WellFormed(m), NEW k
  PROVE  Remove2(m, k) = Without(m, Find2(m, k))
<1>1. UNION {Find1(m, m.heap[a].k1) : a \in Find2(m, k)} = Find2(m, k)
  BY FindsOneToo
<1> QED BY <1>1 DEF Remove2, Without

(* Taking the same items out of both maps leaves a map that is well formed. *)
LEMMA WithoutKeeps ==
  ASSUME NEW m, WellFormed(m), NEW A
  PROVE  /\ WellFormed(Without(m, A))
         /\ Items(Without(m, A)) = Items(m) \ A
         /\ \A a \in Items(m) \ A : Without(m, A).heap[a] = m.heap[a]
<1>1. /\ Items(Without(m, A)) = Items(m) \ A
      /\ \A a \in Items(m) \ A : Without(m, A).heap[a] = m.heap[a]
  <2>1. Without(m, A).heap = Free(m, A)
    BY DEF Without
  <2>2. /\ DOMAIN Free(m, A) = Items(m) \ A
        /\ \A a \in Items(m) \ A : Free(m, A)[a] = m.heap[a]
    BY FreeKeeps
  <2>3. Items(Without(m, A)) = Items(m) \ A
    BY <2>1, <2>2 DEF Items
  <2>4. \A a \in Items(m) \ A : Without(m, A).heap[a] = m.heap[a]
    BY <2>1, <2>2
  <2> QED BY <2>3, <2>4
<1>2. Without(m, A).map1 = Items(m) \ A /\ Without(m, A).map2 = Items(m) \ A
  BY DEF Without, WellFormed
<1> QED BY <1>1, <1>2 DEF WellFormed

-----------------------------------------------------------------------------
(* The map starts well-formed (MultiMap::new). *)
LEMMA EmptyWellFormed == WellFormed(Empty)
  BY DEF WellFormed, Empty, Items

(***************************************************************************)
(* insert keeps the two maps and the heap in step, and finds nothing but   *)
(* the new item under its keys afterwards, unless it was refused.          *)
(***************************************************************************)
THEOREM InsertCorrect ==
  ASSUME NEW m, WellFormed(m), NEW a, a \notin Items(m), NEW k1, NEW k2, NEW v,
         NEW n, n = Insert(m, a, k1, k2, v)
  PROVE  /\ WellFormed(n)
         /\ Find1(m, k1) = {} /\ Find2(m, k2) = {}
              => /\ Items(n) = Items(m) \cup {a}
                 /\ Get1(n, k1) = {v} /\ Get2(n, k2) = {v}
                 /\ \A b \in Items(m) : n.heap[b] = m.heap[b]
<1>1. CASE Find1(m, k1) # {} \/ Find2(m, k2) # {}
  BY <1>1 DEF Insert
<1>2. CASE Find1(m, k1) = {} /\ Find2(m, k2) = {}
  <2>1. /\ n.map1 = Items(n) /\ n.map2 = Items(n)
        /\ Items(n) = Items(m) \cup {a}
        /\ n.heap[a] = [k1 |-> k1, k2 |-> k2, v |-> v]
        /\ \A b \in Items(m) : n.heap[b] = m.heap[b]
    BY <1>2 DEF Insert, WellFormed, Items
  <2>2. \A b \in Items(m) : m.heap[b].k1 # k1 /\ m.heap[b].k2 # k2
    BY <1>2 DEF Find1, Find2, WellFormed
  <2>3. WellFormed(n)
    BY <2>1, <2>2 DEF WellFormed
  <2>4. Find1(n, k1) = {a} /\ Find2(n, k2) = {a}
    BY <2>1, <2>2 DEF Find1, Find2
  <2> QED BY <2>1, <2>3, <2>4 DEF Get1, Get2
<1> QED BY <1>1, <1>2

(***************************************************************************)
(* remove1 frees exactly the item under the key and leaves no pointer to   *)
(* it in either map; the other items stay as they are.                     *)
(***************************************************************************)
THEOREM Remove1Correct ==
  ASSUME NEW m, WellFormed(m), NEW k, NEW n, n = Remove1(m, k)
  PROVE  /\ WellFormed(n)
         /\ Get1(n, k) = {}
         /\ Items(n) = {a \in Items(m) : m.heap[a].k1 # k}
         /\ \A a \in Items(n) : n.heap[a] = m.heap[a]
<1>1. n = Without(m, Find1(m, k))
  BY Remove1Symmetric
<1>2. Find1(m, k) = {a \in Items(m) : m.heap[a].k1 = k}
  BY DEF Find1, WellFormed
<1>3. /\ WellFormed(n) /\ Items(n) = Items(m) \ Find1(m, k)
      /\ \A a \in Items(m) \ Find1(m, k) : n.heap[a] = m.heap[a]
  BY <1>1, WithoutKeeps
<1>4. Find1(n, k) = {}
  BY <1>2, <1>3 DEF Find1, WellFormed
<1> QED BY <1>2, <1>3, <1>4 DEF Get1

(* remove2 does the same for the other key. *)
THEOREM Remove2Correct ==
  ASSUME NEW m, WellFormed(m), NEW k, NEW n, n = Remove2(m, k)
  PROVE  /\ WellFormed(n)
         /\ Get2(n, k) = {}
         /\ Items(n) = {a \in Items(m) : m.heap[a].k2 # k}
         /\ \A a \in Items(n) : n.heap[a] = m.heap[a]
<1>1. n = Without(m, Find2(m, k))
  BY Remove2Symmetric
<1>2. Find2(m, k) = {a \in Items(m) : m.heap[a].k2 = k}
  BY DEF Find2, WellFormed
<1>3. /\ WellFormed(n) /\ Items(n) = Items(m) \ Find2(m, k)
      /\ \A a \in Items(m) \ Find2(m, k) : n.heap[a] = m.heap[a]
  BY <1>1, WithoutKeeps
<1>4. Find2(n, k) = {}
  BY <1>2, <1>3 DEF Find2, WellFormed
<1> QED BY <1>2, <1>3, <1>4 DEF Get2

(* drop frees every item, although it looks through one map only. *)
THEOREM DropCorrect ==
  ASSUME NEW m, WellFormed(m)
  PROVE  WellFormed(Drop(m)) /\ Items(Drop(m)) = {}
<1>1. DOMAIN Free(m, m.map2) = Items(m) \ m.map2
  BY FreeKeeps
<1>2. Items(Drop(m)) = Items(m) \ m.map2
  BY <1>1 DEF Drop, Items
<1>3. Items(Drop(m)) = {}
  BY <1>2 DEF WellFormed
<1> QED BY <1>3 DEF Drop, WellFormed

-----------------------------------------------------------------------------
(* The invariant. *)

(***************************************************************************)
(* An item is at the address of its connection, which has that connection  *)
(* as its key and value and the service it asked for as its other key; the *)
(* handshake that made it is over.                                         *)
(***************************************************************************)
ItemsOfConns ==
  \A a \in Items(channels) :
    /\ a \in Conn
    /\ channels.heap[a] = [k1 |-> service[a], k2 |-> a, v |-> a]
    /\ state[a] = "done"

(* The write lock has one holder. *)
OneWriter == \A c, d \in Conn : Writing(c) /\ Writing(d) => c = d

IInv ==
  /\ TypeOK /\ MapWellFormed /\ ItemsOfConns /\ OneWriter
  /\ InsertNeverRefused /\ HandleOutlivesSend

USE BoundsAssumption DEF Conn, NoConn, Main, Absent, Versions

(* Asking for a lock and being granted it keep the type of the line. *)
LEMMA LineType ==
  ASSUME queue \in Seq(Conn \cup {Main}), NEW t \in Conn \cup {Main}
  PROVE  /\ Append(queue, t) \in Seq(Conn \cup {Main})
         /\ queue # <<>> => Tail(queue) \in Seq(Conn \cup {Main})
  BY AppendProperties, HeadTailProperties

(***************************************************************************)
(* With such items a session key leads to a handle exactly if there is an  *)
(* item at its address, and a service exactly if some item is for it.      *)
(***************************************************************************)
LEMMA KeysOfItems ==
  ASSUME NEW m, WellFormed(m), NEW svc,
         \A a \in Items(m) : m.heap[a] = [k1 |-> svc[a], k2 |-> a, v |-> a]
  PROVE  /\ \A c : Get2(m, c) # {} <=> c \in Items(m)
         /\ \A s : Get1(m, s) = {} <=> \A a \in Items(m) : svc[a] # s
<1>1. m.map1 = Items(m) /\ m.map2 = Items(m)
  BY DEF WellFormed
<1>2. ASSUME NEW a \in Items(m) PROVE m.heap[a].k1 = svc[a] /\ m.heap[a].k2 = a
  <2>1. m.heap[a] = [k1 |-> svc[a], k2 |-> a, v |-> a]
    OBVIOUS
  <2> QED BY <2>1
<1>3. \A c, a : a \in Find2(m, c) <=> a \in Items(m) /\ a = c
  BY <1>1, <1>2 DEF Find2
<1>4. \A s, a : a \in Find1(m, s) <=> a \in Items(m) /\ svc[a] = s
  BY <1>1, <1>2 DEF Find1
<1>5. \A c : Get2(m, c) # {} <=> c \in Items(m)
  <2>1. \A c : Get2(m, c) # {} <=> \E a : a \in Find2(m, c)
    BY DEF Get2
  <2> QED BY <1>3, <2>1
<1>6. \A s : Get1(m, s) = {} <=> \A a \in Items(m) : svc[a] # s
  <2>1. \A s : Get1(m, s) = {} <=> \A a : a \notin Find1(m, s)
    BY DEF Get1
  <2> QED BY <1>4, <2>1
<1> QED BY <1>5, <1>6

-----------------------------------------------------------------------------
(* The types. *)

(* Nothing is held and nothing registered at the start. *)
LEMMA InitInv == Init => IInv
<1> SUFFICES ASSUME Init PROVE IInv
  OBVIOUS
<1>1. Items(channels) = {} /\ WellFormed(channels)
  BY EmptyWellFormed DEF Init, Empty, Items
<1>2. MapType(channels)
  BY DEF Init, Empty, Items, MapType
<1>3. queue \in Seq(Conn \cup {Main})
  BY EmptySeq DEF Init
<1>4. service \in [Conn -> Service]
  BY DEF Init
<1>5. 1 \in 0..(MaxChanges + 1) /\ 0 \in 0..(MaxChanges + 1) /\ 0 \in 0..MaxChanges
  OBVIOUS
<1>6. TypeOK
  BY <1>2, <1>3, <1>4, <1>5 DEF Init, TypeOK, MapType
<1>7. OneWriter /\ InsertNeverRefused /\ HandleOutlivesSend
  BY DEF Init, OneWriter, Writing, InsertNeverRefused, HandleOutlivesSend
<1> QED BY <1>1, <1>6, <1>7 DEF IInv, MapWellFormed, ItemsOfConns

(* A map that an operation on items leaves behind has the type of a map. *)
LEMMA RemoveType ==
  ASSUME MapType(channels), WellFormed(channels), NEW s, NEW n, n = Remove1(channels, s)
  PROVE  MapType(n)
<1>1. /\ n.map1 \subseteq Conn /\ n.map2 \subseteq Conn
      /\ n.heap = [a \in Items(channels) \ Find1(channels, s) |-> channels.heap[a]]
  BY DEF Remove1, MapType, Free
<1> QED BY <1>1 DEF MapType, Items

(* Inserting a handle keeps the type of the map. *)
LEMMA InsertType ==
  ASSUME MapType(channels), NEW c \in Conn, NEW s \in Service, NEW n,
         n = Insert(channels, c, s, c, c)
  PROVE  MapType(n)
<1>1. CASE n = channels
  BY <1>1
<1>2. CASE n # channels
  <2>1. /\ n.map1 = channels.map1 \cup {c} /\ n.map2 = channels.map2 \cup {c}
        /\ n.heap = [b \in Items(channels) \cup {c} |->
                       IF b = c THEN [k1 |-> s, k2 |-> c, v |-> c] ELSE channels.heap[b]]
    BY <1>2 DEF Insert
  <2>2. Items(n) = Items(channels) \cup {c}
    BY <2>1 DEF Items
  <2> QED BY <2>1, <2>2 DEF MapType
<1> QED BY <1>1, <1>2

(* Dropping the map frees every handle. *)
LEMMA DropType ==
  ASSUME MapType(channels)
  PROVE  MapType(Drop(channels))
<1>1. /\ Drop(channels).map1 = {} /\ Drop(channels).map2 = {}
      /\ Drop(channels).heap
           = [a \in Items(channels) \ channels.map2 |-> channels.heap[a]]
  BY DEF Drop, Free
<1> QED BY <1>1 DEF MapType, Items

-----------------------------------------------------------------------------
(* The steps. *)

(***************************************************************************)
(* A step that leaves the map alone, lets nobody into the states that hold *)
(* its lock and nobody out of the last state, and changes the hello of     *)
(* none of those, keeps the invariant.                                     *)
(***************************************************************************)
LEMMA QuietStep ==
  ASSUME IInv, TypeOK', UNCHANGED channels,
         \A c \in Conn :
           /\ state'[c] \in {"ack", "sending"} => state'[c] = state[c]
           /\ state[c] = "done" => state'[c] = "done"
           /\ state[c] \in {"ack", "sending", "done"}
                => service'[c] = service[c] /\ target'[c] = target[c]
  PROVE  IInv'
<1> USE DEF IInv
<1>1. MapWellFormed'
  BY DEF MapWellFormed
<1>2. ItemsOfConns'
  BY DEF ItemsOfConns
<1>3. OneWriter'
  BY DEF OneWriter, Writing
<1>4. InsertNeverRefused'
  BY DEF InsertNeverRefused, Registered
<1>5. HandleOutlivesSend'
  BY DEF HandleOutlivesSend, Registered
<1> QED BY <1>1, <1>2, <1>3, <1>4, <1>5

(* The steps of the accept loop that leave control_channels alone. *)
LEMMA MainQuiet ==
  ASSUME IInv,
         \/ \E c \in Conn : Accept(c) \/ TransportHandshake(c)
         \/ \E e \in Changes : TakeUpdate(e)
         \/ ReloadServices \/ AskChannels \/ Shutdown
  PROVE  IInv'
<1>0. TypeOK
  BY DEF IInv
<1>1. ASSUME NEW c \in Conn, Accept(c) \/ TransportHandshake(c) PROVE IInv'
  <2>1. TypeOK'
    <3>1. state' \in [Conn -> {"new", "transport", "hello", "lookup", "refusing",
                               "auth", "lock", "ack", "data", "sending", "done"}]
      BY <1>0, <1>1 DEF Accept, TransportHandshake, Goto, TypeOK
    <3>2. /\ main' \in {"handshake", "select"}
          /\ UNCHANGED <<change, changes, services, channels, queue, service, target,
                         config, session>>
      BY <1>1 DEF Accept, TransportHandshake, hello
    <3>3. queue' \in Seq(Conn \cup {Main})
      BY <1>0, <3>2 DEF TypeOK
    <3>4. MapType(channels)'
      BY <1>0, <3>2 DEF TypeOK, MapType, Items
    <3>5. main' \in {"select", "handshake", "services", "asking", "channels", "stopped"}
      BY <3>2
    <3>6. /\ change' \in Changes \cup {NoChange} /\ changes' \in 0..MaxChanges
          /\ services' \in [Service -> Versions]
          /\ service' \in [Conn -> Service] /\ config' \in [Conn -> Versions]
          /\ target' \in [Conn -> Conn \cup {NoConn}]
          /\ session' \in [Conn -> {"none", "binding", "listening", "busy", "failed", "stopped"}]
      BY <1>0, <3>2 DEF TypeOK
    <3> QED BY <3>1, <3>3, <3>4, <3>5, <3>6 DEF TypeOK
  <2>2. UNCHANGED <<channels, hello>>
    BY <1>1 DEF Accept, TransportHandshake
  <2>3. \A d \in Conn :
          /\ state'[d] \in {"ack", "sending"} => state'[d] = state[d]
          /\ state[d] = "done" => state'[d] = "done"
    BY <1>0, <1>1 DEF Accept, TransportHandshake, Goto, TypeOK
  <2> QED BY <2>1, <2>2, <2>3, QuietStep DEF hello
<1>2. ASSUME NEW e \in Changes, TakeUpdate(e) PROVE IInv'
  <2>1. TypeOK'
    BY <1>0, <1>2 DEF TakeUpdate, hello, TypeOK
  <2> QED BY <1>2, <2>1, QuietStep DEF TakeUpdate, hello
<1>3. CASE ReloadServices
  <2>1. services' \in [Service -> 0..(MaxChanges + 1)]
    <3>1. changes + 1 \in 0..(MaxChanges + 1) /\ 0 \in 0..(MaxChanges + 1)
      BY <1>0 DEF TypeOK
    <3>2. PICK w \in 0..(MaxChanges + 1) :
            services' = [services EXCEPT ![change.service] = w]
      BY <1>3, <3>1 DEF ReloadServices
    <3> QED BY <1>0, <3>2 DEF TypeOK
  <2>2. TypeOK'
    BY <1>0, <1>3, <2>1 DEF ReloadServices, hello, TypeOK
  <2> QED BY <1>3, <2>2, QuietStep DEF ReloadServices, hello
<1>4. CASE AskChannels
  <2>1. queue' \in Seq(Conn \cup {Main})
    BY <1>0, <1>4, LineType DEF AskChannels, TypeOK
  <2>2. TypeOK'
    BY <1>0, <1>4, <2>1 DEF AskChannels, hello, TypeOK
  <2> QED BY <1>4, <2>2, QuietStep DEF AskChannels, hello
<1>5. CASE Shutdown
  <2>1. TypeOK'
    BY <1>0, <1>5 DEF Shutdown, hello, TypeOK
  <2> QED BY <1>5, <2>1, QuietStep DEF Shutdown, hello
<1> QED BY <1>1, <1>2, <1>3, <1>4, <1>5

(* The steps of a connection or a session that leave control_channels alone. *)
LEMMA ConnQuiet ==
  ASSUME IInv, NEW c \in Conn,
         \/ ReadHello(c) \/ Lookup(c) \/ Refuse(c) \/ ReadAuth(c)
         \/ SendChannel(c) \/ SessionStep(c)
  PROVE  IInv'
<1>0. TypeOK
  BY DEF IInv
<1>1. UNCHANGED channels
  BY DEF ReadHello, Lookup, Refuse, ReadAuth, SendChannel, SessionStep, Bind, EnterArm,
         LeaveArm, FailSession, StopSession
<1>2. queue' \in Seq(Conn \cup {Main})
  BY <1>0, LineType
  DEF ReadHello, Lookup, Refuse, ReadAuth, SendChannel, SessionStep, Bind, EnterArm,
      LeaveArm, FailSession, StopSession, TypeOK
<1>3. /\ service' \in [Conn -> Service] /\ target' \in [Conn -> Conn \cup {NoConn}]
      /\ \A d \in Conn : state[d] \in {"ack", "sending", "done"}
                           => service'[d] = service[d] /\ target'[d] = target[d]
  <2>1. CASE ReadHello(c)
    <3>1. state[c] = "hello"
      BY <2>1 DEF ReadHello
    <3>2. \/ \E s \in Service : service' = [service EXCEPT ![c] = s] /\ target' = target
          \/ \E k \in Conn : target' = [target EXCEPT ![c] = k] /\ service' = service
          \/ UNCHANGED hello
      BY <2>1 DEF ReadHello, hello
    <3> QED BY <1>0, <3>1, <3>2 DEF hello, TypeOK
  <2>2. CASE UNCHANGED hello
    BY <1>0, <2>2 DEF hello, TypeOK
  <2> QED BY <2>1, <2>2 DEF Lookup, Refuse, ReadAuth, SendChannel, SessionStep,
                            Bind, EnterArm, LeaveArm, FailSession, StopSession
<1>4. \/ /\ state[c] \in {"hello", "lookup", "refusing", "auth", "sending"}
         /\ \E l \in {"lookup", "done", "data", "auth", "refusing", "lock"} : Goto(c, l)
      \/ UNCHANGED state
  BY DEF ReadHello, Lookup, Refuse, ReadAuth, SendChannel, SessionStep, Bind, EnterArm,
         LeaveArm, FailSession, StopSession
<1>5. /\ state' \in [Conn -> {"new", "transport", "hello", "lookup", "refusing",
                              "auth", "lock", "ack", "data", "sending", "done"}]
      /\ \A d \in Conn :
           /\ state'[d] \in {"ack", "sending"} => state'[d] = state[d]
           /\ state[d] = "done" => state'[d] = "done"
  BY <1>0, <1>4 DEF Goto, TypeOK
<1>6. config' \in [Conn -> Versions]
  <2>1. \/ \E s \in Service : config' = [config EXCEPT ![c] = services[s]]
        \/ UNCHANGED config
    BY <1>0 DEF ReadHello, Lookup, Refuse, ReadAuth, SendChannel, SessionStep, Bind, EnterArm,
                LeaveArm, FailSession, StopSession, TypeOK
  <2> QED BY <1>0, <2>1 DEF TypeOK
<1>7. session' \in [Conn -> {"none", "binding", "listening", "busy", "failed", "stopped"}]
  <2>1. \/ \E t \in {"listening", "busy", "failed", "stopped"} : session' = [session EXCEPT ![c] = t]
        \/ UNCHANGED session
    BY DEF ReadHello, Lookup, Refuse, ReadAuth, SendChannel, SessionStep, Bind, EnterArm,
           LeaveArm, FailSession, StopSession
  <2> QED BY <1>0, <2>1 DEF TypeOK
<1>8. UNCHANGED <<main, change, changes, services>>
  BY DEF ReadHello, Lookup, Refuse, ReadAuth, SendChannel, SessionStep, Bind, EnterArm,
         LeaveArm, FailSession, StopSession
<1>9. MapType(channels)'
  BY <1>0, <1>1 DEF TypeOK, MapType, Items
<1>10. TypeOK'
  BY <1>0, <1>2, <1>3, <1>5, <1>6, <1>7, <1>8, <1>9 DEF TypeOK
<1> QED BY <1>1, <1>3, <1>5, <1>10, QuietStep

-----------------------------------------------------------------------------
(***************************************************************************)
(* remove1 under the write lock: no data channel is being sent, so no      *)
(* handle goes that one of them relies on.                                 *)
(***************************************************************************)
LEMMA RemoveUnderLock ==
  ASSUME IInv, NEW s, channels' = Remove1(channels, s)
  PROVE  /\ MapType(channels)' /\ MapWellFormed'
         /\ Items(channels)' = {a \in Items(channels) : service[a] # s}
         /\ \A a \in Items(channels)' : channels'.heap[a] = channels.heap[a]
<1>1. /\ MapType(channels) /\ WellFormed(channels)
      /\ \A a \in Items(channels) : channels.heap[a].k1 = service[a]
  <2>1. MapType(channels) /\ WellFormed(channels)
    BY DEF IInv, TypeOK, MapType, MapWellFormed
  <2>2. ASSUME NEW a \in Items(channels) PROVE channels.heap[a].k1 = service[a]
    <3>1. channels.heap[a] = [k1 |-> service[a], k2 |-> a, v |-> a]
      BY DEF IInv, ItemsOfConns
    <3> QED BY <3>1
  <2> QED BY <2>1, <2>2
<1>2. /\ WellFormed(channels')
      /\ Items(channels') = {a \in Items(channels) : channels.heap[a].k1 # s}
      /\ \A a \in Items(channels') : channels'.heap[a] = channels.heap[a]
  BY <1>1, Remove1Correct
<1>3. MapType(channels')
  BY <1>1, RemoveType
<1> QED BY <1>1, <1>2, <1>3 DEF MapWellFormed, MapType, Items, WellFormed

(* handle_hot_reload removes the control channel of the service. *)
LEMMA ReloadInv ==
  ASSUME IInv, ReloadChannels
  PROVE  IInv'
<1>1. /\ queue # <<>> /\ \A d \in Conn : ~Writing(d) /\ ~Reading(d)
      /\ UNCHANGED <<state, hello>>
  BY DEF ReloadChannels, WriteGranted, ReadGranted
<1>2. /\ MapType(channels)' /\ MapWellFormed'
      /\ Items(channels)' \subseteq Items(channels)
      /\ \A a \in Items(channels)' : channels'.heap[a] = channels.heap[a]
  BY RemoveUnderLock DEF ReloadChannels
<1>3. TypeOK'
  <2>1. queue' \in Seq(Conn \cup {Main})
    BY <1>1, LineType DEF ReloadChannels, IInv, TypeOK
  <2> QED BY <1>2, <2>1 DEF ReloadChannels, hello, IInv, TypeOK, MapType
<1>4. ItemsOfConns'
  BY <1>1, <1>2 DEF ItemsOfConns, hello, IInv
<1>5. OneWriter' /\ InsertNeverRefused' /\ HandleOutlivesSend'
  BY <1>1 DEF OneWriter, InsertNeverRefused, HandleOutlivesSend, Writing, Reading
<1> QED BY <1>2, <1>3, <1>4, <1>5 DEF IInv

(* The map is dropped with its last Arc, when no handshake is left. *)
LEMMA DropInv ==
  ASSUME IInv, DropMap
  PROVE  IInv'
<1>1. \A d \in Conn : state[d] \notin {"ack", "sending"}
  BY DEF DropMap, Handling
<1>2. MapType(channels) /\ WellFormed(channels)
  BY DEF IInv, TypeOK, MapType, MapWellFormed
<1>3. /\ MapType(channels')
      /\ WellFormed(channels') /\ Items(channels') = {}
  BY <1>2, DropType, DropCorrect DEF DropMap
<1>4. TypeOK'
  BY <1>3 DEF DropMap, hello, IInv, TypeOK, MapType, Items
<1>5. MapWellFormed' /\ ItemsOfConns'
  BY <1>3 DEF MapWellFormed, ItemsOfConns, WellFormed, Items
<1>6. OneWriter' /\ InsertNeverRefused' /\ HandleOutlivesSend'
  BY <1>1 DEF DropMap, OneWriter, InsertNeverRefused, HandleOutlivesSend, Writing
<1> QED BY <1>4, <1>5, <1>6 DEF IInv

(***************************************************************************)
(* A handshake takes the write lock and removes the previous channel: both *)
(* its keys are free then, the service's because of the removal and its    *)
(* own because a connection is in the map only when its handshake is over. *)
(***************************************************************************)
LEMMA ReplaceInv ==
  ASSUME IInv, NEW c \in Conn, ReplaceChannel(c)
  PROVE  IInv'
<1>0. TypeOK /\ ItemsOfConns
  BY DEF IInv
<1>1. /\ queue # <<>> /\ \A d \in Conn : ~Writing(d) /\ ~Reading(d)
      /\ state[c] = "lock" /\ state' = [state EXCEPT ![c] = "ack"]
      /\ UNCHANGED hello
  BY DEF ReplaceChannel, WriteGranted, ReadGranted, Goto
<1>2. /\ MapType(channels)' /\ MapWellFormed'
      /\ Items(channels)' = {a \in Items(channels) : service[a] # service[c]}
      /\ \A a \in Items(channels)' : channels'.heap[a] = channels.heap[a]
  BY RemoveUnderLock DEF ReplaceChannel
<1>3. TypeOK'
  <2>1. queue' \in Seq(Conn \cup {Main})
    BY <1>0, <1>1, LineType DEF ReplaceChannel, TypeOK
  <2>2. state' \in [Conn -> {"new", "transport", "hello", "lookup", "refusing",
                             "auth", "lock", "ack", "data", "sending", "done"}]
    BY <1>0, <1>1 DEF TypeOK
  <2> QED BY <1>0, <1>2, <2>1, <2>2 DEF ReplaceChannel, hello, TypeOK, MapType
<1>4. \A d \in Conn : state'[d] = IF d = c THEN "ack" ELSE state[d]
  BY <1>0, <1>1 DEF TypeOK
<1>5. ItemsOfConns'
  BY <1>0, <1>1, <1>2, <1>4 DEF ItemsOfConns, hello
<1>6. \A d \in Conn : d # c => state'[d] \notin {"ack", "sending"}
  BY <1>1, <1>4 DEF Writing, Reading
<1>7. OneWriter' /\ HandleOutlivesSend'
  BY <1>4, <1>6 DEF OneWriter, HandleOutlivesSend, Writing
<1>8. InsertNeverRefused'
  <2>1. c \notin Items(channels)'
    BY <1>0, <1>1, <1>2 DEF ItemsOfConns
  <2>2. /\ WellFormed(channels') /\ Items(channels') = Items(channels)'
        /\ \A a \in Items(channels') :
             channels'.heap[a] = [k1 |-> service'[a], k2 |-> a, v |-> a]
    BY <1>2, <1>5 DEF MapWellFormed, ItemsOfConns, WellFormed, Items
  <2>3. ~Registered(c)'
    BY <2>1, <2>2, KeysOfItems DEF Registered, Get2, Find2
  <2>4. Get1(channels, service[c])' = {}
    <3>1. \A a \in Items(channels') : service'[a] # service'[c]
      BY <1>1, <1>2, <2>2 DEF hello
    <3>2. Get1(channels', service'[c]) = {}
      BY <2>2, <3>1, KeysOfItems
    <3> QED BY <3>2 DEF Get1, Find1
  <2> QED BY <1>4, <1>6, <2>3, <2>4 DEF InsertNeverRefused
<1> QED BY <1>2, <1>3, <1>5, <1>7, <1>8 DEF IInv

(* The Ack is written and the handle inserted, or the write failed. *)
LEMMA AckInv ==
  ASSUME IInv, NEW c \in Conn, SendAck(c)
  PROVE  IInv'
<1>0. /\ TypeOK /\ ItemsOfConns /\ WellFormed(channels) /\ OneWriter
      /\ InsertNeverRefused /\ HandleOutlivesSend
  BY DEF IInv, MapWellFormed
<1>1. /\ state[c] = "ack" /\ UNCHANGED hello
      /\ \A d \in Conn : state'[d] = IF d = c THEN "done" ELSE state[d]
      /\ state' \in [Conn -> {"new", "transport", "hello", "lookup", "refusing",
                              "auth", "lock", "ack", "data", "sending", "done"}]
  BY <1>0 DEF SendAck, Goto, TypeOK
<1>2. \A d \in Conn : state'[d] # "ack"
  BY <1>0, <1>1 DEF OneWriter, Writing
<1>3. OneWriter' /\ InsertNeverRefused'
  BY <1>2 DEF OneWriter, InsertNeverRefused, Writing
<1>4. CASE channels' = channels /\ session' = session
  <2>1. TypeOK'
    BY <1>0, <1>1, <1>4 DEF SendAck, hello, TypeOK
  <2>2. ItemsOfConns' /\ MapWellFormed'
    BY <1>0, <1>1, <1>4 DEF ItemsOfConns, MapWellFormed, hello
  <2>3. HandleOutlivesSend'
    BY <1>0, <1>1, <1>4 DEF HandleOutlivesSend, Registered, hello
  <2> QED BY <1>3, <2>1, <2>2, <2>3 DEF IInv
<1>5. CASE /\ channels' = Insert(channels, c, service[c], c, c)
           /\ session' = [session EXCEPT ![c] = "binding"]
  <2>1. c \notin Items(channels) /\ service[c] \in Service
    BY <1>0, <1>1 DEF ItemsOfConns, TypeOK
  <2>2. Find1(channels, service[c]) = {} /\ Find2(channels, c) = {}
    <3>1. Get1(channels, service[c]) = {} /\ Get2(channels, c) = {}
      BY <1>0, <1>1 DEF InsertNeverRefused, Registered
    <3> QED BY <3>1 DEF Get1, Get2
  <2>3. /\ WellFormed(channels') /\ Items(channels') = Items(channels) \cup {c}
        /\ \A a \in Items(channels) : channels'.heap[a] = channels.heap[a]
    BY <1>0, <1>5, <2>1, <2>2, InsertCorrect
  <2>4. channels'.heap[c] = [k1 |-> service[c], k2 |-> c, v |-> c]
    BY <1>5, <2>2 DEF Insert
  <2>5. MapType(channels')
    BY <1>0, <1>5, <2>1, InsertType DEF TypeOK, MapType
  <2>6. TypeOK'
    <3>1. session' \in [Conn -> {"none", "binding", "listening", "busy", "failed", "stopped"}]
      BY <1>0, <1>5 DEF TypeOK
    <3> QED BY <1>0, <1>1, <2>5, <3>1 DEF SendAck, hello, TypeOK, MapType, Items
  <2>7. ItemsOfConns' /\ MapWellFormed'
    BY <1>0, <1>1, <2>3, <2>4 DEF ItemsOfConns, MapWellFormed, hello, Items, WellFormed
  <2>8. HandleOutlivesSend'
    <3> SUFFICES ASSUME NEW d \in Conn, state'[d] = "sending" PROVE Registered(target[d])'
      BY DEF HandleOutlivesSend
    <3>1. Registered(target[d]) /\ target' = target
      BY <1>0, <1>1 DEF HandleOutlivesSend, hello
    <3>2. target[d] \in Items(channels)
      BY <1>0, <3>1, KeysOfItems DEF ItemsOfConns, Registered
    <3>3. target[d] \in Items(channels')
      BY <2>3, <3>2
    <3>4. \A a \in Items(channels') :
            channels'.heap[a] = [k1 |-> service[a], k2 |-> a, v |-> a]
      BY <1>0, <2>3, <2>4 DEF ItemsOfConns
    <3>5. Get2(channels', target[d]) # {}
      BY <2>3, <3>3, <3>4, KeysOfItems
    <3> QED BY <3>1, <3>5 DEF Registered, Get2, Find2
  <2> QED BY <1>3, <2>6, <2>7, <2>8 DEF IInv
<1> QED BY <1>4, <1>5 DEF SendAck

(* A data channel finds its session under the read lock, or is closed. *)
LEMMA LookupSessionInv ==
  ASSUME IInv, NEW c \in Conn, LookupSession(c)
  PROVE  IInv'
<1>0. /\ TypeOK /\ ItemsOfConns /\ MapWellFormed /\ OneWriter
      /\ InsertNeverRefused /\ HandleOutlivesSend
  BY DEF IInv
<1>1. /\ state[c] = "data" /\ queue # <<>> /\ UNCHANGED <<hello, channels>>
      /\ \A d \in Conn : ~Writing(d)
      /\ \E l \in {"sending", "done"} : state' = [state EXCEPT ![c] = l]
      /\ state'[c] = "sending" => Registered(target[c])
  BY <1>0 DEF LookupSession, ReadGranted, Goto, TypeOK
<1>2. /\ \A d \in Conn : d # c => state'[d] = state[d]
      /\ state'[c] \in {"sending", "done"}
      /\ state' \in [Conn -> {"new", "transport", "hello", "lookup", "refusing",
                              "auth", "lock", "ack", "data", "sending", "done"}]
  BY <1>0, <1>1 DEF TypeOK
<1>3. TypeOK'
  <2>1. queue' \in Seq(Conn \cup {Main})
    BY <1>0, <1>1, LineType DEF LookupSession, TypeOK
  <2> QED BY <1>0, <1>1, <1>2, <2>1 DEF LookupSession, hello, TypeOK
<1>4. MapWellFormed' /\ ItemsOfConns'
  BY <1>0, <1>1, <1>2 DEF MapWellFormed, ItemsOfConns, hello
<1>5. OneWriter' /\ InsertNeverRefused'
  BY <1>1, <1>2 DEF OneWriter, InsertNeverRefused, Writing
<1>6. HandleOutlivesSend'
  BY <1>0, <1>1, <1>2 DEF HandleOutlivesSend, Registered, hello
<1> QED BY <1>3, <1>4, <1>5, <1>6 DEF IInv

-----------------------------------------------------------------------------
(***************************************************************************)
(* The inductive invariant of the registry.                                *)
(***************************************************************************)
THEOREM RegistryInvariance == Spec => []IInv
<1>1. ASSUME IInv, [Next]_vars PROVE IInv'
  <2>1. CASE UNCHANGED vars
    BY <1>1, <2>1
    DEF vars, hello, IInv, TypeOK, MapWellFormed, ItemsOfConns, OneWriter, Writing,
        InsertNeverRefused, HandleOutlivesSend, Registered
  <2>2. CASE Next
    BY <1>1, <2>2, MainQuiet, ConnQuiet, ReloadInv, DropInv, ReplaceInv, AckInv,
       LookupSessionInv
    DEF Next, ServerStep
  <2> QED BY <1>1, <2>1, <2>2
<1> QED BY <1>1, InitInv, PTL DEF Spec

(* Every variable of the server keeps its range. *)
THEOREM RegistryTypes == Spec => []TypeOK
<1>1. IInv => TypeOK
  BY DEF IInv
<1> QED BY <1>1, RegistryInvariance, PTL

(***************************************************************************)
(* The unsafe code of MultiMap is used soundly by the server: no pointer   *)
(* of control_channels dangles and no handle leaks (multi_map.rs).         *)
(***************************************************************************)
THEOREM PointersSound == Spec => []MapWellFormed
<1>1. IInv => MapWellFormed
  BY DEF IInv
<1> QED BY <1>1, RegistryInvariance, PTL

(***************************************************************************)
(* The insert at the end of a handshake, whose result is ignored, is never *)
(* refused.                                                                *)
(***************************************************************************)
THEOREM InsertsSucceed == Spec => []InsertNeverRefused
<1>1. IInv => InsertNeverRefused
  BY DEF IInv
<1> QED BY <1>1, RegistryInvariance, PTL

(* No handle is dropped while a data channel is being sent to it. *)
THEOREM HandlesOutliveSends == Spec => []HandleOutlivesSend
<1>1. IInv => HandleOutlivesSend
  BY DEF IInv
<1> QED BY <1>1, RegistryInvariance, PTL

-----------------------------------------------------------------------------
(* Versions. *)

(* An Add has put its version into services and goes on to the other map. *)
Adding == main \in {"asking", "channels"} /\ change.kind = "add"

(***************************************************************************)
(* What the versions tell: until a reload is done, the one it installed is *)
(* newer than all that handshakes have cloned, for an Add keeps the lock   *)
(* of services; a deleted service has none until the next Add; and who     *)
(* cloned a version, or became a session with it, has one.                 *)
(***************************************************************************)
Versioned ==
  /\ main \in {"services", "asking", "channels"} => change \in Changes
  /\ main \in {"asking", "channels"} =>
       services[change.service] = IF change.kind = "add" THEN changes + 1 ELSE Absent
  /\ \A s \in Service : services[s] <= IF main = "services" THEN changes ELSE changes + 1
  /\ \A c \in Conn :
       /\ config[c] <= IF main = "services" \/ Adding THEN changes ELSE changes + 1
       /\ state[c] \in {"auth", "lock", "ack"} \/ c \in Items(channels)
            => config[c] # Absent

(* Versions are numbers. *)
LEMMA NumbersType ==
  TypeOK => /\ changes \in Nat
            /\ \A s \in Service : services[s] \in Nat
            /\ \A c \in Conn : config[c] \in Nat /\ service[c] \in Service
<1> SUFFICES ASSUME TypeOK
             PROVE  /\ changes \in Nat
                    /\ \A s \in Service : services[s] \in Nat
                    /\ \A c \in Conn : config[c] \in Nat /\ service[c] \in Service
  OBVIOUS
<1>1. /\ changes \in 0..MaxChanges /\ services \in [Service -> Versions]
      /\ config \in [Conn -> Versions] /\ service \in [Conn -> Service]
  BY DEF TypeOK
<1> QED BY <1>1

(* The first versions are older than any reload's. *)
LEMMA VersionedInit == Init => Versioned
<1>1. ASSUME Init PROVE Items(channels) = {}
  BY <1>1 DEF Init, Empty, Items
<1> QED BY <1>1 DEF Init, Versioned, Adding

(* The accept loop counts its versions upwards. *)
LEMMA MainVersioned ==
  ASSUME TypeOK, Versioned,
         \/ \E c \in Conn : Accept(c) \/ TransportHandshake(c)
         \/ \E e \in Changes : TakeUpdate(e)
         \/ ReloadServices \/ AskChannels \/ Shutdown
  PROVE  Versioned'
<1> USE NumbersType
<1>1. ASSUME NEW c \in Conn, Accept(c) \/ TransportHandshake(c) PROVE Versioned'
  BY <1>1 DEF Accept, TransportHandshake, Goto, hello, Versioned, Adding, TypeOK
<1>2. ASSUME NEW e \in Changes, TakeUpdate(e) PROVE Versioned'
  BY <1>2 DEF TakeUpdate, hello, Versioned, Adding
<1>3. CASE ReloadServices
  <2>1. change \in Changes
    BY <1>3 DEF ReloadServices, Versioned
  <2>2. change.kind \in {"add", "delete"} /\ change.service \in Service
    BY <2>1 DEF Changes
  <2> QED BY <1>3, <2>1, <2>2 DEF ReloadServices, hello, Versioned, Adding, TypeOK
<1>4. CASE AskChannels
  BY <1>4 DEF AskChannels, hello, Versioned, Adding
<1>5. CASE Shutdown
  BY <1>5 DEF Shutdown, hello, Versioned, Adding
<1> QED BY <1>1, <1>2, <1>3, <1>4, <1>5

(* Removals and the drop only take items out. *)
LEMMA ItemsShrink ==
  ASSUME NEW m, NEW k
  PROVE  /\ Items(Remove1(m, k)) = Items(m) \ Find1(m, k)
         /\ Items(Drop(m)) \subseteq Items(m)
  BY DEF Items, Remove1, Drop, Free

(* An insert adds its own item at most. *)
LEMMA ItemsGrow ==
  ASSUME NEW m, NEW a, NEW k1, NEW k2, NEW v
  PROVE  Items(Insert(m, a, k1, k2, v)) \subseteq Items(m) \cup {a}
  BY DEF Items, Insert

(* Steps on control_channels leave the versions alone. *)
LEMMA MapVersioned ==
  ASSUME TypeOK, Versioned,
         ReloadChannels \/ DropMap \/ \E c \in Conn : ReplaceChannel(c) \/ SendAck(c)
  PROVE  Versioned'
<1> USE NumbersType
<1>1. CASE ReloadChannels
  <2>1. Items(channels') \subseteq Items(channels)
    BY <1>1, ItemsShrink DEF ReloadChannels
  <2> QED BY <1>1, <2>1 DEF ReloadChannels, hello, Versioned, Adding
<1>2. CASE DropMap
  <2>1. Items(channels') \subseteq Items(channels)
    BY <1>2, ItemsShrink DEF DropMap
  <2> QED BY <1>2, <2>1 DEF DropMap, hello, Versioned, Adding
<1>3. ASSUME NEW c \in Conn, ReplaceChannel(c) PROVE Versioned'
  <2>1. Items(channels') \subseteq Items(channels)
    BY <1>3, ItemsShrink DEF ReplaceChannel
  <2>2. /\ UNCHANGED <<main, change, changes, services, config>>
        /\ \A d \in Conn : state'[d] \in {"auth", "lock", "ack"}
                             => state[d] \in {"auth", "lock", "ack"}
    BY <1>3 DEF ReplaceChannel, Goto, TypeOK
  <2> QED BY <2>1, <2>2 DEF Versioned, Adding
<1>4. ASSUME NEW c \in Conn, SendAck(c) PROVE Versioned'
  <2>1. Items(channels') \subseteq Items(channels) \cup {c} /\ state[c] = "ack"
    BY <1>4, ItemsGrow DEF SendAck
  <2>2. /\ UNCHANGED <<main, change, changes, services, config>>
        /\ \A d \in Conn : state'[d] \in {"auth", "lock", "ack"}
                             => state[d] \in {"auth", "lock", "ack"}
    BY <1>4 DEF SendAck, Goto, TypeOK
  <2> QED BY <2>1, <2>2 DEF Versioned, Adding
<1> QED BY <1>1, <1>2, <1>3, <1>4

(* A handshake clones a version only while no Add is under way. *)
LEMMA ConnVersioned ==
  ASSUME TypeOK, Versioned, NEW c \in Conn,
         \/ ReadHello(c) \/ ReadAuth(c) \/ Lookup(c) \/ Refuse(c)
         \/ LookupSession(c) \/ SendChannel(c) \/ SessionStep(c)
  PROVE  Versioned'
<1> USE NumbersType
<1>1. CASE Lookup(c)
  <2>1. /\ UNCHANGED <<main, change, changes, services, channels>>
        /\ main # "services" /\ ~Adding
        /\ \A d \in Conn : d # c => config'[d] = config[d] /\ state'[d] = state[d]
    BY <1>1 DEF Lookup, ServicesLocked, Adding, Goto, hello, TypeOK
  <2>2. \/ config'[c] = services[service[c]] /\ services[service[c]] # Absent
        \/ config'[c] = config[c] /\ state'[c] = "refusing"
    BY <1>1 DEF Lookup, Goto, TypeOK
  <2> QED BY <2>1, <2>2 DEF Versioned, Adding
<1>2. CASE \/ ReadHello(c) \/ ReadAuth(c) \/ Refuse(c)
           \/ LookupSession(c) \/ SendChannel(c)
  <2>1. /\ UNCHANGED <<main, change, changes, services, channels, config>>
        /\ \A d \in Conn : state'[d] \in {"auth", "lock", "ack"}
                             => state[d] \in {"auth", "lock", "ack"}
    BY <1>2 DEF ReadHello, ReadAuth, Refuse, LookupSession, SendChannel, Goto, hello, TypeOK
  <2> QED BY <2>1 DEF Versioned, Adding
<1>3. CASE SessionStep(c)
  BY <1>3 DEF SessionStep, Bind, EnterArm, LeaveArm, FailSession, StopSession, hello,
             Versioned, Adding
<1> QED BY <1>1, <1>2, <1>3

(* So every step keeps what the versions tell. *)
LEMMA VersionedStep == TypeOK /\ Versioned /\ [Next]_vars => Versioned'
<1>1. CASE UNCHANGED vars
  BY <1>1 DEF vars, Versioned, Adding
<1> QED BY <1>1, MainVersioned, MapVersioned, ConnVersioned DEF Next, ServerStep

(* A handle lives exactly as long as the item at its address. *)
LEMMA LiveHandles ==
  ASSUME ItemsOfConns
  PROVE  /\ \A c : HandleLives(c) <=> c \in Items(channels)
         /\ \A a \in Items(channels) : channels.heap[a].k1 = service[a]
<1>1. ASSUME NEW a \in Items(channels)
      PROVE  channels.heap[a].v = a /\ channels.heap[a].k1 = service[a]
  <2>1. channels.heap[a] = [k1 |-> service[a], k2 |-> a, v |-> a]
    BY DEF ItemsOfConns
  <2> QED BY <2>1
<1> QED BY <1>1 DEF HandleLives

(***************************************************************************)
(* handle_hot_reload never drops a session that runs the configuration it  *)
(* has just installed, for any number of services, connections and         *)
(* reloads.                                                                *)
(***************************************************************************)
THEOREM ReloadsSpareNewConfig == Spec => ReloadSparesNewConfig
<1> DEFINE Spares == \A c \in Conn :
                       main = "channels" /\ main' = "select" /\ HandleLives(c) /\ ~HandleLives(c)'
                         => config[c] # services[service[c]]
<1>1. ASSUME IInv, Versioned, IInv', [Next]_vars PROVE [Spares]_vars
  <2> SUFFICES ASSUME NEW c \in Conn, main = "channels", main' = "select",
                      HandleLives(c), ~HandleLives(c)'
               PROVE  config[c] # services[service[c]]
    OBVIOUS
  <2>1. c \in Items(channels) /\ c \notin Items(channels')
    <3>1. c \in Items(channels)
      BY <1>1, LiveHandles DEF IInv
    <3>2. ASSUME c \in Items(channels') PROVE FALSE
      <4>1. channels'.heap[c] = [k1 |-> service'[c], k2 |-> c, v |-> c]
        BY <1>1, <3>2 DEF IInv, ItemsOfConns
      <4>2. channels'.heap[c].v = c
        BY <4>1
      <4> QED BY <3>2, <4>2 DEF HandleLives
    <3> QED BY <3>1, <3>2
  <2>2. ReloadChannels
    BY <1>1 
    DEF vars, Next, ServerStep, SessionStep, Accept, TransportHandshake, TakeUpdate,
        ReloadServices, AskChannels, Shutdown, DropMap, ReadHello, ReadAuth, Lookup, Refuse,
        ReplaceChannel, SendAck, LookupSession, SendChannel, Bind,
        EnterArm, LeaveArm, FailSession, StopSession
  <2>3. c \in Find1(channels, change.service)
    BY <2>1, <2>2, ItemsShrink DEF ReloadChannels
  <2>4. service[c] = change.service
    BY <1>1, <2>1, <2>3, LiveHandles DEF Find1, IInv
  <2> QED BY <1>1, <2>1, <2>4, NumbersType DEF IInv, Versioned, Adding, Changes
<1>2. Spec => []Versioned
  <2>1. IInv => TypeOK
    BY DEF IInv
  <2> QED BY <2>1, VersionedInit, VersionedStep, RegistryInvariance, PTL DEF Spec
<1>3. Spec => [][Spares]_vars
  BY <1>1, <1>2, RegistryInvariance, PTL DEF Spec
<1> QED BY <1>3 DEF ReloadSparesNewConfig

=============================================================================
