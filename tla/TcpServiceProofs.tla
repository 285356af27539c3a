-------------------------- MODULE TcpServiceProofs --------------------------
(***************************************************************************)
(* Type correctness of TcpService, the balance of its channel ledger and,  *)
(* from the two, that a handshake never waits for room in data_ch while it *)
(* holds the read lock of the control channel map. The proofs hold for     *)
(* every ChanSize and PoolSize with PoolSize + 2 <= ChanSize and for any   *)
(* number of visitors and faults.                                          *)
(***************************************************************************)
EXTENDS TcpService, SequenceTheorems, TLAPS

(***************************************************************************)
(* The hands of the listener and the pool are full exactly in the states   *)
(* where they wait with a visitor, and the visitor queue keeps to its      *)
(* capacity. The ledger counts the hands, so it is not inductive without.  *)
(***************************************************************************)
Hands ==
  /\ listener = "sending" <=> incoming # NoVisitor
  /\ pool = "channel" <=> current # NoVisitor
  /\ Len(visitor_ch) <= ChanSize

IInv == TypeOK /\ Hands /\ Ledger

(* Everything the ledger counts on the side of the channels. *)
Tokens == requests + cmds + dialing + arriving + sending + Len(data_ch) + lost

Counters ==
  /\ requests \in Nat /\ cmds \in Nat /\ dialing \in Nat /\ arriving \in Nat
  /\ sending \in Nat /\ lost \in Nat /\ Len(data_ch) \in Nat
  /\ Len(visitor_ch) \in Nat /\ Pending \in Int

USE DEF Visitor, NoVisitor

(* Tail of a non-empty queue keeps the type and is one shorter. *)
LEMMA TailFacts ==
  ASSUME NEW S, NEW q \in Seq(S), q # <<>>
  PROVE  /\ Tail(q) \in Seq(S)
         /\ Len(Tail(q)) = Len(q) - 1
         /\ Len(q) \in Nat \ {0}
         /\ Head(q) \in S
BY HeadTailProperties, EmptySeq

(* Append keeps the type and is one longer. *)
LEMMA AppendFacts ==
  ASSUME NEW S, NEW q \in Seq(S), NEW e \in S
  PROVE  /\ Append(q, e) \in Seq(S)
         /\ Len(Append(q, e)) = Len(q) + 1
BY AppendProperties

(***************************************************************************)
(* Closing the streams of any set of visitors keeps the type of visitors.  *)
(***************************************************************************)
LEMMA CloseType ==
  ASSUME TypeOK, NEW S, Close(S)
  PROVE  visitors' \in [Visitor -> {"outside", "accepted", "forwarding", "closed"}]
BY DEF TypeOK, Close

(***************************************************************************)
(* When the pool stops, the queues it read are gone and its hand is empty. *)
(***************************************************************************)
LEMMA PoolStopsFacts ==
  ASSUME TypeOK, PoolStops
  PROVE  /\ pool' = "stopped"
         /\ visitor_ch' \in Seq(Visitor) /\ Len(visitor_ch') = 0
         /\ data_ch' \in Seq({"open", "broken"})
         /\ current' = NoVisitor
         /\ visitors' \in [Visitor -> {"outside", "accepted", "forwarding", "closed"}]
<1>1. visitor_ch' = <<>> /\ data_ch' = <<>> BY DEF PoolStops
<1>2. visitors' \in [Visitor -> {"outside", "accepted", "forwarding", "closed"}]
  BY CloseType DEF PoolStops
<1>3. QED BY <1>1, <1>2, EmptySeq DEF PoolStops

(* What the arithmetic of the ledger needs of the types. *)
LEMMA CountersType == TypeOK => Counters
<1>1. SUFFICES ASSUME TypeOK PROVE Counters OBVIOUS
<1>2. Len(visitor_ch) \in Nat /\ Len(data_ch) \in Nat
  BY <1>1, LenProperties DEF TypeOK
<1>3. Pending \in Int BY <1>2 DEF Pending, Held
<1>4. QED BY <1>1, <1>2, <1>3 DEF TypeOK, Counters

(***************************************************************************)
(* A step that moves a token, or moves a waiting visitor, from one place   *)
(* to another leaves the ledger as it was.                                 *)
(***************************************************************************)
LEMMA LedgerKept ==
  ASSUME Ledger, Tokens' = Tokens, Pending' = Pending, pool' # "stopped" => pool # "stopped"
  PROVE  Ledger'
BY DEF Ledger, Tokens

(* A new session has PoolSize requests on the books and no visitor. *)
LEMMA InitInv == Init => IInv
<1>1. SUFFICES ASSUME Init PROVE IInv OBVIOUS
<1>2. /\ visitor_ch \in Seq(Visitor) /\ Len(visitor_ch) = 0
      /\ data_ch \in Seq({"open", "broken"}) /\ Len(data_ch) = 0
  BY <1>1, EmptySeq DEF Init
<1>3. TypeOK BY <1>1, <1>2, SizesAssumption DEF Init, TypeOK
<1>4. Hands BY <1>1, <1>2, SizesAssumption DEF Init, Hands
<1>5. Ledger BY <1>1, <1>2, SizesAssumption DEF Init, Ledger, Pending, Held
<1>6. QED BY <1>3, <1>4, <1>5 DEF IInv

(***************************************************************************)
(* The listener's steps: a visitor and its request enter the books         *)
(* together, and the visitor moves from the hand to the queue.             *)
(***************************************************************************)
LEMMA ListenerInv ==
  ASSUME IInv, ListenerStep \/ \E v \in Visitor : Accept(v)
  PROVE  IInv'
<1> USE SizesAssumption DEF IInv
<1>0. Counters BY CountersType
<1>1. CASE Bind \/ ListenerShutdown
  <2>1. TypeOK' BY <1>1 DEF Bind, ListenerShutdown, TypeOK, registry, clientSide
  <2>2. Hands' BY <1>1 DEF Bind, ListenerShutdown, Hands
  <2>3. Ledger'
    BY <1>1 DEF Bind, ListenerShutdown, Ledger, Pending, clientSide
  <2>4. QED BY <2>1, <2>2, <2>3
<1>2. CASE Deliver
  <2>1. incoming \in Visitor BY <1>2 DEF Deliver, Hands, TypeOK
  <2>2. /\ Append(visitor_ch, incoming) \in Seq(Visitor)
        /\ Len(Append(visitor_ch, incoming)) = Len(visitor_ch) + 1
    BY <2>1, AppendFacts DEF TypeOK
  <2>3. TypeOK' BY <1>2, <2>2 DEF Deliver, TypeOK, registry, clientSide
  <2>4. Hands' BY <1>2, <1>0, <2>2 DEF Deliver, Hands, Counters
  <2>5. UNCHANGED <<pool, requests, cmds, dialing, arriving, sending, data_ch, lost, current>>
    BY <1>2 DEF Deliver, clientSide
  <2>6. CASE pool = "stopped" BY <2>5, <2>6, <2>3, <2>4 DEF Ledger
  <2>7. CASE pool # "stopped"
    <3>1. incoming' = NoVisitor /\ Len(visitor_ch') = Len(visitor_ch) + 1
      BY <1>2, <2>2, <2>7 DEF Deliver
    <3>2. Held(incoming) = 1 /\ Held(incoming') = 0 /\ Held(current') = Held(current)
      BY <2>1, <2>5, <3>1, SizesAssumption DEF Held
    <3>3. Held(current) \in Nat BY DEF Held
    <3>4. Pending' = Pending
      BY <1>0, <3>1, <3>2, <3>3 DEF Pending, Counters
    <3>5. Tokens' = Tokens BY <2>5 DEF Tokens
    <3>6. QED BY <2>3, <2>4, <2>5, <3>4, <3>5, LedgerKept
  <2>8. QED BY <2>6, <2>7
<1>3. CASE \E v \in Visitor : Accept(v)
  <2>1. PICK v \in Visitor : Accept(v) BY <1>3
  <2>2. TypeOK' BY <2>1 DEF Accept, TypeOK, registry, clientSide
  <2>3. Hands' BY <2>1 DEF Accept, Hands
  <2>4. incoming = NoVisitor BY <2>1 DEF Accept, Hands
  <2>5. UNCHANGED <<pool, visitor_ch, current, cmds, dialing, arriving, sending, data_ch, lost>>
    BY <2>1 DEF Accept, clientSide
  <2>6. CASE control = "running"
    <3>1. incoming' = v /\ requests' = requests + 1 BY <2>1, <2>6 DEF Accept
    <3>2. Held(incoming) = 0 /\ Held(incoming') = 1 /\ Held(current') = Held(current)
      BY <2>4, <2>5, <3>1, SizesAssumption DEF Held
    <3>3. Held(current) \in Nat BY DEF Held
    <3>4. Pending' = Pending + 1
      BY <1>0, <2>5, <3>2, <3>3 DEF Pending, Counters
    <3>5. QED BY <1>0, <2>2, <2>3, <2>5, <3>1, <3>4 DEF Ledger, Counters
  <2>7. CASE control = "stopped"
    <3>1. UNCHANGED <<incoming, requests>> BY <2>1, <2>7 DEF Accept
    <3>2. Pending' = Pending BY <2>5, <3>1 DEF Pending
    <3>3. Tokens' = Tokens BY <2>5, <3>1 DEF Tokens
    <3>4. QED BY <2>2, <2>3, <2>5, <3>2, <3>3, LedgerKept
  <2>8. QED BY <2>1, <2>6, <2>7 DEF TypeOK, Accept
<1>4. QED BY <1>1, <1>2, <1>3 DEF ListenerStep

(***************************************************************************)
(* The pool's steps: a pairing takes one channel and one visitor out of    *)
(* the books, a broken channel is replaced by a request.                   *)
(***************************************************************************)
LEMMA PoolInv ==
  ASSUME IInv, PoolStep
  PROVE  IInv'
<1> USE SizesAssumption DEF IInv
<1>0. Counters BY CountersType
<1>1. CASE PoolStops /\ UNCHANGED <<registry, control, listener, incoming,
                                    requests, clientSide, arriving, sending,
                                    lost, faults>>
  <2>1. TypeOK' BY <1>1, PoolStopsFacts DEF TypeOK, registry, clientSide
  <2>2. Hands' BY <1>1, PoolStopsFacts DEF Hands
  <2>3. Ledger' BY <1>1, PoolStopsFacts DEF Ledger
  <2>4. QED BY <2>1, <2>2, <2>3
<1>2. CASE TakeVisitor
  <2>1. /\ Tail(visitor_ch) \in Seq(Visitor)
        /\ Len(Tail(visitor_ch)) = Len(visitor_ch) - 1
        /\ Head(visitor_ch) \in Visitor
    BY <1>2, TailFacts DEF TakeVisitor, TypeOK
  <2>2. TypeOK' BY <1>2, <2>1 DEF TakeVisitor, TypeOK, registry, clientSide
  <2>3. Hands' BY <1>2, <1>0, <2>1, SizesAssumption DEF TakeVisitor, Hands, Counters
  <2>4. UNCHANGED <<incoming, requests, cmds, dialing, arriving, sending, data_ch, lost>>
    BY <1>2 DEF TakeVisitor, clientSide
  <2>5. current = NoVisitor /\ current' \in Visitor /\ Len(visitor_ch') = Len(visitor_ch) - 1
    BY <1>2, <2>1 DEF TakeVisitor, Hands
  <2>6. Held(current) = 0 /\ Held(current') = 1 /\ Held(incoming') = Held(incoming)
    BY <2>4, <2>5, SizesAssumption DEF Held
  <2>7. Held(incoming) \in Nat BY DEF Held
  <2>8. Pending' = Pending BY <1>0, <2>5, <2>6, <2>7 DEF Pending, Counters
  <2>9. Tokens' = Tokens BY <2>4 DEF Tokens
  <2>10. Ledger' BY <1>2, <2>8, <2>9, LedgerKept DEF TakeVisitor
  <2>11. QED BY <2>2, <2>3, <2>10
<1>3. CASE Pair
  <2>1. /\ Tail(data_ch) \in Seq({"open", "broken"})
        /\ Len(Tail(data_ch)) = Len(data_ch) - 1
    BY <1>3, TailFacts DEF Pair, TypeOK
  <2>2. TypeOK' BY <1>3, <2>1 DEF Pair, TypeOK, registry, clientSide
  <2>3. Hands' BY <1>3 DEF Pair, Hands
  <2>4. UNCHANGED <<incoming, visitor_ch, requests, cmds, dialing, arriving, sending, lost>>
    BY <1>3 DEF Pair, clientSide
  <2>5. /\ current # NoVisitor /\ current' = NoVisitor
        /\ Len(data_ch') = Len(data_ch) - 1 /\ pool # "stopped"
    BY <1>3, <2>1 DEF Pair, Hands
  <2>6. Held(current) = 1 /\ Held(current') = 0 /\ Held(incoming') = Held(incoming)
    BY <2>4, <2>5 DEF Held
  <2>7. Held(incoming) \in Nat BY DEF Held
  <2>8. Pending' = Pending - 1 BY <1>0, <2>4, <2>6, <2>7 DEF Pending, Counters
  <2>9. Tokens' = Tokens - 1 BY <1>0, <2>4, <2>5 DEF Tokens, Counters
  <2>10. Tokens \in Nat BY <1>0 DEF Tokens, Counters
  <2>11. Ledger' BY <1>0, <2>5, <2>8, <2>9, <2>10 DEF Ledger, Tokens, Counters
  <2>12. QED BY <2>2, <2>3, <2>11
<1>4. CASE ReplaceBroken /\ control = "running"
  <2>1. /\ Tail(data_ch) \in Seq({"open", "broken"})
        /\ Len(Tail(data_ch)) = Len(data_ch) - 1
    BY <1>4, TailFacts DEF ReplaceBroken, TypeOK
  <2>2. /\ UNCHANGED <<handle, writer, control, listener, incoming, visitor_ch>>
        /\ UNCHANGED <<pool, current, conn, cmds, client, dialing>>
        /\ UNCHANGED <<arriving, sending, visitors, lost, faults>>
    BY <1>4 DEF ReplaceBroken, registry, clientSide
  <2>3. requests' = requests + 1 /\ data_ch' = Tail(data_ch)
    BY <1>4 DEF ReplaceBroken
  <2>4. TypeOK' BY <2>1, <2>2, <2>3 DEF TypeOK
  <2>5. Hands' BY <2>2 DEF Hands
  <2>6. Pending' = Pending BY <2>2 DEF Pending
  <2>7. Len(data_ch') = Len(data_ch) - 1 BY <2>1, <2>3
  <2>8. Tokens' = Tokens
    <3>1. UNCHANGED <<cmds, dialing, arriving, sending, lost>> BY <2>2
    <3>2. requests' = requests + 1 BY <2>3
    <3>3. QED BY <1>0, <3>1, <3>2, <2>7 DEF Tokens, Counters
  <2>9. Ledger' BY <2>2, <2>6, <2>8, LedgerKept
  <2>10. QED BY <2>4, <2>5, <2>9
<1>5. QED
  BY <1>1, <1>2, <1>3, <1>4
     DEF PoolStep, NoMoreVisitors, NoMoreChannels, ReplaceBroken

(***************************************************************************)
(* The control task moves tokens between requests, commands and lost.      *)
(***************************************************************************)
LEMMA ControlTokens ==
  ASSUME Counters, ControlStep
  PROVE  /\ Tokens' = Tokens
         /\ requests' \in Nat /\ cmds' \in Nat /\ lost' \in Nat
         /\ control' \in {control, "stopped"}
<1>1. UNCHANGED <<dialing, arriving, sending, data_ch>>
  BY DEF ControlStep, SendCreate, ControlEnds, clientSide
<1>2. CASE requests > 0 /\ requests' = requests - 1 /\ cmds' = cmds + 1 /\ UNCHANGED <<control, lost>>
  BY <1>1, <1>2 DEF Counters, Tokens
<1>3. CASE requests > 0 /\ requests' = requests - 1 /\ lost' = lost + 1 /\ UNCHANGED <<control, cmds>>
  BY <1>1, <1>3 DEF Counters, Tokens
<1>4. CASE ControlStops /\ UNCHANGED cmds
  BY <1>1, <1>4 DEF ControlStops, Counters, Tokens
<1>5. QED BY <1>2, <1>3, <1>4 DEF ControlStep, SendCreate, ControlEnds, clientSide

(* The client moves tokens between commands, dials, arrivals and lost. *)
LEMMA ClientTokens ==
  ASSUME Counters, ClientStep \/ DialOk \/ DialFail \/ Disconnect
  PROVE  /\ Tokens' = Tokens
         /\ cmds' \in Nat /\ dialing' \in Nat /\ arriving' \in Nat /\ lost' \in Nat
<1>1. CASE ReceiveCreate BY <1>1 DEF Counters, Tokens, ReceiveCreate
<1>2. CASE ClientEnds BY <1>2 DEF Counters, Tokens, ClientEnds
<1>3. CASE DialOk BY <1>3 DEF Counters, Tokens, DialOk
<1>4. CASE DialFail BY <1>4 DEF Counters, Tokens, DialFail
<1>5. CASE Disconnect BY <1>5 DEF Counters, Tokens, Disconnect
<1>6. QED BY <1>1, <1>2, <1>3, <1>4, <1>5 DEF ClientStep

(* The registry moves tokens from arrivals to the queue, or loses them. *)
LEMMA RegistryTokens ==
  ASSUME Counters, LookupHandle \/ WantRemoval \/ RemoveHandle
  PROVE  /\ Tokens' = Tokens
         /\ arriving' \in Nat /\ sending' \in Nat /\ lost' \in Nat
<1>1. CASE LookupHandle BY <1>1 DEF Counters, Tokens, LookupHandle, clientSide
<1>2. CASE WantRemoval BY <1>2 DEF Counters, Tokens, WantRemoval, clientSide
<1>3. CASE RemoveHandle BY <1>3 DEF Counters, Tokens, RemoveHandle, clientSide
<1>4. QED BY <1>1, <1>2, <1>3

(* A channel that arrives moves from the handshake to data_ch, or is lost. *)
LEMMA SendTokens ==
  ASSUME Counters, SendChannel, Len(Append(data_ch, "open")) = Len(data_ch) + 1
  PROVE  Tokens' = Tokens /\ sending' \in Nat /\ lost' \in Nat
<1>1. UNCHANGED <<requests, cmds, dialing, arriving>> BY DEF SendChannel, clientSide
<1>2. CASE data_ch' = Append(data_ch, "open") /\ UNCHANGED lost
  BY <1>1, <1>2 DEF Counters, Tokens, SendChannel
<1>3. CASE UNCHANGED data_ch /\ lost' = lost + 1
  BY <1>1, <1>3 DEF Counters, Tokens, SendChannel
<1>4. QED BY <1>2, <1>3 DEF SendChannel

(***************************************************************************)
(* The steps that only move tokens between requests, commands, dials,      *)
(* channels and lost: the control task, the client and the registry.       *)
(***************************************************************************)
LEMMA ChannelInv ==
  ASSUME IInv,
         \/ ControlStep \/ ClientStep \/ DialOk \/ DialFail
         \/ LookupHandle \/ SendChannel \/ WantRemoval \/ RemoveHandle
         \/ Disconnect \/ BreakChannel
  PROVE  IInv'
<1> USE SizesAssumption DEF IInv, registry, serverTasks, clientSide
<1>0. Counters BY CountersType
<1>1. CASE ControlStep
  <2>1. /\ UNCHANGED <<handle, writer, listener, incoming, visitor_ch, pool>>
        /\ UNCHANGED <<current, conn, client, dialing, arriving, sending>>
        /\ UNCHANGED <<data_ch, visitors, faults>>
    BY <1>1 DEF ControlStep, SendCreate, ControlEnds
  <2>2. TypeOK' BY <1>0, <1>1, <2>1, ControlTokens DEF TypeOK
  <2>3. Hands' BY <2>1 DEF Hands
  <2>4. Pending' = Pending BY <2>1 DEF Pending
  <2>5. Ledger' BY <1>0, <1>1, <2>1, <2>4, ControlTokens, LedgerKept
  <2>6. QED BY <2>2, <2>3, <2>5
<1>2. CASE ClientStep \/ DialOk \/ DialFail \/ Disconnect
  <2>1. /\ UNCHANGED <<handle, writer, control, listener, incoming, visitor_ch>>
        /\ UNCHANGED <<pool, current, requests, sending, data_ch, visitors>>
    BY <1>2 DEF ClientStep, ReceiveCreate, ClientEnds, DialOk, DialFail, Disconnect
  <2>2. /\ conn' \in {"up", "down"} /\ client' \in {"running", "stopped"}
        /\ faults' \in 0..MaxFaults
    <3>1. CASE ClientStep \/ DialOk
      BY <3>1 DEF ClientStep, ReceiveCreate, ClientEnds, DialOk, TypeOK
    <3>2. CASE DialFail \/ Disconnect
      <4>1. faults < MaxFaults /\ faults' = faults + 1
        BY <3>2 DEF DialFail, Disconnect
      <4>2. faults \in 0..MaxFaults BY DEF TypeOK
      <4>3. conn' \in {conn, "down"} /\ client' = client
        BY <3>2 DEF DialFail, Disconnect
      <4>4. QED BY <4>1, <4>2, <4>3 DEF TypeOK
    <3>3. QED BY <1>2, <3>1, <3>2
  <2>3. TypeOK' BY <1>0, <1>2, <2>1, <2>2, ClientTokens DEF TypeOK
  <2>4. Hands' BY <2>1 DEF Hands
  <2>5. Pending' = Pending BY <2>1 DEF Pending
  <2>6. Ledger' BY <1>0, <1>2, <2>1, <2>5, ClientTokens, LedgerKept
  <2>7. QED BY <2>3, <2>4, <2>6
<1>3. CASE LookupHandle \/ WantRemoval \/ RemoveHandle
  <2>1. /\ UNCHANGED <<control, listener, incoming, visitor_ch, pool, current>>
        /\ UNCHANGED <<requests, conn, cmds, client, dialing>>
        /\ UNCHANGED <<data_ch, visitors, faults>>
    BY <1>3 DEF LookupHandle, WantRemoval, RemoveHandle
  <2>2. handle' \in {"registered", "removed"} /\ writer' \in {"none", "waiting"}
    BY <1>3 DEF LookupHandle, WantRemoval, RemoveHandle, TypeOK
  <2>3. TypeOK' BY <1>0, <1>3, <2>1, <2>2, RegistryTokens DEF TypeOK
  <2>4. Hands' BY <2>1 DEF Hands
  <2>5. Pending' = Pending BY <2>1 DEF Pending
  <2>6. Ledger' BY <1>0, <1>3, <2>1, <2>5, RegistryTokens, LedgerKept
  <2>7. QED BY <2>3, <2>4, <2>6
<1>4. CASE SendChannel
  <2>1. /\ Append(data_ch, "open") \in Seq({"open", "broken"})
        /\ Len(Append(data_ch, "open")) = Len(data_ch) + 1
    BY AppendFacts DEF TypeOK
  <2>2. /\ UNCHANGED <<handle, writer, control, listener, incoming, visitor_ch>>
        /\ UNCHANGED <<pool, current, requests, conn, cmds, client, dialing>>
        /\ UNCHANGED <<arriving, visitors, faults>>
    BY <1>4 DEF SendChannel
  <2>3. Tokens' = Tokens /\ sending' \in Nat /\ lost' \in Nat
    BY <1>0, <1>4, <2>1, SendTokens
  <2>4. data_ch' \in Seq({"open", "broken"}) BY <1>4, <2>1 DEF SendChannel, TypeOK
  <2>5. TypeOK' BY <2>2, <2>3, <2>4 DEF TypeOK
  <2>6. Hands' BY <2>2 DEF Hands
  <2>7. Pending' = Pending BY <2>2 DEF Pending
  <2>8. Ledger' BY <2>2, <2>3, <2>7, LedgerKept
  <2>9. QED BY <2>5, <2>6, <2>8
<1>5. CASE BreakChannel
  <2>1. PICK i \in DOMAIN data_ch : data_ch' = [data_ch EXCEPT ![i] = "broken"]
    BY <1>5 DEF BreakChannel
  <2>2. i \in 1..Len(data_ch) BY LenProperties DEF TypeOK
  <2>3. data_ch' \in Seq({"open", "broken"}) /\ Len(data_ch') = Len(data_ch)
    BY <2>1, <2>2, ExceptSeq DEF TypeOK
  <2>4. /\ UNCHANGED <<handle, writer, control, listener, incoming, visitor_ch>>
        /\ UNCHANGED <<pool, current, requests, conn, cmds, client, dialing>>
        /\ UNCHANGED <<arriving, sending, visitors, lost>>
    BY <1>5 DEF BreakChannel
  <2>5. faults' \in 0..MaxFaults
    <3>1. faults < MaxFaults /\ faults' = faults + 1 BY <1>5 DEF BreakChannel
    <3>2. faults \in 0..MaxFaults BY DEF TypeOK
    <3>3. QED BY <3>1, <3>2
  <2>6. TypeOK' BY <2>3, <2>4, <2>5 DEF TypeOK
  <2>7. Hands' BY <2>4 DEF Hands
  <2>8. Pending' = Pending BY <2>4 DEF Pending
  <2>9. Tokens' = Tokens BY <2>3, <2>4 DEF Tokens
  <2>10. Ledger' BY <2>4, <2>8, <2>9, LedgerKept
  <2>11. QED BY <2>6, <2>7, <2>10
<1>6. QED BY <1>1, <1>2, <1>3, <1>4, <1>5

(* Every step of the session keeps the invariant. *)
LEMMA StepInv == IInv /\ [Next]_vars => IInv'
<1>1. ASSUME IInv, Next PROVE IInv'
  BY <1>1, ListenerInv, PoolInv, ChannelInv DEF Next
<1>2. ASSUME IInv, UNCHANGED vars PROVE IInv'
  BY <1>2
     DEF IInv, TypeOK, Hands, Ledger, Pending, Held, vars, registry, clientSide,
         serverTasks
<1>3. QED BY <1>1, <1>2

(***************************************************************************)
(* The inductive invariant holds of every reachable state.                 *)
(***************************************************************************)
THEOREM Invariance == Spec => []IInv
BY InitInv, StepInv, PTL DEF Spec

(***************************************************************************)
(* Every variable of a session keeps its type, for any number of visitors  *)
(* and faults: ControlChannelHandle::new and all tasks it starts.          *)
(***************************************************************************)
THEOREM TypeCorrect == Spec => []TypeOK
<1>1. IInv => TypeOK BY DEF IInv
<1>2. QED BY <1>1, Invariance, PTL

(***************************************************************************)
(* The channel ledger of the pool balances in every reachable state:       *)
(* tcp_listen_and_send and run_tcp_connection_pool together request        *)
(* exactly one channel per visitor beyond the PoolSize spares.             *)
(***************************************************************************)
THEOREM LedgerBalances == Spec => []Ledger
<1>1. IInv => Ledger BY DEF IInv
<1>2. QED BY <1>1, Invariance, PTL

(***************************************************************************)
(* do_data_channel_handshake never waits in data_ch_tx.send: the channels  *)
(* in the queue and those about to enter it are at most the spares plus    *)
(* the visitors that can wait (one in the listener's hand, ChanSize in the *)
(* queue, one in the pool's hand), which is at most 2 * ChanSize.          *)
(***************************************************************************)
THEOREM SendNeverBlocks == Spec => []NoBlockedSend
<1>1. IInv => NoBlockedSend
  <2>1. SUFFICES ASSUME IInv, sending > 0, pool # "stopped"
                 PROVE  Len(data_ch) < DataChCapacity
    BY DEF NoBlockedSend
  <2>2. Counters BY <2>1, CountersType DEF IInv
  <2>3. Held(incoming) \in 0..1 /\ Held(current) \in 0..1 BY DEF Held
  <2>4. Pending <= ChanSize + 2
    BY <2>1, <2>2, <2>3, SizesAssumption DEF Pending, IInv, Hands, Counters
  <2>5. sending + Len(data_ch) <= PoolSize + Pending
    BY <2>1, <2>2, SizesAssumption DEF IInv, Ledger, Counters
  <2>6. QED
    BY <2>1, <2>2, <2>4, <2>5, SizesAssumption, RoomAssumption
       DEF DataChCapacity, Counters
<1>2. QED BY <1>1, Invariance, PTL

=============================================================================
