------------------------- MODULE TcpRefinementProofs -------------------------
(***************************************************************************)
(* TcpService implements VisitorQueue: every step of the tasks is a step   *)
(* of the promised queue or leaves it as it is. The order in which         *)
(* visitors are served follows from the order of the promised queue.       *)
(***************************************************************************)
EXTENDS TcpServiceProofs

PromiseProofs == INSTANCE VisitorQueueProofs
  WITH clean <- Clean, serving <- (pool # "stopped"), waiting <- Line

(* Nothing ends and no channel breaks as long as nothing failed. *)
Causes ==
  Clean => /\ control = "running" /\ conn = "up"
           /\ listener # "stopped" /\ pool # "stopped"
           /\ \A i \in DOMAIN data_ch : data_ch[i] = "open"

(* A pool that stopped holds nobody. *)
Drained == pool = "stopped" => visitor_ch = <<>> /\ current = NoVisitor

RInv == IInv /\ Causes /\ Drained

-----------------------------------------------------------------------------
(* What the line is made of. *)

(* A hand is a line of one or of none. *)
LEMMA HandFacts ==
  ASSUME NEW v \in Visitor \cup {NoVisitor}, SizesAssumption
  PROVE  /\ Hand(v) \in Seq(Visitor)
         /\ v = NoVisitor => Hand(v) = <<>> /\ Len(Hand(v)) = 0
         /\ v # NoVisitor => Hand(v) = <<v>> /\ Len(Hand(v)) = 1 /\ Hand(v)[1] = v
BY EmptySeq DEF Hand

(* A line is whoever is at its head, and the rest. *)
LEMMA HeadTailConcat ==
  ASSUME NEW S, NEW q \in Seq(S), q # <<>>
  PROVE  q = <<Head(q)>> \o Tail(q)
<1>1. Len(q) \in Nat \ {0} /\ Head(q) = q[1]
  BY EmptySeq
<1>2. SubSeq(q, 1, Len(q)) = <<q[1]>> \o SubSeq(q, 1 + 1, Len(q))
  BY <1>1, SubSeqRecursiveFirst
<1>3. Tail(q) = SubSeq(q, 1 + 1, Len(q))
  BY TailIsSubSeq
<1> QED
  BY <1>1, <1>2, <1>3, SubSeqFull

(* What is left of p \o q without its first Len(p) elements. *)
LEMMA RemoveFront ==
  ASSUME NEW S, NEW p \in Seq(S), NEW q \in Seq(S)
  PROVE  SubSeq(p \o q, Len(p) + 1, Len(p \o q)) = q
<1>1. Len(p) \in Nat /\ Len(q) \in Nat /\ \A i \in 1..Len(q) : q[i] \in S
  BY LenProperties, ElementOfSeq
<1>2. /\ Len(p \o q) = Len(p) + Len(q)
      /\ \A i \in 1..Len(p) + Len(q) :
           (p \o q)[i] = IF i <= Len(p) THEN p[i] ELSE q[i - Len(p)]
  BY ConcatProperties
<1>3. \A i \in (Len(p) + 1)..Len(p \o q) : (p \o q)[i] \in S
  BY <1>1, <1>2
<1> DEFINE rest == SubSeq(p \o q, Len(p) + 1, Len(p \o q))
<1>4. /\ rest \in Seq(S)
      /\ Len(rest) = IF Len(p) + 1 <= Len(p \o q) THEN Len(p \o q) - (Len(p) + 1) + 1 ELSE 0
      /\ \A i \in 1..Len(p \o q) - (Len(p) + 1) + 1 :
           rest[i] = (p \o q)[(Len(p) + 1) + i - 1]
  BY <1>1, <1>2, <1>3, SubSeqProperties
<1>5. Len(rest) = Len(q)
  BY <1>1, <1>2, <1>4
<1>6. \A i \in 1..Len(rest) : rest[i] = q[i]
  BY <1>1, <1>2, <1>4, <1>5
<1> QED
  BY <1>4, <1>5, <1>6, SeqEqual

(* Head and tail of a line whose head is known. *)
LEMMA BehindHead ==
  ASSUME NEW S, NEW e \in S, NEW q \in Seq(S)
  PROVE  /\ <<e>> \o q # <<>>
         /\ Head(<<e>> \o q) = e /\ Tail(<<e>> \o q) = q
<1>1. <<e>> \in Seq(S) /\ Len(<<e>>) = 1 /\ <<e>>[1] = e
  OBVIOUS
<1>2. /\ <<e>> \o q \in Seq(S) /\ Len(<<e>> \o q) = 1 + Len(q)
      /\ (<<e>> \o q)[1] = e /\ Len(q) \in Nat
  BY <1>1, ConcatProperties, LenProperties
<1>3. <<e>> \o q # <<>>
  BY <1>2, EmptySeq
<1>4. Tail(<<e>> \o q) = SubSeq(<<e>> \o q, 1 + 1, Len(<<e>> \o q))
  BY <1>2, <1>3, TailIsSubSeq
<1> QED
  BY <1>1, <1>2, <1>3, <1>4, RemoveFront

(* The line is a sequence of visitors; its parts keep their order. *)
LEMMA LineFacts ==
  ASSUME TypeOK
  PROVE  /\ Hand(current) \in Seq(Visitor) /\ Hand(incoming) \in Seq(Visitor)
         /\ Hand(current) \o visitor_ch \in Seq(Visitor)
         /\ Line \in Seq(Visitor)
         /\ Line = Hand(current) \o (visitor_ch \o Hand(incoming))
<1> USE SizesAssumption DEF TypeOK
<1>1. Hand(current) \in Seq(Visitor) /\ Hand(incoming) \in Seq(Visitor)
  BY HandFacts
<1>2. Hand(current) \o visitor_ch \in Seq(Visitor)
  BY <1>1, ConcatProperties
<1> QED
  BY <1>1, <1>2, ConcatProperties, ConcatAssociative DEF Line

USE DEF Visitor, NoVisitor, Promise!Visitor

-----------------------------------------------------------------------------
(* Failures are not undone, and a removed handle does not come back. *)
LEMMA CleanFades ==
  ASSUME TypeOK, [Next]_vars, Clean'
  PROVE  Clean
<1> USE DEF Clean, TypeOK, registry, serverTasks, clientSide
<1>1. CASE ListenerStep \/ (\E v \in Visitor : Accept(v)) \/ UNCHANGED vars
  BY <1>1 DEF ListenerStep, Bind, Deliver, ListenerShutdown, Accept, vars
<1>2. CASE PoolStep
  BY <1>2 DEF PoolStep, TakeVisitor, NoMoreVisitors, Pair, ReplaceBroken, NoMoreChannels
<1>3. CASE ControlStep \/ ClientStep
  BY <1>3 DEF ControlStep, SendCreate, ControlEnds, ClientStep, ReceiveCreate, ClientEnds
<1>4. CASE DialOk \/ DialFail \/ LookupHandle \/ SendChannel
  BY <1>4 DEF DialOk, DialFail, LookupHandle, SendChannel
<1>5. CASE WantRemoval \/ RemoveHandle \/ Disconnect \/ BreakChannel
  BY <1>5 DEF WantRemoval, RemoveHandle, Disconnect, BreakChannel
<1> QED
  BY <1>1, <1>2, <1>3, <1>4, <1>5 DEF Next

(* In a clean session data_ch changes by open channels only. *)
LEMMA QueueStaysOpen ==
  ASSUME TypeOK, Causes, [Next]_vars, Clean'
  PROVE  \A i \in DOMAIN data_ch' : data_ch'[i] = "open"
<1> USE DEF TypeOK, registry, serverTasks, clientSide
<1>1. /\ \A i \in DOMAIN data_ch : data_ch[i] = "open"
      /\ control = "running" /\ listener # "stopped"
      /\ faults = 0 /\ handle = "registered" /\ faults' = 0
  BY CleanFades DEF Causes, Clean
<1>2. CASE UNCHANGED data_ch
  BY <1>1, <1>2
<1>3. CASE data_ch # <<>> /\ data_ch' = Tail(data_ch)
  <2>1. /\ Len(data_ch') = Len(data_ch) - 1 /\ Len(data_ch) \in Nat
        /\ \A i \in 1..Len(data_ch') : data_ch'[i] = data_ch[i + 1]
        /\ DOMAIN data_ch' = 1..Len(data_ch') /\ DOMAIN data_ch = 1..Len(data_ch)
    BY <1>3, HeadTailProperties, LenProperties
  <2>2. ASSUME NEW i \in DOMAIN data_ch' PROVE data_ch'[i] = "open"
    <3>1. i \in 1..Len(data_ch') /\ i + 1 \in DOMAIN data_ch
      BY <2>1
    <3> QED
      BY <1>1, <2>1, <3>1
  <2> QED
    BY <2>2
<1>4. CASE data_ch' = Append(data_ch, "open")
  <2>1. /\ Len(data_ch') = Len(data_ch) + 1 /\ Len(data_ch) \in Nat
        /\ \A i \in 1..Len(data_ch) : data_ch'[i] = data_ch[i]
        /\ data_ch'[Len(data_ch) + 1] = "open"
        /\ DOMAIN data_ch' = 1..Len(data_ch') /\ DOMAIN data_ch = 1..Len(data_ch)
    BY <1>4, AppendProperties, LenProperties
  <2>2. ASSUME NEW i \in DOMAIN data_ch' PROVE data_ch'[i] = "open"
    <3>1. i \in 1..Len(data_ch) \/ i = Len(data_ch) + 1
      BY <2>1
    <3>2. CASE i \in 1..Len(data_ch)
      BY <1>1, <2>1, <3>2
    <3> QED
      BY <2>1, <3>1, <3>2
  <2> QED
    BY <2>2
<1>5. \/ UNCHANGED data_ch
      \/ data_ch # <<>> /\ data_ch' = Tail(data_ch)
      \/ data_ch' = Append(data_ch, "open")
  <2>1. CASE ListenerStep \/ (\E v \in Visitor : Accept(v)) \/ UNCHANGED vars
    BY <2>1 DEF ListenerStep, Bind, Deliver, ListenerShutdown, Accept, vars
  <2>2. CASE PoolStep
    BY <1>1, <2>2 DEF PoolStep, TakeVisitor, NoMoreVisitors, Pair, ReplaceBroken, NoMoreChannels
  <2>3. CASE ControlStep \/ ClientStep
    BY <2>3 DEF ControlStep, SendCreate, ControlEnds, ClientStep, ReceiveCreate, ClientEnds
  <2>4. CASE DialOk \/ DialFail \/ LookupHandle \/ SendChannel
    BY <2>4 DEF DialOk, DialFail, LookupHandle, SendChannel
  <2>5. CASE WantRemoval \/ RemoveHandle \/ Disconnect
    BY <2>5 DEF WantRemoval, RemoveHandle, Disconnect
  <2>6. CASE BreakChannel
    BY <1>1, <2>6 DEF BreakChannel
  <2> QED
    BY <2>1, <2>2, <2>3, <2>4, <2>5, <2>6 DEF Next
<1> QED
  BY <1>2, <1>3, <1>4, <1>5

(* The tasks of a clean session run, and a stopped pool stays empty. *)
LEMMA CausesKept ==
  ASSUME IInv, Causes, Drained, [Next]_vars
  PROVE  Causes' /\ Drained'
<1> USE DEF IInv, registry, serverTasks, clientSide
<1>1. Causes'
  <2>1. SUFFICES ASSUME Clean'
                 PROVE  /\ control' = "running" /\ conn' = "up"
                        /\ listener' # "stopped" /\ pool' # "stopped"
    BY QueueStaysOpen DEF Causes
  <2>2. /\ control = "running" /\ conn = "up" /\ listener # "stopped" /\ pool # "stopped"
        /\ \A i \in DOMAIN data_ch : data_ch[i] = "open"
        /\ faults = 0 /\ handle = "registered" /\ faults' = 0
    BY <2>1, CleanFades DEF Causes, Clean
  <2>3. CASE ListenerStep \/ (\E v \in Visitor : Accept(v)) \/ UNCHANGED vars
    BY <2>2, <2>3 DEF ListenerStep, Bind, Deliver, ListenerShutdown, Accept, vars
  <2>4. CASE PoolStep
    BY <2>2, <2>4 DEF PoolStep, TakeVisitor, NoMoreVisitors, Pair, ReplaceBroken, NoMoreChannels
  <2>5. CASE ControlStep \/ ClientStep
    BY <2>2, <2>5 DEF ControlStep, SendCreate, ControlEnds, ClientStep, ReceiveCreate, ClientEnds
  <2>6. CASE DialOk \/ DialFail \/ LookupHandle \/ SendChannel
    BY <2>2, <2>6 DEF DialOk, DialFail, LookupHandle, SendChannel
  <2>7. CASE WantRemoval \/ RemoveHandle \/ Disconnect \/ BreakChannel
    BY <2>2, <2>7 DEF WantRemoval, RemoveHandle, Disconnect, BreakChannel
  <2> QED
    BY <2>3, <2>4, <2>5, <2>6, <2>7 DEF Next
<1>2. Drained'
  <2>1. CASE ListenerStep \/ (\E v \in Visitor : Accept(v)) \/ UNCHANGED vars
    BY <2>1 DEF Drained, ListenerStep, Bind, Deliver, ListenerShutdown, Accept, vars
  <2>2. CASE PoolStep
    BY <2>2
       DEF Drained, PoolStep, PoolStops, TakeVisitor, NoMoreVisitors, Pair, ReplaceBroken,
           NoMoreChannels
  <2>3. CASE ControlStep \/ ClientStep
    BY <2>3
       DEF Drained, ControlStep, SendCreate, ControlEnds, ClientStep, ReceiveCreate, ClientEnds
  <2>4. CASE DialOk \/ DialFail \/ LookupHandle \/ SendChannel
    BY <2>4 DEF Drained, DialOk, DialFail, LookupHandle, SendChannel
  <2>5. CASE WantRemoval \/ RemoveHandle \/ Disconnect \/ BreakChannel
    BY <2>5 DEF Drained, WantRemoval, RemoveHandle, Disconnect, BreakChannel
  <2> QED
    BY <2>1, <2>2, <2>3, <2>4, <2>5 DEF Next
<1> QED
  BY <1>1, <1>2

(* What follows about a session holds of every reachable state. *)
LEMMA RInvariance == Spec => []RInv
<1>1. Init => Causes /\ Drained
  BY DEF Init, Causes, Drained, Clean
<1>2. RInv /\ [Next]_vars => RInv'
  BY CausesKept, StepInv DEF RInv
<1> QED
  BY <1>1, <1>2, InitInv, PTL DEF Spec, RInv

-----------------------------------------------------------------------------
(* Each step keeps the promise. *)

(* A step that moves no visitor disturbs the queue at most. *)
LEMMA QuietStep ==
  ASSUME TypeOK, [Next]_vars, UNCHANGED <<current, visitor_ch, incoming, pool, visitors>>
  PROVE  [Promise!Next]_(Promise!vars)
<1>1. Line' = Line /\ (pool # "stopped")' = (pool # "stopped")
  BY DEF Line, Hand
<1>2. Clean \in BOOLEAN /\ Clean' \in BOOLEAN
  BY DEF Clean
<1>3. CASE Clean' = Clean
  BY <1>1, <1>3 DEF Promise!vars
<1>4. CASE Clean' # Clean
  <2>1. Clean = TRUE /\ Clean' = FALSE
    BY <1>2, <1>4, CleanFades
  <2>2. Promise!Disturb
    BY <1>1, <2>1 DEF Promise!Disturb
  <2> QED
    BY <2>2 DEF Promise!Next
<1> QED
  BY <1>3, <1>4

(* What every step of the listener and the pool keeps. *)
LEMMA CleanUnchanged ==
  ASSUME UNCHANGED <<handle, faults>>
  PROVE  Clean' = Clean
BY DEF Clean

(* An arrival or a refusal is a step of the promised queue. *)
LEMMA SomeoneComes ==
  ASSUME NEW v \in Visitor, Promise!Arrive(v) \/ Promise!Refuse(v)
  PROVE  Promise!Next
<1>1. v \in Promise!Visitor
  BY DEF Promise!Visitor
<1>2. \E w \in Promise!Visitor : Promise!Arrive(w) \/ Promise!Refuse(w)
  BY <1>1, Zenon
<1> QED
  BY <1>2, Zenon DEF Promise!Next

(* The listener takes a visitor: it joins the line, or is refused once the control task is gone. *)
LEMMA AcceptKeepsPromise ==
  ASSUME RInv, NEW v \in Visitor, Accept(v)
  PROVE  Promise!Next
<1> USE DEF RInv, IInv, registry, clientSide
<1>1. /\ visitors[v] = "outside" /\ \A u \in 1..(v - 1) : visitors[u] # "outside"
      /\ Clean' = Clean /\ pool' = pool
      /\ UNCHANGED <<current, visitor_ch>>
  BY CleanUnchanged DEF Accept
<1>2. Promise!ComesNext(v)
  BY <1>1 DEF Promise!ComesNext
<1>3. incoming = NoVisitor
  BY DEF Accept, Hands
<1>4. CASE control = "running"
  <2>1. incoming' = v /\ visitors' = [visitors EXCEPT ![v] = "accepted"]
    BY <1>4 DEF Accept
  <2>2. Hand(incoming) = <<>> /\ Hand(incoming)' = <<v>>
    <3>1. v # NoVisitor
      BY SizesAssumption
    <3> QED
      BY <1>3, <2>1, <3>1 DEF Hand
  <2>3. Line = Hand(current) \o visitor_ch
    BY <2>2, LineFacts, ConcatEmptySeq DEF Line
  <2>4. Line' = (Hand(current) \o visitor_ch) \o <<v>>
    BY <1>1, <2>2 DEF Line, Hand
  <2>5. Line' = Append(Line, v)
    BY <2>3, <2>4, LineFacts, AppendIsConcat
  <2>6. Promise!Arrive(v)
    BY <1>1, <1>2, <2>1, <2>5 DEF Promise!Arrive
  <2> QED
    BY <2>6, SomeoneComes
<1>5. CASE control = "stopped"
  <2>1. ~Clean
    BY <1>5 DEF Causes
  <2>2. incoming' = incoming /\ visitors' = [visitors EXCEPT ![v] = "closed"]
    BY <1>5 DEF Accept
  <2>3. Line' = Line
    BY <1>1, <2>2 DEF Line, Hand
  <2>4. Promise!Refuse(v)
    BY <1>1, <1>2, <2>1, <2>2, <2>3 DEF Promise!Refuse
  <2> QED
    BY <2>4, SomeoneComes
<1> QED
  BY <1>4, <1>5 DEF Accept

(* Moving to the queue keeps the place in the line; a stopped pool hangs up. *)
LEMMA DeliverKeepsPromise ==
  ASSUME RInv, Deliver
  PROVE  [Promise!Next]_(Promise!vars)
<1> USE DEF RInv, IInv, registry, clientSide
<1>1. /\ incoming \in Visitor /\ incoming # NoVisitor
      /\ incoming' = NoVisitor
      /\ Clean' = Clean /\ UNCHANGED <<pool, current>>
  BY CleanUnchanged DEF Deliver, Hands, TypeOK
<1>2. Hand(incoming) = <<incoming>> /\ Hand(incoming)' = <<>> /\ Hand(current)' = Hand(current)
  BY <1>1 DEF Hand
<1>3. CASE pool # "stopped"
  <2>1. visitor_ch' = Append(visitor_ch, incoming) /\ visitors' = visitors
    BY <1>3 DEF Deliver
  <2>2. visitor_ch' = visitor_ch \o <<incoming>>
    BY <1>1, <2>1, AppendIsConcat DEF TypeOK
  <2>3. Hand(current) \o visitor_ch' \in Seq(Visitor)
    BY <1>1, <2>1, LineFacts, AppendProperties, ConcatProperties DEF TypeOK
  <2>4. Line' = Hand(current) \o visitor_ch'
    BY <1>2, <2>3, ConcatEmptySeq DEF Line
  <2>5. Line' = Line
    BY <1>2, <2>2, <2>4, LineFacts
  <2> QED
    BY <1>1, <2>1, <2>5 DEF Promise!vars
<1>4. CASE pool = "stopped"
  <2>1. visitor_ch = <<>> /\ visitor_ch' = <<>> /\ current = NoVisitor
    BY <1>4 DEF Deliver, Drained
  <2>2. visitors' = [visitors EXCEPT ![incoming] = "closed"]
    BY <1>4 DEF Deliver
  <2>3. Hand(current) = <<>>
    BY <2>1 DEF Hand
  <2>4. Line = <<incoming>>
    BY <1>1, <1>2, <2>1, <2>3, LineFacts, ConcatEmptySeq
  <2>5. Line' = <<>>
    BY <1>2, <2>1, <2>3, EmptySeq, ConcatEmptySeq DEF Line
  <2>6. Len(Line) = 1 /\ Line[1] = incoming /\ Line # <<>>
    BY <2>4, EmptySeq
  <2>7. Line' = SubSeq(Line, 1 + 1, Len(Line))
    BY <2>5, <2>6, SubSeqEmpty
  <2>8. visitors' = [v \in Visitor |-> IF \E i \in 1..1 : Line[i] = v THEN "closed"
                                       ELSE visitors[v]]
    <3>1. \A v \in Visitor : (\E i \in 1..1 : Line[i] = v) <=> v = incoming
      BY <2>6
    <3>2. visitors' = [v \in Visitor |-> IF v = incoming THEN "closed" ELSE visitors[v]]
      BY <2>2 DEF TypeOK
    <3> QED
      BY <3>1, <3>2
  <2>9. Promise!HangUp
    BY <1>1, <1>4, <2>6, <2>7, <2>8 DEF Promise!HangUp, Promise!TurnAway
  <2> QED
    BY <2>9 DEF Promise!Next
<1> QED
  BY <1>3, <1>4

(* Moving from the queue to the hand of the pool keeps the place in the line. *)
LEMMA TakeKeepsPromise ==
  ASSUME RInv, TakeVisitor
  PROVE  [Promise!Next]_(Promise!vars)
<1> USE DEF RInv, IInv, registry, clientSide
<1>1. /\ visitor_ch # <<>> /\ current = NoVisitor
      /\ current' = Head(visitor_ch) /\ visitor_ch' = Tail(visitor_ch)
      /\ pool # "stopped" /\ pool' # "stopped"
      /\ Clean' = Clean /\ UNCHANGED <<incoming, visitors>>
  BY CleanUnchanged DEF TakeVisitor, Hands
<1>2. Hand(incoming)' = Hand(incoming) /\ Hand(current) = <<>>
  BY <1>1 DEF Hand
<1>3. Head(visitor_ch) \in Visitor
  BY <1>1, TailFacts DEF TypeOK
<1>4. Hand(current)' = <<Head(visitor_ch)>>
  BY <1>1, <1>3, SizesAssumption DEF Hand
<1>5. Hand(current)' \o visitor_ch' = visitor_ch
  BY <1>1, <1>4, HeadTailConcat DEF TypeOK
<1>6. Hand(current) \o visitor_ch = visitor_ch
  BY <1>2, ConcatEmptySeq DEF TypeOK
<1>7. Line' = Line
  BY <1>2, <1>5, <1>6 DEF Line
<1> QED
  BY <1>1, <1>7 DEF Promise!vars

(* The pool serves the head of the line; only a fault breaks its channel. *)
LEMMA PairKeepsPromise ==
  ASSUME RInv, Pair
  PROVE  Promise!Next
<1> USE DEF RInv, IInv, registry, clientSide
<1>1. /\ pool # "stopped" /\ pool' # "stopped"
      /\ current \in Visitor /\ current # NoVisitor /\ current' = NoVisitor
      /\ Clean' = Clean /\ UNCHANGED <<visitor_ch, incoming>>
  BY CleanUnchanged DEF Pair, Hands, TypeOK
<1>2. /\ Hand(current) = <<current>> /\ Hand(current)' = <<>>
      /\ Hand(incoming)' = Hand(incoming)
  BY <1>1 DEF Hand
<1>3. visitor_ch \o Hand(incoming) \in Seq(Visitor)
  BY LineFacts, ConcatProperties DEF TypeOK
<1>4. Line = <<current>> \o (visitor_ch \o Hand(incoming))
  BY <1>2, LineFacts
<1>5. Line' = visitor_ch \o Hand(incoming)
  BY <1>1, <1>2, ConcatEmptySeq DEF Line, TypeOK
<1>6. Line # <<>> /\ Head(Line) = current /\ Line' = Tail(Line)
  BY <1>1, <1>3, <1>4, <1>5, BehindHead
<1>7. Clean => Head(data_ch) = "open"
  <2>1. SUFFICES ASSUME Clean PROVE Head(data_ch) = "open"
    OBVIOUS
  <2>2. Len(data_ch) \in Nat \ {0} /\ DOMAIN data_ch = 1..Len(data_ch)
        /\ Head(data_ch) = data_ch[1]
    BY EmptySeq, LenProperties DEF Pair, TypeOK
  <2> QED
    BY <2>1, <2>2 DEF Causes
<1>8. PICK fate \in {"forwarding"} \cup (IF Clean THEN {} ELSE {"closed"}) :
        visitors' = [visitors EXCEPT ![Head(Line)] = fate]
  BY <1>6, <1>7 DEF Pair
<1>9. Promise!Serve
  BY <1>1, <1>6, <1>8 DEF Promise!Serve
<1> QED
  BY <1>9 DEF Promise!Next

(* Whoever the pool holds is turned away; whom the listener holds is not. *)
LEMMA StopKeepsPromise ==
  ASSUME RInv, PoolStops, pool # "stopped", ~Clean, UNCHANGED <<handle, faults, incoming>>
  PROVE  Promise!Next
<1> USE DEF RInv, IInv
<1> DEFINE front == Hand(current) \o visitor_ch
           k == Len(front)
<1>1. /\ pool' = "stopped" /\ current' = NoVisitor /\ visitor_ch' = <<>>
      /\ Clean' = Clean
      /\ visitors' = [v \in Visitor |-> IF v \in Queued(visitor_ch) \cup {current}
                                        THEN "closed" ELSE visitors[v]]
  BY CleanUnchanged DEF PoolStops, Close
<1>2. /\ front \in Seq(Visitor) /\ Hand(incoming) \in Seq(Visitor)
      /\ Hand(current) \in Seq(Visitor) /\ Line = front \o Hand(incoming)
  BY LineFacts DEF Line
<1>3. Hand(current)' = <<>> /\ Hand(incoming)' = Hand(incoming)
  BY <1>1 DEF Hand
<1>4. Line' = Hand(incoming)
  BY <1>1, <1>2, <1>3, EmptySeq, ConcatEmptySeq DEF Line
<1>5. Line' = SubSeq(Line, k + 1, Len(Line))
  BY <1>2, <1>4, RemoveFront
<1>6. k \in 0..Len(Line) /\ \A i \in 1..k : Line[i] = front[i]
  <2>1. Len(Line) = k + Len(Hand(incoming)) /\ k \in Nat /\ Len(Hand(incoming)) \in Nat
        /\ \A i \in 1..k + Len(Hand(incoming)) :
             Line[i] = IF i <= k THEN front[i] ELSE Hand(incoming)[i - k]
    BY <1>2, ConcatProperties, LenProperties
  <2> QED
    BY <2>1
<1>7. \A v \in Visitor : v \in Queued(visitor_ch) \cup {current}
                           <=> \E i \in 1..k : front[i] = v
  <2>1. /\ k = Len(Hand(current)) + Len(visitor_ch)
        /\ \A i \in 1..Len(Hand(current)) + Len(visitor_ch) :
             front[i] = IF i <= Len(Hand(current)) THEN Hand(current)[i]
                        ELSE visitor_ch[i - Len(Hand(current))]
    BY <1>2, ConcatProperties DEF TypeOK
  <2>2. Len(visitor_ch) \in Nat /\ DOMAIN visitor_ch = 1..Len(visitor_ch)
    BY LenProperties DEF TypeOK
  <2>3. CASE current = NoVisitor
    <3>1. Len(Hand(current)) = 0
      BY <2>3, EmptySeq DEF Hand
    <3>2. k = Len(visitor_ch) /\ \A i \in 1..k : front[i] = visitor_ch[i]
      BY <2>1, <2>2, <3>1
    <3>3. \A v \in Visitor : v # current
      BY <2>3
    <3> QED
      BY <2>2, <3>2, <3>3 DEF Queued
  <2>4. CASE current # NoVisitor
    <3>1. Len(Hand(current)) = 1 /\ Hand(current)[1] = current
      BY <2>4 DEF Hand
    <3>2. /\ k = Len(visitor_ch) + 1 /\ front[1] = current
          /\ \A i \in 2..k : front[i] = visitor_ch[i - 1]
      BY <2>1, <2>2, <3>1
    <3>3. ASSUME NEW v \in Visitor, v \in Queued(visitor_ch)
          PROVE  \E i \in 1..k : front[i] = v
      <4>1. PICK j \in 1..Len(visitor_ch) : visitor_ch[j] = v
        BY <2>2, <3>3 DEF Queued
      <4>2. j + 1 \in 2..k /\ j + 1 \in 1..k /\ (j + 1) - 1 = j
        BY <2>2, <3>2
      <4>3. front[j + 1] = v
        BY <3>2, <4>1, <4>2
      <4> QED
        BY <4>2, <4>3
    <3>4. ASSUME NEW v \in Visitor, NEW i \in 1..k, front[i] = v
          PROVE  v \in Queued(visitor_ch) \cup {current}
      <4>1. CASE i = 1
        BY <3>2, <3>4, <4>1
      <4>2. CASE i # 1
        <5>1. i \in 2..k /\ i - 1 \in 1..Len(visitor_ch)
          BY <2>2, <3>2, <4>2
        <5>2. visitor_ch[i - 1] = v
          BY <3>2, <3>4, <5>1
        <5> QED
          BY <2>2, <5>1, <5>2 DEF Queued
      <4> QED
        BY <4>1, <4>2
    <3>5. 1 \in 1..k
      BY <2>2, <3>2
    <3> QED
      BY <3>2, <3>3, <3>4, <3>5
  <2> QED
    BY <2>3, <2>4
<1>8. visitors' = [v \in Visitor |-> IF \E i \in 1..k : Line[i] = v THEN "closed"
                                     ELSE visitors[v]]
  <2>1. \A v \in Visitor : v \in Queued(visitor_ch) \cup {current}
                             <=> \E i \in 1..k : Line[i] = v
    BY <1>6, <1>7
  <2> HIDE DEF k
  <2> QED
    BY <1>1, <2>1
<1>9. Promise!TurnAway(k)
  BY <1>5, <1>8 DEF Promise!TurnAway
<1>10. Promise!End
  <2> HIDE DEF k
  <2> QED
    BY <1>1, <1>6, <1>9 DEF Promise!End
<1> QED
  BY <1>10 DEF Promise!Next

(* Each step of the pool serves, ends, or leaves the line as it is. *)
LEMMA PoolKeepsPromise ==
  ASSUME RInv, [Next]_vars, PoolStep
  PROVE  [Promise!Next]_(Promise!vars)
<1> USE DEF RInv, IInv, registry, clientSide
<1>1. CASE TakeVisitor
  BY <1>1, TakeKeepsPromise
<1>2. CASE Pair
  BY <1>2, PairKeepsPromise
<1>3. CASE ReplaceBroken /\ control = "running"
  BY <1>3, QuietStep DEF ReplaceBroken
<1>4. CASE ReplaceBroken /\ control = "stopped"
  BY <1>4, StopKeepsPromise DEF ReplaceBroken, Causes
<1>5. CASE NoMoreVisitors
  BY <1>5, StopKeepsPromise DEF NoMoreVisitors, Causes
<1>6. CASE NoMoreChannels
  BY <1>6, StopKeepsPromise DEF NoMoreChannels, Clean
<1> QED
  BY <1>1, <1>2, <1>3, <1>4, <1>5, <1>6 DEF PoolStep, ReplaceBroken

(* Every step of the session is a step of the promised queue or a stutter. *)
LEMMA StepKeepsPromise ==
  ASSUME RInv, [Next]_vars
  PROVE  [Promise!Next]_(Promise!vars)
<1> USE DEF RInv, IInv, registry, serverTasks, clientSide
<1>1. CASE Bind \/ ListenerShutdown \/ UNCHANGED vars
  BY <1>1, QuietStep DEF Bind, ListenerShutdown, vars
<1>2. CASE Deliver
  BY <1>2, DeliverKeepsPromise
<1>3. CASE \E v \in Visitor : Accept(v)
  BY <1>3, AcceptKeepsPromise
<1>4. CASE PoolStep
  BY <1>4, PoolKeepsPromise
<1>5. CASE ControlStep \/ ClientStep
  BY <1>5, QuietStep
     DEF ControlStep, SendCreate, ControlEnds, ClientStep, ReceiveCreate, ClientEnds
<1>6. CASE DialOk \/ DialFail \/ LookupHandle \/ SendChannel
  BY <1>6, QuietStep DEF DialOk, DialFail, LookupHandle, SendChannel
<1>7. CASE WantRemoval \/ RemoveHandle \/ Disconnect \/ BreakChannel
  BY <1>7, QuietStep DEF WantRemoval, RemoveHandle, Disconnect, BreakChannel
<1> QED
  BY <1>1, <1>2, <1>3, <1>4, <1>5, <1>6, <1>7 DEF Next, ListenerStep

(***************************************************************************)
(* The session is a line of visitors: nobody is turned away unless         *)
(* something failed or the service was removed, whatever the sizes of the  *)
(* queues and the pool.                                                    *)
(***************************************************************************)
THEOREM SessionKeepsPromise == Spec => Promise!Spec
<1>1. Init => Promise!Init
  <2>1. SUFFICES ASSUME Init PROVE Promise!Init
    OBVIOUS
  <2>2. Hand(current) = <<>> /\ Hand(incoming) = <<>> /\ visitor_ch = <<>>
    BY <2>1 DEF Init, Hand
  <2>3. Line = <<>>
    BY <2>2, EmptySeq, ConcatEmptySeq DEF Line
  <2> QED
    BY <2>1, <2>3 DEF Init, Promise!Init, Clean
<1> QED
  BY <1>1, RInvariance, StepKeepsPromise, PTL DEF Spec, Promise!Spec

(***************************************************************************)
(* Visitors are served in the order they were accepted, for any number of  *)
(* visitors, any pool and any queue.                                       *)
(***************************************************************************)
THEOREM VisitorsInOrder == Spec => ServedInOrder
<1> DEFINE InOrder ==
             \A v \in Visitor :
               visitors[v] = "accepted" /\ visitors'[v] = "forwarding"
                 => \A u \in 1..(v - 1) : visitors[u] \in {"forwarding", "closed"}
<1>1. Promise!Init => PromiseProofs!Init
  BY DEF Promise!Init, PromiseProofs!Init, PromiseProofs!Visitor
<1>2. [Promise!Next]_(Promise!vars) => [PromiseProofs!Next]_(PromiseProofs!vars)
  BY DEF Promise!Next, PromiseProofs!Next, Promise!vars, PromiseProofs!vars,
         Promise!Arrive, PromiseProofs!Arrive, Promise!Refuse, PromiseProofs!Refuse,
         Promise!ComesNext, PromiseProofs!ComesNext, Promise!Serve, PromiseProofs!Serve,
         Promise!Disturb, PromiseProofs!Disturb, Promise!End, PromiseProofs!End,
         Promise!HangUp, PromiseProofs!HangUp, Promise!TurnAway, PromiseProofs!TurnAway,
         PromiseProofs!Visitor
<1>3. Promise!Spec => PromiseProofs!Spec
  BY <1>1, <1>2, PTL DEF Promise!Spec, PromiseProofs!Spec
<1>4. PromiseProofs!Spec => PromiseProofs!ServedInOrder
  BY SizesAssumption, PromiseProofs!PromiseInOrder
<1>5. [InOrder]_(PromiseProofs!vars) => [InOrder]_vars
  BY DEF PromiseProofs!vars
<1>6. PromiseProofs!ServedInOrder => [][InOrder]_(PromiseProofs!vars)
  BY DEF PromiseProofs!ServedInOrder, PromiseProofs!Visitor
<1>7. PromiseProofs!ServedInOrder => [][InOrder]_vars
  BY <1>5, <1>6, PTL
<1> QED
  BY <1>3, <1>4, <1>7, SessionKeepsPromise DEF ServedInOrder

=============================================================================
