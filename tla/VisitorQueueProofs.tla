-------------------------- MODULE VisitorQueueProofs --------------------------
(***************************************************************************)
(* The line of VisitorQueue is in the order of arrival, so whoever is at   *)
(* its head has no earlier visitor waiting.                                *)
(***************************************************************************)
EXTENDS VisitorQueue, SequenceTheorems, TLAPS

Ascending == \A i, j \in 1..Len(waiting) : i < j => waiting[i] < waiting[j]

(* Exactly the accepted are in the line, and who is still outside comes    *)
(* after them.                                                             *)
Lined ==
  /\ \A v \in Visitor : visitors[v] = "accepted" => \E i \in 1..Len(waiting) : waiting[i] = v
  /\ \A i \in 1..Len(waiting) : visitors[waiting[i]] # "outside"
  /\ \A u, v \in Visitor : u < v /\ visitors[u] = "outside" => visitors[v] = "outside"

Types ==
  /\ waiting \in Seq(Visitor)
  /\ visitors \in [Visitor -> {"outside", "accepted", "forwarding", "closed"}]

IInv == Types /\ Ascending /\ Lined

USE DEF Visitor

(* The empty line is in order. *)
LEMMA InitEstablishes == Init => IInv
  BY EmptySeq DEF Init, IInv, Types, Ascending, Lined

(* The next visitor goes behind all the others. *)
LEMMA ArrivePreserves ==
  ASSUME MaxVisitors \in Nat, IInv, NEW v \in Visitor, Arrive(v)
  PROVE  IInv'
<1>1. /\ waiting' \in Seq(Visitor) /\ Len(waiting') = Len(waiting) + 1
      /\ \A i \in 1..Len(waiting) : waiting'[i] = waiting[i]
      /\ waiting'[Len(waiting) + 1] = v
  BY AppendProperties DEF IInv, Types, Arrive
<1>2. Len(waiting) \in Nat /\ \A i \in 1..Len(waiting) : waiting[i] \in Visitor
  BY LenProperties, ElementOfSeq DEF IInv, Types
<1>3. \A u \in Visitor : visitors'[u] = IF u = v THEN "accepted" ELSE visitors[u]
  BY DEF IInv, Types, Arrive
<1>4. visitors[v] = "outside" /\ \A u \in Visitor : u < v => visitors[u] # "outside"
  BY DEF Arrive, ComesNext
<1>5. \A i \in 1..Len(waiting) : waiting[i] < v
  <2>1. SUFFICES ASSUME NEW i \in 1..Len(waiting) PROVE waiting[i] < v
    OBVIOUS
  <2>2. visitors[waiting[i]] # "outside" /\ waiting[i] \in Visitor
    BY <1>2 DEF IInv, Lined
  <2> QED
    BY <1>4, <2>2 DEF IInv, Lined
<1>6. Types'
  BY <1>1 DEF IInv, Types, Arrive
<1>7. Ascending'
  <2>1. SUFFICES ASSUME NEW i \in 1..Len(waiting'), NEW j \in 1..Len(waiting'), i < j
                 PROVE  waiting'[i] < waiting'[j]
    BY DEF Ascending
  <2>2. i \in 1..Len(waiting)
    BY <1>1, <1>2, <2>1
  <2>3. CASE j = Len(waiting) + 1
    BY <1>1, <1>5, <2>2, <2>3
  <2>4. CASE j # Len(waiting) + 1
    <3>1. j \in 1..Len(waiting)
      BY <1>1, <1>2, <2>4
    <3> QED
      BY <1>1, <2>1, <2>2, <3>1 DEF IInv, Ascending
  <2> QED
    BY <2>3, <2>4
<1>8. Lined'
  <2>1. ASSUME NEW u \in Visitor, visitors'[u] = "accepted"
        PROVE  \E i \in 1..Len(waiting') : waiting'[i] = u
    <3>1. CASE u = v
      BY <1>1, <1>2, <3>1
    <3>2. CASE u # v
      <4>1. PICK i \in 1..Len(waiting) : waiting[i] = u
        BY <1>3, <2>1, <3>2 DEF IInv, Lined
      <4>2. i \in 1..Len(waiting') /\ waiting'[i] = u
        BY <1>1, <1>2, <4>1
      <4> QED
        BY <4>2
    <3> QED
      BY <3>1, <3>2
  <2>2. ASSUME NEW i \in 1..Len(waiting')
        PROVE  visitors'[waiting'[i]] # "outside"
    <3>1. CASE i = Len(waiting) + 1
      BY <1>1, <1>3, <3>1
    <3>2. CASE i # Len(waiting) + 1
      <4>1. i \in 1..Len(waiting)
        BY <1>1, <1>2, <3>2
      <4> QED
        BY <1>1, <1>2, <1>3, <4>1 DEF IInv, Lined
    <3> QED
      BY <3>1, <3>2
  <2>3. ASSUME NEW u \in Visitor, NEW w \in Visitor, u < w, visitors'[u] = "outside"
        PROVE  visitors'[w] = "outside"
    BY <1>3, <1>4, <2>3 DEF IInv, Lined
  <2> QED
    BY <2>1, <2>2, <2>3 DEF Lined
<1> QED
  BY <1>6, <1>7, <1>8 DEF IInv

(* The first k leave the line, and none of them waits any more. *)
LEMMA LeavePreserves ==
  ASSUME MaxVisitors \in Nat, IInv, NEW k \in 0..Len(waiting),
         waiting' = SubSeq(waiting, k + 1, Len(waiting)),
         NEW fate \in {"forwarding", "closed"},
         visitors' = [v \in Visitor |-> IF \E i \in 1..k : waiting[i] = v THEN fate
                                        ELSE visitors[v]]
  PROVE  IInv'
<1>1. Len(waiting) \in Nat /\ \A i \in 1..Len(waiting) : waiting[i] \in Visitor
  BY LenProperties, ElementOfSeq DEF IInv, Types
<1>2. /\ waiting' \in Seq(Visitor) /\ Len(waiting') = Len(waiting) - k
      /\ \A i \in 1..(Len(waiting) - k) : waiting'[i] = waiting[k + i]
  <2>1. /\ SubSeq(waiting, k + 1, Len(waiting)) \in Seq(Visitor)
        /\ Len(SubSeq(waiting, k + 1, Len(waiting))) =
             IF k + 1 <= Len(waiting) THEN Len(waiting) - (k + 1) + 1 ELSE 0
        /\ \A i \in 1..(Len(waiting) - (k + 1) + 1) :
             SubSeq(waiting, k + 1, Len(waiting))[i] = waiting[(k + 1) + i - 1]
    BY <1>1, SubSeqProperties DEF IInv, Types
  <2> QED
    BY <1>1, <2>1
<1>3. Types'
  BY <1>2 DEF IInv, Types
<1>4. Ascending'
  BY <1>1, <1>2 DEF IInv, Ascending
<1>5. Lined'
  <2>1. ASSUME NEW v \in Visitor, visitors'[v] = "accepted"
        PROVE  \E i \in 1..Len(waiting') : waiting'[i] = v
    <3>1. visitors[v] = "accepted" /\ ~\E i \in 1..k : waiting[i] = v
      BY <2>1
    <3>2. PICK i \in 1..Len(waiting) : waiting[i] = v
      BY <3>1 DEF IInv, Lined
    <3>3. i \notin 1..k
      BY <3>1, <3>2
    <3>4. i - k \in 1..Len(waiting') /\ waiting'[i - k] = v
      BY <1>1, <1>2, <3>2, <3>3
    <3> QED
      BY <3>4
  <2>2. ASSUME NEW i \in 1..Len(waiting')
        PROVE  visitors'[waiting'[i]] # "outside"
    <3>1. k + i \in 1..Len(waiting) /\ waiting'[i] = waiting[k + i]
      BY <1>1, <1>2
    <3> QED
      BY <1>1, <3>1 DEF IInv, Lined
  <2>3. ASSUME NEW u \in Visitor, NEW w \in Visitor, u < w, visitors'[u] = "outside"
        PROVE  visitors'[w] = "outside"
    <3>1. visitors[u] = "outside"
      BY <2>3
    <3>2. visitors[w] = "outside"
      BY <2>3, <3>1 DEF IInv, Lined
    <3>3. ~\E i \in 1..k : waiting[i] = w
      BY <1>1, <3>2 DEF IInv, Lined
    <3> QED
      BY <3>2, <3>3
  <2> QED
    BY <2>1, <2>2, <2>3 DEF Lined
<1> QED
  BY <1>3, <1>4, <1>5 DEF IInv

(* A refused visitor was the next one outside. *)
LEMMA RefusePreserves ==
  ASSUME MaxVisitors \in Nat, IInv, NEW v \in Visitor, Refuse(v)
  PROVE  IInv'
<1>1. /\ waiting' = waiting /\ visitors[v] = "outside"
      /\ \A u \in Visitor : visitors'[u] = IF u = v THEN "closed" ELSE visitors[u]
      /\ \A u \in Visitor : u < v => visitors[u] # "outside"
  BY DEF IInv, Types, Refuse, ComesNext
<1>2. Types' /\ Ascending'
  BY <1>1 DEF IInv, Types, Ascending, Refuse
<1>3. \A i \in 1..Len(waiting) : waiting[i] \in Visitor
  BY LenProperties, ElementOfSeq DEF IInv, Types
<1>4. Lined'
  BY <1>1, <1>3 DEF IInv, Lined
<1> QED
  BY <1>2, <1>4 DEF IInv

(* Serving is leaving the line at its head. *)
LEMMA ServeIsLeave ==
  ASSUME MaxVisitors \in Nat, IInv, Serve
  PROVE  /\ 1 \in 0..Len(waiting)
         /\ waiting' = SubSeq(waiting, 1 + 1, Len(waiting))
         /\ waiting[1] \in Visitor
         /\ \E fate \in {"forwarding", "closed"} :
              visitors' = [v \in Visitor |-> IF \E i \in 1..1 : waiting[i] = v THEN fate
                                             ELSE visitors[v]]
<1>1. waiting \in Seq(Visitor) /\ waiting # <<>>
  BY DEF IInv, Types, Serve
<1>2. Len(waiting) \in Nat \ {0} /\ Head(waiting) = waiting[1] /\ waiting[1] \in Visitor
  BY <1>1, EmptySeq, LenProperties, ElementOfSeq
<1>3. Tail(waiting) = SubSeq(waiting, 1 + 1, Len(waiting))
  BY <1>1, TailIsSubSeq
<1>4. PICK fate \in {"forwarding", "closed"} :
        visitors' = [visitors EXCEPT ![waiting[1]] = fate]
  BY <1>2 DEF Serve
<1>5. visitors' = [v \in Visitor |-> IF \E i \in 1..1 : waiting[i] = v THEN fate
                                     ELSE visitors[v]]
  <2>1. \A v \in Visitor : (\E i \in 1..1 : waiting[i] = v) <=> v = waiting[1]
    OBVIOUS
  <2>2. visitors' \in [Visitor -> {"outside", "accepted", "forwarding", "closed"}]
    BY <1>2, <1>4 DEF IInv, Types
  <2>3. \A v \in Visitor : visitors'[v] = IF v = waiting[1] THEN fate ELSE visitors[v]
    BY <1>2, <1>4 DEF IInv, Types
  <2>4. \A v \in Visitor : visitors'[v] = IF \E i \in 1..1 : waiting[i] = v THEN fate
                                          ELSE visitors[v]
    BY <2>1, <2>3
  <2> QED
    BY <2>2, <2>4
<1>6. 1 \in 0..Len(waiting)
  BY <1>2
<1> QED
  BY <1>2, <1>3, <1>5, <1>6 DEF Serve

(* Every step keeps the line in order. *)
LEMMA NextPreserves ==
  ASSUME MaxVisitors \in Nat, IInv, [Next]_vars
  PROVE  IInv'
<1>1. CASE \E v \in Visitor : Arrive(v) \/ Refuse(v)
  BY <1>1, ArrivePreserves, RefusePreserves
<1>2. CASE Serve
  BY <1>2, ServeIsLeave, LeavePreserves
<1>3. CASE Disturb \/ UNCHANGED vars
  BY <1>3 DEF IInv, Types, Ascending, Lined, Disturb, vars
<1>4. CASE End
  BY <1>4, LeavePreserves DEF End, TurnAway
<1>5. CASE HangUp
  <2>1. 1 \in 0..Len(waiting)
    BY <1>5, EmptySeq, LenProperties DEF HangUp, IInv, Types
  <2> QED
    BY <1>5, <2>1, LeavePreserves DEF HangUp, TurnAway
<1> QED
  BY <1>1, <1>2, <1>3, <1>4, <1>5 DEF Next

(* A visitor that begins to forward was at the head of the line. *)
LEMMA StepInOrder ==
  ASSUME MaxVisitors \in Nat, IInv, [Next]_vars,
         NEW v \in Visitor, visitors[v] = "accepted", visitors'[v] = "forwarding",
         NEW u \in 1..(v - 1)
  PROVE  visitors[u] \in {"forwarding", "closed"}
<1>1. u \in Visitor /\ u < v
  OBVIOUS
<1>2. Serve
  <2>1. CASE \E w \in Visitor : Arrive(w) \/ Refuse(w)
    BY <2>1 DEF Arrive, Refuse, IInv, Types
  <2>2. CASE Disturb \/ UNCHANGED vars
    BY <2>2 DEF Disturb, vars
  <2>3. CASE End \/ HangUp
    BY <2>3 DEF End, HangUp, TurnAway
  <2> QED
    BY <2>1, <2>2, <2>3 DEF Next
<1>3. v = waiting[1] /\ 1 \in 1..Len(waiting)
  BY <1>2, ServeIsLeave, LenProperties DEF IInv, Types
<1>4. visitors[u] # "outside"
  BY <1>1 DEF IInv, Lined
<1>5. visitors[u] # "accepted"
  <2>1. SUFFICES ASSUME visitors[u] = "accepted" PROVE FALSE
    OBVIOUS
  <2>2. PICK i \in 1..Len(waiting) : waiting[i] = u
    BY <1>1, <2>1 DEF IInv, Lined
  <2>3. i = 1 \/ 1 < i
    BY <2>2
  <2> QED
    BY <1>1, <1>3, <2>2, <2>3 DEF IInv, Ascending
<1> QED
  BY <1>1, <1>4, <1>5 DEF IInv, Types

(***************************************************************************)
(* In every behaviour of the promised queue visitors are served in the     *)
(* order they were accepted.                                               *)
(***************************************************************************)
THEOREM PromiseInOrder ==
  ASSUME MaxVisitors \in Nat
  PROVE  Spec => ServedInOrder
<1>1. Spec => []IInv
  BY InitEstablishes, NextPreserves, PTL DEF Spec
<1>2. ASSUME IInv, [Next]_vars
      PROVE  [\A v \in Visitor :
                visitors[v] = "accepted" /\ visitors'[v] = "forwarding"
                  => \A u \in 1..(v - 1) : visitors[u] \in {"forwarding", "closed"}]_vars
  BY <1>2, StepInOrder
<1> QED
  BY <1>1, <1>2, PTL DEF Spec, ServedInOrder

=============================================================================
