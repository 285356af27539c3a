----------------------------- MODULE VisitorQueue -----------------------------
(***************************************************************************)
(* What the session of a TCP service promises its visitors, without the    *)
(* tasks, queues and channels that keep the promise: they wait in one      *)
(* line, are served from its head, and none is turned away as long as      *)
(* nothing failed and the service was not removed. TcpService implements   *)
(* it.                                                                     *)
(***************************************************************************)
EXTENDS Integers, Sequences

CONSTANT MaxVisitors  \* bound: visitors of one behaviour

Visitor == 1..MaxVisitors

VARIABLES
  clean,    \* no failure yet, and the service has not been removed
  serving,  \* may a waiting visitor still be served?
  waiting,  \* the line
  visitors  \* what has become of each visitor

vars == <<clean, serving, waiting, visitors>>

Init ==
  /\ clean = TRUE /\ serving = TRUE
  /\ waiting = <<>>
  /\ visitors = [v \in Visitor |-> "outside"]

(* v is the next that connects. *)
ComesNext(v) ==
  visitors[v] = "outside" /\ \A u \in 1..(v - 1) : visitors[u] # "outside"

Arrive(v) ==
  /\ ComesNext(v)
  /\ waiting' = Append(waiting, v)
  /\ visitors' = [visitors EXCEPT ![v] = "accepted"]
  /\ UNCHANGED <<clean, serving>>

Refuse(v) ==
  /\ ~clean
  /\ ComesNext(v)
  /\ visitors' = [visitors EXCEPT ![v] = "closed"]
  /\ UNCHANGED <<clean, serving, waiting>>

(* A visitor is closed instead if its channel turns out to be broken. *)
Serve ==
  /\ serving
  /\ waiting # <<>>
  /\ waiting' = Tail(waiting)
  /\ \E fate \in {"forwarding"} \cup (IF clean THEN {} ELSE {"closed"}) :
       visitors' = [visitors EXCEPT ![Head(waiting)] = fate]
  /\ UNCHANGED <<clean, serving>>

(* A failure or the removal of the service. *)
Disturb ==
  /\ clean
  /\ clean' = FALSE
  /\ UNCHANGED <<serving, waiting, visitors>>

(* The first k are turned away. *)
TurnAway(k) ==
  /\ waiting' = SubSeq(waiting, k + 1, Len(waiting))
  /\ visitors' = [v \in Visitor |-> IF \E i \in 1..k : waiting[i] = v THEN "closed"
                                    ELSE visitors[v]]

(* Serving ends for good; who has just come in may be noticed later. *)
End ==
  /\ ~clean /\ serving
  /\ serving' = FALSE
  /\ \E k \in 0..Len(waiting) : TurnAway(k)
  /\ UNCHANGED clean

HangUp ==
  /\ ~serving
  /\ waiting # <<>>
  /\ TurnAway(1)
  /\ UNCHANGED <<clean, serving>>

Next ==
  \/ \E v \in Visitor : Arrive(v) \/ Refuse(v)
  \/ Serve \/ Disturb \/ End \/ HangUp

Spec == Init /\ [][Next]_vars

(* No visitor waits for a service that has ended. *)
FairSpec == Spec /\ WF_vars(HangUp)

-----------------------------------------------------------------------------
(***************************************************************************)
(* Visitors are served in the order they were accepted: no visitor starts  *)
(* forwarding while an earlier one still waits for its channel.            *)
(***************************************************************************)
ServedInOrder ==
  [][\A v \in Visitor :
        visitors[v] = "accepted" /\ visitors'[v] = "forwarding"
          => \A u \in 1..(v - 1) : visitors[u] \in {"forwarding", "closed"}]_vars

=============================================================================
