------------------------- MODULE HeartbeatClockProofs -------------------------
(***************************************************************************)
(* Proofs about HeartbeatClock: how long a session lives and how long a    *)
(* dead one is kept, for every interval, timeout, delay and horizon.       *)
(***************************************************************************)
EXTENDS HeartbeatClock, TLAPS

(***************************************************************************)
(* The client's timer is as old as the last command it read. That command  *)
(* was the last one written, or one written at most an interval before     *)
(* some command that is still on its way.                                  *)
(***************************************************************************)
Fresh ==
  server = "running" /\ link = "up" /\ client = "running" /\ interval # 0
    => \/ wire = {} /\ quiet <= idle
       \/ \E a \in wire : quiet <= a + interval

(* No command reaches the client after a cut, so its timer counts the cut, *)
(* and the backoff begins when that runs out.                              *)
Unreached ==
  /\ link = "dead" => wire = {}
  /\ ~Cut => cut = 0
  /\ client = "running" /\ timeout # 0 => cut <= quiet
  /\ client = "backoff" /\ timeout # 0 => cut <= timeout + quiet

(* The three phases of the server after a cut: until it writes, until TCP  *)
(* gives that write up, and until it writes again.                         *)
Phases ==
  server = "running" /\ interval # 0 =>
    /\ socket = "fine" => cut <= idle
    /\ socket = "stalled" => cut <= interval + stalled
    /\ socket = "broken" => cut <= interval + WriteTimeout + idle

IInv == TypeOK /\ Fresh /\ Unreached /\ Phases

USE DEF Connected

-----------------------------------------------------------------------------
(* The Ack is fresh, nothing is cut. *)
LEMMA InitEstablishes == Init => IInv
  BY ClockAssumption DEF Init, IInv, TypeOK, Fresh, Unreached, Phases, Cut

(* A write of the server, for a request or as a heartbeat. *)
LEMMA WritePreserves ==
  ASSUME IInv, server = "running", Written \/ WriteFails,
         UNCHANGED <<config, link, clientVars, cut>>
  PROVE  IInv'
<1> USE ClockAssumption
<1> USE DEF config, clientVars
<1>1. CASE Written
  <2>1. TypeOK'
    BY <1>1 DEF IInv, TypeOK, Written
  <2>2. Fresh'
    <3>1. CASE Cut
      BY <1>1, <3>1 DEF IInv, Written, Fresh, Cut
    <3>2. CASE ~Cut
      <4>1. wire' = wire \cup {0} /\ idle' = 0
        BY <1>1, <3>2 DEF Written
      <4>2. CASE wire = {} /\ quiet <= idle
        BY <4>1, <4>2 DEF IInv, TypeOK, Fresh
      <4>3. CASE \E a \in wire : quiet <= a + interval
        BY <4>1, <4>3 DEF Fresh
      <4> QED
        BY <4>1, <4>2, <4>3 DEF IInv, Fresh
    <3> QED
      BY <3>1, <3>2
  <2>3. Unreached'
    BY <1>1 DEF IInv, Unreached, Written, Cut
  <2>4. Phases'
    BY <1>1 DEF IInv, TypeOK, Unreached, Phases, Written, Cut
  <2> QED
    BY <2>1, <2>2, <2>3, <2>4 DEF IInv
<1>2. CASE WriteFails
  BY <1>2 DEF IInv, TypeOK, Fresh, Unreached, Phases, WriteFails, Cut
<1> QED
  BY <1>1, <1>2

(* A command restarts the client's timer. *)
LEMMA DeliverPreserves == IInv /\ Deliver => IInv'
<1> SUFFICES ASSUME IInv, Deliver PROVE IInv'
  OBVIOUS
<1> USE DEF config, serverVars
<1>1. link = "up" /\ ~Cut /\ cut = 0 /\ wire' \subseteq wire
  BY DEF IInv, TypeOK, Unreached, Deliver, Cut
<1>2. TypeOK'
  BY <1>1 DEF IInv, TypeOK, Deliver
<1>3. Fresh'
  <2>1. quiet' = 0 /\ interval' = interval /\ interval \in Nat
    BY ClockAssumption DEF IInv, TypeOK, Deliver
  <2>2. quiet' <= idle'
    BY DEF IInv, TypeOK, Deliver
  <2>3. ASSUME NEW a \in wire' PROVE quiet' <= a + interval
    <3>1. a \in Nat
      BY <1>1, ClockAssumption DEF IInv, TypeOK
    <3> QED
      BY <2>1, <3>1
  <2> QED
    BY <2>1, <2>2, <2>3 DEF Fresh
<1>4. Unreached'
  BY <1>1 DEF Unreached, Deliver, Cut
<1>5. Phases'
  BY DEF IInv, Phases, Deliver
<1> QED
  BY <1>2, <1>3, <1>4, <1>5 DEF IInv

(* Whatever ends the session of the client, the cut begins now at the latest. *)
LEMMA ClientLeavesPreserves ==
  ASSUME IInv, ClientStops \/ ClientFails \/ DialAgain
  PROVE  IInv'
<1> USE ClockAssumption
<1> USE DEF config, serverVars
<1>1. TypeOK'
  <2>1. CASE ClientFails
    BY <2>1 DEF IInv, TypeOK, ClientFails
  <2>2. CASE ClientStops \/ DialAgain
    <3>1. client' \in {"dialing", "stopped"} /\ quiet' = quiet
      BY <2>2 DEF ClientStops, DialAgain
    <3>2. UNCHANGED <<config, serverVars, wire, link, cut>>
      BY <2>2 DEF ClientStops, DialAgain
    <3> QED
      BY <3>1, <3>2 DEF IInv, TypeOK
  <2> QED
    BY <2>1, <2>2
<1>2. client' # "running" /\ Fresh'
  BY DEF Fresh, ClientStops, ClientFails, DialAgain
<1>3. Unreached'
  <2>1. CASE ClientFails
    <3>1. timeout # 0 => cut <= quiet /\ quiet <= timeout
      BY <2>1 DEF IInv, TypeOK, Unreached, ClientFails
    <3>2. timeout # 0 => cut' <= timeout' + quiet'
      BY <2>1, <3>1 DEF IInv, TypeOK, ClientFails
    <3> QED
      BY <2>1, <3>2 DEF IInv, Unreached, ClientFails, Cut
  <2>2. CASE ClientStops \/ DialAgain
    BY <2>2 DEF IInv, Unreached, ClientStops, DialAgain, Cut
  <2> QED
    BY <2>1, <2>2
<1>4. Phases'
  BY DEF IInv, Phases, ClientStops, ClientFails, DialAgain
<1> QED
  BY <1>1, <1>2, <1>3, <1>4 DEF IInv

(* Time passes only while nobody is late. *)
LEMMA TickPreserves == IInv /\ Tick => IInv'
<1> SUFFICES ASSUME IInv, Tick PROVE IInv'
  OBVIOUS
<1> USE ClockAssumption
<1> USE DEF config
<1>1. TypeOK'
  <2>1. wire' \subseteq 0..Delay
    <3>1. CASE ~Connected
      BY <3>1 DEF IInv, TypeOK, Tick
    <3>2. CASE Connected
      <4>1. wire' = {a + 1 : a \in wire} /\ \A a \in wire : a \in 0..Delay /\ a < Delay
        BY <3>2 DEF IInv, TypeOK, Tick
      <4> QED
        BY <4>1
    <3> QED
      BY <3>1, <3>2
  <2>2. idle' \in 0..interval
    BY DEF IInv, TypeOK, Tick, HeartbeatDue
  <2>3. /\ quiet' \in Nat
        /\ Connected' => quiet' <= timeout
        /\ client' = "backoff" => quiet' <= MaxBackoff
    <3>1. CASE client = "backoff"
      BY <3>1 DEF IInv, TypeOK, Tick, BackoffDue
    <3>2. CASE client # "backoff"
      BY <3>2 DEF IInv, TypeOK, Tick, TimeoutDue
    <3> QED
      BY <3>1, <3>2
  <2>4. stalled' \in 0..WriteTimeout /\ cut' \in 0..Horizon
    BY DEF IInv, TypeOK, Tick
  <2> QED
    BY <2>1, <2>2, <2>3, <2>4 DEF IInv, TypeOK, Tick
<1>2. Fresh'
  <2>1. SUFFICES ASSUME server = "running", link = "up", client = "running", interval # 0
                 PROVE  \/ wire' = {} /\ quiet' <= idle'
                        \/ \E a \in wire' : quiet' <= a + interval
    BY DEF Fresh, Tick
  <2>2. /\ idle' = idle + 1 /\ quiet' <= quiet + 1 /\ quiet' \in Nat
        /\ wire' = {a + 1 : a \in wire}
    BY <2>1 DEF IInv, TypeOK, Tick
  <2>3. CASE wire = {} /\ quiet <= idle
    BY <2>2, <2>3 DEF IInv, TypeOK
  <2>4. CASE \E a \in wire : quiet <= a + interval
    <3>1. PICK a \in wire : quiet <= a + interval
      BY <2>4
    <3>2. a + 1 \in wire' /\ a \in Nat
      BY <2>2 DEF IInv, TypeOK
    <3>3. quiet' <= (a + 1) + interval
      BY <2>2, <3>1, <3>2 DEF IInv, TypeOK
    <3> QED
      BY <3>2, <3>3
  <2> QED
    BY <2>1, <2>3, <2>4 DEF IInv, Fresh
<1>3. Unreached'
  <2>1. wire = {} => wire' = {}
    BY DEF Tick
  <2>2. ~Cut' => cut' = 0
    BY DEF IInv, Unreached, Tick, Cut
  <2>3. client' = "running" /\ timeout' # 0 => cut' <= quiet'
    BY DEF IInv, TypeOK, Unreached, Tick, Cut
  <2>4. client' = "backoff" /\ timeout' # 0 => cut' <= timeout' + quiet'
    BY DEF IInv, TypeOK, Unreached, Tick, Cut
  <2> QED
    BY <2>1, <2>2, <2>3, <2>4 DEF IInv, Unreached, Tick
<1>4. Phases'
  BY DEF IInv, TypeOK, Unreached, Phases, Tick, Cut
<1> QED
  BY <1>1, <1>2, <1>3, <1>4 DEF IInv

(* Every step of the two sides and every tick keep the invariant. *)
LEMMA NextPreserves == IInv /\ [Next]_vars => IInv'
<1> SUFFICES ASSUME IInv, [Next]_vars PROVE IInv'
  OBVIOUS
<1>1. CASE Request
  BY <1>1, WritePreserves DEF Request
<1>2. CASE Heartbeat
  BY <1>2, WritePreserves DEF Heartbeat
<1>3. CASE ServerShutdown
  BY <1>3 DEF IInv, TypeOK, Fresh, Unreached, Phases, ServerShutdown, Cut, config, clientVars
<1>4. CASE Deliver
  BY <1>4, DeliverPreserves
<1>5. CASE ClientStops \/ ClientTimesOut \/ EndOfStream \/ DialAgain
  BY <1>5, ClientLeavesPreserves DEF ClientTimesOut, EndOfStream
<1>6. CASE LinkDies
  BY <1>6 DEF IInv, TypeOK, Fresh, Unreached, Phases, LinkDies, Cut, config, serverVars, clientVars
<1>7. CASE SocketBreaks
  BY <1>7, ClockAssumption
     DEF IInv, TypeOK, Fresh, Unreached, Phases, SocketBreaks, Cut, config, clientVars
<1>8. CASE Tick
  BY <1>8, TickPreserves
<1>9. CASE UNCHANGED vars
  BY <1>9 DEF IInv, TypeOK, Fresh, Unreached, Phases, Cut, vars, config, serverVars, clientVars
<1> QED
  BY <1>1, <1>2, <1>3, <1>4, <1>5, <1>6, <1>7, <1>8, <1>9 DEF Next

(* The inductive invariant of the two timers. *)
THEOREM ClockInvariance == Spec => []IInv
  BY InitEstablishes, NextPreserves, PTL DEF Spec

(* No timer of HeartbeatClock runs past its deadline. *)
THEOREM TimersInRange == Spec => []TypeOK
<1>1. IInv => TypeOK
  BY DEF IInv
<1> QED
  BY <1>1, ClockInvariance, PTL

(***************************************************************************)
(* With interval + Delay < timeout the client of a living session never    *)
(* times out, whatever requests come between the heartbeats.               *)
(***************************************************************************)
THEOREM LivingSessionsStay == Spec => []NoSpuriousTimeout
<1>1. IInv => NoSpuriousTimeout
  <2> SUFFICES ASSUME IInv, interval # 0, interval + Delay < timeout, TimeoutDue,
                      link # "dead", server # "stopped"
               PROVE  FALSE
    BY DEF NoSpuriousTimeout
  <2>1. timeout <= quiet
    BY DEF IInv, TypeOK, TimeoutDue
  <2>2. CASE wire = {} /\ quiet <= idle
    BY <2>1, <2>2, ClockAssumption DEF IInv, TypeOK
  <2>3. CASE \E a \in wire : quiet <= a + interval
    BY <2>1, <2>3, ClockAssumption DEF IInv, TypeOK
  <2> QED
    BY <2>2, <2>3 DEF IInv, TypeOK, Fresh, TimeoutDue
<1> QED
  BY <1>1, ClockInvariance, PTL

(* The client leaves a dead session within heartbeat_timeout and dials     *)
(* again within the longest backoff after that.                            *)
THEOREM ClientLeavesInTime == Spec => []ClientNotices
<1>1. IInv => ClientNotices
  <2> SUFFICES ASSUME IInv, timeout # 0
               PROVE  /\ client = "running" => cut <= timeout
                      /\ client = "backoff" => cut <= timeout + MaxBackoff
    BY DEF ClientNotices
  <2>1. timeout \in Nat /\ quiet \in Nat /\ cut \in Nat /\ MaxBackoff \in Nat
    BY ClockAssumption DEF IInv, TypeOK
  <2>2. CASE client = "running"
    BY <2>1, <2>2 DEF IInv, TypeOK, Unreached
  <2>3. CASE client = "backoff"
    BY <2>1, <2>3 DEF IInv, TypeOK, Unreached
  <2> QED
    BY <2>2, <2>3
<1> QED
  BY <1>1, ClockInvariance, PTL

(* The server's control task ends within two intervals and TCP's own       *)
(* timeout.                                                                *)
THEOREM ServerLeavesInTime == Spec => []ServerNotices
<1>1. IInv => ServerNotices
  BY ClockAssumption DEF IInv, TypeOK, Phases, ServerNotices
<1> QED
  BY <1>1, ClockInvariance, PTL

=============================================================================
