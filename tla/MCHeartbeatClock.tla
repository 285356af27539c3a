-------------------------- MODULE MCHeartbeatClock --------------------------
(***************************************************************************)
(* HeartbeatClock for TLC, for every interval and timeout up to a bound:   *)
(* timeouts shorter than, equal to and longer than the interval and the    *)
(* delay, with a backoff to follow. The horizon lies beyond the longest    *)
(* deadline the properties name.                                           *)
(***************************************************************************)
EXTENDS HeartbeatClock

=============================================================================
