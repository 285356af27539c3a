-------------------------- MODULE MCControlChannels --------------------------
(***************************************************************************)
(* ControlChannels for TLC. Services are model values. Three connections   *)
(* give a session, the handshake that replaces it and a data channel for   *)
(* the first; two changes remove a service and add it again. A service of  *)
(* type UDP does all that one of type TCP does, and is held up in its arms *)
(* besides.                                                                *)
(***************************************************************************)
EXTENDS ControlChannels

=============================================================================
