--------------------------- MODULE MCUdpForwarder ---------------------------
(***************************************************************************)
(* UdpForwarder for TLC, for the runs of the client end alone: with one    *)
(* visitor and one forwarder an entry can outlive its forwarder; with two  *)
(* visitors and a forwarder for each the loop has a packet of one while    *)
(* the forwarder of the other cleans up. The queues have room for one      *)
(* packet, so all are often full.                                          *)
(***************************************************************************)
EXTENDS UdpForwarder

=============================================================================
