---------------------------- MODULE MCUdpTunnel -----------------------------
(***************************************************************************)
(* UdpTunnel for TLC: one visitor, every queue with room for one packet,   *)
(* so that each can be full while the others are. A second forwarder could *)
(* only be one too many for the visitor. Nothing bounds the number of      *)
(* packets, failures or lives of the forwarder.                            *)
(***************************************************************************)
EXTENDS UdpTunnel

=============================================================================
