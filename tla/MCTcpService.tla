---------------------------- MODULE MCTcpService ----------------------------
(***************************************************************************)
(* TcpService for TLC. The sizes come from the .cfg: ChanSize = 3 and      *)
(* PoolSize = 1 meet RoomAssumption with equality, so the queue of data    *)
(* channels can be exactly full; five visitors fill the listener's hand,   *)
(* the visitor queue and the pool's hand.                                  *)
(***************************************************************************)
EXTENDS TcpService

=============================================================================
