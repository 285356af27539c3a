--------------------------- MODULE MCClientControl ---------------------------
(***************************************************************************)
(* ClientControl for TLC: a handle, the one that replaces it and one more, *)
(* so that two dropped tasks can race the one that stays.                  *)
(***************************************************************************)
EXTENDS ClientControl

=============================================================================
