--------------------------- MODULE MCSupervision ---------------------------
(* Supervision for TLC: the root, one descendant and one command slot. *)
EXTENDS Supervision

CONSTANTS root, kid, k1
=============================================================================
