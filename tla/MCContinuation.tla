--------------------------- MODULE MCContinuation ---------------------------
(* Continuation for TLC: two recoveries beside supervisor and guardian. *)
EXTENDS Continuation

CONSTANTS r1, r2
=============================================================================
