---------------------------- MODULE MCActivation ----------------------------
(* Model values for the Activation configurations. *)
EXTENDS Activation

CONSTANTS d1, d2
=============================================================================
