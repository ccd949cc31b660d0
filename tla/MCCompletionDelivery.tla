------------------------ MODULE MCCompletionDelivery ------------------------
(* Model values for the CompletionDelivery configurations. *)
EXTENDS CompletionDelivery

CONSTANT c1
=============================================================================
