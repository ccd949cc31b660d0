------------------------------ MODULE MCReaper ------------------------------
(* Constants of the reaper's model: b is nested work accepted under a.     *)
EXTENDS Reaper, TLC
CONSTANTS a, b, r1, r2
MCParent == (a :> None) @@ (b :> a)
MCShard == (a :> 0) @@ (b :> 1)
=============================================================================
