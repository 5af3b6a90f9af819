------------------------------ MODULE MCRestore ------------------------------
(* Instances of Restore for TLC: steps that throw and crashes anywhere up   *)
(* to the completion, and the same with faults in the tidying after it.     *)
EXTENDS Restore, TLC
=============================================================================
