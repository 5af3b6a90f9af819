------------------------------ MODULE MCSynthesis ------------------------------
(* Small instances of Synthesis for TLC. *)
EXTENDS Synthesis, TLC

CONSTANTS p1, c1, u1

\* Every observation belongs to the one project.
OneProject == [o \in Observations |-> p1]

\* The model plans nothing at all, or to create c1 and to update u1.
TwoPlans == {{}, {c1, u1}}
=============================================================================
