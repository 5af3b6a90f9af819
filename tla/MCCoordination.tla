--------------------------- MODULE MCCoordination ---------------------------
(* A small instance of Coordination for TLC. *)
EXTENDS Coordination, TLC

\* Sessions and claim keys are interchangeable.
Interchangeable == Permutations(Sessions) \cup Permutations(Batches)

\* Bound: one session at a time has an admission, while one batch is claimed
\* or none.
FewAdmissions ==
  /\ \A s, t \in Sessions : admission[s] # "none" /\ admission[t] # "none" => s = t
  /\ \A a, b \in Batches :
       claim[a].state # "unused" /\ claim[b].state # "unused" /\ a # b
         => \A s \in Sessions : admission[s] = "none"
=============================================================================
