---------------------------- MODULE MCJobDelivery ----------------------------
(* Small instances of JobDelivery for TLC. *)
EXTENDS JobDelivery, TLC

CONSTANTS p1, o1, j1, e1, e2

\* One organization with one project, where everything lives.
OneOrg     == [p \in Projects |-> o1]
OneProject == [x \in Jobs \cup Events |-> p1]

\* Bound: a job that is edited is not started by hand as well.
EditedOrStarted ==
  \A j \in Jobs : job[j].rev = 0 \/ \A r \in OrdinaryRuns : run[r] = "none"
=============================================================================
