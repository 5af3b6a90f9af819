----------------------------- MODULE MCJobRunner -----------------------------
(* Small instances of JobRunner for TLC. *)
EXTENDS JobRunner, TLC

CONSTANTS p1, o1, j1, j2, e1

\* One organization with one project, where everything lives.
OneOrg     == [p \in Projects |-> o1]
OneProject == [x \in Jobs \cup Events |-> p1]

\* Bound: a job matches its events from the start, and is edited only once a
\* run of it was started (whoever has read the job by then sees it change).
EditedInFlight ==
  \A j \in Jobs : /\ job[j].row # "absent" => job[j].matches
                  /\ job[j].rev > 0 => \E r \in Runs : JobOf(r) = j /\ run[r] # "none"

\* Bound: nobody archives the project or deletes a job.
Quiet == archived = {} /\ \A j \in Jobs : job[j].row # "deleted"

\* Bound: and the API goes down by crashing only.
NoShutdown == Quiet /\ up # "stopping"

\* Bound: and no user cancels a run.
Unattended == NoShutdown /\ \A r \in Runs : run[r] # "cancelled"
=============================================================================
