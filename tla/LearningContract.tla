--------------------------- MODULE LearningContract ---------------------------
(***************************************************************************)
(* What the learning pipeline promises about the observations of each      *)
(* project, whatever the workers, leases, locks and crashes behind it: one *)
(* batch of waiting observations at a time goes through its stages in      *)
(* order, each of them once, as if a single worker that never fails did    *)
(* them one after the other.                                               *)
(***************************************************************************)
EXTENDS Naturals

CONSTANTS
  Projects, Observations,
  HomeOf,     \* [Observations -> Projects]
  Fits(_),    \* are these observations few enough for one batch?
  Plans,
  NoPlan

VARIABLES
  seen,       \* [Observations -> {"absent", "pending", "processed"}]
  taught,     \* how often an observation was learnt from
  work        \* the batch of each project

contractVars == <<seen, taught, work>>

NoWork == [stage |-> "none", members |-> {}, plan |-> NoPlan]

ContractInit ==
  /\ seen = [o \in Observations |-> "absent"]
  /\ taught = [o \in Observations |-> 0]
  /\ work = [p \in Projects |-> NoWork]

\* The batch of project p goes from one stage to the next.
Moves(p, from, to) ==
  work[p].stage = from /\ work' = [work EXCEPT ![p].stage = to]

\* Observations that wait, and were not learnt from, become a batch.
Begin(p) ==
  /\ work[p] = NoWork
  /\ \E members \in SUBSET {o \in Observations : HomeOf[o] = p /\ seen[o] = "pending"} :
       /\ members # {} /\ Fits(members)
       /\ \A o \in members : taught[o] = 0
       /\ work' = [work EXCEPT ![p] = [stage |-> "created", members |-> members,
                                       plan |-> NoPlan]]
  /\ UNCHANGED <<seen, taught>>

\* All of its members are learnt from, for the first time.
Learn(p) ==
  /\ Moves(p, "created", "traits_applied")
  /\ \A o \in work[p].members : taught[o] = 0
  /\ taught' = [o \in Observations |-> IF o \in work[p].members THEN 1 ELSE taught[o]]
  /\ UNCHANGED seen

\* It gets its plan, which stays.
Decide(p) ==
  /\ work[p].stage = "traits_applied" /\ work[p].plan = NoPlan
  /\ \E plan \in Plans : work' = [work EXCEPT ![p].plan = plan]
  /\ UNCHANGED <<seen, taught>>

\* The plan is before the reviewers.
Offer(p) ==
  /\ Moves(p, "traits_applied", "proposals_applied")
  /\ work[p].plan # NoPlan
  /\ UNCHANGED <<seen, taught>>

\* All of its members still wait, and are done with together.
Complete(p) ==
  /\ work[p].stage = "proposals_applied"
  /\ \A o \in work[p].members : seen[o] = "pending" /\ taught[o] = 1
  /\ seen' = [o \in Observations |->
                IF o \in work[p].members THEN "processed" ELSE seen[o]]
  /\ work' = [work EXCEPT ![p] = NoWork]
  /\ UNCHANGED taught

\* A user adds an observation, or sets its status: one that goes back to
\* waiting outside of a batch may be learnt from again.
Patch(o, status) ==
  /\ seen[o] # status /\ seen' = [seen EXCEPT ![o] = status]
  /\ seen[o] = "absent" => status = "pending"
  /\ \/ UNCHANGED taught
     \/ /\ status = "pending" /\ seen[o] = "processed"
        /\ o \notin work[HomeOf[o]].members
        /\ taught' = [taught EXCEPT ![o] = 0]
  /\ UNCHANGED work

ContractNext ==
  \/ \E p \in Projects : Begin(p) \/ Learn(p) \/ Decide(p) \/ Offer(p) \/ Complete(p)
  \/ \E o \in Observations, status \in {"pending", "processed"} : Patch(o, status)

ContractSpec == ContractInit /\ [][ContractNext]_contractVars
=============================================================================
