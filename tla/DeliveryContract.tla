--------------------------- MODULE DeliveryContract ---------------------------
(***************************************************************************)
(* What the delivery queue promises about one trusted event and one job,   *)
(* whatever the leases, attempts and revisions behind it: the pair is      *)
(* enqueued once, worked on by one attempt at a time and at most MaxTries  *)
(* times, and once done or dead it stays so.  A job never has two          *)
(* deliveries in work.                                                     *)
(***************************************************************************)
EXTENDS Naturals

CONSTANTS
  Items,      \* event/job pairs
  Owner(_),   \* the job of a pair
  MaxTries    \* attempts before giving up

VARIABLES
  status,     \* [Items -> {"absent", "waiting", "working", "done", "dead"}]
  tries       \* [Items -> Nat]

contractVars == <<status, tries>>

ContractInit ==
  /\ status = [i \in Items |-> "absent"]
  /\ tries = [i \in Items |-> 0]

\* One pair in one step.
Enqueue(i)  == status[i] = "absent" /\ status'[i] = "waiting" /\ tries'[i] = tries[i]
Begin(i)    == /\ status[i] = "waiting" /\ status'[i] = "working"
               /\ tries[i] < MaxTries /\ tries'[i] = tries[i] + 1
Succeed(i)  == status[i] = "working" /\ status'[i] = "done" /\ tries'[i] = tries[i]
GiveBack(i) == /\ status[i] = "working" /\ status'[i] = "waiting"
               /\ tries[i] < MaxTries /\ tries'[i] = tries[i]
GiveUp(i)   == /\ status[i] \in {"waiting", "working"} /\ status'[i] = "dead"
               /\ tries'[i] = tries[i]
Rest(i)     == status'[i] = status[i] /\ tries'[i] = tries[i]

OneInWorkPerOwner ==
  \A i, k \in Items :
    status[i] = "working" /\ status[k] = "working" /\ Owner(i) = Owner(k) => i = k

\* Several pairs may move together: an event fans out to many jobs, and a
\* deletion gives up everything the job still waits for.
ContractNext ==
  /\ \A i \in Items :
       Enqueue(i) \/ Begin(i) \/ Succeed(i) \/ GiveBack(i) \/ GiveUp(i) \/ Rest(i)
  /\ OneInWorkPerOwner'

ContractSpec == ContractInit /\ [][ContractNext]_contractVars
=============================================================================
