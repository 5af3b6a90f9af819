----------------------------- MODULE JobDelivery -----------------------------
(***************************************************************************)
(* The durable half of job automation: the jobs, trusted events,           *)
(* deliveries, attempts and runs that ingenium-core keeps in SQLite, and   *)
(* the functions of lib/tools/job-event-deliveries.ts and                  *)
(* lib/tools/jobs.ts that change them.  Every function body is one         *)
(* execTransaction over a synchronous driver, so each is one action.       *)
(*                                                                         *)
(* The module is a contract for any caller: whoever was ever handed a      *)
(* claim may call heartbeat, persist-identity or complete with it at any   *)
(* time, late, twice, or after somebody else took the delivery over.       *)
(* A call that the code refuses changes nothing and is no step here.       *)
(***************************************************************************)
EXTENDS Integers, FiniteSets

CONSTANTS
  Projects,           \* projects.id
  Orgs,               \* organizations.id
  Jobs,               \* jobs.id of every job that may ever be created
  Events,             \* trusted_job_events.id of every event that may be recorded
  OrgOf,              \* [Projects -> Orgs]
  ProjectOf,          \* [Jobs \cup Events -> Projects]
  MaxAttempts,        \* JOB_EVENT_DELIVERY_MAX_ATTEMPTS (5 in the code)
  MaxGlobalRuns,      \* MAX_CONCURRENT_AUTOMATION_RUNS (2 in the code)
  MaxOrgRuns,         \* MAX_CONCURRENT_RUNS_PER_ORGANIZATION (1 in the code)
  LeaseTicks,         \* length of a lease in units of the heartbeat period
  Failures,           \* the outcomes other than success
  MaxRevision,        \* model bound on jobs.revision
  MaxOrdinary         \* model bound on manual and cron runs per job

ASSUME ConstantsAssumption ==
  /\ OrgOf \in [Projects -> Orgs]
  /\ ProjectOf \in [Jobs \cup Events -> Projects]
  /\ MaxAttempts \in Nat \ {0}
  /\ MaxGlobalRuns \in Nat \ {0}
  /\ MaxOrgRuns \in Nat \ {0}
  /\ LeaseTicks \in Nat \ {0}
  /\ Failures \subseteq {"failed", "timeout", "cancelled"}
  /\ {"failed", "cancelled"} \subseteq Failures
  /\ MaxRevision \in Nat
  /\ MaxOrdinary \in Nat

(***************************************************************************)
(* A delivery row is identified by its event and job                       *)
(* (UNIQUE(project_id, trusted_event_id, job_id)); a run by the attempt    *)
(* that created it, or by the job and the ordinal of the manual/cron run.  *)
(***************************************************************************)
Deliveries == {d \in Events \X Jobs : ProjectOf[d[1]] = ProjectOf[d[2]]}
Attempts   == 1..MaxAttempts

EventRuns    == [delivery : Deliveries, attempt : Attempts]
OrdinaryRuns == [job : Jobs, ordinal : 1..MaxOrdinary]
Runs         == EventRuns \cup OrdinaryRuns

EventRun(d, n) == [delivery |-> d, attempt |-> n]

JobOf(r)    == IF r \in EventRuns THEN r.delivery[2] ELSE r.job
RunOrg(r)   == OrgOf[ProjectOf[JobOf(r)]]
NoExpiry    == -1                      \* lease_expires_at IS NULL
NoOwner     == 0                       \* lease_owner_hash IS NULL

Waiting  == {"queued", "retry_wait"}
Settled  == {"succeeded", "dead_letter"}
Outcomes == {"success"} \cup Failures

DeliveryRows ==
  [state   : {"none", "leased"} \cup Waiting \cup Settled,
   attempt : 0..MaxAttempts,           \* attempt_count
   rev     : Nat,                      \* lease_revision
   next    : {"null", "later", "due"}, \* next_attempt_at, against the clock
   ttl     : NoExpiry..LeaseTicks,     \* lease_expires_at, against the clock
   owner   : 0..MaxAttempts,           \* lease_owner_hash: the claim it names
   jobRev  : Nat]                      \* job_revision at the snapshot

JobRows ==
  [row     : {"absent", "present", "deleted"},
   enabled : BOOLEAN,
   matches : BOOLEAN,                  \* trigger_event is the events' type
   rev     : Nat]                      \* revision

VARIABLES
  archived,    \* projects with archived_at set
  job,         \* jobs
  recorded,    \* trusted_job_events: the events appended so far
  dispatched,  \* job_event_dispatches: the events already snapshotted
  delivery,    \* job_event_deliveries
  run,         \* job_runs.status of every run, "none" before its INSERT
  identity     \* job_event_attempts rows (by run) with a process identity

vars == <<archived, job, recorded, dispatched, delivery, run, identity>>

TypeOK ==
  /\ archived \subseteq Projects
  /\ job \in [Jobs -> JobRows]
  /\ recorded \subseteq Events
  /\ dispatched \subseteq Events
  /\ delivery \in [Deliveries -> DeliveryRows]
  /\ run \in [Runs -> {"none", "running"} \cup Outcomes]
  /\ identity \subseteq EventRuns

-----------------------------------------------------------------------------
\* The CHECK constraint of job_event_deliveries; "none" is no row.
Unleased(row) == row.ttl = NoExpiry /\ row.owner = NoOwner

CheckHolds(row) ==
  \/ row.state = "none"
  \/ /\ row.state = "queued" /\ Unleased(row)
     /\ row.attempt = 0 /\ row.next # "null"
  \/ /\ row.state = "leased" /\ row.ttl # NoExpiry /\ row.owner # NoOwner
     /\ row.attempt \in Attempts /\ row.rev >= 1 /\ row.next = "null"
  \/ /\ row.state = "retry_wait" /\ Unleased(row)
     /\ row.attempt \in 1..(MaxAttempts - 1) /\ row.next # "null"
  \/ /\ row.state = "succeeded" /\ Unleased(row)
     /\ row.attempt \in Attempts /\ row.next = "null"
  \/ /\ row.state = "dead_letter" /\ Unleased(row)
     /\ row.attempt \in 0..MaxAttempts /\ row.next = "null"

NoDelivery ==
  [state |-> "none", attempt |-> 0, rev |-> 0, next |-> "null",
   ttl |-> NoExpiry, owner |-> NoOwner, jobRev |-> 0]

NoJob == [row |-> "absent", enabled |-> FALSE, matches |-> FALSE, rev |-> 0]

Init ==
  /\ archived = {}
  /\ job = [j \in Jobs |-> NoJob]
  /\ recorded = {}
  /\ dispatched = {}
  /\ delivery = [d \in Deliveries |-> NoDelivery]
  /\ run = [r \in Runs |-> "none"]
  /\ identity = {}

-----------------------------------------------------------------------------
\* The predicates the SQL statements share.

Active(r) == run[r] = "running"

ActiveRuns(o) == {r \in Runs : Active(r) /\ RunOrg(r) = o}

\* Defect: the limits compared with <= .
HasAutomationCapacityInclusive(o) ==
  /\ Cardinality({r \in Runs : Active(r)}) <= MaxGlobalRuns
  /\ Cardinality(ActiveRuns(o)) <= MaxOrgRuns

\* One dispatcher principal per organization (ensureAutomationPrincipal), with
\* the same limit, so the per-principal count is the per-organization count.
HasAutomationCapacity(o) ==
  /\ Cardinality({r \in Runs : Active(r)}) < MaxGlobalRuns
  /\ Cardinality(ActiveRuns(o)) < MaxOrgRuns

NoActiveRun(j) == \A r \in Runs : JobOf(r) = j => ~Active(r)

\* jobs.enabled = 1 AND jobs.trigger_event = trusted_job_events.event_type.
Deliverable(d) == job[d[2]].enabled /\ job[d[2]].matches

\* Defect: the owner check forgets lease_expires_at > now.
OwnsLeaseIgnoringExpiry(d, n) ==
  /\ delivery[d].state = "leased"
  /\ delivery[d].rev = n
  /\ delivery[d].owner = n

\* lease_revision, lease_owner_hash and lease_expires_at > now, for claim n.
OwnsLease(d, n) ==
  /\ delivery[d].state = "leased"
  /\ delivery[d].rev = n
  /\ delivery[d].owner = n
  /\ delivery[d].ttl > 0

\* The claims ever handed out for d: the callers that may still be running.
Claims(d) == 1..delivery[d].attempt

-----------------------------------------------------------------------------
\* Row updates: the SET lists of the UPDATE statements.

DeadLettered(row) ==
  [row EXCEPT !.state = "dead_letter", !.next = "null",
              !.ttl = NoExpiry, !.owner = NoOwner]

\* Defect: one attempt too many.
FailureStateOneMore(row, n, forceDeadLetter) ==
  IF forceDeadLetter \/ n > MaxAttempts
  THEN DeadLettered(row)
  ELSE [row EXCEPT !.state = "retry_wait", !.next = "later",
                   !.ttl = NoExpiry, !.owner = NoOwner]

FailureState(row, n, forceDeadLetter) ==
  IF forceDeadLetter \/ n >= MaxAttempts
  THEN DeadLettered(row)
  ELSE [row EXCEPT !.state = "retry_wait", !.next = "later",
                   !.ttl = NoExpiry, !.owner = NoOwner]

Succeeded(row) ==
  [row EXCEPT !.state = "succeeded", !.next = "null",
              !.ttl = NoExpiry, !.owner = NoOwner]

Leased(row) ==
  [row EXCEPT !.state = "leased", !.attempt = @ + 1, !.rev = @ + 1,
              !.next = "null", !.ttl = LeaseTicks, !.owner = row.attempt + 1]

\* UPDATE job_runs SET status ... WHERE status IN ('queued', 'running').
EndIfActive(r, status) ==
  run' = [run EXCEPT ![r] = IF Active(r) THEN status ELSE @]

-----------------------------------------------------------------------------
\* Trusted events.

AppendTrustedJobEvent(e) ==
  /\ e \notin recorded
  /\ recorded' = recorded \cup {e}
  /\ UNCHANGED <<archived, job, dispatched, delivery, run, identity>>

\* Defect: the snapshot does not look at the dispatch markers.
UndispatchedIgnoringMarkers(p) == {e \in recorded : ProjectOf[e] = p}

Undispatched(p) == {e \in recorded \ dispatched : ProjectOf[e] = p}

SnapshotTrustedJobEvents(p) ==
  /\ Undispatched(p) # {}
  /\ dispatched' = dispatched \cup Undispatched(p)
  /\ delivery' = [d \in Deliveries |->
       IF d[1] \in Undispatched(p) /\ Deliverable(d)
       THEN [NoDelivery EXCEPT !.state = "queued", !.next = "due",
                               !.jobRev = job[d[2]].rev]
       ELSE delivery[d]]
  /\ UNCHANGED <<archived, job, recorded, run, identity>>

-----------------------------------------------------------------------------
\* Claiming.

\* Defect: only the runs are looked at, not the leases.
NoLeasedDeliveryUnchecked(j) == j \in Jobs

NoLeasedDelivery(j) ==
  \A d \in Deliveries : d[2] = j => delivery[d].state # "leased"

\* Defect: deliveries that wait for a retry are not looked at.
ClaimableFirstAttemptOnly(d) ==
  /\ delivery[d].state = "queued"
  /\ delivery[d].next = "due"
  /\ Deliverable(d)
  /\ delivery[d].jobRev = job[d[2]].rev
  /\ HasAutomationCapacity(OrgOf[ProjectOf[d[2]]])
  /\ NoActiveRun(d[2])
  /\ NoLeasedDelivery(d[2])

Claimable(d) ==
  /\ delivery[d].state \in Waiting
  /\ delivery[d].next = "due"
  /\ Deliverable(d)
  /\ delivery[d].jobRev = job[d[2]].rev
  /\ HasAutomationCapacity(OrgOf[ProjectOf[d[2]]])
  /\ NoActiveRun(d[2])
  /\ NoLeasedDelivery(d[2])

\* The lease, the run and the attempt row of one claim, from the rows `from`.
Claim(d, from) ==
  /\ delivery' = [from EXCEPT ![d] = Leased(from[d])]
  /\ run' = [run EXCEPT ![EventRun(d, delivery[d].attempt + 1)] = "running"]
  /\ UNCHANGED <<archived, job, recorded, dispatched, identity>>

\* The scheduler's claim: any organization, archived projects included; which
\* of the eligible rows comes first is the round-robin cursor's business.
ClaimNextJobEventDelivery(d) == Claimable(d) /\ Claim(d, delivery)

\* The waiting rows of a project that can no longer be delivered.
ReconcileUndeliverable(p) ==
  [d \in Deliveries |->
     IF ProjectOf[d[1]] = p /\ delivery[d].state \in Waiting /\ ~Deliverable(d)
     THEN DeadLettered(delivery[d])
     ELSE delivery[d]]

\* The project-scoped claim reconciles undeliverable rows of its project
\* first, and claims nothing in an archived project.
ClaimJobEventDelivery(p) ==
  LET from == ReconcileUndeliverable(p)
      candidates == {d \in Deliveries : ProjectOf[d[1]] = p /\ Claimable(d)}
  IN  \/ /\ p \notin archived
         /\ \E d \in candidates : Claim(d, from)
      \/ /\ p \in archived \/ candidates = {}
         /\ from # delivery
         /\ delivery' = from
         /\ UNCHANGED <<archived, job, recorded, dispatched, run, identity>>

-----------------------------------------------------------------------------
\* The holder of claim n of delivery d.

HeartbeatJobEventDelivery(d, n) ==
  /\ OwnsLease(d, n)
  /\ delivery' = [delivery EXCEPT ![d].ttl = LeaseTicks]
  /\ UNCHANGED <<archived, job, recorded, dispatched, run, identity>>

PersistJobEventAttemptProcessIdentity(d, n) ==
  /\ OwnsLease(d, n)
  /\ EventRun(d, n) \notin identity
  /\ identity' = identity \cup {EventRun(d, n)}
  /\ UNCHANGED <<archived, job, recorded, dispatched, delivery, run>>

\* `force` stands for the error codes provenance_conflict and
\* ambiguous_process_ownership.  Every caller passes the run of its claim, so
\* the branch for an attempt row that is missing cannot be taken.
CompleteJobEventDelivery(d, n, outcome, force) ==
  /\ OwnsLease(d, n)
  /\ delivery[d].attempt = n
  /\ LET available == Deliverable(d)
     IN  /\ EndIfActive(EventRun(d, n), IF available THEN outcome ELSE "failed")
         /\ delivery' = [delivery EXCEPT ![d] =
              IF available /\ outcome = "success"
              THEN Succeeded(@)
              ELSE FailureState(@, n, ~available \/ force)]
  /\ UNCHANGED <<archived, job, recorded, dispatched, identity>>

\* Defect: the expired attempt's run is left running.
ResolveExpiredKeepingRun(d, n, resolution) ==
  /\ delivery[d].state = "leased"
  /\ delivery[d].rev = n
  /\ delivery[d].ttl = 0
  /\ delivery[d].attempt = n
  /\ delivery' = [delivery EXCEPT ![d] =
       FailureState(@, n, \/ resolution = "dead_letter"
                          \/ EventRun(d, n) \notin identity)]
  /\ UNCHANGED <<archived, job, recorded, dispatched, run, identity>>

\* Defect: the caller's "retry" is believed without process evidence.
ResolveExpiredTrustingCaller(d, n, resolution) ==
  /\ delivery[d].state = "leased"
  /\ delivery[d].rev = n
  /\ delivery[d].ttl = 0
  /\ delivery[d].attempt = n
  /\ EndIfActive(EventRun(d, n), "failed")
  /\ delivery' = [delivery EXCEPT ![d] =
       FailureState(@, n, resolution = "dead_letter")]
  /\ UNCHANGED <<archived, job, recorded, dispatched, identity>>

\* listExpiredJobEventLeases reads (revision, attempt) = (n, n) and this call
\* compares them again when it finally resolves the lease.
ResolveExpiredJobEventLease(d, n, resolution) ==
  /\ delivery[d].state = "leased"
  /\ delivery[d].rev = n
  /\ delivery[d].ttl = 0
  /\ delivery[d].attempt = n
  /\ EndIfActive(EventRun(d, n), "failed")
  /\ delivery' = [delivery EXCEPT ![d] =
       FailureState(@, n, \/ resolution = "dead_letter"
                          \/ EventRun(d, n) \notin identity)]
  /\ UNCHANGED <<archived, job, recorded, dispatched, identity>>

-----------------------------------------------------------------------------
\* Runs.

StartJobRun(j, k) ==
  LET r == [job |-> j, ordinal |-> k]
  IN  /\ run[r] = "none"
      /\ k > 1 => run[[job |-> j, ordinal |-> k - 1]] # "none"
      /\ job[j].row = "present"
      /\ job[j].enabled
      /\ NoActiveRun(j)
      /\ HasAutomationCapacity(OrgOf[ProjectOf[j]])
      /\ run' = [run EXCEPT ![r] = "running"]
      /\ UNCHANGED <<archived, job, recorded, dispatched, delivery, identity>>

\* The row is overwritten whatever its status.  The runner calls it for
\* ordinary runs, and for event runs only to fail one that is still active.
FinishJobRun(r, status) ==
  /\ run[r] # "none"
  /\ r \in EventRuns => Active(r) /\ status = "failed"
  /\ run' = [run EXCEPT ![r] = status]
  /\ UNCHANGED <<archived, job, recorded, dispatched, delivery, identity>>

CancelJobRun(r) ==
  /\ Active(r)
  /\ run' = [run EXCEPT ![r] = "cancelled"]
  /\ UNCHANGED <<archived, job, recorded, dispatched, delivery, identity>>

\* Startup only: manual and cron runs, never event runs.
RecoverInterruptedJobRuns ==
  /\ \E r \in OrdinaryRuns : Active(r)
  /\ run' = [r \in Runs |->
       IF r \in OrdinaryRuns /\ Active(r) THEN "failed" ELSE run[r]]
  /\ UNCHANGED <<archived, job, recorded, dispatched, delivery, identity>>

-----------------------------------------------------------------------------
\* Administration of jobs and projects.

CreateJob(j, matches) ==
  /\ job[j].row = "absent"
  /\ job' = [job EXCEPT ![j] =
       [row |-> "present", enabled |-> TRUE, matches |-> matches, rev |-> 0]]
  /\ UNCHANGED <<archived, recorded, dispatched, delivery, run, identity>>

\* Any edit bumps the revision, a change of name or prompt as well.
UpdateJob(j, enabled, matches) ==
  /\ job[j].row = "present"
  /\ job[j].rev < MaxRevision
  /\ job' = [job EXCEPT ![j].enabled = enabled, ![j].matches = matches,
                        ![j].rev = @ + 1]
  /\ UNCHANGED <<archived, recorded, dispatched, delivery, run, identity>>

HasActiveDelivery(j) ==
  \E d \in Deliveries :
    /\ d[2] = j
    /\ \/ delivery[d].state = "leased"
       \/ \E n \in Attempts : Active(EventRun(d, n))

DeleteJob(j) ==
  /\ job[j].row = "present"
  /\ ~HasActiveDelivery(j)
  /\ delivery' = [d \in Deliveries |->
       IF d[2] = j /\ delivery[d].state \in {"leased"} \cup Waiting
       THEN DeadLettered(delivery[d])
       ELSE delivery[d]]
  /\ job' = [job EXCEPT ![j].row = "deleted", ![j].enabled = FALSE,
                        ![j].rev = @ + 1]
  /\ UNCHANGED <<archived, recorded, dispatched, run, identity>>

ArchiveProject(p) ==
  /\ p \notin archived
  /\ archived' = archived \cup {p}
  /\ UNCHANGED <<job, recorded, dispatched, delivery, run, identity>>

UnarchiveProject(p) ==
  /\ p \in archived
  /\ archived' = archived \ {p}
  /\ UNCHANGED <<job, recorded, dispatched, delivery, run, identity>>

-----------------------------------------------------------------------------
\* The clock: what now() makes of lease_expires_at and next_attempt_at.

LeaseAges(d) ==
  /\ delivery[d].state = "leased"
  /\ delivery[d].ttl > 0
  /\ delivery' = [delivery EXCEPT ![d].ttl = @ - 1]
  /\ UNCHANGED <<archived, job, recorded, dispatched, run, identity>>

BackoffElapses(d) ==
  /\ delivery[d].next = "later"
  /\ delivery' = [delivery EXCEPT ![d].next = "due"]
  /\ UNCHANGED <<archived, job, recorded, dispatched, run, identity>>

-----------------------------------------------------------------------------
Record == \E e \in Events : AppendTrustedJobEvent(e)

Dispatch ==
  \/ \E p \in Projects : SnapshotTrustedJobEvents(p) \/ ClaimJobEventDelivery(p)
  \/ \E d \in Deliveries : ClaimNextJobEventDelivery(d)

\* Whatever the holder of claim n of delivery d, or the tick, may call.
HolderCall(d, n) ==
  \/ HeartbeatJobEventDelivery(d, n)
  \/ PersistJobEventAttemptProcessIdentity(d, n)
  \/ CompleteJobEventDelivery(d, n, "success", FALSE)
  \/ \E outcome \in Failures, force \in BOOLEAN :
       CompleteJobEventDelivery(d, n, outcome, force)
  \/ \E resolution \in {"retry", "dead_letter"} :
       ResolveExpiredJobEventLease(d, n, resolution)

Callers == \E d \in Deliveries : \E n \in Claims(d) : HolderCall(d, n)

RunCalls ==
  \/ \E j \in Jobs, k \in 1..MaxOrdinary : StartJobRun(j, k)
  \/ \E r \in Runs : CancelJobRun(r) \/ \E s \in Outcomes : FinishJobRun(r, s)
  \/ RecoverInterruptedJobRuns

Admin ==
  \/ \E j \in Jobs, m \in BOOLEAN :
       CreateJob(j, m) \/ \E enabled \in BOOLEAN : UpdateJob(j, enabled, m)
  \/ \E j \in Jobs : DeleteJob(j)
  \/ \E p \in Projects : ArchiveProject(p) \/ UnarchiveProject(p)

Clock == \E d \in Deliveries : LeaseAges(d) \/ BackoffElapses(d)

Next == Record \/ Dispatch \/ Callers \/ RunCalls \/ Admin \/ Clock

Spec == Init /\ [][Next]_vars

(***************************************************************************)
(* What the scheduler and the runner keep doing.  The event tick (every    *)
(* 10 s, scheduler.ts:440-478) snapshots and resolves in every project     *)
(* that is not archived and then claims while there is something to claim; *)
(* the runner ends every run it holds a live lease or an ordinary row for; *)
(* time passes.  Nothing obliges an administrator or a user to act.        *)
(***************************************************************************)
TickSnapshot(p) == p \notin archived /\ SnapshotTrustedJobEvents(p)

TickResolve(d) ==
  /\ ProjectOf[d[1]] \notin archived
  /\ \E n \in Claims(d), resolution \in {"retry", "dead_letter"} :
       ResolveExpiredJobEventLease(d, n, resolution)

HolderEnds(d) ==
  \E n \in Claims(d), outcome \in Outcomes :
    CompleteJobEventDelivery(d, n, outcome, FALSE)

RunnerEnds(r) == Active(r) /\ \E s \in Outcomes : FinishJobRun(r, s)

Fairness ==
  /\ \A p \in Projects : WF_vars(TickSnapshot(p))
  /\ WF_vars(\E d \in Deliveries : ClaimNextJobEventDelivery(d))
  /\ \A d \in Deliveries :
       /\ WF_vars(HolderEnds(d))
       /\ WF_vars(TickResolve(d))
       /\ WF_vars(BackoffElapses(d))
  /\ \A r \in OrdinaryRuns : WF_vars(RunnerEnds(r))

FairSpec == Spec /\ Fairness
-----------------------------------------------------------------------------
\* Properties.

\* The rows of four tables agree: an event run is running only while its
\* delivery is leased to exactly that attempt.  A run that outlived its lease
\* would hold the job's and the organization's slot for good, since no other
\* function ends an event run.
LeaseOwnsRun ==
  \A r \in EventRuns :
    Active(r) => /\ delivery[r.delivery].state = "leased"
                 /\ delivery[r.delivery].attempt = r.attempt

\* The three limits of docs/operations/jobs.md:21-24, however claims and
\* manual, cron and cancelled runs interleave: runs are counted by status in
\* three different statements and freed by six.
ConcurrencyLimits ==
  /\ Cardinality({r \in Runs : Active(r)}) <= MaxGlobalRuns
  /\ \A o \in Orgs : Cardinality(ActiveRuns(o)) <= MaxOrgRuns
  /\ \A r, s \in Runs : Active(r) /\ Active(s) /\ JobOf(r) = JobOf(s) => r = s

\* No statement of the code ever trips the CHECK of
\* 077_job_event_deliveries.sql:79-95 (it would abort the transaction and
\* leave the row as it was), and a row that is retried still has an attempt left.
RowConstraint == \A d \in Deliveries : CheckHolds(delivery[d])

\* A settled delivery never changes again: no late completion, expiry,
\* reconciliation or deletion touches a row that is succeeded or dead-lettered.
SettledForever ==
  [][\A d \in Deliveries :
       delivery[d].state \in Settled => delivery'[d] = delivery[d]]_vars

\* "Expired leases cannot resurrect": once the lease of an attempt has run out,
\* that attempt neither renews it nor reports success; the only way on is the
\* expiry resolution, which ends in retry_wait or dead_letter.
ExpiredLeaseIsLost ==
  [][\A d \in Deliveries :
       (delivery[d].state = "leased" /\ delivery[d].ttl = 0) =>
         \/ delivery'[d] = delivery[d]
         \/ delivery'[d].state \in {"retry_wait", "dead_letter"}]_vars

\* An attempt whose process left no complete identity is dead-lettered on
\* expiry, never handed to a second process (docs/operations/jobs.md:157).
RetryNeedsEvidence ==
  [][\A d \in Deliveries :
       (/\ delivery[d].state = "leased" /\ delivery[d].ttl = 0
        /\ delivery'[d].state = "retry_wait") =>
         EventRun(d, delivery[d].attempt) \in identity]_vars

\* An event is fanned out once, to the jobs that match it at that moment: a
\* job created, enabled or retargeted later never receives it.
NoBackfill ==
  [][\A d \in Deliveries :
       (d[1] \in dispatched /\ delivery[d].state = "none") =>
         delivery'[d].state = "none"]_vars

\* Every delivery settles in the end, whatever expires, is cancelled or fails
\* on the way, unless its project is archived for good or again and again (the
\* tick resolves no expired lease of a project it sees archived), or the job was
\* edited since the snapshot: the claim compares revisions, and nothing
\* refreshes or reconciles a waiting row that an edit left behind.
EveryDeliverySettles ==
  \A d \in Deliveries :
    \/ [](delivery[d].state # "none" => <>(delivery[d].state \in Settled))
    \/ []<>(ProjectOf[d[1]] \in archived)
    \/ <>[](delivery[d].state \in Waiting /\ delivery[d].jobRev # job[d[2]].rev)

\* The queue implements its contract.
StatusOf(row) ==
  CASE row.state = "none" -> "absent"
    [] row.state \in Waiting -> "waiting"
    [] row.state = "leased" -> "working"
    [] row.state = "succeeded" -> "done"
    [] row.state = "dead_letter" -> "dead"

JobOfDelivery(d) == d[2]

Contract == INSTANCE DeliveryContract WITH
  Items <- Deliveries,
  Owner <- JobOfDelivery,
  MaxTries <- MaxAttempts,
  status <- [d \in Deliveries |-> StatusOf(delivery[d])],
  tries <- [d \in Deliveries |-> delivery[d].attempt]

ImplementsContract == Contract!ContractSpec
=============================================================================
