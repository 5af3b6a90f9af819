------------------------- MODULE RunnerLeaderProofs -------------------------
(***************************************************************************)
(* What the processes of the runner mean for the rows: a delivery is tried *)
(* again only after its attempt is gone, and so no two attempts of one     *)
(* delivery ever have a leader together.                                   *)
(***************************************************************************)
EXTENDS RunnerProcessProofs

-----------------------------------------------------------------------------
(* A delivery that is tried again. *)

\* RetryAfterAbsence, of one step.
RetrySafe ==
  \A d \in Deliveries :
    (delivery[d].state = "leased" /\ delivery'[d].state = "retry_wait") =>
      LET x == exec[EventRun(d, delivery[d].attempt)]
      IN  /\ x.group # "leader"
          /\ delivery[d].ttl = 0 => x.group = "none" /\ ~x.dir

LEMMA RowsKept ==
  ASSUME UNCHANGED delivery
  PROVE  RetrySafe
BY DEF RetrySafe

LEMMA OneRowSafe ==
  ASSUME IInv, NEW d \in Deliveries, NEW row, delivery' = [delivery EXCEPT ![d] = row],
         row.state = "retry_wait" /\ delivery[d].state = "leased" =>
           LET x == exec[EventRun(d, delivery[d].attempt)]
           IN  /\ x.group # "leader"
               /\ delivery[d].ttl = 0 => x.group = "none" /\ ~x.dir
  PROVE  RetrySafe
BY DEF RetrySafe, IInv, TypeOK

LEMMA FailureStateIs ==
  ASSUME NEW row \in DeliveryRows, NEW n, NEW force \in BOOLEAN, force
  PROVE  FailureState(row, n, force).state = "dead_letter"
BY DEF FailureState, DeadLettered, DeliveryRows

LEMMA CompleteSafe ==
  ASSUME IInv, NEW r \in EventRuns, NEW outcome, NEW force \in BOOLEAN,
         Complete(r, outcome, force), force \/ exec[r].group # "leader"
  PROVE  RetrySafe
<1>1. CASE ~OwnsLease(r.delivery, r.attempt)
  BY <1>1, RowsKept DEF Complete, Refused, vars
<1>2. CASE OwnsLease(r.delivery, r.attempt)
  <2> DEFINE d == r.delivery
             available == Deliverable(d)
             row == IF available /\ outcome = "success" THEN Succeeded(delivery[d])
                    ELSE FailureState(delivery[d], r.attempt, ~available \/ force)
  <2>1. /\ delivery[d].ttl > 0 /\ delivery[d].attempt = r.attempt
        /\ delivery' = [delivery EXCEPT ![d] = row]
    BY <1>2 DEF Complete, CompleteJobEventDelivery, OwnsLease
  <2>2. d \in Deliveries /\ r = EventRun(d, delivery[d].attempt)
    BY <2>1, EventRunInjective
  <2>3. delivery[d] \in DeliveryRows
    BY <2>2 DEF IInv, TypeOK
  <2>4. force => row.state # "retry_wait"
    BY <2>3 DEF FailureState, DeadLettered, Succeeded, DeliveryRows
  <2>5. row.state = "retry_wait" => exec[r].group # "leader"
    BY <2>4
  <2> HIDE DEF row, d
  <2>6. delivery[d].ttl # 0
    BY <2>1
  <2> QED BY <2>1, <2>2, <2>5, <2>6, OneRowSafe
<1> QED BY <1>1, <1>2

LEMMA EndRunSafe ==
  ASSUME IInv, NEW r \in Runs, NEW outcome, EndRun(r, outcome, FALSE),
         exec[r].group # "leader"
  PROVE  RetrySafe
<1>1. CASE r \in EventRuns
  BY <1>1, CompleteSafe DEF EndRun
<1>2. CASE r \notin EventRuns
  BY <1>2, RowsKept DEF EndRun, FinishJobRun
<1> QED BY <1>1, <1>2

LEMMA ResolveSafe ==
  ASSUME IInv, NEW r \in EventRuns, NEW resolution,
         ResolveExpiredJobEventLease(r.delivery, r.attempt, resolution),
         resolution = "dead_letter" \/ (exec[r].group = "none" /\ ~exec[r].dir)
  PROVE  RetrySafe
<1> DEFINE d == r.delivery
           row == FailureState(delivery[d], r.attempt,
                               resolution = "dead_letter" \/ EventRun(d, r.attempt) \notin identity)
<1>1. delivery[d].attempt = r.attempt /\ delivery' = [delivery EXCEPT ![d] = row]
  BY DEF ResolveExpiredJobEventLease
<1>2. d \in Deliveries /\ r = EventRun(d, delivery[d].attempt)
  BY <1>1, EventRunInjective
<1>3. delivery[d] \in DeliveryRows
  BY <1>2 DEF IInv, TypeOK
<1>4. resolution = "dead_letter" => row.state # "retry_wait"
  BY <1>3 DEF FailureState, DeadLettered, DeliveryRows
<1> HIDE DEF row, d
<1> QED BY <1>1, <1>2, <1>4, OneRowSafe

LEMMA RefusedSafe ==
  ASSUME Refused
  PROVE  RetrySafe
BY RowsKept DEF Refused, vars

LEMMA FailIfActiveSafe ==
  ASSUME NEW r, FailIfActive(r)
  PROVE  RetrySafe
BY RowsKept, RefusedSafe DEF FailIfActive, FinishJobRun

LEMMA EnvironmentSafe ==
  ASSUME IInv, Environment
  PROVE  RetrySafe
<1>1. delivery \in [Deliveries -> DeliveryRows]
  BY DEF IInv, TypeOK
<1>2. CASE Record
  BY <1>2, RowsKept DEF Record, AppendTrustedJobEvent
<1>3. CASE TickSnapshots
  <2>1. PICK p \in Projects : SnapshotTrustedJobEvents(p)
    BY <1>3 DEF TickSnapshots
  <2>2. ASSUME NEW d \in Deliveries
        PROVE  delivery'[d] = delivery[d] \/ delivery'[d].state = "queued"
    BY <2>1 DEF SnapshotTrustedJobEvents, NoDelivery
  <2> QED BY <2>2 DEF RetrySafe
<1>4. CASE Admin
  <2>1. ASSUME NEW j \in Jobs, DeleteJob(j) PROVE RetrySafe
    <3>1. ASSUME NEW d \in Deliveries
          PROVE  delivery'[d] = delivery[d] \/ delivery'[d].state = "dead_letter"
      BY <1>1, <2>1 DEF DeleteJob, DeadLettered, DeliveryRows
    <3> QED BY <3>1 DEF RetrySafe
  <2> QED BY <1>4, <2>1, RowsKept DEF Admin, CreateJob, UpdateJob, ArchiveProject,
                                      UnarchiveProject
<1>5. CASE Clock
  <2>1. PICK d \in Deliveries : LeaseAges(d) \/ BackoffElapses(d)
    BY <1>5 DEF Clock
  <2>2. ASSUME NEW e \in Deliveries PROVE delivery'[e].state = delivery[e].state
    BY <1>1, <2>1 DEF LeaseAges, BackoffElapses, DeliveryRows
  <2> QED BY <2>2 DEF RetrySafe
<1> QED BY <1>2, <1>3, <1>4, <1>5 DEF Environment

LEMMA LaunchSafe ==
  ASSUME IInv, ProcessInv, NEW r \in Runs, Launch(r)
  PROVE  RetrySafe
<1>e. ExecutionFits(exec[r])
  BY ExecutionIs
<1>1. CASE Begin(r) \/ ResolveFails(r) \/ WriteFails(r) \/ SpawnThrows(r)
  <2>1. exec[r].phase \in {"handed", "resolving", "prepared", "written"}
    BY <1>1 DEF Begin, ResolveFails, WriteFails, SpawnThrows, At
  <2>2. exec[r].group # "leader"
    BY <1>e, <2>1 DEF ExecutionFits, ShapeFits, UntrackedFits
  <2>3. EndRun(r, "failed", FALSE) \/ Refused
    BY <1>1 DEF Begin, ResolveFails, WriteFails, SpawnThrows, EndIfStillRunning
  <2> QED BY <2>2, <2>3, EndRunSafe, RefusedSafe
<1>2. CASE Resolved(r) \/ WriteFiles(r) \/ Fork(r) \/ Identify(r) \/ Unidentified(r)
  BY <1>2, RefusedSafe DEF Resolved, WriteFiles, Fork, Identify, Unidentified
<1>3. CASE SpawnWithoutPid(r)
  <2>1. (r \in EventRuns /\ Complete(r, "failed", TRUE)) \/ Refused
    BY <1>3 DEF SpawnWithoutPid
  <2> QED BY <2>1, CompleteSafe, RefusedSafe
<1>4. CASE LaunchError(r)
  <2>1. exec[r].phase = "unborn" /\ EndRun(r, "failed", FALSE)
    BY <1>4 DEF LaunchError
  <2>2. exec[r].group # "leader"
    BY <1>e, <2>1 DEF ExecutionFits, ShapeFits, Late, LatePhases
  <2> QED BY <2>1, <2>2, EndRunSafe
<1> QED BY <1>1, <1>2, <1>3, <1>4 DEF Launch

LEMMA ConfirmSafe ==
  ASSUME IInv, NEW r \in EventRuns, Confirm(r)
  PROVE  RetrySafe
<1>1. CASE PersistIdentity(r)
  BY <1>1, RowsKept DEF PersistIdentity, PersistJobEventAttemptProcessIdentity
<1>2. CASE IdentityRefused(r)
  BY <1>2, CompleteSafe DEF IdentityRefused
<1> QED BY <1>1, <1>2 DEF Confirm

LEMMA CallbackSafe ==
  ASSUME IInv, ProcessInv, NEW r \in Runs, Callback(r)
  PROVE  RetrySafe
<1>e. ExecutionFits(exec[r])
  BY ExecutionIs
<1>1. CASE Heartbeat(r)
  <2>1. CASE ~OwnsLease(r.delivery, r.attempt)
    BY <1>1, <2>1, RefusedSafe DEF Heartbeat
  <2>2. CASE OwnsLease(r.delivery, r.attempt)
    <3>1. r \in EventRuns /\ delivery' = [delivery EXCEPT ![r.delivery].ttl = LeaseTicks]
      BY <1>1, <2>2 DEF Heartbeat, HeartbeatJobEventDelivery
    <3>2. delivery \in [Deliveries -> DeliveryRows]
      BY DEF IInv, TypeOK
    <3>3. ASSUME NEW d \in Deliveries PROVE delivery'[d].state = delivery[d].state
      BY <3>1, <3>2 DEF DeliveryRows
    <3> QED BY <3>3 DEF RetrySafe
  <2> QED BY <2>1, <2>2
<1>2. CASE Timeout(r) \/ Cancel(r) \/ ForceKill(r) \/ WaitEnds(r) \/ GroupRecovery(r)
  BY <1>2, RefusedSafe, RowsKept DEF Timeout, Cancel, ForceKill, WaitEnds, GroupRecovery,
                                     FinishJobRun, CancelJobRun
<1>3. CASE Close(r)
  <2>1. exec[r].group # "leader"
    BY <1>3 DEF Close
  <2>2. Refused \/ \E outcome \in {"success", "failed"} : EndRun(r, outcome, FALSE)
    BY <1>3 DEF Close
  <2> QED BY <2>1, <2>2, EndRunSafe, RefusedSafe
<1>4. CASE Terminated(r)
  <2>1. exec[r].phase = "closed"
    BY <1>4 DEF Terminated
  <2>2. exec[r].group # "leader"
    BY <1>e, <2>1 DEF ExecutionFits, ShapeFits, Late, LatePhases
  <2>3. Refused \/ \E force \in BOOLEAN : r \in EventRuns /\ Complete(r, "timeout", force)
    BY <1>4 DEF Terminated
  <2> QED BY <2>2, <2>3, CompleteSafe, RefusedSafe
<1> QED BY <1>1, <1>2, <1>3, <1>4 DEF Callback

LEMMA RecoverySafe ==
  ASSUME NEW r \in Runs, Recovery(r)
  PROVE  RetrySafe
<1>1. CASE PassStale(r) \/ PassCleansPrepared(r)
  BY <1>1, FailIfActiveSafe DEF PassStale, PassCleansPrepared
<1>2. CASE \/ PassRetains(r) \/ PassConfirmsCleaned(r) \/ PassTerminates(r)
           \/ PassLosesTrack(r) \/ PassVerified(r) \/ PassKills(r) \/ PassGivesUp(r)
  BY <1>2, RefusedSafe DEF PassRetains, PassConfirmsCleaned, PassTerminates,
                           PassLosesTrack, PassVerified, PassKills, PassGivesUp
<1> QED BY <1>1, <1>2 DEF Recovery

LEMMA LeaseRecoverySafe ==
  ASSUME IInv, ProcessInv
  PROVE  /\ \A d \in Deliveries : RecoverExpired(d) => RetrySafe
         /\ \A r \in EventRuns : ResolveRecovered(r) => RetrySafe
<1>1. ASSUME NEW d \in Deliveries, RecoverExpired(d) PROVE RetrySafe
  <2> DEFINE r == EventRun(d, delivery[d].rev)
  <2>1. delivery[d].state = "leased"
    BY <1>1 DEF RecoverExpired
  <2>2. delivery[d] \in DeliveryRows /\ RowOK(delivery[d])
    BY DEF IInv, TypeOK, RowLedger
  <2>3. delivery[d].rev \in Attempts
    BY <2>1, <2>2, ConstantsAssumption DEF DeliveryRows, RowOK, Attempts
  <2>4. r \in EventRuns /\ r.delivery = d /\ r.attempt = delivery[d].rev
    BY <2>3, EventRunType
  <2>5. Refused \/ ResolveExpiredJobEventLease(r.delivery, r.attempt, "dead_letter")
    BY <1>1, <2>4 DEF RecoverExpired
  <2> HIDE DEF r
  <2> QED BY <2>4, <2>5, ResolveSafe, RefusedSafe
<1>2. ASSUME NEW r \in EventRuns, ResolveRecovered(r) PROVE RetrySafe
  <2>1. CASE exec[r].vault = "cleaned"
    <3>1. exec[r].group = "none" /\ ~exec[r].dir
      BY <2>1, ExecutionIs DEF ExecutionFits, ShapeFits, FilesFit, Runs
    <3>2. Refused \/ ResolveExpiredJobEventLease(r.delivery, r.attempt, "retry")
      BY <1>2, <2>1 DEF ResolveRecovered
    <3> QED BY <3>1, <3>2, ResolveSafe, RefusedSafe
  <2>2. CASE exec[r].vault # "cleaned"
    <3>1. Refused \/ ResolveExpiredJobEventLease(r.delivery, r.attempt, "dead_letter")
      BY <1>2, <2>2 DEF ResolveRecovered
    <3> QED BY <3>1, ResolveSafe, RefusedSafe
  <2> QED BY <2>1, <2>2
<1> QED BY <1>1, <1>2

LEMMA RetryStep == IInv /\ ProcessInv /\ [RunnerNext]_allVars => RetrySafe
<1> SUFFICES ASSUME IInv, ProcessInv, [RunnerNext]_allVars PROVE RetrySafe
  OBVIOUS
<1>1. CASE UNCHANGED allVars
  BY <1>1, RowsKept DEF allVars, vars
<1>2. ASSUME NEW j \in Jobs, NEW k \in 1..MaxOrdinary, Start(j, k) PROVE RetrySafe
  BY <1>2, RowsKept DEF Start, StartJobRun
<1>3. ASSUME NEW d \in Deliveries, ClaimNext(d) PROVE RetrySafe
  <2>1. delivery' = [delivery EXCEPT ![d] = Leased(delivery[d])] /\ delivery[d] \in DeliveryRows
    BY <1>3 DEF ClaimNext, ClaimNextJobEventDelivery, Claim, IInv, TypeOK
  <2>2. Leased(delivery[d]).state = "leased"
    BY <2>1 DEF Leased, DeliveryRows
  <2> QED BY <2>1, <2>2, OneRowSafe
<1>4. ASSUME NEW r \in Runs, Kernel(r) \/ StopRun(r) PROVE RetrySafe
  BY <1>4, RefusedSafe, RowsKept DEF Kernel, LeaderExits, OrphansExit, StopRun, CancelJobRun
<1>5. ASSUME NEW r \in Runs, StopCompletes(r) PROVE RetrySafe
  <2>1. exec[r].phase = "closed"
    BY <1>5 DEF StopCompletes
  <2>2. exec[r].group # "leader"
    BY <2>1, ExecutionIs DEF ExecutionFits, ShapeFits, Late, LatePhases
  <2>3. Refused \/ \E force \in BOOLEAN : r \in EventRuns /\ Complete(r, "cancelled", force)
    BY <1>5 DEF StopCompletes
  <2> QED BY <2>2, <2>3, CompleteSafe, RefusedSafe
<1>6. CASE PassStarts \/ PassEnds \/ BeginStop \/ Crash \/ Exit \/ Boot
  <2>1. Refused \/ RecoverInterruptedJobRuns
    BY <1>6 DEF PassStarts, PassEnds, BeginStop, Crash, Exit, GoDown, Boot
  <2> QED BY <2>1, RefusedSafe, RowsKept DEF RecoverInterruptedJobRuns
<1> QED BY <1>1, <1>2, <1>3, <1>4, <1>5, <1>6, EnvironmentSafe, LaunchSafe, ConfirmSafe,
           CallbackSafe, RecoverySafe, LeaseRecoverySafe DEF RunnerNext

-----------------------------------------------------------------------------
(* Only a fork makes a leader. *)

SameGroup(x, y) == y \in Executions /\ y.group = x.group

LEMMA MarkGroup ==
  ASSUME NEW x \in Executions, NEW state \in VaultStates
  PROVE  SameGroup(x, Mark(x, state))
<1> DEFINE y == [x EXCEPT !.vault = state]
           z == [x EXCEPT !.thrown = TRUE]
<1>1. y \in Executions /\ y.group = x.group /\ z \in Executions /\ z.group = x.group
  BY DEF Executions
<1>2. Mark(x, state) \in {x, y, z}
  BY DEF Mark
<1> HIDE DEF y, z
<1> QED BY <1>1, <1>2 DEF SameGroup

LEMMA MarkPendingGroup ==
  ASSUME NEW x \in Executions
  PROVE  SameGroup(x, MarkTeardownPending(x))
BY MarkGroup DEF MarkTeardownPending, SameGroup, VaultStates

LEMMA CleanupRunGroup ==
  ASSUME NEW x \in Executions, NEW safe
  PROVE  SameGroup(x, CleanupRun(x, safe))
<1> DEFINE u == [x EXCEPT !.secrets = FALSE, !.dir = FALSE]
           v == [x EXCEPT !.secrets = FALSE]
<1>1. u \in Executions /\ v \in Executions /\ u.group = x.group /\ v.group = x.group
  BY DEF Executions
<1>2. CleanupRun(x, safe) \in {x, Mark(u, "cleaned"), Mark(v, "failed")}
  BY DEF CleanupRun
<1> HIDE DEF u, v
<1> QED BY <1>1, <1>2, MarkGroup DEF SameGroup, VaultStates

LEMMA FinalizeGroup ==
  ASSUME NEW x \in Executions, NEW safe
  PROVE  SameGroup(x, FinalizeVerified(x, safe))
<1> DEFINE u == [x EXCEPT !.salvage = FALSE, !.dir = FALSE]
<1>1. u \in Executions /\ u.group = x.group
  BY DEF Executions
<1>2. FinalizeVerified(x, safe)
        \in {x, CleanupRun(x, safe), Mark(u, "cleaned"), Mark(x, "failed")}
  BY DEF FinalizeVerified
<1> HIDE DEF u
<1> QED BY <1>1, <1>2, MarkGroup, CleanupRunGroup DEF SameGroup, VaultStates

LEMMA VerifyTeardownGroup ==
  ASSUME NEW x \in Executions, NEW safe
  PROVE  SameGroup(x, VerifyTeardown(x, safe))
<1> DEFINE u == [x EXCEPT !.owned = "no"]
<1>1. u \in Executions /\ u.group = x.group
  BY DEF Executions
<1>2. VerifyTeardown(x, safe) \in {x, FinalizeVerified(u, safe)}
  BY DEF VerifyTeardown
<1> HIDE DEF u
<1> QED BY <1>1, <1>2, FinalizeGroup DEF SameGroup

LEMMA CleanupAfterTeardownGroup ==
  ASSUME NEW x \in Executions, NEW safe
  PROVE  SameGroup(x, CleanupAfterTeardown(x, safe))
<1>1. SameGroup(x, MarkTeardownPending(x)) /\ SameGroup(x, CleanupRun(x, safe))
  BY MarkPendingGroup, CleanupRunGroup
<1>2. SameGroup(MarkTeardownPending(x), VerifyTeardown(MarkTeardownPending(x), safe))
  BY <1>1, VerifyTeardownGroup DEF SameGroup
<1> QED BY <1>1, <1>2 DEF CleanupAfterTeardown, Then, SameGroup

LEMMA TerminateGroup ==
  ASSUME NEW x \in Executions, NEW safe
  PROVE  SameGroup(x, Terminate(x, safe))
<1> DEFINE u == [x EXCEPT !.term = "grace"]
<1>1. u \in Executions /\ u.group = x.group
  BY DEF Executions
<1>2. Terminate(x, safe) \in {x, u, FinalizeVerified(u, safe), MarkTeardownPending(u)}
  BY DEF Terminate, Signal
<1> HIDE DEF u
<1> QED BY <1>1, <1>2, FinalizeGroup, MarkPendingGroup DEF SameGroup

LEMMA AbandonGroup ==
  ASSUME NEW x \in Executions, NEW safe
  PROVE  SameGroup(x, Abandon(x, safe))
<1>1. SameGroup(x, Terminate(x, safe))
  BY TerminateGroup
<1>2. SameGroup(Terminate(x, safe), Abandon(x, safe))
  BY <1>1, CleanupAfterTeardownGroup DEF SameGroup, Abandon, Then
<1> QED BY <1>1, <1>2 DEF SameGroup

NoNewLeader == \A s \in Runs : exec'[s].group = "leader" => exec[s].group = "leader"

LEMMA SetGroup ==
  ASSUME ProcessInv, NEW r \in Runs, NEW x, Set(r, x),
         x.group = "leader" => exec[r].group = "leader"
  PROVE  NoNewLeader
BY DEF ProcessInv, RunnerTypeOK, Set, NoNewLeader

LEMMA SameGroupSet ==
  ASSUME ProcessInv, NEW r \in Runs, NEW x, NEW y, Set(r, y),
         SameGroup(x, y), x.group = exec[r].group
  PROVE  NoNewLeader
BY SetGroup DEF SameGroup

LEMMA ExecKept ==
  ASSUME UNCHANGED exec
  PROVE  NoNewLeader
BY DEF NoNewLeader

\* Catching an exception and collecting a run for the shutdown leave its group.
LEMMA CaughtGroup ==
  ASSUME NEW x \in Executions
  PROVE  SameGroup(x, Caught(x)) /\ Collected(x).group = x.group
BY DEF SameGroup, Caught, Collected, Executions

\* The ways a handler ends, an uncaught exception included.
LEMMA EndGroup ==
  ASSUME ProcessInv, NEW r \in Runs, NEW x \in Executions, x.group = exec[r].group,
         Uncaught(r, x) \/ Ends(r, x) \/ Rejects(r, x)
  PROVE  NoNewLeader
<1>1. Caught(x) \in Executions /\ Caught(x).group = exec[r].group
  BY CaughtGroup DEF SameGroup
<1>2. CASE Uncaught(r, x)
  <2>1. CASE up = "up"
    <3> DEFINE next == [s \in Runs |-> IF s = r THEN Caught(x) ELSE exec[s]]
    <3>1. exec' = [s \in Runs |-> Collected(next[s])]
      BY <1>2, <2>1 DEF Uncaught
    <3>2. \A s \in Runs : next[s] \in Executions /\ next[s].group = exec[s].group
      BY <1>1, ExecutionIs
    <3> HIDE DEF next
    <3>3. \A s \in Runs : Collected(next[s]).group = exec[s].group
      BY <3>2, CaughtGroup
    <3> QED BY <3>1, <3>3 DEF NoNewLeader
  <2>2. CASE up # "up"
    BY <1>1, <1>2, <2>2, SetGroup DEF Uncaught
  <2> QED BY <2>1, <2>2
<1>3. CASE Return(r, x)
  BY <1>3, SetGroup DEF Return
<1>4. CASE Return(r, [Caught(x) EXCEPT !.term = "stuck"])
  <2>1. [Caught(x) EXCEPT !.term = "stuck"].group = exec[r].group
    BY <1>1 DEF Executions
  <2> QED BY <1>4, <2>1, SetGroup DEF Return
<1> QED BY <1>2, <1>3, <1>4 DEF Ends, Rejects

LEMMA LaunchGroup ==
  ASSUME ProcessInv, NEW r \in Runs, Launch(r), ~Fork(r)
  PROVE  NoNewLeader
<1>e. exec[r] \in Executions
  BY ExecutionIs
<1>g. ASSUME NEW x, x = GiveUp(exec[r]) PROVE x.group = exec[r].group
  BY <1>e, <1>g DEF GiveUp, Executions
<1>1. CASE Begin(r)
  <2>1. \/ Set(r, GiveUp(exec[r]))
        \/ Set(r, [exec[r] EXCEPT !.phase = "resolving", !.slot = TRUE])
    BY <1>1 DEF Begin, Return
  <2> QED BY <1>e, <1>g, <2>1, SetGroup DEF Executions
<1>2. CASE Resolved(r) \/ ResolveFails(r) \/ WriteFiles(r)
  <2>1. \/ Set(r, [exec[r] EXCEPT !.phase = "prepared", !.vault = "prepared"])
        \/ Set(r, GiveUp(exec[r]))
        \/ Set(r, [exec[r] EXCEPT !.phase = "written", !.dir = TRUE, !.secrets = TRUE])
    BY <1>2 DEF Resolved, ResolveFails, WriteFiles, Go, Return
  <2> QED BY <1>e, <1>g, <2>1, SetGroup DEF Executions
<1>3. CASE WriteFails(r)
  <2>1. PICK v, d : Set(r, [GiveUp(exec[r]) EXCEPT !.vault = v, !.dir = d])
    BY <1>3 DEF WriteFails, Return
  <2>2. [GiveUp(exec[r]) EXCEPT !.vault = v, !.dir = d].group = exec[r].group
    BY <1>e DEF GiveUp, Executions
  <2> QED BY <2>1, <2>2, SetGroup
<1>4. CASE SpawnThrows(r)
  <2>1. PICK safe \in Inspections : Set(r, GiveUp(CleanupRun(exec[r], safe)))
    BY <1>4 DEF SpawnThrows, Return
  <2>2. SameGroup(exec[r], CleanupRun(exec[r], safe))
    BY <1>e, CleanupRunGroup
  <2>3. GiveUp(CleanupRun(exec[r], safe)).group = exec[r].group
    BY <2>2 DEF GiveUp, SameGroup, Executions
  <2> QED BY <2>1, <2>3, SetGroup
<1>m. Mark(exec[r], "teardown_pending") \in Executions
      /\ Mark(exec[r], "teardown_pending").group = exec[r].group
  BY <1>e, MarkGroup DEF SameGroup, VaultStates
<1>5. CASE SpawnWithoutPid(r)
  <2> DEFINE x == [Mark(exec[r], "teardown_pending") EXCEPT !.phase = "unborn", !.unproven = TRUE]
  <2>1. PICK safe \in Inspections : Set(r, Abandon(x, safe))
    BY <1>5 DEF SpawnWithoutPid, Return
  <2>2. x \in Executions /\ x.group = exec[r].group
    BY <1>m DEF Executions
  <2> HIDE DEF x
  <2> QED BY <2>1, <2>2, AbandonGroup, SameGroupSet
<1>6. CASE LaunchError(r)
  <2> DEFINE x == [exec[r] EXCEPT !.phase = "closed"]
  <2>1. PICK safe \in Inspections : Set(r, CleanupRun(x, safe))
    BY <1>6 DEF LaunchError, Return
  <2>2. x \in Executions /\ x.group = exec[r].group
    BY <1>e DEF Executions
  <2> HIDE DEF x
  <2> QED BY <2>1, <2>2, CleanupRunGroup, SameGroupSet
<1>7. CASE Identify(r)
  <2>1. exec[r].group = "leader" /\ \E x : Set(r, x)
    BY <1>7 DEF Identify, Go, Return
  <2> QED BY <2>1, SetGroup
<1>8. CASE Unidentified(r)
  <2>1. PICK owned \in {"unknown", "captured"} :
          LET x == [Mark(exec[r], "teardown_pending") EXCEPT !.owned = owned, !.unproven = TRUE]
          IN  \/ Set(r, [x EXCEPT !.phase = "identified"])
              \/ \E safe \in Inspections : Set(r, Abandon([x EXCEPT !.phase = "live"], safe))
    <3>1. \A owned \in {"unknown"} \cup (IF exec[r].group = "leader" THEN {"captured"} ELSE {}) :
            owned \in {"unknown", "captured"}
      OBVIOUS
    <3> QED BY <1>8, <3>1 DEF Unidentified, Go, Return
  <2> DEFINE x == [Mark(exec[r], "teardown_pending") EXCEPT !.owned = owned, !.unproven = TRUE]
             y == [x EXCEPT !.phase = "identified"]
             z == [x EXCEPT !.phase = "live"]
  <2>2. x \in Executions /\ x.group = exec[r].group
    BY <1>m DEF Executions
  <2>3. y.group = exec[r].group /\ z \in Executions /\ z.group = exec[r].group
    <3> HIDE DEF x
    <3> QED BY <2>2 DEF Executions
  <2> HIDE DEF y, z
  <2>4. Set(r, y) \/ \E safe \in Inspections : Set(r, Abandon(z, safe))
    BY <2>1 DEF y, z
  <2> QED BY <2>3, <2>4, AbandonGroup, SameGroupSet, SetGroup
<1> QED BY <1>1, <1>2, <1>3, <1>4, <1>5, <1>6, <1>7, <1>8 DEF Launch

LEMMA CallbackGroup ==
  ASSUME ProcessInv, NEW r \in Runs, Callback(r)
  PROVE  NoNewLeader
<1>e. exec[r] \in Executions
  BY ExecutionIs
<1>v. ASSUME NEW safe, NEW x, x \in Executions, x.group = exec[r].group
      PROVE  /\ VerifyTeardown(x, safe) \in Executions
             /\ VerifyTeardown(x, safe).group = exec[r].group
  BY <1>v, VerifyTeardownGroup DEF SameGroup
<1>1. CASE Heartbeat(r) \/ Cancel(r)
  <2>1. ASSUME NEW safe \in Inspections
        PROVE  /\ Abandon(exec[r], safe) \in Executions
               /\ Abandon(exec[r], safe).group = exec[r].group
    BY <1>e, AbandonGroup DEF SameGroup
  <2>2. ASSUME NEW safe \in Inspections, Set(r, Caught(Abandon(exec[r], safe)))
        PROVE  NoNewLeader
    <3> DEFINE x == Abandon(exec[r], safe)
    <3>1. x \in Executions /\ x.group = exec[r].group
      BY <2>1
    <3> HIDE DEF x
    <3>2. Caught(x).group = exec[r].group
      BY <3>1, CaughtGroup DEF SameGroup
    <3> QED BY <2>2, <3>2, SetGroup DEF x
  <2>3. \/ UNCHANGED exec
        \/ \E safe \in Inspections : Ends(r, Abandon(exec[r], safe))
        \/ \E safe \in Inspections : Set(r, Caught(Abandon(exec[r], safe)))
    BY <1>1 DEF Heartbeat, Cancel, Return, runnerVars
  <2> QED BY <2>1, <2>2, <2>3, EndGroup, ExecKept
<1>2. CASE Timeout(r)
  <2> DEFINE u == [exec[r] EXCEPT !.timedOut = TRUE]
  <2>1. u \in Executions /\ u.group = exec[r].group
    BY <1>e DEF Executions
  <2>2. PICK safe \in Inspections :
          \/ Uncaught(r, TimesOut(r, safe))
          \/ Set(r, [TimesOut(r, safe) EXCEPT !.due = r \in EventRuns])
    BY <1>2 DEF Timeout, Return
  <2> DEFINE x == TimesOut(r, safe)
  <2>3. x \in Executions /\ x.group = exec[r].group
    <3>1. x = Abandon(u, safe)
      BY DEF TimesOut
    <3> HIDE DEF x, u
    <3> QED BY <2>1, <3>1, AbandonGroup DEF SameGroup
  <2> HIDE DEF x
  <2>4. [x EXCEPT !.due = r \in EventRuns].group = exec[r].group
    BY <2>3 DEF Executions
  <2> QED BY <2>2, <2>3, <2>4, EndGroup, SetGroup DEF x
<1>3. CASE Close(r)
  <2> DEFINE natural == ~exec[r].timedOut /\ exec[r].term = "none"
             x == [exec[r] EXCEPT !.phase = "closed", !.slot = exec[r].slot /\ ~natural]
  <2>1. PICK safe \in Inspections :
          LET seen == VerifyTeardown(x, safe)
              left == IF seen.owned = "no" THEN seen ELSE Terminate(seen, safe)
          IN  \/ Uncaught(r, [seen EXCEPT !.phase = "torn"])
              \/ Set(r, CleanupAfterTeardown(left, safe))
    BY <1>3 DEF Close, Return
  <2>2. x \in Executions /\ x.group = exec[r].group
    <3> HIDE DEF natural
    <3> QED BY ZenonT(60), <1>e DEF Executions
  <2> HIDE DEF x
  <2> DEFINE seen == VerifyTeardown(x, safe)
             left == IF seen.owned = "no" THEN seen ELSE Terminate(seen, safe)
             torn == [seen EXCEPT !.phase = "torn"]
  <2>3. seen \in Executions /\ seen.group = exec[r].group
    BY <1>v, <2>2
  <2>4. left \in Executions /\ left.group = exec[r].group
    <3> HIDE DEF seen
    <3> QED BY <2>3, TerminateGroup DEF SameGroup
  <2>5. torn \in Executions /\ torn.group = exec[r].group
    <3> HIDE DEF seen
    <3> QED BY <2>3 DEF Executions
  <2>6. Uncaught(r, torn) \/ Set(r, CleanupAfterTeardown(left, safe))
    BY <2>1
  <2> HIDE DEF left, torn
  <2> QED BY <2>4, <2>5, <2>6, EndGroup, CleanupAfterTeardownGroup, SameGroupSet
<1>4. CASE ForceKill(r)
  <2>1. \/ \E safe \in Inspections :
             Rejects(r, VerifyTeardown([exec[r] EXCEPT !.term = "escalated"], safe))
        \/ Set(r, MarkTeardownPending([exec[r] EXCEPT !.term = "waiting"]))
        \/ \E killed \in Kills :
             Set(r, [exec[r] EXCEPT !.term = "waiting", !.group = IF killed THEN "none" ELSE @])
    BY <1>4 DEF ForceKill, Return
  <2> DEFINE x == [exec[r] EXCEPT !.term = "escalated"]
             y == [exec[r] EXCEPT !.term = "waiting"]
  <2>2. x \in Executions /\ x.group = exec[r].group /\ y \in Executions /\ y.group = exec[r].group
    BY <1>e DEF Executions
  <2>3. ASSUME NEW killed \in Kills
        PROVE  [exec[r] EXCEPT !.term = "waiting", !.group = IF killed THEN "none" ELSE @].group
                 \in {exec[r].group, "none"}
    BY <1>e DEF Executions
  <2>4. ASSUME NEW killed \in Kills,
               Set(r, [exec[r] EXCEPT !.term = "waiting", !.group = IF killed THEN "none" ELSE @])
        PROVE  NoNewLeader
    BY <2>3, <2>4, SetGroup
  <2> HIDE DEF x, y
  <2>5. ASSUME Set(r, MarkTeardownPending(y)) PROVE NoNewLeader
    BY <2>2, <2>5, MarkPendingGroup, SameGroupSet
  <2>6. ASSUME NEW safe \in Inspections, Rejects(r, VerifyTeardown(x, safe)) PROVE NoNewLeader
    BY <1>v, <2>2, <2>6, EndGroup
  <2> QED BY <2>1, <2>4, <2>5, <2>6 DEF x, y
<1>5. CASE WaitEnds(r)
  <2> DEFINE x == [exec[r] EXCEPT !.term = "escalated"]
  <2>1. PICK safe \in Inspections :
          LET y == VerifyTeardown(x, safe)
          IN  Rejects(r, IF y.owned = "no" THEN y ELSE MarkTeardownPending(y))
    BY <1>5 DEF WaitEnds
  <2>2. x \in Executions /\ x.group = exec[r].group
    BY <1>e DEF Executions
  <2> HIDE DEF x
  <2> DEFINE y == VerifyTeardown(x, safe)
  <2>3. y \in Executions /\ y.group = exec[r].group
    BY <1>v, <2>2
  <2>4. Rejects(r, y) \/ Rejects(r, MarkTeardownPending(y))
    BY <2>1
  <2> HIDE DEF y
  <2>5. MarkTeardownPending(y) \in Executions /\ MarkTeardownPending(y).group = exec[r].group
    BY <2>3, MarkPendingGroup DEF SameGroup
  <2> QED BY <2>3, <2>4, <2>5, EndGroup
<1>6. CASE Terminated(r)
  <2> DEFINE x == [exec[r] EXCEPT !.term = "none", !.slot = FALSE]
  <2>1. PICK safe \in Inspections : Set(r, VerifyTeardown(x, safe))
    BY <1>6 DEF Terminated, Return
  <2>2. x \in Executions /\ x.group = exec[r].group
    BY <1>e DEF Executions
  <2> HIDE DEF x
  <2> QED BY <1>v, <2>1, <2>2, SetGroup
<1>7. CASE GroupRecovery(r)
  <2>1. PICK safe \in Inspections : Ends(r, VerifyTeardown(exec[r], safe))
    BY <1>7 DEF GroupRecovery
  <2> QED BY <1>e, <1>v, <2>1, EndGroup
<1> QED BY <1>1, <1>2, <1>3, <1>4, <1>5, <1>6, <1>7 DEF Callback

LEMMA RecoveryGroup ==
  ASSUME ProcessInv, NEW r \in Runs, Recovery(r)
  PROVE  NoNewLeader
<1>e. exec[r] \in Executions
  BY ExecutionIs
<1>m. ASSUME NEW x \in Executions, x.group = exec[r].group, NEW state \in VaultStates,
             Set(r, Mark(x, state))
      PROVE  NoNewLeader
  BY <1>m, MarkGroup, SameGroupSet
<1>t. ASSUME NEW x \in Executions, x.group = exec[r].group, Retain(r, x)
      PROVE  NoNewLeader
  <2> DEFINE y == Mark(x, "teardown_pending")
  <2>1. Set(r, x) \/ Set(r, y) \/ Set(r, Caught(y))
    BY <1>t DEF Retain, Visited, PassThrows
  <2>2. y \in Executions /\ y.group = exec[r].group
    BY <1>t, MarkGroup DEF SameGroup, VaultStates
  <2> HIDE DEF y
  <2>3. Caught(y).group = exec[r].group
    BY <2>2, CaughtGroup DEF SameGroup
  <2> QED BY <1>t, <2>1, <2>2, <2>3, SetGroup
<1>1. CASE PassStale(r) \/ PassRetains(r)
  BY <1>e, <1>t, <1>1 DEF PassStale, PassRetains
<1>2. CASE PassCleansPrepared(r)
  <2> DEFINE u == [exec[r] EXCEPT !.dir = FALSE]
  <2>1. Set(r, Mark(exec[r], "failed")) \/ Set(r, Mark(u, "cleaned"))
    BY <1>2 DEF PassCleansPrepared, Visited
  <2>2. u \in Executions /\ u.group = exec[r].group
    BY <1>e DEF Executions
  <2> HIDE DEF u
  <2> QED BY <1>e, <1>m, <2>1, <2>2 DEF VaultStates
<1>3. CASE PassConfirmsCleaned(r)
  BY <1>e, <1>m, <1>3 DEF PassConfirmsCleaned, Visited, VaultStates
<1>4. CASE PassTerminates(r) \/ PassLosesTrack(r) \/ PassGivesUp(r)
  <2>1. exec[r].group = "leader" \/ PassGivesUp(r)
    BY <1>4 DEF PassTerminates, PassLosesTrack, Found
  <2>2. CASE exec[r].group = "leader"
    <3>1. PICK x : Set(r, x)
      BY <1>4 DEF PassTerminates, PassLosesTrack, PassGivesUp, Retain, Visited, PassThrows
    <3> QED BY <2>2, <3>1, SetGroup
  <2>3. CASE PassGivesUp(r)
    BY <1>e, <2>3, MarkPendingGroup, SameGroupSet DEF PassGivesUp
  <2> QED BY <2>1, <2>2, <2>3
<1>5. CASE PassVerified(r)
  <2> DEFINE x == [exec[r] EXCEPT !.owned = "no"]
  <2>1. PICK safe \in Inspections :
          \/ Set(r, FinalizeVerified(x, safe))
          \/ Set(r, Caught(FinalizeVerified(x, safe)))
    BY <1>5 DEF PassVerified, PassThrows
  <2>2. x \in Executions /\ x.group = exec[r].group
    BY <1>e DEF Executions
  <2> HIDE DEF x
  <2> DEFINE y == FinalizeVerified(x, safe)
  <2>3. y \in Executions /\ y.group = exec[r].group
    BY <2>2, FinalizeGroup DEF SameGroup
  <2>4. Set(r, y) \/ Set(r, Caught(y))
    BY <2>1
  <2> HIDE DEF y
  <2>5. Caught(y).group = exec[r].group
    BY <2>3, CaughtGroup DEF SameGroup
  <2> QED BY <2>3, <2>4, <2>5, SetGroup
<1>6. CASE PassKills(r)
  <2>1. PICK killed \in Kills :
          Set(r, [exec[r] EXCEPT !.group = IF killed THEN "none" ELSE @])
    BY <1>6 DEF PassKills
  <2>2. [exec[r] EXCEPT !.group = IF killed THEN "none" ELSE @].group \in {exec[r].group, "none"}
    BY <1>e DEF Executions
  <2> QED BY <2>1, <2>2, SetGroup
<1> QED BY <1>1, <1>2, <1>3, <1>4, <1>5, <1>6 DEF Recovery

LEMMA LeaderStep ==
  ASSUME ProcessInv, [RunnerNext]_allVars
  PROVE  NoNewLeader \/ \E r \in Runs : Fork(r)
<1>e. \A r \in Runs : exec[r] \in Executions
  BY ExecutionIs
<1>n. /\ NoExecution.group = "none"
      /\ \A rev : [NoExecution EXCEPT !.phase = "handed", !.rev = rev].group = "none"
  BY DEF NoExecution
<1>1. CASE UNCHANGED allVars
  BY <1>1, ExecKept DEF allVars, runnerVars
<1>2. ASSUME NEW r \in Runs, NEW rev,
             Go(r, [NoExecution EXCEPT !.phase = "handed", !.rev = rev]) PROVE NoNewLeader
  BY <1>2, <1>n, SetGroup DEF Go
<1>3. ASSUME NEW j \in Jobs, NEW k \in 1..MaxOrdinary, Start(j, k) PROVE NoNewLeader
  <2>1. [job |-> j, ordinal |-> k] \in Runs
    BY DEF Runs, OrdinaryRuns
  <2> QED BY <1>2, <1>3, <2>1 DEF Start
<1>4. ASSUME NEW d \in Deliveries, ClaimNext(d) PROVE NoNewLeader
  <2> DEFINE x == [NoExecution EXCEPT !.phase = "handed", !.rev = delivery[d].jobRev]
             r == EventRun(d, delivery[d].attempt + 1)
  <2>1. exec' = [exec EXCEPT ![r] = x] /\ x.group = "none"
    BY <1>4, <1>n DEF ClaimNext, Go, Set
  <2> HIDE DEF r, x
  <2>2. \A s \in Runs : exec'[s] = exec[s] \/ exec'[s] = x
    BY <2>1 DEF ProcessInv, RunnerTypeOK
  <2> QED BY <2>1, <2>2 DEF NoNewLeader
<1>5. ASSUME NEW r \in Runs, Kernel(r) PROVE NoNewLeader
  <2>1. PICK left \in {"none", "orphans"} : Set(r, [exec[r] EXCEPT !.group = left])
    BY <1>5 DEF Kernel, LeaderExits, OrphansExit
  <2>2. [exec[r] EXCEPT !.group = left].group = left
    BY <1>e DEF Executions
  <2> QED BY <2>1, <2>2, SetGroup
<1>6. ASSUME NEW r \in Runs, StopRun(r) PROVE NoNewLeader
  <2> DEFINE x == [exec[r] EXCEPT !.stop = "wait"]
  <2>1. PICK safe \in Inspections :
          Set(r, Abandon(x, safe)) \/ StopThrows(r, Caught(Abandon(x, safe)))
    BY <1>6 DEF StopRun, Return
  <2>2. x \in Executions /\ x.group = exec[r].group
    BY <1>e DEF Executions
  <2> HIDE DEF x
  <2> DEFINE y == Abandon(x, safe)
             z == Caught(y)
  <2>3. y \in Executions /\ y.group = exec[r].group
    BY <2>2, AbandonGroup DEF SameGroup
  <2>4. Set(r, y) \/ StopThrows(r, z)
    BY <2>1
  <2>5. z \in Executions /\ z.group = exec[r].group
    <3> HIDE DEF y
    <3> QED BY <2>3, CaughtGroup DEF SameGroup
  <2> HIDE DEF y, z
  <2>6. CASE StopThrows(r, z)
    <3> DEFINE next == [s \in Runs |-> IF s = r THEN z ELSE exec[s]]
    <3>1. exec' = [s \in Runs |-> [next[s] EXCEPT !.stop = "no"]]
      BY <2>6 DEF StopThrows
    <3>2. \A s \in Runs : next[s] \in Executions /\ next[s].group = exec[s].group
      BY <1>e, <2>5
    <3> HIDE DEF next
    <3>3. \A s \in Runs : [next[s] EXCEPT !.stop = "no"].group = exec[s].group
      BY <3>2 DEF Executions
    <3> QED BY <3>1, <3>3 DEF NoNewLeader
  <2> QED BY <2>3, <2>4, <2>6, SetGroup
<1>7. ASSUME NEW r \in Runs, StopCompletes(r) PROVE NoNewLeader
  <2>1. Set(r, [exec[r] EXCEPT !.stop = "no"])
    BY <1>7 DEF StopCompletes, Return
  <2>2. [exec[r] EXCEPT !.stop = "no"].group = exec[r].group
    BY <1>e DEF Executions
  <2> QED BY <2>1, <2>2, SetGroup
<1>8. ASSUME NEW r \in EventRuns, PersistIdentity(r) \/ IdentityRefused(r) PROVE NoNewLeader
  <2> DEFINE x == [exec[r] EXCEPT !.phase = "live"]
             y == [exec[r] EXCEPT !.phase = "live", !.unproven = TRUE]
  <2>1. Set(r, x) \/ \E safe \in Inspections : Set(r, Abandon(y, safe))
    BY <1>8 DEF PersistIdentity, IdentityRefused, Return
  <2>2. r \in Runs /\ x.group = exec[r].group /\ y \in Executions /\ y.group = exec[r].group
    BY ZenonT(60), <1>e DEF Executions, Runs
  <2> HIDE DEF x, y
  <2> QED BY <2>1, <2>2, AbandonGroup, SameGroupSet, SetGroup
<1>9. CASE BeginStop
  BY <1>e, <1>9, CaughtGroup DEF BeginStop, NoNewLeader
<1>10. CASE Crash \/ Exit
  <2>1. \A r \in Runs : exec'[r] = Forget(exec[r])
    BY <1>10 DEF Crash, Exit, GoDown
  <2>2. \A r \in Runs : Forget(exec[r]).group = exec[r].group
    BY DEF Forget, NoExecution
  <2> QED BY <2>1, <2>2 DEF NoNewLeader
<1>11. CASE PassStarts \/ PassEnds \/ Boot \/ Environment
  BY <1>11, ExecKept DEF PassStarts, PassEnds, Boot, Environment, runnerVars
<1>12. ASSUME NEW d \in Deliveries, RecoverExpired(d) PROVE NoNewLeader
  BY <1>12, ExecKept DEF RecoverExpired, runnerVars
<1>13. ASSUME NEW r \in EventRuns, ResolveRecovered(r) PROVE NoNewLeader
  BY <1>13, ExecKept DEF ResolveRecovered
<1> QED BY <1>1, <1>3, <1>4, <1>5, <1>6, <1>7, <1>8, <1>9, <1>10, <1>11, <1>12, <1>13,
           LaunchGroup, CallbackGroup, RecoveryGroup DEF RunnerNext, Confirm

-----------------------------------------------------------------------------
(* Leaders and the rows of their deliveries. *)

\* A handler past its first step has checked its run, which no other handler
\* could have ended since; a leader belongs to the last attempt of its delivery,
\* which waits for nothing.
Midway == BusyPhases \ {"handed"}

HandlerHasLease(r) ==
  exec[r].phase \in Midway =>
    delivery[r.delivery].state = "leased" /\ delivery[r.delivery].attempt = r.attempt

LeaderIsLast(r) ==
  exec[r].group = "leader" =>
    /\ delivery[r.delivery].state \in {"leased", "succeeded", "dead_letter"}
    /\ delivery[r.delivery].attempt = r.attempt

LeadersHold == \A r \in EventRuns : HandlerHasLease(r) /\ LeaderIsLast(r)

RowsHeld == \A d \in Deliveries : /\ delivery'[d].state = delivery[d].state
                                  /\ delivery'[d].attempt = delivery[d].attempt

LEMMA UnchangedHolds ==
  ASSUME UNCHANGED delivery
  PROVE  RowsHeld
BY DEF RowsHeld

LEMMA EnvironmentHolds ==
  ASSUME IInv, Environment, busy # NoRun
  PROVE  RowsHeld
<1>1. delivery \in [Deliveries -> DeliveryRows]
  BY DEF IInv, TypeOK
<1>2. Record \/ Clock
  BY DEF Environment, TickSnapshots, Serving, Idle
<1>3. CASE Record
  BY <1>3, UnchangedHolds DEF Record, AppendTrustedJobEvent
<1>4. CASE Clock
  <2>1. PICK d \in Deliveries : LeaseAges(d) \/ BackoffElapses(d)
    BY <1>4 DEF Clock
  <2>2. \/ delivery' = [delivery EXCEPT ![d] = [delivery[d] EXCEPT !.ttl = delivery[d].ttl - 1]]
        \/ delivery' = [delivery EXCEPT ![d] = [delivery[d] EXCEPT !.next = "due"]]
    BY <2>1 DEF LeaseAges, BackoffElapses
  <2>3. PICK new : /\ delivery' = [delivery EXCEPT ![d] = new]
                   /\ new.state = delivery[d].state /\ new.attempt = delivery[d].attempt
    <3>1. delivery[d] \in DeliveryRows
      BY <1>1
    <3>2. ASSUME NEW row \in DeliveryRows
          PROVE  /\ [row EXCEPT !.ttl = row.ttl - 1].state = row.state
                 /\ [row EXCEPT !.ttl = row.ttl - 1].attempt = row.attempt
                 /\ [row EXCEPT !.next = "due"].state = row.state
                 /\ [row EXCEPT !.next = "due"].attempt = row.attempt
      BY DEF DeliveryRows
    <3> QED BY <2>2, <3>1, <3>2
  <2> QED BY <1>1, <2>3 DEF RowsHeld
<1> QED BY <1>2, <1>3, <1>4

\* The handler between two statements was there before the step, and the rows
\* did not move under it, or it has just seen its run active.
HandlerHolds ==
  \/ busy' = NoRun
  \/ busy' \in Runs /\ exec'[busy'].phase = "handed"
  \/ busy' \in Runs /\ Active(busy') /\ UNCHANGED vars
  \/ /\ busy' = busy /\ busy \in Runs /\ RowsHeld
     /\ exec[busy].phase = "handed" => exec'[busy].phase = "handed"

LEMMA LaunchHandler ==
  ASSUME ProcessInv, NEW r \in Runs, Launch(r)
  PROVE  HandlerHolds
<1>1. CASE Resolved(r)
  BY <1>1 DEF Resolved, Go, Refused, HandlerHolds
<1>2. CASE WriteFiles(r) \/ Fork(r) \/ Identify(r) \/ Unidentified(r)
  <2>1. busy = r /\ exec[r].phase # "handed" /\ Refused
    BY <1>2 DEF WriteFiles, Fork, Identify, Unidentified, At
  <2>2. busy' = r \/ busy' = NoRun
    BY <1>2 DEF WriteFiles, Fork, Identify, Unidentified, Go, Return
  <2> QED BY <2>1, <2>2, UnchangedHolds DEF Refused, vars, HandlerHolds
<1>3. CASE \/ Begin(r) \/ ResolveFails(r) \/ WriteFails(r) \/ SpawnThrows(r)
           \/ SpawnWithoutPid(r) \/ LaunchError(r)
  BY <1>3 DEF Begin, ResolveFails, WriteFails, SpawnThrows, SpawnWithoutPid, LaunchError,
              Return, HandlerHolds
<1> QED BY <1>1, <1>2, <1>3 DEF Launch

LEMMA CallbackHandler ==
  ASSUME NEW r \in Runs, Callback(r)
  PROVE  busy' = NoRun
BY DEF Callback, Heartbeat, Timeout, Cancel, Close, ForceKill, WaitEnds, Terminated,
       GroupRecovery, Serving, Expiring, Idle, Uncaught, Ends, Rejects, Return, runnerVars

LEMMA RecoveryHandler ==
  ASSUME NEW r \in Runs, Recovery(r)
  PROVE  busy' = NoRun
<1>1. busy = NoRun
  BY DEF Recovery, PassStale, PassRetains, PassCleansPrepared, PassConfirmsCleaned,
         PassTerminates, PassLosesTrack, Found, PassVerified, PassKills, PassGivesUp, Visiting,
         Idle
<1>2. UNCHANGED busy
  BY DEF Recovery, PassStale, PassRetains, PassCleansPrepared, PassConfirmsCleaned, Retain,
         PassTerminates, PassLosesTrack, PassVerified, PassKills, PassGivesUp, Visited,
         PassThrows
<1> QED BY <1>1, <1>2

LEMMA HandlerStep ==
  ASSUME IInv, ProcessInv, [RunnerNext]_allVars
  PROVE  HandlerHolds
<1>b. busy \in Runs \cup {NoRun} /\ exec \in [Runs -> Executions]
  BY DEF ProcessInv, RunnerTypeOK
<1>1. CASE UNCHANGED allVars
  BY <1>b, <1>1, UnchangedHolds DEF allVars, vars, runnerVars, HandlerHolds
<1>2. CASE Environment
  <2>1. UNCHANGED <<busy, exec>>
    BY <1>2 DEF Environment, runnerVars
  <2> QED BY <1>b, <1>2, <2>1, EnvironmentHolds DEF HandlerHolds
<1>h. \A rev : [NoExecution EXCEPT !.phase = "handed", !.rev = rev].phase = "handed"
  BY DEF NoExecution
<1>g. ASSUME NEW r \in Runs, NEW rev, Go(r, [NoExecution EXCEPT !.phase = "handed", !.rev = rev])
      PROVE  HandlerHolds
  <2> DEFINE x == [NoExecution EXCEPT !.phase = "handed", !.rev = rev]
  <2>1. x.phase = "handed"
    BY <1>h
  <2>2. busy' = r /\ exec' = [exec EXCEPT ![r] = x]
    BY <1>g DEF Go, Set
  <2> HIDE DEF x
  <2> QED BY <1>b, <2>1, <2>2 DEF HandlerHolds
<1>3. ASSUME NEW j \in Jobs, NEW k \in 1..MaxOrdinary, Start(j, k) PROVE HandlerHolds
  <2>1. [job |-> j, ordinal |-> k] \in Runs
    BY DEF Runs, OrdinaryRuns
  <2> QED BY <1>3, <1>g, <2>1 DEF Start
<1>4. ASSUME NEW d \in Deliveries, ClaimNext(d) PROVE HandlerHolds
  <2>1. EventRun(d, delivery[d].attempt + 1) \in Runs
    <3>1. delivery[d] \in DeliveryRows /\ RowOK(delivery[d]) /\ delivery[d].state \in Waiting
      BY <1>4 DEF ClaimNext, ClaimNextJobEventDelivery, Claim, Claimable, IInv, TypeOK,
                  RowLedger
    <3> QED BY <3>1, LeasedOK, EventRunType
  <2> QED BY <1>4, <1>g, <2>1 DEF ClaimNext
<1>5. ASSUME NEW r \in Runs, Kernel(r) PROVE HandlerHolds
  <2>1. UNCHANGED <<busy, delivery>>
    BY <1>5 DEF Kernel, LeaderExits, OrphansExit, Refused, vars
  <2>2. PICK left \in {"none", "orphans"} :
          exec' = [exec EXCEPT ![r] = [exec[r] EXCEPT !.group = left]]
    BY <1>5 DEF Kernel, LeaderExits, OrphansExit, Set
  <2>3. [exec[r] EXCEPT !.group = left].phase = exec[r].phase
    BY <1>b DEF Executions
  <2>4. \A s \in Runs : exec'[s].phase = exec[s].phase
    BY <1>b, <2>2, <2>3
  <2> QED BY <1>b, <2>1, <2>4, UnchangedHolds DEF HandlerHolds
<1>6. ASSUME NEW r \in Runs, StopRun(r) \/ StopCompletes(r) PROVE HandlerHolds
  BY <1>6 DEF StopRun, StopThrows, StopCompletes, Return, HandlerHolds
<1>7. ASSUME NEW r \in EventRuns, Confirm(r) \/ ResolveRecovered(r) PROVE HandlerHolds
  BY <1>7 DEF Confirm, PersistIdentity, IdentityRefused, ResolveRecovered, Idle, Return,
              HandlerHolds
<1>8. ASSUME NEW d \in Deliveries, RecoverExpired(d) PROVE HandlerHolds
  BY <1>8 DEF RecoverExpired, Serving, Idle, runnerVars, HandlerHolds
<1>9. CASE PassStarts \/ PassEnds \/ BeginStop \/ Crash \/ Exit \/ Boot
  <2>1. busy' = NoRun
    BY <1>9 DEF PassStarts, PassEnds, BeginStop, Crash, Exit, Boot, GoDown, Serving, Idle,
                ProcessInv, BusyFits
  <2> QED BY <2>1 DEF HandlerHolds
<1>10. ASSUME NEW r \in Runs, Callback(r) \/ Recovery(r) PROVE HandlerHolds
  BY <1>10, CallbackHandler, RecoveryHandler DEF HandlerHolds
<1> QED BY <1>1, <1>2, <1>3, <1>4, <1>5, <1>6, <1>7, <1>8, <1>9, <1>10, LaunchHandler
        DEF RunnerNext

\* An attempt that owns its delivery is retried only when its leader is gone.
LEMMA AttemptStays ==
  ASSUME IInv, [Next]_vars, RetrySafe, NEW r \in EventRuns,
         delivery[r.delivery].state \in {"leased", "succeeded", "dead_letter"},
         delivery[r.delivery].attempt = r.attempt,
         exec[r].group = "leader"
  PROVE  /\ delivery'[r.delivery].state \in {"leased", "succeeded", "dead_letter"}
         /\ delivery'[r.delivery].attempt = r.attempt
<1> DEFINE d == r.delivery  row == delivery[d]
<1>1. d \in Deliveries /\ r = EventRun(d, r.attempt)
  BY EventRunInjective
<1>2. row \in DeliveryRows /\ RowOK(row) /\ RowStep(d)
  BY <1>1, StepShape DEF IInv, TypeOK, RowLedger, Shape
<1>3. ~(row.state = "leased" /\ delivery'[d].state = "retry_wait")
  BY <1>1 DEF RetrySafe
<1>4. CASE Stays(d)
  BY <1>4 DEF Stays
<1>5. CASE Enqueued(d) \/ Claimed(d) \/ Ripened(d) \/ GivenUp(d)
  BY <1>5 DEF Enqueued, Claimed, Ripened, GivenUp, Waiting
<1>6. CASE Retimed(d)
  <2>1. PICK ticks \in 0..LeaseTicks : delivery'[d] = [row EXCEPT !.ttl = ticks]
    BY <1>6 DEF Retimed
  <2> QED BY <1>2, <2>1 DEF DeliveryRows
<1>7. CASE Completed(d)
  BY <1>2, <1>7 DEF Completed, Succeeded, DeliveryRows
<1>8. CASE Failed(d)
  <2>1. PICK force \in BOOLEAN : delivery'[d] = FailureState(row, row.attempt, force)
    BY <1>8 DEF Failed
  <2>2. /\ FailureState(row, row.attempt, force).state \in {"dead_letter", "retry_wait"}
        /\ FailureState(row, row.attempt, force).attempt = row.attempt
    BY <1>2 DEF FailureState, DeadLettered, DeliveryRows
  <2>3. row.state = "leased"
    BY <1>8 DEF Failed
  <2> QED BY <1>3, <2>1, <2>2, <2>3
<1> QED BY <1>2, <1>4, <1>5, <1>6, <1>7, <1>8 DEF RowStep

LEMMA LeadersStep == IInv /\ ProcessInv /\ LeadersHold /\ [RunnerNext]_allVars => LeadersHold'
<1> SUFFICES ASSUME IInv, ProcessInv, LeadersHold, [RunnerNext]_allVars, NEW r \in EventRuns
             PROVE  HandlerHasLease(r)' /\ LeaderIsLast(r)'
  BY DEF LeadersHold
<1>r. r \in Runs /\ r.delivery \in Deliveries /\ r.attempt \in Attempts
      /\ r = EventRun(r.delivery, r.attempt)
  BY EventRunInjective DEF Runs
<1>n. NoRun \notin Runs
  BY RunnerAssumption
<1>1. HandlerHasLease(r)'
  <2> SUFFICES ASSUME exec'[r].phase \in Midway
               PROVE  delivery'[r.delivery].state = "leased"
               /\ delivery'[r.delivery].attempt = r.attempt
    BY DEF HandlerHasLease
  <2>1. busy' = r
    <3>1. ProcessInv'
      BY ProcessStep
    <3> QED BY <1>r, <3>1 DEF ProcessInv, BusyFits, Midway
  <2>2. exec'[r].phase # "handed"
    BY DEF Midway
  <2>3. CASE Active(r) /\ UNCHANGED vars
    <3>1. delivery[r.delivery].state = "leased" /\ delivery[r.delivery].attempt = r.attempt
      BY <1>r, <2>3, ActiveIsLeased
    <3> QED BY <2>3, <3>1 DEF vars
  <2>4. CASE /\ busy = r /\ RowsHeld
             /\ exec[r].phase = "handed" => exec'[r].phase = "handed"
    <3>1. exec[r].phase \in Midway
      BY <1>r, <2>2, <2>4 DEF ProcessInv, BusyFits, Midway
    <3> QED BY <1>r, <2>4, <3>1 DEF LeadersHold, HandlerHasLease, RowsHeld
  <2> QED BY <1>r, <1>n, <2>1, <2>2, <2>3, <2>4, HandlerStep DEF HandlerHolds
<1>2. LeaderIsLast(r)'
  <2> SUFFICES ASSUME exec'[r].group = "leader"
               PROVE  /\ delivery'[r.delivery].state \in {"leased", "succeeded", "dead_letter"}
                      /\ delivery'[r.delivery].attempt = r.attempt
    BY DEF LeaderIsLast
  <2>1. CASE exec[r].group = "leader"
    <3>1. [Next]_vars /\ RetrySafe
      BY RunnerStep, RetryStep
    <3>2. /\ delivery[r.delivery].state \in {"leased", "succeeded", "dead_letter"}
          /\ delivery[r.delivery].attempt = r.attempt
      BY <2>1 DEF LeadersHold, LeaderIsLast
    <3> QED BY <2>1, <3>1, <3>2, AttemptStays
  <2>2. ASSUME NEW s \in Runs, Fork(s), exec[r].group # "leader"
        PROVE  delivery'[r.delivery].state = "leased" /\ delivery'[r.delivery].attempt = r.attempt
    <3>1. s = r
      BY <1>r, <2>2 DEF Fork, Go, Set, ProcessInv, RunnerTypeOK
    <3>2. exec[r].phase \in Midway /\ UNCHANGED delivery
      BY <2>2, <3>1 DEF Fork, At, Midway, BusyPhases, Refused, vars
    <3> QED BY <3>2 DEF LeadersHold, HandlerHasLease
  <2> QED BY <1>r, <2>1, <2>2, LeaderStep DEF NoNewLeader
<1> QED BY <1>1, <1>2

LEMMA LeadersInit == RunnerInit => LeadersHold
BY EventRunInjective DEF RunnerInit, LeadersHold, HandlerHasLease, LeaderIsLast, NoExecution,
                         Midway, BusyPhases, Runs

LEMMA LeadersInvariance == RunnerSpec => []LeadersHold
BY LeadersInit, LeadersStep, RunnerInvariance, ProcessInvariance, PTL DEF RunnerSpec

\* Two attempts of a delivery never have a leader together: a leader belongs
\* to the attempt the row counts, whatever crashed or lost its lease.
THEOREM OneProcessPerDelivery == RunnerSpec => []OneLeaderPerDelivery
<1>1. LeadersHold => OneLeaderPerDelivery
  BY EventRunInjective DEF LeadersHold, LeaderIsLast, OneLeaderPerDelivery
<1> QED BY <1>1, LeadersInvariance, PTL

\* A delivery goes back to waiting only without its leader, and after an
\* expired lease only when nothing of the attempt is left.
THEOREM RetriesFollowAbsence == RunnerSpec => RetryAfterAbsence
<1>1. IInv /\ ProcessInv /\ [RunnerNext]_allVars =>
        \A d \in Deliveries :
          (delivery[d].state = "leased" /\ delivery'[d].state = "retry_wait") =>
            LET x == exec[EventRun(d, delivery[d].attempt)]
            IN  /\ x.group # "leader"
                /\ delivery[d].ttl = 0 => x.group = "none" /\ ~x.dir
  BY RetryStep DEF RetrySafe
<1> QED BY <1>1, RunnerInvariance, ProcessInvariance, PTL DEF RunnerSpec, RetryAfterAbsence
=============================================================================
