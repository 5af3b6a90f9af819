--------------------------- MODULE JobRunnerProofs ---------------------------
(***************************************************************************)
(* The runner implements the rows: for every number of jobs, events,       *)
(* attempts, slots and restarts, a behaviour of JobRunner is a behaviour   *)
(* of JobDelivery, so every safety theorem about the rows holds of it.     *)
(***************************************************************************)
EXTENDS JobRunner, JobDeliveryProofs

\* What the runner may do to the rows in one step.
RowsStep == Next \/ UNCHANGED vars

-----------------------------------------------------------------------------
(* The calls into ingenium-core. *)

LEMMA RefusedStep == Refused => RowsStep
BY DEF Refused, RowsStep

LEMMA HolderStep ==
  ASSUME NEW d \in Deliveries, NEW n \in Claims(d), HolderCall(d, n)
  PROVE  RowsStep
BY DEF RowsStep, Next, Callers

\* The attempt of a run that holds its lease is a claim that was handed out.
LEMMA AttemptIsClaim ==
  ASSUME IInv, NEW r \in EventRuns,
         delivery[r.delivery].rev = r.attempt \/ delivery[r.delivery].attempt = r.attempt
  PROVE  r.delivery \in Deliveries /\ r.attempt \in Claims(r.delivery)
<1>1. r.delivery \in Deliveries /\ r.attempt \in Attempts
  BY EventRunInjective
<1>2. delivery[r.delivery] \in DeliveryRows /\ RowOK(delivery[r.delivery])
  BY <1>1 DEF IInv, TypeOK, RowLedger
<1>3. delivery[r.delivery].attempt = r.attempt
  BY <1>1, <1>2 DEF RowOK
<1>4. r.attempt \in Nat /\ r.attempt >= 1
  BY <1>1, ConstantsAssumption DEF Attempts
<1> QED BY <1>1, <1>3, <1>4 DEF Claims

LEMMA CompleteStep ==
  ASSUME IInv, NEW r \in EventRuns, NEW outcome, NEW force \in BOOLEAN,
         outcome \in Failures \/ (outcome = "success" /\ force = FALSE),
         Complete(r, outcome, force)
  PROVE  RowsStep
<1>1. CASE ~OwnsLease(r.delivery, r.attempt)
  BY <1>1, RefusedStep DEF Complete
<1>2. CASE OwnsLease(r.delivery, r.attempt)
  <2>1. CompleteJobEventDelivery(r.delivery, r.attempt, outcome, force)
    BY <1>2 DEF Complete
  <2>2. r.delivery \in Deliveries /\ r.attempt \in Claims(r.delivery)
    BY <1>2, AttemptIsClaim DEF OwnsLease
  <2>3. HolderCall(r.delivery, r.attempt)
    BY <2>1 DEF HolderCall
  <2> QED BY <2>2, <2>3, HolderStep
<1> QED BY <1>1, <1>2

LEMMA FinishStep ==
  ASSUME NEW r \in Runs, NEW status \in Outcomes, FinishJobRun(r, status)
  PROVE  RowsStep
BY DEF RowsStep, Next, RunCalls

LEMMA OutcomesKnown ==
  /\ {"failed", "timeout", "cancelled"} \subseteq Failures
  /\ {"success", "failed", "timeout"} \subseteq Outcomes
BY ConstantsAssumption, RunnerAssumption DEF Outcomes

LEMMA EndRunStep ==
  ASSUME IInv, NEW r \in Runs, NEW outcome \in {"success", "failed"},
         EndRun(r, outcome, FALSE)
  PROVE  RowsStep
<1>1. CASE r \in EventRuns
  BY <1>1, CompleteStep, OutcomesKnown DEF EndRun
<1>2. CASE r \notin EventRuns
  BY <1>2, FinishStep, OutcomesKnown DEF EndRun
<1> QED BY <1>1, <1>2

LEMMA FailIfActiveStep ==
  ASSUME NEW r \in Runs, FailIfActive(r)
  PROVE  RowsStep
BY FinishStep, RefusedStep, OutcomesKnown DEF FailIfActive

LEMMA ResolveStep ==
  ASSUME IInv, NEW d \in Deliveries, NEW n,
         NEW resolution \in {"retry", "dead_letter"},
         ResolveExpiredJobEventLease(d, n, resolution)
  PROVE  RowsStep
<1>1. delivery[d].state = "leased" /\ delivery[d].attempt = n
  BY DEF ResolveExpiredJobEventLease
<1>2. delivery[d] \in DeliveryRows /\ RowOK(delivery[d])
  BY DEF IInv, TypeOK, RowLedger
<1>3. n \in Nat /\ n >= 1
  BY <1>1, <1>2, ConstantsAssumption DEF RowOK, DeliveryRows, Attempts
<1>4. n \in Claims(d)
  BY <1>1, <1>3 DEF Claims
<1>5. HolderCall(d, n)
  BY DEF HolderCall
<1> QED BY <1>4, <1>5, HolderStep

-----------------------------------------------------------------------------
(* The steps of the runner. *)

LEMMA EnvironmentStep == Environment => RowsStep
<1> SUFFICES ASSUME Environment PROVE RowsStep
  OBVIOUS
<1>1. CASE TickSnapshots
  BY <1>1 DEF TickSnapshots, RowsStep, Next, Dispatch
<1> QED BY <1>1 DEF Environment, RowsStep, Next

LEMMA LaunchStep ==
  ASSUME IInv, NEW r \in Runs, Launch(r) PROVE RowsStep
<1>1. CASE Begin(r)
  BY <1>1, EndRunStep, RefusedStep DEF Begin
<1>2. CASE Resolved(r) \/ WriteFiles(r) \/ Fork(r) \/ Identify(r) \/ Unidentified(r)
  BY <1>2, RefusedStep DEF Resolved, WriteFiles, Fork, Identify, Unidentified
<1>3. CASE ResolveFails(r) \/ WriteFails(r)
  BY <1>3, EndRunStep, RefusedStep DEF ResolveFails, WriteFails, EndIfStillRunning
<1>4. CASE SpawnThrows(r) \/ LaunchError(r)
  BY <1>4, EndRunStep DEF SpawnThrows, LaunchError
<1>5. CASE SpawnWithoutPid(r)
  BY <1>5, CompleteStep, RefusedStep, OutcomesKnown DEF SpawnWithoutPid
<1> QED BY <1>1, <1>2, <1>3, <1>4, <1>5 DEF Launch

LEMMA ConfirmStep ==
  ASSUME IInv, NEW r \in EventRuns, Confirm(r) PROVE RowsStep
<1>1. CASE PersistIdentity(r)
  <2>1. PersistJobEventAttemptProcessIdentity(r.delivery, r.attempt)
    BY <1>1 DEF PersistIdentity
  <2>2. r.delivery \in Deliveries /\ r.attempt \in Claims(r.delivery)
    BY <2>1, AttemptIsClaim DEF PersistJobEventAttemptProcessIdentity, OwnsLease
  <2> QED BY <2>1, <2>2, HolderStep DEF HolderCall
<1>2. CASE IdentityRefused(r)
  BY <1>2, CompleteStep, OutcomesKnown DEF IdentityRefused
<1> QED BY <1>1, <1>2 DEF Confirm

LEMMA CallbackStep ==
  ASSUME IInv, NEW r \in Runs, Callback(r) PROVE RowsStep
<1>1. CASE Heartbeat(r)
  <2>1. CASE OwnsLease(r.delivery, r.attempt)
    <3>1. r \in EventRuns /\ HeartbeatJobEventDelivery(r.delivery, r.attempt)
      BY <1>1, <2>1 DEF Heartbeat
    <3>2. r.delivery \in Deliveries /\ r.attempt \in Claims(r.delivery)
      BY <2>1, <3>1, AttemptIsClaim DEF OwnsLease
    <3> QED BY <3>1, <3>2, HolderStep DEF HolderCall
  <2>2. CASE ~OwnsLease(r.delivery, r.attempt)
    BY <1>1, <2>2, RefusedStep DEF Heartbeat
  <2> QED BY <2>1, <2>2
<1>2. CASE Timeout(r)
  BY <1>2, FinishStep, RefusedStep, OutcomesKnown DEF Timeout
<1>3. CASE Cancel(r)
  <2>1. CancelJobRun(r) \/ Refused
    BY <1>3 DEF Cancel
  <2> QED BY <2>1, RefusedStep DEF RowsStep, Next, RunCalls
<1>4. CASE Close(r)
  <2>1. Refused \/ \E outcome \in {"success", "failed"} : EndRun(r, outcome, FALSE)
    BY <1>4 DEF Close
  <2> QED BY <2>1, EndRunStep, RefusedStep
<1>5. CASE ForceKill(r) \/ WaitEnds(r) \/ GroupRecovery(r)
  BY <1>5, RefusedStep DEF ForceKill, WaitEnds, GroupRecovery
<1>6. CASE Terminated(r)
  <2>1. Refused \/ \E force \in BOOLEAN : r \in EventRuns /\ Complete(r, "timeout", force)
    BY <1>6 DEF Terminated
  <2> QED BY <2>1, CompleteStep, RefusedStep, OutcomesKnown
<1> QED BY <1>1, <1>2, <1>3, <1>4, <1>5, <1>6 DEF Callback

LEMMA RecoveryStep ==
  ASSUME NEW r \in Runs, Recovery(r) PROVE RowsStep
<1>1. CASE PassStale(r) \/ PassCleansPrepared(r)
  BY <1>1, FailIfActiveStep DEF PassStale, PassCleansPrepared
<1>2. CASE \/ PassRetains(r) \/ PassConfirmsCleaned(r) \/ PassTerminates(r)
           \/ PassLosesTrack(r) \/ PassVerified(r) \/ PassKills(r) \/ PassGivesUp(r)
  BY <1>2, RefusedStep DEF PassRetains, PassConfirmsCleaned, PassTerminates,
                           PassLosesTrack, PassVerified, PassKills, PassGivesUp
<1> QED BY <1>1, <1>2 DEF Recovery

LEMMA LeaseRecoveryStep ==
  ASSUME IInv
  PROVE  /\ \A d \in Deliveries : RecoverExpired(d) => RowsStep
         /\ \A r \in EventRuns : ResolveRecovered(r) => RowsStep
<1>1. ASSUME NEW d \in Deliveries, RecoverExpired(d) PROVE RowsStep
  BY <1>1, ResolveStep, RefusedStep DEF RecoverExpired
<1>2. ASSUME NEW r \in EventRuns, ResolveRecovered(r) PROVE RowsStep
  <2>1. r.delivery \in Deliveries
    BY EventRunInjective
  <2>2. Refused \/ \E resolution \in {"retry", "dead_letter"} :
                     ResolveExpiredJobEventLease(r.delivery, r.attempt, resolution)
    BY <1>2 DEF ResolveRecovered
  <2> QED BY <2>1, <2>2, ResolveStep, RefusedStep
<1> QED BY <1>1, <1>2

LEMMA LifecycleStep ==
  ASSUME IInv
  PROVE  /\ \A r \in Runs : StopRun(r) \/ StopCompletes(r) => RowsStep
         /\ PassStarts \/ PassEnds \/ BeginStop \/ Crash \/ Exit \/ Boot => RowsStep
<1>1. ASSUME NEW r \in Runs, StopRun(r) PROVE RowsStep
  <2>1. CancelJobRun(r) \/ Refused
    BY <1>1 DEF StopRun
  <2> QED BY <2>1, RefusedStep DEF RowsStep, Next, RunCalls
<1>2. ASSUME NEW r \in Runs, StopCompletes(r) PROVE RowsStep
  <2>1. Refused \/ \E force \in BOOLEAN : r \in EventRuns /\ Complete(r, "cancelled", force)
    BY <1>2 DEF StopCompletes
  <2> QED BY <2>1, CompleteStep, RefusedStep, OutcomesKnown
<1>3. ASSUME PassStarts \/ PassEnds \/ BeginStop \/ Crash \/ Exit PROVE RowsStep
  BY <1>3, RefusedStep DEF PassStarts, PassEnds, BeginStop, Crash, Exit, GoDown
<1>4. ASSUME Boot PROVE RowsStep
  <2>1. RecoverInterruptedJobRuns \/ Refused
    BY <1>4 DEF Boot
  <2> QED BY <2>1, RefusedStep DEF RowsStep, Next, RunCalls
<1> QED BY <1>1, <1>2, <1>3, <1>4

LEMMA RunnerStep == IInv /\ [RunnerNext]_allVars => [Next]_vars
<1> SUFFICES ASSUME IInv, RunnerNext PROVE RowsStep
  BY DEF allVars, RowsStep
<1>1. ASSUME NEW j \in Jobs, NEW k \in 1..MaxOrdinary, Start(j, k) PROVE RowsStep
  BY <1>1 DEF Start, RowsStep, Next, RunCalls
<1>2. ASSUME NEW d \in Deliveries, ClaimNext(d) PROVE RowsStep
  BY <1>2 DEF ClaimNext, RowsStep, Next, Dispatch
<1>3. ASSUME NEW r \in Runs, Kernel(r) PROVE RowsStep
  BY <1>3, RefusedStep DEF Kernel, LeaderExits, OrphansExit
<1> QED BY <1>1, <1>2, <1>3, EnvironmentStep, LaunchStep, ConfirmStep, CallbackStep,
           RecoveryStep, LeaseRecoveryStep, LifecycleStep DEF RunnerNext

-----------------------------------------------------------------------------
(* The results. *)

LEMMA RunnerInvariance == RunnerSpec => []IInv
<1>1. RunnerInit => IInv
  BY InitIInv DEF RunnerInit
<1>2. IInv /\ [RunnerNext]_allVars => IInv'
  BY RunnerStep, StepShape, ShapeKeepsIInv
<1> QED BY <1>1, <1>2, PTL DEF RunnerSpec

\* Scheduler, runner, recovery, shutdown and restart only ever take steps the
\* row specification allows.
THEOREM RunnerImplementsDelivery == RunnerSpec => ImplementsDelivery
<1>1. RunnerInit => Init
  BY DEF RunnerInit
<1>2. IInv /\ [RunnerNext]_allVars => [UNCHANGED vars \/ Next]_vars
  BY RunnerStep
<1> QED BY <1>1, <1>2, RunnerInvariance, PTL DEF RunnerSpec, ImplementsDelivery

\* The property, with its stutter named, is the specification of the rows.
LEMMA DeliveryIsImplemented == ImplementsDelivery => Spec
<1>1. [UNCHANGED vars \/ Next]_vars => [Next]_vars
  OBVIOUS
<1> QED BY <1>1, PTL DEF ImplementsDelivery, Spec

\* So the limits of two active runs, and one per organization and job, hold of
\* the rows whatever the processes do.
THEOREM RunnerKeepsLimits == RunnerSpec => []ConcurrencyLimits
BY RunnerImplementsDelivery, DeliveryIsImplemented, LimitsHold, PTL
=============================================================================
