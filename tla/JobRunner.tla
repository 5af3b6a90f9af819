------------------------------ MODULE JobRunner ------------------------------
(***************************************************************************)
(* The process half of job automation: services/ingenium-api's             *)
(* job-runner.ts, driven by scheduler.ts, routes/jobs.ts, the lifecycle    *)
(* and the startup code, over the rows of JobDelivery.                     *)
(*                                                                         *)
(* The API is one event loop: a handler runs to its next await without     *)
(* interference, so `busy` names the run whose handler is between two      *)
(* statements that must be told apart, and only the kernel, the clock and  *)
(* a crash move meanwhile.  Every step changes the rows of JobDelivery by  *)
(* at most one of its actions.                                             *)
(***************************************************************************)
EXTENDS JobDelivery

CONSTANTS
  MaxConcurrentRuns,  \* MAX_CONCURRENT_RUNS (2 in the code)
  Inspections,        \* what an inspection of a run directory may find: is it safe to delete
  Kills,              \* whether SIGKILL reaches a group that procfs shows as owned
  NoRun,              \* no run
  MaxRestarts         \* model bound on the number of API processes

ASSUME RunnerAssumption ==
  /\ "timeout" \in Failures
  /\ MaxConcurrentRuns \in Nat \ {0}
  /\ Inspections \subseteq BOOLEAN
  /\ Kills \subseteq BOOLEAN
  /\ NoRun \notin Runs
  /\ MaxRestarts \in Nat

VaultStates == {"prepared", "spawned", "teardown_pending", "cleaned", "failed"}

\* One execution: what the API process remembers of a run, and below that what
\* outlives the process.
Executions ==
  [phase    : {"idle", "handed", "resolving", "prepared", "written", "forked",
               "identified", "unborn", "live", "closed", "done",
               "torn"},                            \* close threw half way
   slot     : BOOLEAN,                            \* counted in activeRunCount
   unproven : BOOLEAN,                            \* provenanceFailure
   timedOut : BOOLEAN,
   due      : BOOLEAN,                            \* its termination will complete the event
   term     : {"none", "grace", "waiting", "escalated", "stuck"}, \* terminationCompletions
   owned    : {"no", "captured", "unknown"},      \* ownedDetachedRuns
   secrets  : BOOLEAN,                            \* vaultSecretRuns has it
   salvage  : BOOLEAN,                            \* recoveredVaultRuns has it
   stop     : {"no", "mark", "wait"},             \* stopAllJobRuns
   thrown   : BOOLEAN,                            \* the handler threw: skip its rest
   group    : {"none", "leader", "orphans"},      \* the POSIX process group
   dir      : BOOLEAN,                            \* the private run directory
   vault    : {"none"} \cup VaultStates,          \* job_vault_runs.state
   ident    : BOOLEAN,                            \* job_vault_runs.process_id
   rev      : Nat]                                \* job_runs.job_revision

VARIABLES
  up,        \* "up", "stopping" (shutdown began) or "down"
  restarts,  \* API processes that ended so far
  busy,      \* the run whose handler is not finished, or NoRun
  exec,      \* [Runs -> Executions]
  pass       \* the recovery pass in flight and the lease the tick awaits

runnerVars == <<up, restarts, busy, exec, pass>>
allVars    == <<vars, runnerVars>>

NotListed == [vault |-> "none", ident |-> FALSE]

Passes ==
  [on      : BOOLEAN,                             \* vaultRecoveryInFlight
   listed  : [Runs -> [vault : {"none"} \cup VaultStates, ident : BOOLEAN]],
   at      : Runs \cup {NoRun},                   \* the group being torn down
   killed  : BOOLEAN,                             \* SIGKILL was tried
   awaited : EventRuns \cup {NoRun}]              \* the expired attempt

\* An execution whose termination never completes.
Wedged(x) == x.phase = "torn" \/ x.term = "stuck"

\* The types; and no exception escapes a handler that is written without a path
\* for it, and only a run that a recovery pass took over can lose its end to one.
RunnerTypeOK ==
  /\ up \in {"up", "stopping", "down"}
  /\ restarts \in 0..MaxRestarts
  /\ busy \in Runs \cup {NoRun}
  /\ exec \in [Runs -> Executions]
  /\ pass \in Passes
  /\ \A r \in Runs : /\ ~exec[r].thrown
                     /\ Wedged(exec[r]) => exec[r].salvage

NoExecution ==
  [phase |-> "idle", slot |-> FALSE, unproven |-> FALSE, timedOut |-> FALSE,
   due |-> FALSE, term |-> "none", owned |-> "no", secrets |-> FALSE,
   salvage |-> FALSE, stop |-> "no", thrown |-> FALSE, group |-> "none",
   dir |-> FALSE, vault |-> "none", ident |-> FALSE, rev |-> 0]

NoPass == [on |-> FALSE, listed |-> [r \in Runs |-> NotListed], at |-> NoRun,
           killed |-> FALSE, awaited |-> NoRun]

RunnerInit ==
  /\ Init
  /\ up = "up"
  /\ restarts = 0
  /\ busy = NoRun
  /\ exec = [r \in Runs |-> NoExecution]
  /\ pass = NoPass

-----------------------------------------------------------------------------
\* Calls into ingenium-core.  A call it refuses changes nothing.

Refused == UNCHANGED vars

Complete(r, outcome, force) ==
  IF OwnsLease(r.delivery, r.attempt)
  THEN CompleteJobEventDelivery(r.delivery, r.attempt, outcome, force)
  ELSE Refused

\* Defect: the outcome is written although the lease is lost.
EndRunWithoutLease(r, outcome, force) ==
  IF r \in EventRuns /\ OwnsLease(r.delivery, r.attempt)
  THEN Complete(r, outcome, force)
  ELSE /\ run' = [run EXCEPT ![r] = outcome]
       /\ UNCHANGED <<archived, job, recorded, dispatched, delivery, identity>>

EndRun(r, outcome, force) ==
  IF r \in EventRuns THEN Complete(r, outcome, force) ELSE FinishJobRun(r, outcome)

\* The calls that first look whether the run is still active.
FailIfActive(r) == IF Active(r) THEN FinishJobRun(r, "failed") ELSE Refused

\* isJobRunAuthorizationCurrent, for grants and principals that do not change.
AuthorizationCurrent(r) ==
  /\ job[JobOf(r)].rev = exec[r].rev
  /\ ProjectOf[JobOf(r)] \notin archived

\* The job_vault_runs row; the trigger of 081_vault_job_runs.sql aborts the rest.
Transitions ==
  ({"prepared"} \X {"spawned", "teardown_pending", "cleaned", "failed"}) \cup
  ({"spawned"} \X {"teardown_pending", "cleaned", "failed"}) \cup
  ({"teardown_pending"} \X {"cleaned", "failed"}) \cup
  ({"failed"} \X {"teardown_pending", "cleaned"})

Aborts(x, state) == x.vault \notin {"none", state} /\ <<x.vault, state>> \notin Transitions

\* An aborted write leaves the row alone and throws.
Mark(x, state) ==
  IF x.vault = "none" THEN x
  ELSE IF Aborts(x, state) THEN [x EXCEPT !.thrown = TRUE]
  ELSE [x EXCEPT !.vault = state]

\* The statements after one that may throw, and what is left once it is caught.
Then(x, y) == IF x.thrown THEN x ELSE y
Caught(x) == [x EXCEPT !.thrown = FALSE]

-----------------------------------------------------------------------------
\* What the functions of job-runner.ts do to the execution of one run.
\* `safe` is what the inspection of the run directory finds.

\* markVaultRunTeardownPending
MarkTeardownPending(x) ==
  IF x.secrets \/ x.salvage THEN Mark(x, "teardown_pending") ELSE x

\* Defect: vaultSecretRuns keeps its entry.
CleanupRunTwice(x, safe) ==
  IF ~x.secrets THEN x
  ELSE IF x.dir /\ safe THEN Mark([x EXCEPT !.dir = FALSE], "cleaned")
       ELSE Mark(x, "failed")

\* cleanupVaultSecretRun
CleanupRun(x, safe) ==
  IF ~x.secrets THEN x
  ELSE IF x.dir /\ safe
       THEN Mark([x EXCEPT !.secrets = FALSE, !.dir = FALSE], "cleaned")
       ELSE Mark([x EXCEPT !.secrets = FALSE], "failed")

\* finalizeVaultRunAfterVerifiedTeardown
FinalizeVerified(x, safe) ==
  IF x.secrets THEN CleanupRun(x, safe)
  ELSE IF ~x.salvage THEN x
  ELSE IF x.dir /\ safe
       THEN Mark([x EXCEPT !.salvage = FALSE, !.dir = FALSE], "cleaned")
       ELSE Mark(x, "failed")

\* verifyOwnedGroupTeardown: ownership is given up once the group is empty, and
\* an execution without a captured leader can never be verified.
Vanished(x) == x.owned = "captured" /\ x.group = "none"

VerifyTeardown(x, safe) ==
  IF Vanished(x) THEN FinalizeVerified([x EXCEPT !.owned = "no"], safe) ELSE x

\* Defect: the files go with the leader, whatever is left of its group.
CleanupAtOnce(x, safe) == CleanupRun(x, safe)

\* cleanupVaultSecretRunAfterTeardown
CleanupAfterTeardown(x, safe) ==
  IF x.owned = "no" THEN CleanupRun(x, safe)
  ELSE LET y == MarkTeardownPending(x) IN Then(y, VerifyTeardown(y, safe))

\* signalOwnedGroup, up to the signal: an empty group is finalized (and stays
\* owned), one that cannot be verified is kept as evidence.
Signal(x, safe) ==
  IF Vanished(x) THEN FinalizeVerified(x, safe)
  ELSE IF x.owned = "unknown" THEN MarkTeardownPending(x)
  ELSE x

\* terminateProcess, up to the timer; only the first call counts.
Terminate(x, safe) ==
  IF x.term = "none" THEN Signal([x EXCEPT !.term = "grace"], safe) ELSE x

\* The pair every caller makes: terminateProcess, then the cleanup.
Abandon(x, safe) ==
  LET y == Terminate(x, safe) IN Then(y, CleanupAfterTeardown(y, safe))

-----------------------------------------------------------------------------
Idle ==
  /\ up # "down"
  /\ busy = NoRun
  /\ \A r \in Runs : exec[r].stop # "mark"

Serving == Idle /\ up = "up"

\* The steps of r's synchronous code.
At(r, phase) == up # "down" /\ busy = r /\ exec[r].phase = phase

Set(r, x) == exec' = [exec EXCEPT ![r] = x]

Go(r, x)     == Set(r, x) /\ busy' = r     /\ UNCHANGED <<up, restarts, pass>>
Return(r, x) == Set(r, x) /\ busy' = NoRun /\ UNCHANGED <<up, restarts, pass>>

\* stopAllJobRuns collects runningProcesses, which finalize has not emptied yet.
Collected(x) ==
  IF x.phase \in {"live", "unborn", "torn"} THEN [x EXCEPT !.stop = "mark"] ELSE x

\* An exception out of a timer or an event handler shuts the API down, at once
\* and only the first time.
Uncaught(r, x) ==
  /\ IF up = "up"
     THEN /\ up' = "stopping"
          /\ exec' = [s \in Runs |-> Collected(IF s = r THEN Caught(x) ELSE exec[s])]
     ELSE /\ UNCHANGED up
          /\ Set(r, Caught(x))
  /\ busy' = NoRun
  /\ UNCHANGED <<restarts, pass>>

Ends(r, x) == IF x.thrown THEN Uncaught(r, x) ELSE Return(r, x)

\* An exception in the force kill rejects a promise nobody awaits: the
\* escalation is never resolved.
Rejects(r, x) == Return(r, IF x.thrown THEN [Caught(x) EXCEPT !.term = "stuck"] ELSE x)

\* Defect: the early returns forget activeRunCount.
GiveUpKeepingSlot(x) == [x EXCEPT !.phase = "done"]

\* An execution that ends without a child.
GiveUp(x) == [x EXCEPT !.phase = "done", !.slot = FALSE]

-----------------------------------------------------------------------------
\* executeJobRun.

\* The manual route and the cron tick.
Start(j, k) ==
  LET r == [job |-> j, ordinal |-> k]
  IN  /\ Serving
      /\ StartJobRun(j, k)
      /\ Go(r, [NoExecution EXCEPT !.phase = "handed", !.rev = job[j].rev])

\* The event tick, unless it awaits a recovery.
ClaimNext(d) ==
  /\ Serving
  /\ pass.awaited = NoRun
  /\ ClaimNextJobEventDelivery(d)
  /\ Go(EventRun(d, delivery[d].attempt + 1),
        [NoExecution EXCEPT !.phase = "handed", !.rev = delivery[d].jobRev])

Occupied == {r \in Runs : exec[r].slot}

Begin(r) ==
  /\ At(r, "handed")
  /\ IF Cardinality(Occupied) >= MaxConcurrentRuns
     THEN EndRun(r, "failed", FALSE) /\ Return(r, GiveUp(exec[r]))
     ELSE Refused /\ Return(r, [exec[r] EXCEPT !.phase = "resolving", !.slot = TRUE])

\* The catalog lookup was awaited; everything is checked again before the
\* vault row is prepared.
Resolved(r) ==
  /\ Idle
  /\ exec[r].phase = "resolving"
  /\ Active(r)
  /\ AuthorizationCurrent(r)
  /\ Refused
  /\ Go(r, [exec[r] EXCEPT !.phase = "prepared", !.vault = "prepared"])

EndIfStillRunning(r) == IF Active(r) THEN EndRun(r, "failed", FALSE) ELSE Refused

ResolveFails(r) ==
  /\ Idle
  /\ exec[r].phase = "resolving"
  /\ EndIfStillRunning(r)
  /\ Return(r, GiveUp(exec[r]))

WriteFiles(r) ==
  /\ At(r, "prepared")
  /\ Refused
  /\ Go(r, [exec[r] EXCEPT !.phase = "written", !.dir = TRUE, !.secrets = TRUE])

\* The deadline passed, or a file could not be created: what is left behind.
WriteFails(r) ==
  /\ At(r, "prepared")
  /\ EndIfStillRunning(r)
  /\ \E left \in {<<"cleaned", FALSE>>, <<"failed", TRUE>>,
                  <<"teardown_pending", TRUE>>, <<"teardown_pending", FALSE>>} :
       Return(r, [GiveUp(exec[r]) EXCEPT !.vault = left[1], !.dir = left[2]])

Fork(r) ==
  /\ At(r, "written")
  /\ Refused
  /\ Go(r, [exec[r] EXCEPT !.phase = "forked", !.group = "leader"])

SpawnThrows(r) ==
  /\ At(r, "written")
  /\ EndRun(r, "failed", FALSE)
  /\ \E safe \in Inspections : Return(r, GiveUp(CleanupRun(exec[r], safe)))

\* spawn returned a child without a pid; its error event comes later.
SpawnWithoutPid(r) ==
  /\ At(r, "written")
  /\ IF r \in EventRuns THEN Complete(r, "failed", TRUE) ELSE Refused
  /\ \E safe \in Inspections :
       Return(r, Abandon([Mark(exec[r], "teardown_pending")
                            EXCEPT !.phase = "unborn", !.unproven = TRUE], safe))

LaunchError(r) ==
  /\ Idle
  /\ exec[r].phase = "unborn"
  /\ EndRun(r, "failed", FALSE)
  /\ \E safe \in Inspections :
       Return(r, CleanupRun([exec[r] EXCEPT !.phase = "closed"], safe))

\* trackDetachedProcess and recordVaultJobRunProcessIdentity: procfs shows the
\* leader with its nonce, or it does not and the execution is unproven.
Identify(r) ==
  /\ At(r, "forked")
  /\ exec[r].group = "leader"
  /\ Refused
  /\ LET x == [exec[r] EXCEPT !.owned = "captured", !.vault = "spawned", !.ident = TRUE]
     IN  IF r \in EventRuns
         THEN Go(r, [x EXCEPT !.phase = "identified"])
         ELSE Return(r, [x EXCEPT !.phase = "live"])

Unidentified(r) ==
  /\ At(r, "forked")
  /\ Refused
  /\ \E owned \in {"unknown"} \cup (IF exec[r].group = "leader" THEN {"captured"} ELSE {}) :
       LET x == [Mark(exec[r], "teardown_pending")
                   EXCEPT !.owned = owned, !.unproven = TRUE]
       IN  IF r \in EventRuns
           THEN Go(r, [x EXCEPT !.phase = "identified"])
           ELSE \E safe \in Inspections :
                  Return(r, Abandon([x EXCEPT !.phase = "live"], safe))

PersistIdentity(r) ==
  /\ At(r, "identified")
  /\ ~exec[r].unproven
  /\ PersistJobEventAttemptProcessIdentity(r.delivery, r.attempt)
  /\ Return(r, [exec[r] EXCEPT !.phase = "live"])

\* Identity unproven, or the lease ran out while the run was being resolved.
IdentityRefused(r) ==
  /\ At(r, "identified")
  /\ exec[r].unproven \/ ~OwnsLease(r.delivery, r.attempt)
  /\ Complete(r, "failed", TRUE)
  /\ \E safe \in Inspections :
       Return(r, Abandon([exec[r] EXCEPT !.phase = "live", !.unproven = TRUE], safe))

-----------------------------------------------------------------------------
\* Callbacks of a live child.

Heartbeat(r) ==
  /\ Idle
  /\ r \in EventRuns
  /\ exec[r].phase \in {"live", "torn"}
  /\ IF OwnsLease(r.delivery, r.attempt)
     THEN /\ HeartbeatJobEventDelivery(r.delivery, r.attempt)
          /\ UNCHANGED runnerVars
     ELSE /\ Refused
          /\ \E safe \in Inspections : Ends(r, Abandon(exec[r], safe))

Expiring(r) ==
  /\ Idle
  /\ exec[r].phase = "live"
  /\ ~exec[r].unproven
  /\ ~exec[r].timedOut

TimesOut(r, safe) == Abandon([exec[r] EXCEPT !.timedOut = TRUE], safe)

\* Defect: the run is left to the close event, which does not end it.
TimeoutLeavingRow(r) ==
  /\ Expiring(r)
  /\ Refused
  /\ \E safe \in Inspections : Ends(r, TimesOut(r, safe))

\* Defect: an event run is completed before its termination.
TimeoutCompletingEarly(r) ==
  /\ Expiring(r)
  /\ EndRun(r, "timeout", FALSE)
  /\ \E safe \in Inspections : Ends(r, TimesOut(r, safe))

\* The timer is armed unless the identity is unproven; close clears it.
Timeout(r) ==
  /\ Expiring(r)
  /\ \E safe \in Inspections :
       LET x == TimesOut(r, safe)
       IN  IF x.thrown
           THEN Refused /\ Uncaught(r, x)
           ELSE /\ IF r \in EventRuns THEN Refused ELSE FinishJobRun(r, "timeout")
                /\ Return(r, [x EXCEPT !.due = r \in EventRuns])

\* POST /runs/:runId/cancel: kill first, then the row, unless the kill threw.
\* A child that exited may still look alive to the API until its exit is
\* delivered.
Cancel(r) ==
  /\ Serving
  /\ run[r] # "none"
  /\ \/ /\ exec[r].phase = "live"
        /\ \E safe \in Inspections :
             LET x == Abandon(exec[r], safe)
             IN  /\ IF Active(r) /\ ~x.thrown THEN CancelJobRun(r) ELSE Refused
                 /\ Return(r, Caught(x))
     \/ /\ exec[r].phase = "live" => exec[r].group # "leader"
        /\ IF Active(r) THEN CancelJobRun(r) ELSE Refused
        /\ UNCHANGED runnerVars

\* The close event.  Without a timeout or a termination the run ends here and
\* its slot is free at once, even when descendants must still be killed.  If the
\* verification throws, finalize is not reached and the slot is kept.
Close(r) ==
  LET x == exec[r]
      natural == ~x.timedOut /\ x.term = "none"
  IN  /\ Idle
      /\ x.phase = "live"
      /\ x.group # "leader"
      /\ IF natural
         THEN \E outcome \in {"success", "failed"} : EndRun(r, outcome, FALSE)
         ELSE Refused
      /\ \E safe \in Inspections :
           LET seen == VerifyTeardown([x EXCEPT !.phase = "closed",
                                                !.slot = x.slot /\ ~natural], safe)
               left == IF seen.owned = "no" THEN seen ELSE Terminate(seen, safe)
           IN  IF seen.thrown
               THEN Uncaught(r, [seen EXCEPT !.phase = "torn"])
               ELSE Return(r, CleanupAfterTeardown(left, safe))

\* The grace timer of terminateProcess.
ForceKill(r) ==
  LET x == exec[r]
  IN  /\ Idle
      /\ x.term = "grace"
      /\ Refused
      /\ \/ /\ Vanished(x) \/ x.owned = "no"
            /\ \E safe \in Inspections :
                 Rejects(r, VerifyTeardown([x EXCEPT !.term = "escalated"], safe))
         \/ /\ x.owned = "unknown"
            /\ Return(r, MarkTeardownPending([x EXCEPT !.term = "waiting"]))
         \/ /\ x.owned = "captured" /\ x.group # "none"
            /\ \E killed \in Kills :
                 Return(r, [x EXCEPT !.term = "waiting",
                                     !.group = IF killed THEN "none" ELSE @])

\* waitForOwnedGroupTeardown is over.
WaitEnds(r) ==
  /\ Idle
  /\ exec[r].term = "waiting"
  /\ Refused
  /\ \E safe \in Inspections :
       LET x == VerifyTeardown([exec[r] EXCEPT !.term = "escalated"], safe)
       IN  Rejects(r, IF x.owned = "no" THEN x ELSE MarkTeardownPending(x))

\* Defect: the slot of a terminated run is not given back.
TerminatedKeepingSlot(r) ==
  LET x == exec[r]
  IN  /\ Idle
      /\ x.phase = "closed"
      /\ x.term = "escalated"
      /\ \E safe \in Inspections :
           LET y == VerifyTeardown([x EXCEPT !.term = "none"], safe)
           IN  /\ IF r \in EventRuns /\ x.due
                  THEN Complete(r, "timeout", y.owned # "no")
                  ELSE Refused
               /\ Return(r, y)

\* Closed and escalated: the termination promise resolves.
Terminated(r) ==
  LET x == exec[r]
  IN  /\ Idle
      /\ x.phase = "closed"
      /\ x.term = "escalated"
      /\ \E safe \in Inspections :
           LET y == VerifyTeardown([x EXCEPT !.term = "none", !.slot = FALSE], safe)
           IN  /\ IF r \in EventRuns /\ x.due
                  THEN Complete(r, "timeout", y.owned # "no")
                  ELSE Refused
               /\ Return(r, y)

\* The one-second timer that follows a teardown nobody could verify.
GroupRecovery(r) ==
  /\ Idle
  /\ Vanished(exec[r])
  /\ exec[r].phase = "closed" \/ exec[r].term # "none" \/ exec[r].salvage
  /\ Refused
  /\ \E safe \in Inspections : Ends(r, VerifyTeardown(exec[r], safe))

-----------------------------------------------------------------------------
\* recoverVaultSecretRunDirectories: one pass at a time over the runs that were
\* not cleaned when the pass began.

Listing ==
  [r \in Runs |-> IF exec[r].vault \in {"none", "cleaned"} THEN NotListed
                  ELSE [vault |-> exec[r].vault, ident |-> exec[r].ident]]

PassStarts ==
  /\ Serving
  /\ ~pass.on
  /\ pass' = [pass EXCEPT !.on = TRUE, !.listed = Listing]
  /\ Refused
  /\ UNCHANGED <<up, restarts, busy, exec>>

Visited(r, x) ==
  /\ Set(r, x)
  /\ pass' = [pass EXCEPT !.listed[r] = NotListed]
  /\ UNCHANGED <<up, restarts, busy>>

\* The exception of an aborted transition ends the pass, and the tick that
\* awaits it.
PassThrows(r, x) == Set(r, x) /\ pass' = NoPass /\ UNCHANGED <<up, restarts, busy>>

\* retainVaultRunRecovery
Retain(r, x) ==
  IF pass.listed[r].vault = "failed" THEN Visited(r, x)
  ELSE LET y == Mark(x, "teardown_pending")
       IN  IF y.thrown THEN PassThrows(r, Caught(y)) ELSE Visited(r, y)

Visiting(r) ==
  /\ Idle
  /\ pass.on
  /\ pass.at = NoRun
  /\ pass.listed[r] # NotListed

PassStale(r) ==
  /\ Visiting(r)
  /\ ~AuthorizationCurrent(r)
  /\ FailIfActive(r)
  /\ Retain(r, exec[r])

\* An unsafe directory, an unreadable procfs, an ambiguous selection (always so
\* when the leader is gone and descendants are left), or absence of the
\* process with nothing that proves the cleanup.
PassRetains(r) ==
  /\ Visiting(r)
  /\ AuthorizationCurrent(r)
  /\ Refused
  /\ Retain(r, exec[r])

\* cleanupPreparedVaultDirectory: a crash hit between the vault row and the
\* identity, and no process carries the nonce.
PassCleansPrepared(r) ==
  LET x == exec[r]
  IN  /\ Visiting(r)
      /\ AuthorizationCurrent(r)
      /\ x.group = "none"
      /\ pass.listed[r] = [vault |-> "prepared", ident |-> FALSE]
      /\ FailIfActive(r)
      /\ \E safe \in Inspections :
           Visited(r, IF x.dir /\ ~safe THEN Mark(x, "failed")
                      ELSE Mark([x EXCEPT !.dir = FALSE], "cleaned"))

\* Defect: the absent process alone confirms the cleanup.
PassConfirmsKeepingFiles(r) ==
  /\ Visiting(r)
  /\ AuthorizationCurrent(r)
  /\ exec[r].group = "none"
  /\ pass.listed[r].vault # "prepared" \/ pass.listed[r].ident
  /\ pass.listed[r].ident \/ pass.listed[r].vault = "failed"
  /\ Refused
  /\ Visited(r, Mark(exec[r], "cleaned"))

\* The directory is gone, no process carries the nonce, and the recorded
\* identity or the failed row says that something was cleaned up.
PassConfirmsCleaned(r) ==
  /\ Visiting(r)
  /\ AuthorizationCurrent(r)
  /\ exec[r].group = "none"
  /\ ~exec[r].dir
  /\ pass.listed[r].vault # "prepared" \/ pass.listed[r].ident
  /\ pass.listed[r].ident \/ pass.listed[r].vault = "failed"
  /\ Refused
  /\ Visited(r, Mark(exec[r], "cleaned"))

\* A live leader with the nonce is recorded, if need be, and remembered.
Found(r) ==
  /\ Visiting(r)
  /\ AuthorizationCurrent(r)
  /\ exec[r].group = "leader"
  /\ exec[r].ident \/ exec[r].vault = "prepared"

Recovered(r) ==
  IF exec[r].ident THEN [exec[r] EXCEPT !.salvage = TRUE]
  ELSE [exec[r] EXCEPT !.salvage = TRUE, !.ident = TRUE, !.vault = "spawned"]

\* It is owned and gets SIGTERM.  Nothing asks whether this API process is
\* running it.
PassTerminates(r) ==
  /\ Found(r)
  /\ Refused
  /\ Set(r, MarkTeardownPending([Recovered(r) EXCEPT !.owned = "captured"]))
  /\ pass' = [pass EXCEPT !.listed[r] = NotListed, !.at = r, !.killed = FALSE]
  /\ UNCHANGED <<up, restarts, busy>>

\* The leader ends, or a member cannot be verified, before it is owned.
PassLosesTrack(r) ==
  /\ Found(r)
  /\ Refused
  /\ Retain(r, Recovered(r))

\* The group under recovery is empty (it may have been finalized meanwhile by
\* the close of a child of this very process).
PassVerified(r) ==
  LET x == [exec[r] EXCEPT !.owned = "no"]
  IN  /\ Idle
      /\ pass.at = r
      /\ exec[r].group = "none"
      /\ Refused
      /\ \E safe \in Inspections :
           LET y == FinalizeVerified(x, safe)
           IN  IF y.thrown
               THEN PassThrows(r, Caught(y))
               ELSE /\ Set(r, y)
                    /\ pass' = [pass EXCEPT !.at = NoRun]
                    /\ UNCHANGED <<up, restarts, busy>>

PassKills(r) ==
  /\ Idle
  /\ pass.at = r
  /\ exec[r].group # "none"
  /\ ~pass.killed
  /\ Refused
  /\ \E killed \in Kills :
       Set(r, [exec[r] EXCEPT !.group = IF killed THEN "none" ELSE @])
  /\ pass' = [pass EXCEPT !.killed = TRUE]
  /\ UNCHANGED <<up, restarts, busy>>

PassGivesUp(r) ==
  /\ Idle
  /\ pass.at = r
  /\ exec[r].group # "none"
  /\ pass.killed
  /\ Refused
  /\ Set(r, MarkTeardownPending(exec[r]))
  /\ pass' = [pass EXCEPT !.at = NoRun]
  /\ UNCHANGED <<up, restarts, busy>>

PassEnds ==
  /\ Idle
  /\ pass.on
  /\ pass.at = NoRun
  /\ \A r \in Runs : pass.listed[r] = NotListed
  /\ pass' = [pass EXCEPT !.on = FALSE]
  /\ Refused
  /\ UNCHANGED <<up, restarts, busy, exec>>

\* recoverExpiredEventAttempt, for a lease listExpiredJobEventLeases returned.
\* A run that left no vault row left no process identity either.
RecoverExpired(d) ==
  LET n == delivery[d].rev
      r == EventRun(d, n)
  IN  /\ Serving
      /\ pass.awaited = NoRun
      /\ ProjectOf[d[1]] \notin archived
      /\ delivery[d].state = "leased"
      /\ delivery[d].ttl = 0
      /\ IF AuthorizationCurrent(r) /\ exec[r].vault # "none"
         THEN /\ Refused
              /\ pass' = [pass EXCEPT !.awaited = r, !.on = TRUE,
                                      !.listed = IF pass.on THEN @ ELSE Listing]
              /\ UNCHANGED <<up, restarts, busy, exec>>
         ELSE /\ ResolveExpiredJobEventLease(d, n, "dead_letter")
              /\ UNCHANGED runnerVars

\* Defect: the awaited pass is taken for proof of absence.
ResolveRecoveredAlwaysRetry(r) ==
  /\ Idle
  /\ pass.awaited = r
  /\ ~pass.on
  /\ \/ ResolveExpiredJobEventLease(r.delivery, r.attempt, "retry")
     \/ /\ \/ delivery[r.delivery].state # "leased"
           \/ delivery[r.delivery].rev # r.attempt
        /\ Refused
  /\ pass' = [pass EXCEPT !.awaited = NoRun]
  /\ UNCHANGED <<up, restarts, busy, exec>>

\* After the awaited pass.
ResolveRecovered(r) ==
  /\ Idle
  /\ pass.awaited = r
  /\ ~pass.on
  /\ LET resolution == IF exec[r].vault = "cleaned" THEN "retry" ELSE "dead_letter"
     IN  \/ ResolveExpiredJobEventLease(r.delivery, r.attempt, resolution)
         \/ /\ \/ delivery[r.delivery].state # "leased"
               \/ delivery[r.delivery].rev # r.attempt
            /\ Refused
  /\ pass' = [pass EXCEPT !.awaited = NoRun]
  /\ UNCHANGED <<up, restarts, busy, exec>>

-----------------------------------------------------------------------------
\* Shutdown, crash, restart, and the kernel.

\* A signal: the scheduler stops and stopAllJobRuns begins.
BeginStop ==
  /\ Serving
  /\ up' = "stopping"
  /\ exec' = [r \in Runs |-> Collected(exec[r])]
  /\ Refused
  /\ UNCHANGED <<restarts, busy, pass>>

StopThrows(r, x) ==
  /\ exec' = [s \in Runs |-> [IF s = r THEN x ELSE exec[s] EXCEPT !.stop = "no"]]
  /\ busy' = NoRun
  /\ UNCHANGED <<up, restarts, pass>>

\* Its loop: nothing else runs until every collected run was visited.  An
\* exception ends it, and what it awaits.
StopRun(r) ==
  /\ up = "stopping"
  /\ exec[r].stop = "mark"
  /\ IF r \in OrdinaryRuns /\ Active(r) THEN CancelJobRun(r) ELSE Refused
  /\ \E safe \in Inspections :
       LET x == Abandon([exec[r] EXCEPT !.stop = "wait"], safe)
       IN  IF x.thrown THEN StopThrows(r, Caught(x)) ELSE Return(r, x)

\* Promise.allSettled over the terminations, then the event runs complete.
StopCompletes(r) ==
  /\ Idle
  /\ exec[r].stop = "wait"
  /\ \A s \in Runs : exec[s].stop = "wait" => exec[s].phase = "closed" /\ exec[s].term = "none"
  /\ IF r \in EventRuns THEN Complete(r, "cancelled", exec[r].owned # "no") ELSE Refused
  /\ Return(r, [exec[r] EXCEPT !.stop = "no"])

\* What is left of an execution when the API process is gone.
Forget(x) ==
  [NoExecution EXCEPT !.phase = IF x.phase = "idle" THEN "idle" ELSE "done",
                      !.group = x.group, !.dir = x.dir, !.vault = x.vault,
                      !.ident = x.ident, !.rev = x.rev]

GoDown ==
  /\ restarts < MaxRestarts
  /\ up' = "down"
  /\ restarts' = restarts + 1
  /\ busy' = NoRun
  /\ exec' = [r \in Runs |-> Forget(exec[r])]
  /\ pass' = NoPass
  /\ Refused

Crash == up # "down" /\ GoDown

\* The event loop drained: a promise that will never settle does not hold it.
Exit ==
  /\ up = "stopping"
  /\ Idle
  /\ ~pass.on
  /\ \A r \in Runs : /\ exec[r].phase \notin {"resolving", "live", "unborn"}
                     /\ exec[r].term \notin {"grace", "waiting"}
                     /\ exec[r].phase = "closed" => exec[r].term # "escalated"
  /\ \/ \A r \in Runs : exec[r].stop = "no"
     \/ \E r \in Runs : exec[r].stop = "wait" /\ Wedged(exec[r])
  /\ GoDown

\* Startup: interrupted manual and cron runs fail, then the first pass starts.
Boot ==
  /\ up = "down"
  /\ up' = "up"
  /\ IF \E r \in OrdinaryRuns : Active(r) THEN RecoverInterruptedJobRuns ELSE Refused
  /\ pass' = [NoPass EXCEPT !.on = TRUE, !.listed = Listing]
  /\ UNCHANGED <<restarts, busy, exec>>

\* The child ends, by itself or on SIGTERM, with or without descendants left.
LeaderExits(r) ==
  /\ exec[r].group = "leader"
  /\ \E left \in {"none", "orphans"} : Set(r, [exec[r] EXCEPT !.group = left])
  /\ Refused
  /\ UNCHANGED <<up, restarts, busy, pass>>

OrphansExit(r) ==
  /\ exec[r].group = "orphans"
  /\ Set(r, [exec[r] EXCEPT !.group = "none"])
  /\ Refused
  /\ UNCHANGED <<up, restarts, busy, pass>>

-----------------------------------------------------------------------------
\* What moves the rows without the runner.
TickSnapshots ==
  \E p \in Projects \ archived :
    Serving /\ pass.awaited = NoRun /\ SnapshotTrustedJobEvents(p)

Environment ==
  /\ Record \/ TickSnapshots \/ (Serving /\ Admin) \/ Clock
  /\ UNCHANGED runnerVars

Launch(r) ==
  \/ Begin(r) \/ Resolved(r) \/ ResolveFails(r) \/ WriteFiles(r) \/ WriteFails(r)
  \/ Fork(r) \/ SpawnThrows(r) \/ SpawnWithoutPid(r) \/ LaunchError(r)
  \/ Identify(r) \/ Unidentified(r)

Confirm(r) == PersistIdentity(r) \/ IdentityRefused(r)

Callback(r) ==
  \/ Heartbeat(r) \/ Timeout(r) \/ Cancel(r) \/ Close(r) \/ ForceKill(r)
  \/ WaitEnds(r) \/ Terminated(r) \/ GroupRecovery(r)

Recovery(r) ==
  \/ PassStale(r) \/ PassRetains(r) \/ PassCleansPrepared(r) \/ PassConfirmsCleaned(r)
  \/ PassTerminates(r) \/ PassLosesTrack(r) \/ PassVerified(r) \/ PassKills(r)
  \/ PassGivesUp(r)

Kernel(r) == LeaderExits(r) \/ OrphansExit(r)

RunnerNext ==
  \/ Environment
  \/ \E j \in Jobs, k \in 1..MaxOrdinary : Start(j, k)
  \/ \E d \in Deliveries : ClaimNext(d) \/ RecoverExpired(d)
  \/ \E r \in Runs :
       Launch(r) \/ Callback(r) \/ Recovery(r) \/ Kernel(r) \/ StopRun(r) \/ StopCompletes(r)
  \/ \E r \in EventRuns : Confirm(r) \/ ResolveRecovered(r)
  \/ PassStarts \/ PassEnds \/ BeginStop \/ Crash \/ Exit \/ Boot

RunnerSpec == RunnerInit /\ [][RunnerNext]_allVars

(***************************************************************************)
(* The event loop returns to every pending callback: the catalog lookup    *)
(* settles, timers fire, a child that ended is reported closed, and        *)
(* synchronous code runs to its end, and the supervisor starts the API     *)
(* again (restart: unless-stopped).  Nothing obliges a child to exit.      *)
(***************************************************************************)
RunnerFairness ==
  /\ \A r \in Runs :
       /\ WF_allVars(Launch(r))
       /\ WF_allVars(Timeout(r))
       /\ WF_allVars(Close(r))
       /\ WF_allVars(ForceKill(r))
       /\ WF_allVars(WaitEnds(r))
       /\ WF_allVars(Terminated(r))
       /\ WF_allVars(StopRun(r))
  /\ \A r \in EventRuns : WF_allVars(Confirm(r))
  /\ WF_allVars(Boot)

FairRunnerSpec == RunnerSpec /\ RunnerFairness
-----------------------------------------------------------------------------
\* Properties.

\* The private directory with the decrypted secrets is there as long as any
\* process of the run's group is alive, and a run whose vault row is cleaned
\* has neither: cleanup follows verified teardown on every path, through two
\* maps that can both hold the run, a crash and a recovery pass.
FilesOutliveGroup ==
  \A r \in Runs : exec[r].group # "none" => exec[r].dir

CleanedIsQuiet ==
  \A r \in Runs : exec[r].vault = "cleaned" => exec[r].group = "none" /\ ~exec[r].dir

\* Two attempts of one delivery never have live child processes together,
\* through crashes of the API, lost leases and restarts.
OneLeaderPerDelivery ==
  \A r, s \in EventRuns :
    (/\ r.delivery = s.delivery
     /\ exec[r].group = "leader"
     /\ exec[s].group = "leader") => r = s

\* activeRunCount neither leaks nor lets go of a live child: it counts a run
\* from its start to the close of its child (whose exception keeps it), and to
\* the end of its termination when it was terminated before it closed.
SlotAccounting ==
  /\ Cardinality(Occupied) <= MaxConcurrentRuns
  /\ \A r \in Runs :
       /\ exec[r].phase \in {"resolving", "prepared", "written", "forked",
                             "identified", "unborn", "live", "torn"} => exec[r].slot
       /\ exec[r].slot => \/ exec[r].phase \notin {"idle", "handed", "closed", "done"}
                         \/ (exec[r].phase = "closed" /\ exec[r].term # "none")

\* "No event is retried until the durable procfs identity proves absence or a
\* verified owned group is torn down" (job-runner.ts:1975-1976): when an
\* expired lease goes back to retry_wait nothing of the attempt is left, and
\* an attempt that fails otherwise has at least lost its leader.
RetryAfterAbsence ==
  [][\A d \in Deliveries :
       (delivery[d].state = "leased" /\ delivery'[d].state = "retry_wait") =>
         LET x == exec[EventRun(d, delivery[d].attempt)]
         IN  /\ x.group # "leader"
             /\ delivery[d].ttl = 0 => x.group = "none" /\ ~x.dir]_allVars

\* Every step of the runner is a step of the rows' state machine or leaves
\* the rows alone: the runner keeps to the contract JobDelivery states, its
\* Spec (the stutter is named first, because it is what most steps are).
ImplementsDelivery == Init /\ [][UNCHANGED vars \/ Next]_vars

\* A child that SIGKILL did not end (it failed, or the process is stuck in
\* the kernel).
Survives(r) == exec[r].term = "escalated" /\ exec[r].group = "leader"

\* A slot that was taken is given back, unless the child survives its SIGKILL
\* for good, or procfs never showed it (such a child gets no signal and no
\* timeout and keeps its slot while it lives), or the trigger of 081 threw in
\* the middle of its close or of its force kill.
SlotsAreFreed ==
  \A r \in Runs :
    [](exec[r].slot => <>(\/ ~exec[r].slot
                          \/ exec[r].owned = "unknown"
                          \/ []Survives(r)
                          \/ []Wedged(exec[r])))

\* A run a recovery pass took over whose child is closed.
TakenOver(r) == exec[r].salvage /\ exec[r].phase \in {"closed", "torn"}

\* A manual or cron run ends, unless its child's identity was never proven, or
\* the trigger of 081 refused the cancellation of a run that a recovery pass had
\* taken over: such a run is left `running` by every handler until the API
\* restarts.
OrdinaryRunsEnd ==
  \A r \in OrdinaryRuns : Active(r) ~> (~Active(r) \/ exec[r].unproven \/ []TakenOver(r))

\* "A cancelled run stays cancelled" (docs/operations/jobs.md:65-66).  The
\* timeout of a run that is being cancelled still fires, and finishJobRun
\* overwrites any status.
CancelledStaysCancelled ==
  [][\A r \in Runs : run[r] = "cancelled" => run'[r] = "cancelled"]_allVars

\* "This only handles an API process restart" (scripts/api-server.ts:272-274):
\* a pass never tears down the child of a run this process is running.
RecoverySparesLiveRuns ==
  \A r \in Runs : pass.at = r /\ exec[r].group = "leader" => exec[r].phase # "live"
=============================================================================
