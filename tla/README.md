# A formal model of Ingenium

Ingenium is a self-hosted workspace for AI-assisted development: a TypeScript
monorepo whose processes (an Express API, an MCP server, a dashboard, an
extension of OpenCode) share one SQLite database. This directory holds TLA+
modules for the parts whose correctness depends on the order in which several
actors act, TLC configurations that check them on small instances, and TLAPS
proofs that hold for every value of the constants.

Paths are relative to the root of the repository; `core/` stands for
`packages/ingenium-core/lib/tools/` and `api/` for
`services/ingenium-api/`.

Contents

1. The system: parts, state, interactions, what is hard
2. The modules and the code they stand for
3. What each run checks
4. Bounds
5. Fairness
6. What is proved, and how
7. What the runs found
8. Abstractions
9. What is not modelled
10. Plan
11. Running the checks

## 1. The system

### 1.1 How the parts interact

All durable state is in SQLite. `execTransaction` (`packages/ingenium-core/lib/db.ts`) runs a
function body on a synchronous driver, so **one transaction is one atomic
step** against every other transaction of every process. Between two
transactions anything may happen that another handler, another process, the
clock or the kernel can do.

The API process is one JavaScript event loop. A handler runs **without
interference up to its next `await`**; whatever it read before an `await` may be
stale after it. Within the synchronous stretch only three things move: the
operating system (a child exits), the clock (a lease expires between two
statements) and a crash.

Two pieces of state live outside both: the processes a job has started, with
their private directories (they survive the API), and answers of a language
model that are still under way (they do not).

Three more kinds of state live outside the API: containers and their manager,
which goes on with a request after the API has given up; the files of the two
databases, which the restore executor exchanges while everything else is down;
and the agents' sessions of a worktree, which know nothing of each other but
the fences the registry hands out.

These subsystems put all of this under load at once, and they are modelled:

* **Job automation.** A trusted event is appended, fanned out to the jobs that
  match it, claimed under a lease by the scheduler's tick, executed as a
  detached process group by the runner, retried when the lease expires.
* **Maintenance locks.** Leases by project, or for all projects, that keep
  writers of the skill catalog apart.
* **Learning.** Observations are consolidated in durable batches that move
  through stages, each after an answer of the model that takes up to a minute.
* **Runtimes.** A workspace's row and its container are driven by provisioning,
  routes, overlapping reconciler passes and the gateway, each of which reads,
  awaits the manager and writes under the revision it read.
* **Coordination.** Sessions claim batches of paths under fences, mutate them
  under a recorded baseline, are taken over when their lease lapses, and
  quarantine the worktree when a mutation did not do what it declared.
* **Restore.** A fixed program stops the users of both databases, exchanges the
  files under a signed journal, and must be able to go back from every step.

### 1.2 Inventory

Status: **M** modelled, **P** partly, **–** not (with the plan in section 10).

| Part | Where | State it keeps | Operations that change it | What is hard | What makes it correct | |
|---|---|---|---|---|---|---|
| Trusted events and deliveries | `core/trusted-job-events.ts`, `core/job-event-deliveries.ts`, migration 077 | `trusted_job_events`, `job_event_dispatches`, `job_event_deliveries`, `job_event_attempts` | append, snapshot (fan-out), two claims, heartbeat, persist identity, complete, resolve expired, reconcile | leases that expire under their holder; late, repeated and superseded calls; edits of a job between fan-out and claim | fanned out once; one attempt at a time, at most five; a settled or expired lease does not come back; everything settles | M |
| Jobs and runs | `core/jobs.ts`, migrations 081, 099 | `jobs`, `job_runs`, `job_vault_runs`, dispatch cursor | create, update, delete, start, finish, cancel, recover, vault transitions | three limits counted by status in three statements and freed by six; several writers of one status | limits hold; a run ends, and once | P |
| Job runner | `api/lib/job-runner.ts` | maps of processes, groups, timers, secrets; private directories; process groups | execute, cancel, time out, close, terminate, tear down, recover, resolve expired attempt, stop | awaits between check and use; exit against cancel, timeout, lost lease, shutdown; restart with processes left behind; inspections and kills that fail | no two processes of one delivery; secrets outlive the group and then vanish; slots neither leak nor go early | P |
| Scheduler and startup | `api/lib/scheduler.ts`, `api/scripts/api-server.ts` | timers, in-flight flags | cron tick, event tick, recovery pass, learning pass, lock cleanup | ticks that overlap running work, a restart or a shutdown | recovery touches only what a previous process left | P |
| API lifecycle | `api/lib/lifecycle.ts` | shutdown flag | begin, drain, exit | work that starts after shutdown began | every child is visited | P |
| Projects | `core/projects.ts` | `projects.archived_at` | archive, unarchive | archived while work is leased | nothing of it is lost for good | P |
| Maintenance locks | `core/maintenance-locks.ts` | `maintenance_locks` | acquire, renew, release, prune | expiry against renewal, late release by a former owner, one lock against all | locks exclude; a live row changes hands only by its owner | P |
| Synthesis batches | `core/synthesis-batches.ts`, `core/synthesis.ts`, `core/observations.ts`, `api/lib/routes/synthesis.ts`, migration 089 | `synthesis_batches`, their members, observations, proposals | claim or create, renew, apply traits, persist plan, offer, submit, advance, acknowledge, release | batch read before the model is asked and written after; resumption by another owner; crash between two transactions | each stage takes effect once and for its owner; the plan is stable; batches complete | P |
| Tasks and claims | `core/task-claims.ts`, `core/tasks.ts` | tasks, claims | claim, move, release | two agents on overlapping claims | compare-and-set moves, no overlap | – |
| Coordination registry | `core/coordination.ts`, migrations 068 ff. | sessions, incarnations, epochs, claims, managed paths, restart admissions; handoffs | register, take over, claim, renew, mutate, quarantine, reconcile, recover, admit a restart | fencing of a former incarnation, leases that lapse under a holder, a second quarantine, refenced claims | a live claim is the newest on its files, a quarantine can be recovered, no lost update | P |
| Email engine | `packages/ingenium-email/lib/{sync-engine,watcher,circuit-breaker}.ts` | generations, circuit, markers | start, poll, trip, recover, stop | a poll that outlives its engine | a stopped engine writes nothing, the circuit closes again | – |
| Suggestion queue | `core/email-suggestion-queue.ts`, `core/email-cache.ts` | `email_suggestion_queue` | enqueue, claim, complete, fail | stale completions, retry limit | one worker per job | – |
| Skill governance | `core/skill-governance.ts`, `core/skills.ts` | proposals, revisions, lineage | propose, submit, approve, reject, revert | approval of a proposal whose base moved | a patch is applied once, to the base it was made for | – |
| Context and snapshot import | `core/context-*.ts` | conversations, import progress | import a chunk, resume | a chunk repeated or reordered | the result is independent of interruptions | – |
| Explicit memory | `core/explicit-memory.ts` | memories, revisions, tombstones | save, update, forget | repeated requests | idempotency keys | – |
| Backups and restore | `core/backups.ts`, `api/scripts/restore-maintenance.ts`, `api/lib/restore-supervisor.ts`, `docker-entrypoint.sh` | run row in each database version, signed journal, lock, database files and their siblings | queue, hand off, claim, each step of the exchange, undo, boot recovery; plans, staging, snapshots | a throw or a crash at each step, a row that travels with the file it lives in, a lapsed deadline | the pair is never mixed, the old pair stays until completion, the row tells the outcome | P |
| Runtimes | `core/runtimes.ts`, `api/lib/runtime-*.ts`, `api/lib/routes/runtimes.ts` | rows with revision and lease, capabilities, tickets, connections, containers | ensure, stop, revoke, pass, open, connect, heartbeat, manager request | overlapping passes, late answers, manager work that outlives its client, crash within provisioning | the capability of an adopted container is never exchanged, connections are counted, transit states and failed containers end | P |
| MCP server and child gateway | `services/ingenium-server/lib/*` | child processes, pending calls | start, restart, close, call | a call in flight across a restart | every call is answered once | – |
| Extension | `packages/ingenium-extension/*` | outbox, restart marker | enqueue, flush, acknowledge, restart | crash between send and acknowledge | at least once, in order | – |
| Provider settings | `core/settings.ts`, `api/lib/server-global-provider-persistence.ts` | database row and configuration file | write both, roll back | failure of the second write | both or neither | – |
| Repository sync | `core/repository-sync.ts`, `core/repository-docs.ts` | revisions, hashes | compare-and-set | concurrent edits | nothing is overwritten unseen | – |
| Usage accounting | `core/usage.ts`, `api/lib/usage-sync.ts` | cursor, events | ingest, upsert | cursor against partial ingestion | idempotent | – |
| Vault | `core/vault*.ts` | encrypted secrets | lookup, mutation, audit | cryptography | – | – |
| Authentication, authorization, organizations | `core/{authentication,security-tokens,authorization,organizations,...}.ts` | sessions, tokens, grants | single-transaction checks and writes | – | – | – |
| Knowledge content | `core/{docs,rag,extraction,personality,commands,agents,...}.ts` | content | CRUD and text processing | – | – | – |
| MCP catalog, HTTP routes, OpenCode clients, tunnel, dashboard | `core/mcp-*.ts`, `api/lib/routes`, `api/lib/*-client.ts`, `services/ingenium-dashboard` | little | validation, mapping, I/O | – | – | – |
| Database layer | `packages/ingenium-core/lib/db.ts` | SQLite | transactions | – | assumed: a transaction is one step | – |

`PROJECT.json` has the same list with the reason for every part that is left
out, and the hazards of the modelled parts at their lines.

## 2. The modules and the code they stand for

```
  DeliveryContract                    what the queue promises
        ^  ImplementsContract (TLC and TLAPS)
  JobDelivery                         rows: events, deliveries, jobs, runs
        ^  ImplementsDelivery (TLC and TLAPS)
  JobRunner                           processes, directories, handlers, ticks

  LearningContract                    what learning promises of each observation
        ^  ImplementsContract (TLC and TLAPS)
  Synthesis                           workers and batches, under the locks
        v  EXTENDS
  MaintenanceLocks                    locks: five functions, no Next of its own

  ExchangeContract                    what a restore promises to the programs
        ^  ImplementsContract (TLC and TLAPS)
  Restore                             executor, journal, the two database files

  FencingContract                     a lock with leases and fencing tokens
        ^  ImplementsContract (TLC and TLAPS)
  Coordination                        sessions, fences, claims, epochs

  Runtimes                            rows, capabilities, containers, manager
```

`MC*.tla` give the constants small values, `*Proofs.tla` hold the theorems. The
last three (`Restore`, `Coordination`, `Runtimes`) share no state with the others
or with each other: what connects them is assumed at their borders (a runtime's owner is authorized, a restore was
planned and staged).

### 2.1 JobDelivery

The durable half of automation. **State.** `job`, `recorded`, `dispatched`,
`delivery`, `run`, `identity` and `archived` are the tables `jobs`,
`trusted_job_events`, `job_event_dispatches`, `job_event_deliveries`,
`job_runs`, `job_event_attempts` and the column `projects.archived_at`. A
delivery is named by its event and job, as its unique index names it; a run by
the attempt that created it, or by its job and an ordinal. Times are kept as
what `now()` makes of them: `ttl` counts down the lease, `next` is `"later"` or
`"due"`.

**Actions.** One per function, and each is the whole function:
`SnapshotTrustedJobEvents`, `ClaimJobEventDelivery` (a project's claim, which
first reconciles what cannot be delivered), `ClaimNextJobEventDelivery` (the
tick's claim, which compares revisions), `HeartbeatJobEventDelivery`,
`PersistJobEventAttemptProcessIdentity`, `CompleteJobEventDelivery`,
`ResolveExpiredJobEventLease`, `StartJobRun`, `FinishJobRun`, `CancelJobRun`,
`RecoverInterruptedJobRuns`, `CreateJob`, `UpdateJob`, `DeleteJob`, archiving,
and the clock.

The module is a contract for **any** caller: whoever was ever handed a claim may
call heartbeat, identity or completion with it at any time, late, twice, after
somebody else took over. So nothing that holds here depends on how the runner
behaves.

### 2.2 DeliveryContract

Five statuses and a counter: a pair of event and job is enqueued once, worked on
by one attempt at a time and at most `MaxTries` times, and stays done or dead; a
job never has two in work. `JobDelivery!Contract` maps the rows onto it:
`queued` and `retry_wait` wait, `leased` works. Leases, revisions, owners and
back-off disappear.

### 2.3 JobRunner

The process half, over the rows of `JobDelivery` (it EXTENDS it: every step
changes the rows by at most one action of that module, by its name). **State.**
`exec[r]` is what the process knows of a run (its membership in the maps of
`job-runner.ts`: `slot` for `activeRunCount`, `term` for
`terminationCompletions`, `owned` for `ownedDetachedRuns`, `secrets` for
`vaultSecretRuns`, `salvage` for `recoveredVaultRuns`) and what outlives it: the
process group, the private directory and the row of `job_vault_runs`. `pass` is
the recovery pass in flight; `busy` names the handler that is between two
statements which must be told apart, `up` the API process.

**Actions.** `executeJobRun` is cut at its one `await` (the model catalog) and
at each statement a crash must be able to hit: `Start` or `ClaimNext`, `Begin`,
`Resolved`/`ResolveFails`, `WriteFiles`/`WriteFails`, `Fork`/`SpawnThrows`/
`SpawnWithoutPid`, `Identify`/`Unidentified`, `PersistIdentity`/
`IdentityRefused`. Callbacks: `Heartbeat`, `Timeout`, `Cancel`, `Close`,
`ForceKill` and `WaitEnds` (the two halves of the five-second grace period),
`Terminated`, `GroupRecovery`. The recovery pass: one action per decision it
takes for a row. `RecoverExpired` and `ResolveRecovered` are the tick's handling
of an expired attempt, before and after its `await`. `BeginStop`, `StopRun`,
`StopCompletes`, `Exit`, `Crash`, `Boot` are the life of the process. The
operators above them (`Abandon`, `CleanupRun`, `CleanupAfterTeardown`,
`FinalizeVerified`, `Mark`) are the functions of `job-runner.ts` they are named
after. `Mark` is guarded by the trigger of migration 081: a write against it
leaves the row alone and throws.

**Exceptions.** A run that a recovery pass took over while its child lived is in
two maps, `vaultSecretRuns` and `recoveredVaultRuns`. Once its files are cleaned
under the one, with the child's close event still to come, a heartbeat without a
lease, the timeout, a cancellation or `stopAllJobRuns` writes `teardown_pending`
over `cleaned` (`job-runner.ts:1177-1181`), and the trigger throws. `thrown` is
that exception while its handler runs, `Then` skips what follows it, and where it
ends depends on the handler: a route catches it (`Cancel`), a timer or an event
handler lets it escape and the API shuts down (`Uncaught`,
`api-server.ts:335-343`), the asynchronous half of the force kill drops it, with
the promise it should have resolved (`Rejects`, `term = "stuck"`), a pass ends
with it (`PassThrows`), and so does a shutdown (`StopThrows`). A close that
throws never reaches `finalize`: phase `"torn"`, which keeps its slot.

### 2.4 MaintenanceLocks and Synthesis

`lock[s]` is the row of a project or of `"*"`. Every function of
`maintenance-locks.ts` prunes what has expired **before** now; a row that
expires at this instant stays and still conflicts, but cannot be renewed. That
is why `ttl` distinguishes -1 and 0. A refused acquire has pruned, too, which is
the step `CleanupExpiredLocks`.

A worker of `Synthesis` is a pass of the scheduler over one project, or a manual
run; it is named by its token. It waits at the model (`Awaits`) or is in the
middle of synchronous code (`Synchronous`), where `Turn` keeps other handlers
out and lets the clock and crashes in. Stages: `ClaimBatch`/`CreateBatch`;
`Consolidated` (the traits and the stage in one transaction); `PlanReady` (the
plan persisted); `OfferItem` and `SubmitItem`, two transactions per item with
room for a crash in between; `Advance`; `Acknowledge`; the two `finally` blocks
`ReleaseBatch` and `Leave`. Beside the workers: clients of the lock routes, who
may forget to release, the cross-project synthesis, and users who patch
observations and review, propose, write, archive skills under the check of
`routes/skills.ts:781-802`. Patching an observation asks neither lock nor batch,
in the code and in the model.

`learnt[o]` is a history variable: how often the traits of an observation were
applied since it last became available.

`LearningContract` is one worker that never fails: observations that wait become
a batch, it is learnt from, gets a plan, the plan is offered, the members are
done with; users add observations and set their status. The mapping shows the
rows of batches and observations and hides workers, leases, locks, crashes and
the items being offered. Whatever a late answer or a resumption writes must be
one of these five moves, or nothing.

### 2.5 Runtimes

**State.** `row[w]` is the row of `runtime_instances` (state, adopted container,
lease, absolute lifetime, counted connections), `cap[w]` the provisioning whose
capability is bound, `box[w]` the container under the runtime's name, `session`
and `open` the browser side, `ops` the requests the manager still works on.
`task[h]` says where a holder is: the promise of `ensureRuntime` (one per
workspace), a stop or revoke route, a reconciler pass with its snapshot `pass`.

Every write raises the row's revision and every writer compares the one it read.
Only equality is ever tested, so `current` keeps, for each workspace, the holders
whose last read is still the present one: a write by anybody clears the set.

**Actions.** A handler is cut at its awaits: `Start`, `StartAnswered`,
`StartRemoved` (`runtime-provisioner.ts`), `Stop` and `Revoke` with their
answers (`routes/runtimes.ts`), `PassBegins`, then per row `PassInspects` or
`PassInspectFails`, `PassWrites`, `PassCleans`, `PassExpires`, `PassAnswered`
(`runtime-reconciler.ts`). The manager provisions in as many steps as it awaits
Docker, each by the container's name alone: `ManagerClears`, `Creates`, `Checks`
(the only one that compares the provisioning), `Starts`, `Reports`, and `Undoes`
on failure; with `ManagerStops`, `Removes`, `Fails`, and `TimesOut` for a client
that gives up while the manager goes on. `Crash` and `CrashInStart` end the process between two
transactions. `TRANSITIONS` is the table of `runtimes.ts`.

### 2.6 Coordination

**State.** `session`, `claim`, `epoch`, `managed`, `nextFence` and `admission`
are the tables of one worktree; `lapsed` is the set of sessions whose lease has
run out. All claims of a batch have one key and change together, so a batch is
one record with its managed operation and the baselines it recorded.

**Actions.** `Register` and `Recover` (a takeover is a recovery by the same
incarnation's successor), `Touch` (heartbeat and the other requests that only
raise the revision), `Close`, `Claim`, `Complete`, `CompleteMismatched`,
`Quarantine`, `ReleaseClaims`, `MarkClaims`, `MintAdmission`,
`ConsumeAdmission`, `ReconcileEpoch`, `RecoverEpoch`, and the clock. `Reaped` is
the cleanup of expired claims that the operations do first. A request of an old
revision or fence, or repeated under its idempotency key, changes nothing and is
no action.

**Contract.** `FencingContract` is what each path, and the build, is to its
users: a lock with at most one holder, who loses it by its own act or when its
lease does not run (expired, quarantined or closed), and whose token is above
every token that another session gave up. Only the holder moves the accepted
content of a path, and gives the path up with that. The contract has no batches,
operations or epochs: `lease` is the set of sessions that are active and not
lapsed, `hold` and `gone` are the live and the released claims on a unit with
their fences, `value` is the table of managed paths. Leases come and go freely
in the contract: when they do is the clock's business and the users'.

### 2.7 Restore

**State.** `file[c][s]` is the version (`old`, `restored`, or the `empty`
database that a starting container creates) in a component's place, beside it
as `new`, `rollback` or `failed`. `row[v]` is the run's row **in that version**
of the database: the executor's updates go to the file that is in place, which
is why they travel with it. `journal` is the signed phase as far as recovery
tells phases apart, `lock` the lock file, `users` the programs that use the
databases, `mode` and `pc` the executor's program counter.

**Actions.** One per step of `restore-maintenance.ts`, in the order of `Then`;
`Target` and `Edges` are the states of the row and the trigger that guards them.
`Throw` ends any step with an error and goes where the code's `catch` goes
(`Caught`); `Crash` ends the container between two steps; the `Start...` actions
are what `docker-entrypoint.sh` and the recovery do with what they find.

`ExchangeContract` is the restore as the programs see it: what they run on (the
old pair, the restored one with its capabilities revoked, or nothing) and what
has become of the run (open, done, dropped). `Serving` and `Fate` map files,
rows and journal onto it; a mixed pair, or a restored one that is not revoked,
is no value of the contract. `Fate` reads the journal before the row: a starting
container undoes a run whose row says "completed" as long as the journal does
not.

## 3. What each run checks

| Run | Distinct states | Question | Properties |
|---|---|---|---|
| `MCJobDelivery_queue` | 284 276 | Two events compete for one job, with two attempts, edits, deletion, archiving and every late, repeated or superseded call: do the tables agree, does the queue keep its contract, and does everything settle? | `TypeOK`, `LeaseOwnsRun`, `ExpiredLeaseIsLost`, `RetryNeedsEvidence`, `NoBackfill`, `ImplementsContract`, `EveryDeliverySettles` |
| `MCJobRunner_ordinary` | 154 432 | One manual run through cancel, timeout, shutdown, crash, restart and passes, where directories may be unsafe and kills may fail; with a fair event loop, is every slot given back and does the run end? | `RunnerTypeOK`, `FilesOutliveGroup`, `CleanedIsQuiet`, `SlotsAreFreed`, `OrdinaryRunsEnd` |
| `MCJobRunner_event` | 357 386 | Two attempts of one delivery around a crash: is a retry ever next to the old process, and does the runner keep to `JobDelivery`? | `OneLeaderPerDelivery`, `RetryAfterAbsence`, `ImplementsDelivery` |
| `MCJobRunner_slots` | 436 034 | Two jobs of one organization compete for one slot | `SlotAccounting`, `ConcurrencyLimits` |
| `MCSynthesis_batches` | 149 488 | Two workers, a lock holder, users and crashes on one batch after another: do the batches go through their stages as under a single worker that never fails? | `SynthesisTypeOK`, `LocksExclusive`, `LearntOnce`, `NothingDropped`, `ImplementsContract`, `BatchesComplete` |
| `MCRuntimes_shared` | 1 915 258 | One workspace with its provisioning, a route, a pass, a connection, the manager and faults against each other | `RuntimesTypeOK`, `CapabilityKept`, `ActiveIsCounted`, `FollowsTable` |
| `MCRuntimes_live` | 136 467 | Left to the reconciler and the manager, do transit states, failed containers and expired runtimes end, while another workspace finds the quota used up? | `LeasedSettles`, `FailedIsCleaned`, `ExpiredStops` |
| `MCCoordination_epochs` | 344 306 | Three sessions take over, refence, mutate and quarantine each other's work: is each unit a lock with fencing tokens, is a quarantine recoverable, is no update lost? | `CoordinationTypeOK`, `QuarantineKeepsItsOwner`, `BaselineIsAccepted`, `ImplementsContract` |
| `MCRestore_crash` | 34 351 | Three throws and three crashes anywhere up to the completion, and the deadline: what do the users of the databases find, and does the outcome stand? | `RestoreTypeOK`, `ServedPairMatches`, `OldPairIsKept`, `OutcomeTellsPair`, `StoppedHasEvidence`, `ImplementsContract` |

Three more runs check one statement of the documentation each and find it
violated; they are section 7.

Each property of the table has a mutant in `PROJECT.json`: a plausible slip in
one definition (an operator whose comment begins with "Defect") under which the
run reports the property violated.

The liveness properties name their exceptions. `EveryDeliverySettles`
excepts a project that stays archived or is archived again and again, because
the tick skips it. `OrdinaryRunsEnd` and `SlotsAreFreed` except a run whose
child was never proven to be its own: no handler ends it (a hazard in
`PROJECT.json`). They also except, for good, a run that a pass took over:
`SlotsAreFreed` when an exception cut short its close or its force kill
(`Wedged`), `OrdinaryRunsEnd` when its child is closed (`TakenOver`), for then a
handler that threw was to end it and no other does. Both states last until the
API restarts. `BatchesComplete` excepts three things: the batch is disturbed
again and again (somebody else holds the lock, or a worker goes on after its
lease ran out), it is set back again and again (the model fails, the API
crashes), or it is **wedged**: a user changed a member, or archived the skill
its plan updates, so that every resumption fails at the same place.
`LeasedSettles` speaks of transit states under a lease: a row left in
PROVISIONING by a crash before its lease was written stays there until its
workspace is started again.

## 4. Bounds

Model bounds are constants or constraints with a name; none is in an action that
the code does not limit, except where noted.

* `MaxAttempts` 2 (5 in the code): one attempt that may be retried and one that
  may not tell the branches of `FailureState` apart; the theorems hold for any.
* `LeaseTicks` 1: a lease is fresh or expired, and a renewal makes it fresh.
* `MaxRevision` bounds edits of a job, `MaxOrdinary` its manual and cron runs;
  both guard the action that would pass them. One edit makes every waiting row
  stale; two ordinary runs give a successor.
* `MaxRestarts` bounds the number of API processes that end. One restart gives
  recovery everything a crash can leave. Since ordinals and restarts are used up
  at some point, the runner does stop in the model, and its runs say
  `CHECK_DEADLOCK FALSE`, and so do the live run of `Runtimes`, where a row left in PROVISIONING without
  a lease waits for a user, `Coordination`, where the fences are used up at some
  point, and `Restore`, where an executor may leave the programs stopped; all
  others check for deadlock.
* `MaxConcurrentRuns` is 2, and 1 in the slots run so that two runs meet a full
  runner. The global limit of rows never binds in a model with one organization;
  it is proved (section 6).
* `Inspections` and `Kills` are both truth values in the ordinary run. The
  others take well-behaved ones, where those outcomes would only multiply states.
* `NoShutdown` (slots) and `Unattended` (event) are state constraints: no
  archiving or deletion, no shutdown, in the event run also no cancellation by a
  user. The ordinary run has all of them; its constraint `EditedInFlight` only
  says that a job is edited once a run of it was started. `EditedOrStarted`
  (queue) keeps an edit and an ordinary run of the same job apart.
* `Synthesis`: one project, one observation that may be patched at will and so
  passes through any number of batches, two tokens (a worker and its successor,
  competitor or lock holder), a lock of one tick, a batch lease of two (longer,
  as in the code, where it is five renewal periods against two). The plans are
  the empty one and one with a creation and an update. `Contested` is the set of
  skills users touch and `Visitable` the set of locks others take; both are
  restricted to one element here and are arbitrary in the proofs.
* `Runtimes`: `MaxActive` 1; two identities of a provisioning (the present one
  and a former one whose answer is late), one connection, one fault (two in the
  live run), and two requests in the manager's hands at once (`FewRequests`),
  enough for a late provisioning beside a removal or a second provisioning. The
  shared run has one workspace, one route caller and one pass; the live run has
  no caller and no browser (`NoBrowser`), and `FirstOnly` leaves the second
  workspace without a runtime, so that it meets the quota and nothing else. The
  proofs know none of these bounds.
* `Coordination`: three sessions (an owner, a second quarantined one and a
  successor), two batches, one path beside the build, a content and its absence;
  `MaxFence` 4 bounds the fences allocated and guards only the
  allocation. `FewAdmissions` has one restart admission at a time.
  Sessions and claim keys are interchangeable (`SYMMETRY`; only safety is
  checked).
* `Restore`: `MaxFaults` and `MaxCrashes` 3: an execution, its undoing and the
  recovery of that can each be disturbed. `LateFaults` says whether the steps
  after the row says "completed" may throw; it is FALSE in the passing run and
  TRUE in the violation run of section 7.

## 5. Fairness

Safety runs use none. Liveness assumes no more than the code's own scheduling:

* `Fairness` of `JobDelivery`: the event tick (every ten seconds,
  `scheduler.ts:440-478`) snapshots, resolves expired leases in projects that
  are not archived, and claims while there is something to claim; a back-off
  elapses; a holder of a live lease completes or loses it (the runner's timeout
  ends whatever does not end by itself). Nobody is obliged to
  edit, cancel or archive anything, nor to renew.
* `RunnerFairness`: the event loop returns to every pending callback: the catalog
  lookup settles, timers fire, a child that ended is reported closed, synchronous
  code runs to its end. **Nothing obliges a child to exit**; SIGKILL does
  (`Kills = {TRUE}` in that run).
* `SynthesisFairness`: the clock moves; the lock cleanup (every five minutes)
  and the idle scheduler's pass come round; a model answers, or its request
  times out after sixty seconds, and the event loop returns to the worker
  (strong, since other handlers' synchronous code disables it in between);
  learning is not disabled for ever. No user, lock client or renewal timer is
  obliged to anything.
* `Fairness` of `Runtimes`: promises settle (`StartStep`, `RouteStep`), leases
  lapse with the clock, the reconciler's interval fires and its pass goes on
  from row to row (`runtime-reconciler.ts`), and the manager works on each
  holder's requests. Faults are bounded (`MaxFaults`) and not fair; no user is
  obliged to start, stop or connect.

## 6. What is proved, and how

All theorems hold for every finite or infinite set of projects, jobs, events,
workers and so on, every attempt limit, lease length and plan, under the
assumptions `ConstantsAssumption`, `RunnerAssumption`, `LocksAssumption`,
`SynthesisAssumption`, `RuntimesAssumption`, `CoordinationAssumption` and
`RestoreConstants`, which say only that the constants have their types, that
nulls are not values, and (for `Runtimes`) that one owner's workspaces are
finitely many and different kinds of holders do not share a name. TLC evaluates
them in every run. Four theorems about `Restore` also assume `~LateFaults`: with
late faults they are false, which is finding 3 of section 7.

### JobDeliveryProofs

`TypeOK` and `LeaseOwnsRun` are not inductive: that an expired attempt can be
ended by the resolution depends on the row's attempt, owner and revision
agreeing, on a run existing only for an attempt that was begun, and on a row
existing only for an event that was dispatched. So

```
IInv == TypeOK /\ RowLedger /\ RunLedger /\ MarkedBeforeDelivered /\ LeaseOwnsRun
```

`RowLedger` is the strengthened CHECK of each row, `RunLedger` ties runs and
identities to attempts, `MarkedBeforeDelivered` rows to dispatch marks.

There are twenty-odd actions and many conclusions. Instead of a proof for each
pair, every action is shown **once** to have a `Shape`: each row takes one of a
few `RowStep`s (it stays, is enqueued, claimed, retimed, completed, failed, ...)
and each run one of a few `RunStep`s that go with them (`StepShape`, from one
lemma per action). Everything else follows from shapes: `Invariance`,
`TypeCorrectness`, `RunsHaveTheirLease`, `RowsSatisfyTheirCheck`, and the action
properties `SettledIsFinal`, `ExpiredLeaseStaysLost`, `RetriesHaveEvidence`,
`NoLateDelivery`.

`JobsAreExclusive` (one lease per job) needs the claim's own check on top, and
with it `QueueImplementsContract` shows that initial states map to initial
states and that each step maps to a step of `DeliveryContract` or a stutter.

`LimitsHold` proves the three limits. Since they are cardinalities, the argument
is that a step which adds an active run adds exactly one and has checked that
there is room (`GrowthIsLimited`), and that every other step only removes some.

### JobRunnerProofs

`RunnerStep`: under `IInv`, each handler of the runner, whatever it does to
processes and directories, changes the rows by `[Next]_vars`. It is proved by
group of handlers. Hence `RunnerImplementsDelivery`, and the results above carry
over to the whole system; `RunnerKeepsLimits` states one of them.

### RunnerProcessProofs and RunnerLeaderProofs

```
ProcessInv == RunnerTypeOK /\ (\A r : ExecutionFits(exec[r]) /\ ListingFits(r))
              /\ PassFits /\ BusyFits /\ SlotsFit /\ UnstartedFits
```

The invariants of the runner's processes are far from inductive. That a directory
outlives its group depends on `ownedDetachedRuns`, on both maps that may hold a
run and on the state of the vault row, and all of these on how far the execution
got: `ExecutionFits` says so phase by phase (`UntrackedFits` before the child is
tracked, `IdentifiedFits`, `Late`). Its `TakeoverFits` tells where the trigger
throws: over `HalfCleaned`, a live run being terminated that a pass took over and
whose files are gone; nothing else is captured without its directory. The helpers
keep `ShapeFits`, whether they throw or not, and each handler then disposes of the
exception, which is what makes `ExecutionFits` of it. `ListingFits` says what a row that a pass read
earlier still tells of its execution, `BusyFits` that only the handler in progress
is between two statements, `SlotsFit` that the counter has room, `UnstartedFits`
that a run without a row is untouched, which is where a start finds its place.
The helpers of `job-runner.ts` are shown first to leave everything but the files,
the ownership and the vault row alone (`Kin`) and to leave a fitting execution
(`AbandonFits`, `VerifyTeardownFits`); then there is one lemma per action.
`RunnerTypes`, `FilesStayForGroup`, `CleanedRunsAreQuiet` and `SlotsAreAccounted`
follow. `RunnerTypes` says more than types: no exception escapes a handler that the
model, like the code, gives no path for it, and only a run that a pass took over
loses its end to one.

`RunnerLeaderProofs` brings rows and processes together. `RetryStep` finds, for
every action that may end a lease, why the attempt is gone by then. `LeaderStep`
shows that only a fork makes a leader, `HandlerStep` that no row moves under a
handler between its check and its fork. With them `LeadersHold`, that a leader
belongs to the attempt its row counts and that this row does not wait, is
inductive, and `OneProcessPerDelivery` follows. `RetriesFollowAbsence` is the
action property of `RetryStep`.

### SynthesisProofs

```
SInv == SynthesisTypeOK /\ WorksAtHome /\ MembersAtHome /\ WaitingIsNew /\ LearntOnce
```

`LearntOnce` relates what was learnt to the stage of the batch. It is kept when a
batch is created only if no observation that waits was learnt before
(`WaitingIsNew`), and when a batch advances only if batches of different
projects share no member (`MembersAtHome`) and a worker writes to a project it
locked (`WorksAtHome`). `SynthesisInvariance` is the induction, with a lemma per
kind of step; `SynthesisTypes` and `TraitsAreAppliedOnce` follow. `LocksExclude`
is an induction of its own over the five lock functions.

```
PlanInv == PlanFollowsTraits /\ OneAtATime /\ SubmitsWhileApplying /\ OffersItsPlan
```

What a worker remembers of a plan stays true of the batch while the batch is its
own (`OffersItsPlan`): every item it does not have before it any more waits for
review, or was a creation that is a skill by now. It is kept because going through
a plan is one synchronous stretch (`OneAtATime`): no other worker and no reviewer
comes between, only the clock and crashes do.
`PlanInvariance` is the induction over it, next to `SInv`. `NoItemIsDropped` and
`PlansAreKept` (no stored plan is replaced before its batch is complete) are
action properties of both invariants. `PipelineImplementsContract` maps each step
to the one move of `LearningContract` that it may be: claiming, learning,
planning, advancing, acknowledging and the users' patches; all others stutter.

### RuntimesProofs

```
RInv == RuntimesTypeOK /\ TasksFit /\ OpsAreAwaited /\ Views /\ (\A w : Sound(w))
```

The compared revisions carry the argument. `Views` says what a holder may
conclude about a row **while the revision it read is the present one**: a start
that still waits finds PROVISIONING, a stop finds STOPPING. Every write empties
`current[w]`, so a step has to establish a view only for the holder that reads.
`OpsAreAwaited` ties the manager's requests to the one holder that waits for
them; `Sound` says what row, capability and sessions of a workspace owe one
another while a start is under way: that the capability bound last is the one of
the start that waits, and that nothing is connected to a container being made.
`OpenIsCounted` and `RevokedStaysBare` follow. `WritersFollowTable` and
`CapabilityIsKept` are action properties from the same invariant: a step moves
rows along the table, provisions, or adopts (`StepSettles`), and only one that
provisions binds a capability. `QuotaIsHeld` counts: only the step that takes a slot adds to
the set, and it has just checked that there is room.

### CoordinationProofs

```
CInv == CoordinationTypeOK /\ UnusedAreFresh /\ FencesBelow /\ LiveClaimIsNewest
        /\ QuarantineKeepsItsOwner /\ BaselineIsAccepted
```

The counter of the worktree is above every fence in use (`FencesBelow`), so a
batch that is claimed or refenced outranks everything on its files. The delicate
steps are the ones that change several rows: a recovery that moves a
session's batches to a new fence, a completion that accepts contents (no other
live claim holds a baseline of these paths, by disjointness), a quarantine that
retires the claims of its epoch, and the recovery of an epoch, whose guard leaves
no claim of the old epoch to anybody but its owner.

`RegistryImplementsContract` classifies what one step does to each batch
(`Moves`): it loses its claim, stays, rises to a higher fence, or begins. The
step lemmas (`RegisterActs` to `RecoverEpochActs`) show that one session at most
is behind all of it (`Acted`), and `UnitMoves` turns the moves of the batches into
a step of the lock on one unit: `LiveClaimIsNewest`, before and after the step,
leaves one live batch on it. Thus a whole batch, all batches of a session or of an
epoch may move at once, and every unit makes one step of its lock or none.

### RestoreProofs

```
RestoreInv == RestoreTypeOK /\ DiskFits /\ ProgramsFit /\ PositionFits
```

`DiskFits` is what holds of files, row and journal wherever the container may
die: every component's old file is in place or aside until the restore is
committed, and the journal tells which of the two it is. `ProgramsFit` says when
somebody may use the databases. `PositionFits` ties the program counter of each
of the five modes to them: where an execution stands determines what it has
done, and a step that throws enters its undoing with just that. There is one
lemma per step; the induction is `StepPreserves`. The invariants of the run are
consequences, for any number of throws and crashes.

`RestoreImplementsContract` needs two more conjuncts: as long as the old database
is away its row says "swapping" (`AwayIsSwapping`), and the restored one has a row
only in a run that got there (`CarriedOver`). Then a step is classified by what it
may do to files in use (`FileMoves`: nothing), to the two rows (`RowMoves`) and to
the journal (`JournalStepMoves`): `OverStays`, an outcome is never taken back;
`OverBegins`, it comes about only while the programs run on the restored pair.

The last section drops `~LateFaults`. Until the row is completed no late step has
been reached, so `RestoreInv` still holds; from then on `Past`, the completed row
and the revocation, is stable, because no edge of the trigger leaves "completed".
That gives `RestoreTypes`, `CapabilitiesAreRevoked` and `OldPairStays`
unconditionally. The other results fail with late faults (finding 3).

### Model-checked only

Liveness (`EveryDeliverySettles`, `SlotsAreFreed`, `OrdinaryRunsEnd`,
`BatchesComplete`, `LeasedSettles`, `FailedIsCleaned`, `ExpiredStops`), whose
fairness and ENABLED are beyond the prover, and the violation runs. Every other
property of a passing run is a theorem.

## 7. What the runs found

Each is a violation run and a finding in `PROJECT.json` with the code line and
the quotation.

1. `MCJobRunner_cancel`: **a cancelled run is recorded as timed out** when its
   deadline passes within the grace period; `finishJobRun` overwrites any status
   and the timer is cleared by the close event only.
2. `MCJobRunner_pass`: **the periodic recovery pass terminates a healthy child**
   of the process it runs in: it lists every vault row that is not cleaned and
   never looks at `runningProcesses`.
3. `MCRestore_late`: **an error after the restore is completed undoes it.** The
   catch block looks at the journal and at whether the parents were locked, not
   at the row that already says "completed"; a failure while the old pair is
   discarded moves one file back and, if the container dies there, both programs
   start on one old and one restored database.

The passing runs keep these behaviours. `FilesOutliveGroup`, for example, holds
although passes terminate healthy children.

Further disagreements between the code and its documentation or tests, met while
modelling and kept by the models, without a run of their own:

* *Deliveries.* A queued delivery whose job is edited is never attempted: the
  tick's claim compares the job's revision with the snapshot, and nothing
  refreshes the row or gives it up (`docs/operations/jobs.md` promises
  at-least-once execution).
* *Slots.* A cancelled run in its grace period and its successor can occupy both
  slots of the process for one tenant: rows and `activeRunCount` count different
  things. A run that awaits the model catalog spawns its child after shutdown
  has visited the running ones.
* *Taken-over runs.* What section 2.3 calls exceptions follows finding 2. If the
  child of a run that a pass terminates ends while a handler of the run is due,
  the API shuts down on `invalid job vault run state transition`; if it is the
  cancellation that throws, its caller gets an error and the run stays `running`;
  and a force kill that throws leaves `terminationCompletions` and the slot taken
  until the API restarts (`MCJobRunner_ordinary` reaches each).
* *Runtimes.* A clean stop can be failed by a pass: the sixty-second lease that
  provisioning takes is never cleared when the runtime becomes ready, and
  `markExpiredRuntimeOrphans` (`core/runtimes.ts:742`) also takes a row that is
  stopping under such an old lease, against the test "does not race a clean
  stop" (`runtimes-route.test.ts:435`).
* *Runtimes, in the manager.* It starts, hands over and reports whatever bears
  the runtime's name (`runtime-manager.ts:296-307`); the last inspection compares
  the runtime, not the provisioning. When a client has given up after fifteen
  seconds and its provisioning goes on, a second start can therefore adopt the
  first one's container, and either container can be handed the other's
  capability: in the model `row.backend` then differs from `cap`. `CapabilityKept`
  claims only what the API guarantees.
* *Coordination.* `completeManagedMutation` (`core/coordination.ts:3373`) takes
  the baseline for the result where a path was deleted (`afterSha256 ??`
  baseline); an operation claimed under an earlier fence cannot be completed
  any more (3316) once a later batch of its session has refenced it; a renewal
  (3233) is two transactions and is not idempotent.
* *Restore.* A crash or a failed health check between the restart of the users
  and the journal's "completed" rolls back after the restored services already
  ran. When the row was carried over and carrying it back fails, the users stay
  stopped after a complete rollback (`unmerged`). A lapsed deadline makes the
  early undo keep its journal and leave the users stopped until the next start.
  Several crashes leave a start refused for good: between the archiving of the
  journal and the unlinking of the lock, with a lock created and not yet
  written, or between the two renames of `rollbackComponent`. The executor's own
  move to `rollback_failed` is never allowed by the trigger. Queued runs whose
  deadline lapsed are never ended.
* *Restore, outside the model.* `docker-entrypoint.sh:402` changes the owner of
  journal, lock and archive at each start, and the readers of the recovery insist
  on another owner: as deployed, a start on a journal or lock is refused, against
  `docs/operations/backup-restore.md:314-315`. The model leaves ownership out
  and checks what the recovery would do.

## 8. Abstractions

* **Time** is a countdown per lease and a flag per back-off. Comparisons at the
  very instant of expiry are kept where the code distinguishes `<` and `<=`.
* **Strings, hashes, tokens** are the identity of the claim they belong to.
  Bodies of events, prompts, logs and results do not appear.
* **Snapshot page limit** (100 events per call): the snapshot of the model takes
  all undispatched events. What a full page leaves for the next call is as if it
  had been recorded after this one.
* **Principals.** The dispatcher principal is one per organization, as the code
  creates it, so the limit per principal coincides with the organization's.
  Grants do not change during a run.
* **procfs** answers whether the group is there and ours, or that it cannot
  tell; how it is read is not modelled.
* **Inside a handler** of the runner, the group is as it was when the handler
  began: what its helpers ask procfs they ask of one state, and a group that ends
  between two questions has ended after the handler. The one-second retry of
  `scheduleGroupRecovery` is not tracked by who armed it: `GroupRecovery` may come
  whenever a closed, terminated or taken-over run's group is empty.
* **A cron start** is any start: the minute it belongs to is not represented.
* **Synthesis.** Traits, plans and proposals are names. Every skill belongs to
  all projects, so the edit check must pass for each project. Extraction, trait
  decay and the retry of error records happen inside `"extracting"` and leave no
  trace. `AnswerFails` covers every failure of a stage. `learnt` counts what
  `applyTraitStage` applies; the traits of a plan (`applyPlanTrait`,
  `synthesis-batches.ts:525-561`) belong to the item that brings them.
* **Runtimes.** Images, networks and health probes are the manager's success or
  failure; tickets are part of opening a session; a lease or a lifetime is a
  flag that lapses. Quotas per host are left out, the one per user is kept. A
  stop or a removal of the manager is one step, a provisioning is not. Whose
  capability a container was handed is not recorded. Connections of a session
  that has ended are dropped with it, though the gateway only notices at its next
  recheck, within five seconds (`runtime-gateway.ts:451-453`, `507-510`); until
  then they can record nothing, the API refuses.
* **Coordination.** One worktree. "Dirty", "quarantined" and "in collision" are
  one state of a claim, since no operation tells them apart; hashes are
  contents; receipts and mutation tickets are part of the operation that
  consumes them.
* **Restore.** One run. Verification, capability revocation and health are one
  step each that may throw; revoking capabilities (five transactions,
  `restore-maintenance.ts:1008-1013`, all in the database an undo discards) and
  discarding the siblings of one component (three unlinks) are one step each; signatures are valid, since nothing here forges them.

## 9. What is not modelled

Parts with a dash in section 1.2, for one of three reasons. *Planned*: they have
interleavings, crashes or retries worth a module. *Sequential*: CRUD,
authorization decisions, catalogs, prompts and text processing take place in one
transaction and are better tested. *External*: IMAP, SMTP, containers, the
tunnel, OpenCode, SQLite and procfs; where their outcome matters it is a
nondeterministic choice of a modelled action.

Within the modelled parts: run logs, vault references and lookups, the
round-robin dispatch cursor, the unique cron occurrence, the ticks for mail,
usage and backups, the API's listener and its ten-second deadline, and what the
cross-project synthesis does once it holds its lock; of the registry, handoffs,
operational memory, links and transcripts (the tools that used them are retired,
`docs/usage/multi-session.md:9-14`); of backups, plans, staging and snapshots,
which precede a queued run.

## 10. Plan

Done: `JobDelivery` against `DeliveryContract`; `JobRunner` over it;
`MaintenanceLocks` and `Synthesis` against `LearningContract`; `Runtimes`;
`Coordination` against `FencingContract`; `Restore` against `ExchangeContract`; the
proofs of section 6. Next, the most consequential first:

1. `LeasedQueue`, an abstract specification of a queue with leases and stale
   completions; the email suggestion queue against it, beside `JobDelivery`.
2. `SkillGovernance`: proposals and revisions, composed with `Synthesis` at
   `OfferItem`, `SubmitItem` and `Review`. A proposal approved between a crash
   and the resumption may be offered and approved twice.
3. Task claims over `Coordination`, against a lock without fences.
4. `ChildGateway`, `Outbox`, `ProviderPersistence`, `SnapshotImport`: one small
   module each.
5. In `JobDelivery`, the dispatch cursor (fairness among organizations) and the
   unique cron occurrence; in `Restore`, staging and the planning that precede a
   run.

Modules with theorems declare no RECURSIVE operator. Runs stay small enough for
a few minutes, with one safety and, where there is something that must happen,
one liveness question each.

## 11. Running the checks

From this directory, with TLC and TLAPS installed:

```
tlc -workers 2 -config MCJobRunner_event.cfg MCJobRunner.tla
tlapm SynthesisProofs.tla
```

The longest runs take between two and three minutes (`MCJobRunner_event`,
`MCJobDelivery_queue`), the proofs about a quarter of an hour altogether, a third
of it for `RunnerProcessProofs`.
