------------------------------- MODULE Synthesis -------------------------------
(***************************************************************************)
(* The learning pipeline: workers (the scheduler's pass and the manual     *)
(* route) take a project's skills lock, extract observations, and carry    *)
(* one durable batch at a time through the stages of synthesis_batches     *)
(* (lib/tools/synthesis-batches.ts), under a lease of its own.             *)
(*                                                                         *)
(* A worker is named by its token.  All workers live in one API process:   *)
(* they interleave at the awaits of the language model; between two awaits *)
(* a handler runs alone, and only the clock and a crash may come between   *)
(* its transactions.                                                       *)
(***************************************************************************)
EXTENDS MaintenanceLocks

CONSTANTS
  Observations, \* observations.id
  HomeOf,       \* [Observations -> Projects]
  BatchLimit,   \* SYNTHESIS_BATCH_LIMIT (50 in the code)
  BatchTicks,   \* the batch lease in units of the renewal period (5 in the code)
  Creations,    \* skills a plan may create
  Updates,      \* skills a plan may update
  Plans,        \* the proposal plans the model may answer
  NoPlan,       \* proposal_plan IS NULL
  NoItem,       \* no proposal between its creation and its submission
  Contested,    \* model bound: the skills users propose, write and archive
  Visitable     \* model bound: the locks other callers take

Items == Creations \cup Updates

ASSUME SynthesisAssumption ==
  /\ HomeOf \in [Observations -> Projects]
  /\ BatchLimit \in Nat \ {0}
  /\ BatchTicks \in Nat \ {0}
  /\ Creations \cap Updates = {}
  /\ Plans \subseteq SUBSET Items
  /\ NoPlan \notin Plans
  /\ NoItem \notin Items
  /\ Contested \subseteq Items
  /\ Visitable \subseteq Scopes

\* The one incomplete batch of a project; "none" when there is none.
Batches ==
  [stage   : {"none", "created", "traits_applied", "proposals_applied"},
   members : SUBSET Observations,          \* synthesis_batch_observations
   owner   : Tokens \cup {NoToken},        \* owner_token
   ttl     : 0..BatchTicks,                \* lease_expires_at, 0 when not later than now
   plan    : Plans \cup {NoPlan}]          \* proposal_plan

\* Waiting for an answer, or in the middle of synchronous code.
Awaits == {"extracting", "consolidating", "planning", "visiting"}
Synchronous == {"applying", "acknowledging", "releasing", "leaving"}

Workers ==
  [phase : {"idle"} \cup Awaits \cup Synchronous,
   scope : Scopes,                         \* the lock it took
   todo  : SUBSET Items,                   \* plan items it has not offered
   at    : Items \cup {NoItem}]            \* the proposal about to be submitted

VARIABLES
  observation,  \* observations.status ("processed": or any other not pending)
  learnt,       \* how often the traits of an observation were applied (2: or more),
                \* counted afresh when it becomes available to a new batch
  batch,        \* synthesis_batches
  skill,        \* skills that exist (a creation) or are not archived (an update)
  proposal,     \* the open proposal of each candidate group
  worker        \* [Tokens -> Workers]

synthesisVars == <<lock, observation, learnt, batch, skill, proposal, worker>>

SynthesisTypeOK ==
  /\ LocksTypeOK
  /\ observation \in [Observations -> {"absent", "pending", "processed"}]
  /\ learnt \in [Observations -> 0..2]
  /\ batch \in [Projects -> Batches]
  /\ skill \subseteq Items
  /\ proposal \in [Items -> {"none", "draft", "pending"}]
  /\ worker \in [Tokens -> Workers]

NoBatch ==
  [stage |-> "none", members |-> {}, owner |-> NoToken, ttl |-> 0, plan |-> NoPlan]

Idle == [phase |-> "idle", scope |-> Global, todo |-> {}, at |-> NoItem]

SynthesisInit ==
  /\ LocksInit
  /\ observation = [o \in Observations |-> "absent"]
  /\ learnt = [o \in Observations |-> 0]
  /\ batch = [p \in Projects |-> NoBatch]
  /\ skill = Updates
  /\ proposal = [i \in Items |-> "none"]
  /\ worker = [t \in Tokens |-> Idle]

-----------------------------------------------------------------------------
\* t may run: no other handler is in the middle of its synchronous code.
Turn(t) == \A u \in Tokens \ {t} : worker[u].phase \notin Synchronous

Free == \A t \in Tokens : worker[t].phase \notin Synchronous

In(t, phase) == Turn(t) /\ worker[t].phase = phase

Move(t, w) == worker' = [worker EXCEPT ![t] = w]

Goto(t, phase) == Move(t, [worker[t] EXCEPT !.phase = phase])

Home(t) == worker[t].scope

\* assertOwnedStage, and the WHERE clauses that repeat it.
OwnsBatch(t, stage) ==
  LET b == batch[Home(t)] IN b.owner = t /\ b.ttl > 0 /\ b.stage = stage

Pending(p) == {o \in Observations : HomeOf[o] = p /\ observation[o] = "pending"}

-----------------------------------------------------------------------------
\* The scheduler's pass over a project, and POST /synthesis/run, whose work
\* begins at once.  A token is random: no row mentions a new one.
Fresh(t) ==
  /\ worker[t].phase = "idle"
  /\ \A s \in Scopes : lock[s].owner # t
  /\ \A p \in Projects : batch[p].owner # t

Acquire(t, p) ==
  /\ Free
  /\ Fresh(t)
  /\ AcquireLock(p, t)
  /\ Move(t, [Idle EXCEPT !.phase = "extracting", !.scope = p])
  /\ UNCHANGED <<observation, learnt, batch, skill, proposal>>

\* The interval that renews the lock while the work goes on.
Renew(t) ==
  /\ Free
  /\ worker[t].phase # "idle"
  /\ RenewLock(Home(t), t)
  /\ UNCHANGED <<observation, learnt, batch, skill, proposal, worker>>

Unchanged == UNCHANGED <<lock, observation, learnt, skill, proposal>>

\* Automatic learning is disabled for the project.
LearningDisabled(t) ==
  /\ In(t, "extracting")
  /\ Goto(t, "leaving")
  /\ Unchanged /\ UNCHANGED batch

\* What a worker does first with a batch it claimed.
Resume(t, b) ==
  CASE b.stage = "created" -> Goto(t, "consolidating")
    [] b.stage = "traits_applied" /\ b.plan = NoPlan -> Goto(t, "planning")
    [] b.stage = "traits_applied" /\ b.plan # NoPlan ->
         Move(t, [worker[t] EXCEPT !.phase = "applying", !.todo = b.plan])
    [] b.stage = "proposals_applied" -> Goto(t, "acknowledging")

\* Defect: the lease of a crashed owner is never taken over.
ClaimableReleased(p, t) == batch[p].owner \in {NoToken, t}

Claimable(p, t) ==
  batch[p].owner \in {NoToken, t} \/ batch[p].ttl = 0

\* claimOrCreateBatch finds an incomplete batch.  (A resumed plan renews the
\* lease once more before it is applied, which adds nothing.)
ClaimBatch(t) ==
  LET p == Home(t)
      claimed == [batch[p] EXCEPT !.owner = t, !.ttl = BatchTicks]
  IN  /\ In(t, "extracting")
      /\ batch[p].stage # "none"
      /\ IF Claimable(p, t)
         THEN Resume(t, claimed) /\ batch' = [batch EXCEPT ![p] = claimed]
         ELSE Goto(t, "leaving") /\ UNCHANGED batch
      /\ Unchanged

\* It finds none: the most important pending observations, up to the limit.
CreateBatch(t) ==
  LET p == Home(t)
  IN  /\ In(t, "extracting")
      /\ batch[p].stage = "none"
      /\ IF Pending(p) = {}
         THEN Goto(t, "leaving") /\ UNCHANGED batch
         ELSE /\ \E members \in SUBSET Pending(p) :
                   /\ IF Cardinality(Pending(p)) <= BatchLimit
                      THEN members = Pending(p)
                      ELSE Cardinality(members) = BatchLimit
                   /\ batch' = [batch EXCEPT ![p] =
                        [NoBatch EXCEPT !.stage = "created", !.members = members,
                                        !.owner = t, !.ttl = BatchTicks]]
              /\ Goto(t, "consolidating")
      /\ Unchanged

-----------------------------------------------------------------------------
\* Stage "created": the model consolidates the members into traits.

TraitsApplied(p) ==
  [o \in Observations |->
     IF o \in batch[p].members /\ learnt[o] < 2 THEN learnt[o] + 1 ELSE learnt[o]]

\* Defect: the traits are written without assertOwnedStage.
ConsolidatedUnowned(t) ==
  LET p == Home(t)
  IN  /\ In(t, "consolidating")
      /\ batch[p].stage # "none"
      /\ learnt' = TraitsApplied(p)
      /\ batch' = [batch EXCEPT ![p].stage = "traits_applied", ![p].ttl = BatchTicks]
      /\ Goto(t, "planning")
      /\ UNCHANGED <<lock, observation, skill, proposal>>

\* renewBatchLease and applyTraitStage.  The traits of the members and the
\* stage are one transaction.
Consolidated(t) ==
  LET p == Home(t)
  IN  /\ In(t, "consolidating")
      /\ OwnsBatch(t, "created")
      /\ learnt' = TraitsApplied(p)
      /\ batch' = [batch EXCEPT ![p].stage = "traits_applied", ![p].ttl = BatchTicks]
      /\ Goto(t, "planning")
      /\ UNCHANGED <<lock, observation, skill, proposal>>

\* No answer, an answer that cannot be applied, or the lease is lost.
AnswerFails(t) ==
  /\ In(t, "consolidating") \/ In(t, "planning")
  /\ Goto(t, "releasing")
  /\ Unchanged /\ UNCHANGED batch

-----------------------------------------------------------------------------
\* Stage "traits_applied": a plan is persisted, then offered for review.

\* Defect: the UPDATE compares the stage alone.
PlanOverwritten(t, plan) ==
  LET p == Home(t)
  IN  /\ In(t, "planning")
      /\ batch[p].stage = "traits_applied"
      /\ batch' = [batch EXCEPT ![p].plan = plan, ![p].ttl = BatchTicks]
      /\ Move(t, [worker[t] EXCEPT !.phase = "applying", !.todo = plan])
      /\ Unchanged

\* persistProposalPlan and renewBatchLease.
PlanReady(t, plan) ==
  LET p == Home(t)
  IN  /\ In(t, "planning")
      /\ OwnsBatch(t, "traits_applied")
      /\ batch[p].plan = NoPlan
      /\ batch' = [batch EXCEPT ![p].plan = plan, ![p].ttl = BatchTicks]
      /\ Move(t, [worker[t] EXCEPT !.phase = "applying", !.todo = plan])
      /\ Unchanged

\* The next item of the plan, creations first.
NextItem(t, i) ==
  /\ In(t, "applying")
  /\ worker[t].at = NoItem
  /\ i \in worker[t].todo
  /\ i \in Updates => worker[t].todo \cap Creations = {}

\* A creation whose skill exists by now.
SkipItem(t, i) ==
  /\ NextItem(t, i)
  /\ i \in Creations \cap skill
  /\ Move(t, [worker[t] EXCEPT !.todo = @ \ {i}])
  /\ Unchanged /\ UNCHANGED batch

\* The target of an update is missing or archived.
TargetMissing(t, i) ==
  /\ NextItem(t, i)
  /\ i \in Updates \ skill
  /\ Goto(t, "releasing")
  /\ Unchanged /\ UNCHANGED batch

\* ensureProposalCandidate: a new draft, or the open proposal of the same group
\* is reused, or, when the decision differs, replaced by a draft.
OfferItem(t, i) ==
  /\ NextItem(t, i)
  /\ i \in (Creations \ skill) \cup (Updates \cap skill)
  /\ \E status \in {"draft"} \cup ({proposal[i]} \ {"none"}) :
       proposal' = [proposal EXCEPT ![i] = status]
  /\ Move(t, [worker[t] EXCEPT !.at = i])
  /\ UNCHANGED <<lock, observation, learnt, batch, skill>>

\* Defect: a proposal that was found and not created is not submitted.
SubmitOnlyNew(t) ==
  /\ In(t, "applying")
  /\ worker[t].at # NoItem
  /\ \E submitted \in BOOLEAN :
       proposal' = [proposal EXCEPT ![worker[t].at] =
         IF submitted THEN "pending" ELSE @]
  /\ Move(t, [worker[t] EXCEPT !.todo = @ \ {worker[t].at}, !.at = NoItem])
  /\ UNCHANGED <<lock, observation, learnt, batch, skill>>

\* submitProposalCandidate: a draft, also one that a crash left behind.
SubmitItem(t) ==
  /\ In(t, "applying")
  /\ worker[t].at # NoItem
  /\ proposal' = [proposal EXCEPT ![worker[t].at] = "pending"]
  /\ Move(t, [worker[t] EXCEPT !.todo = @ \ {worker[t].at}, !.at = NoItem])
  /\ UNCHANGED <<lock, observation, learnt, batch, skill>>

\* advanceProposalStage
Offered(t) == In(t, "applying") /\ worker[t].at = NoItem /\ worker[t].todo = {}

\* Defect: the stage advances without the lease.
AdvanceUnowned(t) ==
  /\ Offered(t)
  /\ batch' = [batch EXCEPT ![Home(t)].stage = "proposals_applied"]
  /\ Goto(t, "acknowledging")
  /\ Unchanged

Advance(t) ==
  /\ Offered(t)
  /\ OwnsBatch(t, "traits_applied")
  /\ batch' = [batch EXCEPT ![Home(t)].stage = "proposals_applied"]
  /\ Goto(t, "acknowledging")
  /\ Unchanged

LeaseLost(t) ==
  /\ Offered(t)
  /\ ~OwnsBatch(t, "traits_applied")
  /\ Goto(t, "releasing")
  /\ Unchanged /\ UNCHANGED batch

-----------------------------------------------------------------------------
\* Stage "proposals_applied": acknowledgeBatch.
MembersPending(p) == \A o \in batch[p].members : observation[o] = "pending"

Acknowledge(t) ==
  LET p == Home(t)
  IN  /\ In(t, "acknowledging")
      /\ OwnsBatch(t, "proposals_applied")
      /\ MembersPending(p)
      /\ observation' = [o \in Observations |->
           IF o \in batch[p].members THEN "processed" ELSE observation[o]]
      /\ batch' = [batch EXCEPT ![p] = NoBatch]
      /\ Goto(t, "releasing")
      /\ UNCHANGED <<lock, learnt, skill, proposal>>

AcknowledgeFails(t) ==
  /\ In(t, "acknowledging")
  /\ ~(OwnsBatch(t, "proposals_applied") /\ MembersPending(Home(t)))
  /\ Goto(t, "releasing")
  /\ Unchanged /\ UNCHANGED batch

-----------------------------------------------------------------------------
\* The two finally blocks.
ReleaseBatch(t) ==
  LET p == Home(t)
  IN  /\ In(t, "releasing")
      /\ batch' = [batch EXCEPT ![p] =
           IF @.owner = t THEN [@ EXCEPT !.owner = NoToken, !.ttl = 0] ELSE @]
      /\ Goto(t, "leaving")
      /\ Unchanged

Leave(t) ==
  /\ In(t, "leaving")
  /\ ReleaseLock(Home(t), t)
  /\ Move(t, Idle)
  /\ UNCHANGED <<observation, learnt, batch, skill, proposal>>

-----------------------------------------------------------------------------
\* Other callers of the locks: POST /skills/locks/* for a project, and the
\* cross-project synthesis for all of them.  A client may never release.
Visit(t, s) ==
  /\ Free
  /\ Fresh(t)
  /\ AcquireLock(s, t)
  /\ Move(t, [Idle EXCEPT !.phase = "visiting", !.scope = s])
  /\ UNCHANGED <<observation, learnt, batch, skill, proposal>>

EndVisit(t) ==
  /\ Free
  /\ worker[t].phase = "visiting"
  /\ ReleaseLock(Home(t), t) \/ UNCHANGED lock
  /\ Move(t, Idle)
  /\ UNCHANGED <<observation, learnt, batch, skill, proposal>>

\* The scheduler's cleanup, and an acquire that is refused: it has pruned too.
Cleanup ==
  /\ Free
  /\ CleanupExpiredLocks
  /\ UNCHANGED <<observation, learnt, batch, skill, proposal, worker>>

-----------------------------------------------------------------------------
\* Users.
Observe(o) ==
  /\ Free
  /\ observation[o] = "absent"
  /\ observation' = [observation EXCEPT ![o] = "pending"]
  /\ UNCHANGED <<lock, learnt, batch, skill, proposal, worker>>

InBatch(o) == o \in batch[HomeOf[o]].members

\* PATCH /observations/:id asks neither the lock nor the batch.
PatchStatus(o, status) ==
  /\ Free
  /\ observation[o] \notin {"absent", status}
  /\ observation' = [observation EXCEPT ![o] = status]
  /\ learnt' = [learnt EXCEPT ![o] = IF status = "pending" /\ ~InBatch(o) THEN 0 ELSE @]
  /\ UNCHANGED <<lock, batch, skill, proposal, worker>>

\* Whoever may edit skills: nobody holds the lock, or the caller does.  The
\* model knows projects of one catalog only, so every project must let it pass.
MayEdit == Free /\ \A p \in Projects : ~ActiveLock(p) \/
             \E t \in Tokens, s \in {p, Global} :
               worker[t].phase = "visiting" /\ lock[s].owner = t /\ lock[s].ttl > 0

\* A pending proposal is approved, rejected or found stale.
Review(i) ==
  /\ MayEdit
  /\ proposal[i] = "pending"
  /\ proposal' = [proposal EXCEPT ![i] = "none"]
  /\ \/ UNCHANGED skill
     \/ skill' = skill \cup ({i} \cap Creations)
  /\ UNCHANGED <<lock, observation, learnt, batch, worker>>

\* Somebody else proposes for the same candidate group.
Propose(i) ==
  /\ MayEdit
  /\ i \in Contested
  /\ i \in (Creations \ skill) \cup (Updates \cap skill)
  /\ proposal' = [proposal EXCEPT ![i] = "draft"]
  /\ proposal[i] # "draft"
  /\ UNCHANGED <<lock, observation, learnt, batch, skill, worker>>

\* A draft is submitted by hand.
SubmitDraft(i) ==
  /\ MayEdit
  /\ proposal[i] = "draft"
  /\ proposal' = [proposal EXCEPT ![i] = "pending"]
  /\ UNCHANGED <<lock, observation, learnt, batch, skill, worker>>

\* Skills are archived, restored and written by hand.  (None is deleted.)
ArchiveTarget(i) ==
  /\ MayEdit
  /\ i \in Contested
  /\ i \in Updates \cap skill
  /\ skill' = skill \ {i}
  /\ UNCHANGED <<lock, observation, learnt, batch, proposal, worker>>

AddSkill(i) ==
  /\ MayEdit
  /\ i \in Contested
  /\ i \in Items \ skill
  /\ skill' = skill \cup {i}
  /\ UNCHANGED <<lock, observation, learnt, batch, proposal, worker>>

-----------------------------------------------------------------------------
\* Time and crashes.
Tick ==
  /\ \/ \E s \in Scopes : lock[s].ttl >= 0
     \/ \E p \in Projects : batch[p].ttl > 0
  /\ LocksAge
  /\ batch' = [p \in Projects |->
       [batch[p] EXCEPT !.ttl = IF @ > 0 THEN @ - 1 ELSE 0]]
  /\ UNCHANGED <<observation, learnt, skill, proposal, worker>>

\* The rows stay; clients of the lock routes live on.
Crash ==
  /\ \E t \in Tokens : worker[t].phase \notin {"idle", "visiting"}
  /\ worker' = [t \in Tokens |->
       IF worker[t].phase = "visiting" THEN worker[t] ELSE Idle]
  /\ UNCHANGED <<lock, observation, learnt, batch, skill, proposal>>

-----------------------------------------------------------------------------
Claims(t) == ClaimBatch(t) \/ CreateBatch(t) \/ LearningDisabled(t)

Applies(t) ==
  \/ \E i \in Items : SkipItem(t, i) \/ TargetMissing(t, i) \/ OfferItem(t, i)
  \/ SubmitItem(t) \/ Advance(t) \/ LeaseLost(t)

Finishes(t) ==
  Acknowledge(t) \/ AcknowledgeFails(t) \/ ReleaseBatch(t) \/ Leave(t)

Answers(t) ==
  \/ Consolidated(t) \/ AnswerFails(t)
  \/ \E plan \in Plans : PlanReady(t, plan)

Clients ==
  \/ \E t \in Tokens, s \in Visitable : Visit(t, s)
  \/ \E t \in Tokens : EndVisit(t) \/ Renew(t)

Users ==
  \/ \E o \in Observations :
       Observe(o) \/ \E status \in {"pending", "processed"} : PatchStatus(o, status)
  \/ \E i \in Items :
       Review(i) \/ Propose(i) \/ SubmitDraft(i) \/ ArchiveTarget(i) \/ AddSkill(i)

SynthesisNext ==
  \/ \E t \in Tokens, p \in Projects : Acquire(t, p)
  \/ \E t \in Tokens : Claims(t) \/ Answers(t) \/ Applies(t) \/ Finishes(t)
  \/ Clients \/ Users \/ Cleanup \/ Tick \/ Crash

SynthesisSpec == SynthesisInit /\ [][SynthesisNext]_synthesisVars

\* The clock moves, locks are cleaned (every five minutes), an idle scheduler
\* passes over the projects again, an awaited model answers or times out (after
\* 60 s), and the event loop comes round to every worker.  Learning is not
\* disabled for ever.  Nothing else obliges a user, and nothing a client of the
\* locks or the renewal timer.
SynthesisFairness ==
  /\ WF_synthesisVars(Tick) /\ WF_synthesisVars(Cleanup)
  /\ \A p \in Projects : WF_synthesisVars(\E t \in Tokens : Acquire(t, p))
  /\ \A t \in Tokens :
       SF_synthesisVars(Claims(t) \/ Answers(t) \/ Applies(t) \/ Finishes(t))
  /\ SF_synthesisVars(\E t \in Tokens : ClaimBatch(t) \/ CreateBatch(t))

FairSynthesisSpec == SynthesisSpec /\ SynthesisFairness
-----------------------------------------------------------------------------
\* Properties.

\* The traits of an observation are applied exactly once on its way through a
\* batch, however often the batch is resumed, by whomever, after whatever
\* crash, and with workers whose lease ran out while the model was thinking
\* (applyTraitStage: confidences only grow, a second application is felt).
LearntOnce ==
  /\ \A o \in Observations : learnt[o] <= 1
  /\ \A p \in Projects : \A o \in batch[p].members :
       learnt[o] = IF batch[p].stage = "created" THEN 0 ELSE 1

\* Workers, leases, locks and crashes hidden, the rows of the batches and the
\* observations are those of a single worker that goes through the stages of
\* one batch after the other and never fails (the contract; self-learning.md
\* promises as much of the plan, which is reused and never regenerated, also
\* when two workers wait for the model at once).
WithinLimit(members) == Cardinality(members) <= BatchLimit

Contract == INSTANCE LearningContract WITH
  Fits <- WithinLimit,
  seen <- observation,
  taught <- learnt,
  work <- [p \in Projects |->
             [stage |-> batch[p].stage, members |-> batch[p].members,
              plan |-> batch[p].plan]]

ImplementsContract == Contract!ContractSpec

\* When a batch leaves "traits_applied", no item of its plan is left behind as
\* a draft nobody reviews, also when a crash or a user left that draft before.
NothingDropped ==
  [][\A p \in Projects :
       (batch[p].stage = "traits_applied" /\ batch'[p].stage = "proposals_applied") =>
         \A i \in batch[p].plan \ (Creations \cap skill) :
           proposal[i] # "draft"]_synthesisVars

\* Another caller holds the lock, or a worker goes on without its batch lease.
Disturbed ==
  \E t \in Tokens :
    \/ worker[t].phase = "visiting"
    \/ /\ worker[t].phase \in {"consolidating", "planning", "applying", "acknowledging"}
       /\ batch[Home(t)].owner # t \/ batch[Home(t)].ttl = 0

\* The model fails, or the API crashes under a worker.  (A crash under one that
\* is leaving, its lock expired, is the same step as its Leave.)
Setback ==
  \E t \in Tokens :
    AnswerFails(t) \/ (Crash /\ worker[t].phase \notin {"idle", "visiting", "leaving"})

\* A member was patched, or the target of an update is gone: no handler can
\* complete such a batch, and no other batch of the project is created.
Wedged(p) ==
  \/ ~MembersPending(p)
  \/ batch[p].plan # NoPlan /\ ~(batch[p].plan \cap Updates \subseteq skill)

\* An incomplete batch is completed, by its owner or by somebody who resumes
\* it, or gets wedged, unless it is disturbed or set back again and again.
BatchesComplete ==
  \/ []<>Disturbed
  \/ []<><<Setback>>_synthesisVars
  \/ \A p \in Projects :
       batch[p].stage # "none" ~> (batch[p].stage = "none" \/ Wedged(p))
=============================================================================
