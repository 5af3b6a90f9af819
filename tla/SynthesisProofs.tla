--------------------------- MODULE SynthesisProofs ---------------------------
(***************************************************************************)
(* Proofs about Synthesis for every set of projects, workers, observations *)
(* and skills, every plan and every time-to-live.                          *)
(***************************************************************************)
EXTENDS Synthesis, FiniteSetTheorems, TLAPS

-----------------------------------------------------------------------------
(* The inductive invariant. *)

\* A worker at work holds, or held, the lock of a project and not of all.
WorksAtHome ==
  \A t \in Tokens : worker[t].phase \notin {"idle", "visiting"} => Home(t) \in Projects

\* The members of an incomplete batch are observations of its project.
MembersAtHome ==
  \A p \in Projects :
    /\ batch[p].stage = "none" => batch[p].members = {}
    /\ \A o \in batch[p].members : HomeOf[o] = p

\* What no batch holds and still waits has never been learnt.
WaitingIsNew ==
  \A o \in Observations : observation[o] # "processed" /\ ~InBatch(o) => learnt[o] = 0

SInv ==
  /\ SynthesisTypeOK
  /\ WorksAtHome
  /\ MembersAtHome
  /\ WaitingIsNew
  /\ LearntOnce

-----------------------------------------------------------------------------
(* Types, one variable at a time. *)

LEMMA LockTypes ==
  ASSUME LocksTypeOK, NEW s \in Scopes, NEW t \in Tokens
  PROVE  /\ AcquireLock(s, t) => LocksTypeOK'
         /\ RenewLock(s, t) => LocksTypeOK'
         /\ ReleaseLock(s, t) => LocksTypeOK'
         /\ CleanupExpiredLocks => LocksTypeOK'
         /\ LocksAge => LocksTypeOK'
<1> USE LocksAssumption DEF LocksTypeOK, LockRows
<1>1. NoLock \in LockRows
  BY DEF NoLock
<1>2. Pruned \in [Scopes -> LockRows]
  BY <1>1 DEF Pruned
<1>3. [owner |-> t, ttl |-> LockTicks] \in LockRows
  OBVIOUS
<1>4. AcquireLock(s, t) => LocksTypeOK'
  BY <1>2, <1>3 DEF AcquireLock
<1>5. RenewLock(s, t) => LocksTypeOK'
  BY DEF RenewLock
<1>6. ReleaseLock(s, t) => LocksTypeOK'
  BY <1>1 DEF ReleaseLock
<1>7. CleanupExpiredLocks => LocksTypeOK'
  BY <1>2 DEF CleanupExpiredLocks
<1>8. ASSUME LocksAge PROVE LocksTypeOK'
  <2>1. ASSUME NEW c \in Scopes
        PROVE  [lock[c] EXCEPT !.ttl = IF @ < 0 THEN -1 ELSE @ - 1] \in LockRows
    OBVIOUS
  <2> QED BY <1>8, <2>1 DEF LocksAge
<1> QED BY <1>4, <1>5, <1>6, <1>7, <1>8

\* A worker moves within its type and stays at home.
WorkerOK(w) == w.phase \notin {"idle", "visiting"} => w.scope \in Projects

LEMMA MoveKeeps ==
  ASSUME worker \in [Tokens -> Workers], WorksAtHome,
         NEW t \in Tokens, NEW w \in Workers, WorkerOK(w), Move(t, w)
  PROVE  worker' \in [Tokens -> Workers] /\ WorksAtHome'
BY DEF Move, WorksAtHome, WorkerOK, Home, Workers

LEMMA GotoKeeps ==
  ASSUME worker \in [Tokens -> Workers], WorksAtHome, NEW t \in Tokens, Home(t) \in Projects,
         NEW phase \in Awaits \cup Synchronous, Goto(t, phase)
  PROVE  worker' \in [Tokens -> Workers] /\ WorksAtHome'
<1>1. [worker[t] EXCEPT !.phase = phase] \in Workers
  BY DEF Workers
<1>2. WorkerOK([worker[t] EXCEPT !.phase = phase])
  BY DEF WorkerOK, Workers, Home
<1> QED BY <1>1, <1>2, MoveKeeps DEF Goto

\* The rest of the invariant, for a step that moves neither observations nor
\* members, and no batch from or to "none" and "created".
LEMMA SameLearning ==
  ASSUME SInv, UNCHANGED <<observation, learnt>>,
         \A p \in Projects :
           /\ batch'[p].members = batch[p].members
           /\ batch'[p].stage = "none" <=> batch[p].stage = "none"
           /\ batch'[p].stage = "created" <=> batch[p].stage = "created"
  PROVE  MembersAtHome' /\ WaitingIsNew' /\ LearntOnce'
<1>1. MembersAtHome'
  BY DEF SInv, MembersAtHome
<1>2. WaitingIsNew'
  BY SynthesisAssumption DEF SInv, WaitingIsNew, InBatch
<1>3. LearntOnce'
  BY DEF SInv, LearntOnce
<1> QED BY <1>1, <1>2, <1>3

\* A step that only moves a batch on.
LEMMA BatchMoves ==
  ASSUME SInv, NEW p \in Projects, NEW b \in Batches,
         batch' = [batch EXCEPT ![p] = b], UNCHANGED <<observation, learnt>>,
         b.members = batch[p].members,
         b.stage = "none" <=> batch[p].stage = "none",
         b.stage = "created" <=> batch[p].stage = "created"
  PROVE  /\ batch' \in [Projects -> Batches]
         /\ MembersAtHome' /\ WaitingIsNew' /\ LearntOnce'
<1>1. batch \in [Projects -> Batches]
  BY DEF SInv, SynthesisTypeOK
<1>2. batch' \in [Projects -> Batches]
  BY <1>1
<1>3. MembersAtHome' /\ WaitingIsNew' /\ LearntOnce'
  BY <1>1, SameLearning
<1> QED BY <1>2, <1>3

\* A step that leaves observations and batches alone.
LEMMA LedgerStays ==
  ASSUME SInv, UNCHANGED <<observation, learnt, batch>>
  PROVE  /\ batch' \in [Projects -> Batches]
         /\ learnt' \in [Observations -> 0..2]
         /\ observation' \in [Observations -> {"absent", "pending", "processed"}]
         /\ MembersAtHome' /\ WaitingIsNew' /\ LearntOnce'
BY SameLearning DEF SInv, SynthesisTypeOK

-----------------------------------------------------------------------------
(* The locks. *)

LEMMA LockStep ==
  ASSUME SInv, NEW t \in Tokens,
         \/ \E p \in Projects : Acquire(t, p)
         \/ \E s \in Visitable : Visit(t, s)
         \/ Renew(t) \/ Leave(t) \/ EndVisit(t)
  PROVE  SInv'
<1> USE DEF SInv, SynthesisTypeOK
<1>1. UNCHANGED <<observation, learnt, batch, skill, proposal>>
  BY DEF Acquire, Visit, Renew, Leave, EndVisit
<1>2. Visitable \subseteq Scopes /\ Home(t) \in Scopes /\ Projects \subseteq Scopes
  BY SynthesisAssumption DEF Home, Workers, Scopes
<1>3. Idle \in Workers
  BY DEF Idle, Workers, Scopes
<1>4. LocksTypeOK'
  BY <1>2, LockTypes DEF Acquire, Visit, Renew, Leave, EndVisit, LocksTypeOK
<1>5. worker' \in [Tokens -> Workers] /\ WorksAtHome'
  <2>1. CASE Renew(t)
    BY <2>1 DEF Renew, WorksAtHome, Home
  <2>2. CASE Leave(t) \/ EndVisit(t)
    BY <1>3, <2>2, MoveKeeps DEF Leave, EndVisit, WorkerOK, Idle
  <2>3. ASSUME NEW p \in Projects, Acquire(t, p)
        PROVE  worker' \in [Tokens -> Workers] /\ WorksAtHome'
    <3>1. [Idle EXCEPT !.phase = "extracting", !.scope = p] \in Workers
      BY <1>2 DEF Idle, Workers, Awaits
    <3>2. WorkerOK([Idle EXCEPT !.phase = "extracting", !.scope = p])
      BY DEF Idle, WorkerOK
    <3> QED BY <2>3, <3>1, <3>2, MoveKeeps DEF Acquire
  <2>4. ASSUME NEW s \in Visitable, Visit(t, s)
        PROVE  worker' \in [Tokens -> Workers] /\ WorksAtHome'
    <3>1. [Idle EXCEPT !.phase = "visiting", !.scope = s] \in Workers
      BY <1>2 DEF Idle, Workers, Awaits
    <3>2. WorkerOK([Idle EXCEPT !.phase = "visiting", !.scope = s])
      BY DEF Idle, WorkerOK
    <3> QED BY <2>4, <3>1, <3>2, MoveKeeps DEF Visit
  <2> QED BY <2>1, <2>2, <2>3, <2>4
<1> QED BY <1>1, <1>4, <1>5, LedgerStays

-----------------------------------------------------------------------------
(* Steps of a worker that leave its batch alone. *)

LEMMA WorkerStep ==
  ASSUME SInv, NEW t \in Tokens,
         \/ LearningDisabled(t) \/ AnswerFails(t) \/ LeaseLost(t) \/ AcknowledgeFails(t)
         \/ SubmitItem(t)
         \/ \E i \in Items : SkipItem(t, i) \/ TargetMissing(t, i) \/ OfferItem(t, i)
  PROVE  SInv'
<1> USE DEF SInv, SynthesisTypeOK
<1>1. UNCHANGED <<lock, observation, learnt, batch, skill>>
  BY DEF LearningDisabled, AnswerFails, LeaseLost, AcknowledgeFails, SubmitItem,
         SkipItem, TargetMissing, OfferItem, Unchanged
<1>2. worker[t].phase \notin {"idle", "visiting"}
  BY DEF LearningDisabled, AnswerFails, LeaseLost, AcknowledgeFails, SubmitItem,
         SkipItem, TargetMissing, OfferItem, NextItem, Offered, In
<1>3. Home(t) \in Projects
  BY <1>2 DEF WorksAtHome
<1>4. worker' \in [Tokens -> Workers] /\ WorksAtHome' /\ proposal' \in [Items -> {"none", "draft", "pending"}]
  <2>1. CASE LearningDisabled(t) \/ AnswerFails(t) \/ LeaseLost(t) \/ AcknowledgeFails(t)
               \/ \E i \in Items : TargetMissing(t, i)
    <3>1. \E phase \in Synchronous : Goto(t, phase)
      BY <2>1 DEF LearningDisabled, AnswerFails, LeaseLost, AcknowledgeFails, TargetMissing,
                  Synchronous
    <3>2. UNCHANGED proposal
      BY <2>1 DEF LearningDisabled, AnswerFails, LeaseLost, AcknowledgeFails, TargetMissing,
                  Unchanged
    <3> QED BY <1>3, <3>1, <3>2, GotoKeeps
  <2>2. CASE SubmitItem(t)
    <3> DEFINE w == [worker[t] EXCEPT !.todo = @ \ {worker[t].at}, !.at = NoItem]
    <3>1. w \in Workers /\ WorkerOK(w)
      BY <1>3 DEF Workers, WorkerOK, Home
    <3>2. worker[t].at \in Items
      BY <2>2 DEF SubmitItem, Workers
    <3> QED BY <2>2, <3>1, <3>2, MoveKeeps DEF SubmitItem
  <2>3. ASSUME NEW i \in Items, SkipItem(t, i)
        PROVE  worker' \in [Tokens -> Workers] /\ WorksAtHome' /\ UNCHANGED proposal
    <3> DEFINE w == [worker[t] EXCEPT !.todo = @ \ {i}]
    <3>1. w \in Workers /\ WorkerOK(w)
      BY <1>3 DEF Workers, WorkerOK, Home
    <3> QED BY <2>3, <3>1, MoveKeeps DEF SkipItem, Unchanged
  <2>4. ASSUME NEW i \in Items, OfferItem(t, i)
        PROVE  /\ worker' \in [Tokens -> Workers] /\ WorksAtHome'
               /\ proposal' \in [Items -> {"none", "draft", "pending"}]
    <3> DEFINE w == [worker[t] EXCEPT !.at = i]
    <3>1. w \in Workers /\ WorkerOK(w)
      BY <1>3 DEF Workers, WorkerOK, Home
    <3>2. worker' \in [Tokens -> Workers] /\ WorksAtHome'
      BY <2>4, <3>1, MoveKeeps DEF OfferItem
    <3>3. PICK status \in {"draft"} \cup ({proposal[i]} \ {"none"}) :
            proposal' = [proposal EXCEPT ![i] = status]
      BY <2>4 DEF OfferItem
    <3>4. status \in {"none", "draft", "pending"}
      OBVIOUS
    <3> QED BY <3>2, <3>3, <3>4
  <2> QED BY <2>1, <2>2, <2>3, <2>4
<1> QED BY <1>1, <1>4, LedgerStays DEF LocksTypeOK

-----------------------------------------------------------------------------
(* Steps of a worker that move its batch on. *)

LEMMA Ticks == BatchTicks \in 0..BatchTicks /\ 0 \in 0..BatchTicks
BY SynthesisAssumption

LEMMA ResumeKeeps ==
  ASSUME SInv, NEW t \in Tokens, Home(t) \in Projects, NEW b \in Batches,
         b.stage # "none", Resume(t, b)
  PROVE  worker' \in [Tokens -> Workers] /\ WorksAtHome'
<1> USE DEF SInv, SynthesisTypeOK
<1>1. CASE b.stage = "created"
  BY <1>1, GotoKeeps DEF Resume, Awaits
<1>2. CASE b.stage = "traits_applied" /\ b.plan = NoPlan
  BY <1>2, GotoKeeps DEF Resume, Awaits
<1>3. CASE b.stage = "traits_applied" /\ b.plan # NoPlan
  <2> DEFINE w == [worker[t] EXCEPT !.phase = "applying", !.todo = b.plan]
  <2>1. b.plan \subseteq Items
    BY <1>3, SynthesisAssumption DEF Batches
  <2>2. w \in Workers /\ WorkerOK(w)
    BY <2>1 DEF Workers, WorkerOK, Home, Synchronous
  <2>3. Move(t, w)
    BY <1>3 DEF Resume
  <2> QED BY <2>2, <2>3, MoveKeeps
<1>4. CASE b.stage = "proposals_applied"
  BY <1>4, GotoKeeps DEF Resume, Synchronous
<1> QED BY <1>1, <1>2, <1>3, <1>4 DEF Batches

LEMMA ClaimStep ==
  ASSUME SInv, NEW t \in Tokens, ClaimBatch(t)
  PROVE  SInv'
<1> USE DEF SInv, SynthesisTypeOK
<1> DEFINE p == Home(t)
           claimed == [batch[p] EXCEPT !.owner = t, !.ttl = BatchTicks]
<1>1. p \in Projects /\ batch[p].stage # "none"
  BY DEF ClaimBatch, In, WorksAtHome
<1>2. batch[p] \in Batches
  BY <1>1
<1>3. claimed \in Batches
  BY <1>2, Ticks DEF Batches
<1>4. claimed.stage = batch[p].stage /\ claimed.members = batch[p].members
  BY <1>2 DEF Batches
<1>5. UNCHANGED <<lock, observation, learnt, skill, proposal>>
  BY DEF ClaimBatch, Unchanged
<1>6. CASE Claimable(p, t)
  <2>1. Resume(t, claimed) /\ batch' = [batch EXCEPT ![p] = claimed]
    BY <1>6 DEF ClaimBatch
  <2>2. worker' \in [Tokens -> Workers] /\ WorksAtHome'
    BY <1>1, <1>3, <1>4, <2>1, ResumeKeeps
  <2>3. batch' \in [Projects -> Batches] /\ MembersAtHome' /\ WaitingIsNew' /\ LearntOnce'
    BY <1>1, <1>3, <1>4, <1>5, <2>1, BatchMoves
  <2> QED BY <1>5, <2>2, <2>3 DEF LocksTypeOK
<1>7. CASE ~Claimable(p, t)
  <2>1. Goto(t, "leaving") /\ UNCHANGED batch
    BY <1>7 DEF ClaimBatch
  <2>2. worker' \in [Tokens -> Workers] /\ WorksAtHome'
    BY <1>1, <2>1, GotoKeeps DEF Synchronous
  <2> QED BY <1>5, <2>1, <2>2, LedgerStays DEF LocksTypeOK
<1> QED BY <1>6, <1>7

LEMMA PlanStep ==
  ASSUME SInv, NEW t \in Tokens, NEW plan \in Plans, PlanReady(t, plan)
  PROVE  SInv'
<1> USE DEF SInv, SynthesisTypeOK
<1> DEFINE p == Home(t)
           b == [batch[p] EXCEPT !.plan = plan, !.ttl = BatchTicks]
           w == [worker[t] EXCEPT !.phase = "applying", !.todo = plan]
<1>1. p \in Projects
  BY DEF PlanReady, In, WorksAtHome
<1>2. batch[p] \in Batches
  BY <1>1
<1>3. b \in Batches /\ b.stage = batch[p].stage /\ b.members = batch[p].members
  BY <1>2, Ticks DEF Batches
<1>4. batch' = [batch EXCEPT ![p] = b]
  BY <1>1 DEF PlanReady
<1>5. plan \subseteq Items
  BY SynthesisAssumption
<1>6. w \in Workers /\ WorkerOK(w)
  BY <1>1, <1>5 DEF Workers, WorkerOK, Home, Synchronous
<1>7. Move(t, w) /\ UNCHANGED <<lock, observation, learnt, skill, proposal>>
  BY DEF PlanReady, Unchanged
<1>8. worker' \in [Tokens -> Workers] /\ WorksAtHome'
  BY <1>6, <1>7, MoveKeeps
<1>9. batch' \in [Projects -> Batches] /\ MembersAtHome' /\ WaitingIsNew' /\ LearntOnce'
  BY <1>1, <1>3, <1>4, <1>7, BatchMoves
<1> QED BY <1>7, <1>8, <1>9 DEF LocksTypeOK

LEMMA AdvanceStep ==
  ASSUME SInv, NEW t \in Tokens, Advance(t)
  PROVE  SInv'
<1> USE DEF SInv, SynthesisTypeOK
<1> DEFINE p == Home(t)
           b == [batch[p] EXCEPT !.stage = "proposals_applied"]
<1>1. p \in Projects /\ batch[p].stage = "traits_applied"
  BY DEF Advance, Offered, OwnsBatch, In, WorksAtHome
<1>2. batch[p] \in Batches
  BY <1>1
<1>3. b \in Batches /\ b.stage = "proposals_applied" /\ b.members = batch[p].members
  BY <1>2 DEF Batches
<1>4. batch' = [batch EXCEPT ![p] = b]
  BY <1>1 DEF Advance
<1>5. Goto(t, "acknowledging") /\ UNCHANGED <<lock, observation, learnt, skill, proposal>>
  BY DEF Advance, Unchanged
<1>6. worker' \in [Tokens -> Workers] /\ WorksAtHome'
  BY <1>1, <1>5, GotoKeeps DEF Synchronous
<1>7. batch' \in [Projects -> Batches] /\ MembersAtHome' /\ WaitingIsNew' /\ LearntOnce'
  BY <1>1, <1>3, <1>4, <1>5, BatchMoves
<1> QED BY <1>5, <1>6, <1>7 DEF LocksTypeOK

LEMMA ReleaseStep ==
  ASSUME SInv, NEW t \in Tokens, ReleaseBatch(t)
  PROVE  SInv'
<1> USE DEF SInv, SynthesisTypeOK
<1> DEFINE p == Home(t)
           b == IF batch[p].owner = t
                THEN [batch[p] EXCEPT !.owner = NoToken, !.ttl = 0] ELSE batch[p]
<1>1. p \in Projects
  BY DEF ReleaseBatch, In, WorksAtHome
<1>2. batch[p] \in Batches
  BY <1>1
<1>3. b \in Batches /\ b.stage = batch[p].stage /\ b.members = batch[p].members
  BY <1>2, Ticks DEF Batches
<1>4. batch' = [batch EXCEPT ![p] = b]
  BY <1>1 DEF ReleaseBatch
<1>5. Goto(t, "leaving") /\ UNCHANGED <<lock, observation, learnt, skill, proposal>>
  BY DEF ReleaseBatch, Unchanged
<1>6. worker' \in [Tokens -> Workers] /\ WorksAtHome'
  BY <1>1, <1>5, GotoKeeps DEF Synchronous
<1>7. batch' \in [Projects -> Batches] /\ MembersAtHome' /\ WaitingIsNew' /\ LearntOnce'
  BY <1>1, <1>3, <1>4, <1>5, BatchMoves
<1> QED BY <1>5, <1>6, <1>7 DEF LocksTypeOK

-----------------------------------------------------------------------------
(* The steps that change what is learnt, and for whom. *)

LEMMA CreateStep ==
  ASSUME SInv, NEW t \in Tokens, CreateBatch(t)
  PROVE  SInv'
<1> USE DEF SInv, SynthesisTypeOK
<1> DEFINE p == Home(t)
<1>1. p \in Projects /\ batch[p].stage = "none" /\ batch[p].members = {}
  BY DEF CreateBatch, In, WorksAtHome, MembersAtHome
<1>2. UNCHANGED <<lock, observation, learnt, skill, proposal>>
  BY DEF CreateBatch, Unchanged
<1>3. CASE Pending(p) = {}
  <2>1. Goto(t, "leaving") /\ UNCHANGED batch
    BY <1>3 DEF CreateBatch
  <2>2. worker' \in [Tokens -> Workers] /\ WorksAtHome'
    BY <1>1, <2>1, GotoKeeps DEF Synchronous
  <2> QED BY <1>2, <2>1, <2>2, LedgerStays DEF LocksTypeOK
<1>4. CASE Pending(p) # {}
  <2> DEFINE B(m) == [NoBatch EXCEPT !.stage = "created", !.members = m,
                                     !.owner = t, !.ttl = BatchTicks]
  <2>1. PICK m \in SUBSET Pending(p) : batch' = [batch EXCEPT ![p] = B(m)]
    BY <1>4 DEF CreateBatch
  <2>2. B(m) \in Batches /\ B(m).members = m /\ B(m).stage = "created"
    BY Ticks DEF NoBatch, Batches, Pending
  <2>3. batch' \in [Projects -> Batches]
    BY <2>1, <2>2
  <2>4. batch'[p] = B(m) /\ \A q \in Projects \ {p} : batch'[q] = batch[q]
    BY <1>1, <2>1
  <2>5. \A o \in m : HomeOf[o] = p /\ observation[o] = "pending" /\ o \in Observations
    BY DEF Pending
  <2>6. \A o \in m : ~InBatch(o)
    BY <1>1, <2>5 DEF InBatch
  <2>7. \A o \in m : learnt[o] = 0
    BY <2>5, <2>6 DEF WaitingIsNew
  <2>8. MembersAtHome'
    BY <2>2, <2>4, <2>5 DEF MembersAtHome
  <2>9. WaitingIsNew'
    BY <1>1, <1>2, <2>4, SynthesisAssumption DEF WaitingIsNew, InBatch
  <2>10. LearntOnce'
    BY <1>2, <2>2, <2>4, <2>7 DEF LearntOnce
  <2>11. worker' \in [Tokens -> Workers] /\ WorksAtHome'
    BY <1>1, <1>4, GotoKeeps DEF CreateBatch, Awaits
  <2> QED BY <1>2, <2>3, <2>8, <2>9, <2>10, <2>11 DEF LocksTypeOK
<1> QED BY <1>3, <1>4

\* The ownership check makes the application of the traits happen once: it is
\* the step that leaves "created", where no member has been learnt.
LEMMA ConsolidateStep ==
  ASSUME SInv, NEW t \in Tokens, Consolidated(t)
  PROVE  SInv'
<1> USE DEF SInv, SynthesisTypeOK
<1> DEFINE p == Home(t)
           b == [batch[p] EXCEPT !.stage = "traits_applied", !.ttl = BatchTicks]
<1>1. p \in Projects /\ batch[p].stage = "created"
  BY DEF Consolidated, In, WorksAtHome, OwnsBatch
<1>2. batch[p] \in Batches
  BY <1>1
<1>3. b \in Batches /\ b.stage = "traits_applied" /\ b.members = batch[p].members
  BY <1>2, Ticks DEF Batches
<1>4. batch' = [batch EXCEPT ![p] = b]
  BY <1>1 DEF Consolidated
<1>5. batch' \in [Projects -> Batches]
  BY <1>3, <1>4
<1>6. batch'[p] = b /\ \A q \in Projects \ {p} : batch'[q] = batch[q]
  BY <1>1, <1>4
<1>7. \A o \in batch[p].members : o \in Observations /\ HomeOf[o] = p /\ learnt[o] = 0
  BY <1>1, <1>2 DEF MembersAtHome, LearntOnce, Batches
<1>8. learnt' = [o \in Observations |->
                   IF o \in batch[p].members THEN 1 ELSE learnt[o]]
  BY <1>7 DEF Consolidated, TraitsApplied
<1>9. learnt' \in [Observations -> 0..2]
  BY <1>8
<1>10. UNCHANGED <<lock, observation, skill, proposal>>
  BY DEF Consolidated
<1>11. MembersAtHome'
  BY ZenonT(60), <1>1, <1>3, <1>6 DEF MembersAtHome
<1>12. WaitingIsNew'
  BY <1>1, <1>3, <1>6, <1>7, <1>8, <1>10, SynthesisAssumption DEF WaitingIsNew, InBatch
<1>13. LearntOnce'
  <2>1. \A o \in Observations : learnt'[o] <= 1
    BY <1>8 DEF LearntOnce
  <2>2. ASSUME NEW q \in Projects, NEW o \in batch'[q].members
        PROVE  learnt'[o] = IF batch'[q].stage = "created" THEN 0 ELSE 1
    <3>1. CASE q = p
      BY <1>3, <1>6, <1>7, <1>8, <3>1
    <3>2. CASE q # p
      <4>1. o \in Observations /\ HomeOf[o] = q
        BY <1>6, <3>2 DEF MembersAtHome, Batches
      <4>2. o \notin batch[p].members
        BY <1>7, <3>2, <4>1
      <4> QED BY <1>6, <1>8, <3>2, <4>1, <4>2 DEF LearntOnce
    <3> QED BY <3>1, <3>2
  <2> QED BY <2>1, <2>2 DEF LearntOnce
<1>14. worker' \in [Tokens -> Workers] /\ WorksAtHome'
  BY <1>1, GotoKeeps DEF Consolidated, Awaits
<1> QED BY <1>5, <1>9, <1>10, <1>11, <1>12, <1>13, <1>14 DEF LocksTypeOK

LEMMA AcknowledgeStep ==
  ASSUME SInv, NEW t \in Tokens, Acknowledge(t)
  PROVE  SInv'
<1> USE DEF SInv, SynthesisTypeOK
<1> DEFINE p == Home(t)
<1>1. p \in Projects
  BY DEF Acknowledge, In, WorksAtHome
<1>2. NoBatch \in Batches /\ NoBatch.members = {} /\ NoBatch.stage = "none"
  BY SynthesisAssumption DEF NoBatch, Batches
<1>3. batch' = [batch EXCEPT ![p] = NoBatch]
  BY <1>1 DEF Acknowledge
<1>4. batch' \in [Projects -> Batches]
  BY <1>2, <1>3
<1>5. batch'[p] = NoBatch /\ \A q \in Projects \ {p} : batch'[q] = batch[q]
  BY <1>1, <1>3
<1>6. observation' = [o \in Observations |->
        IF o \in batch[p].members THEN "processed" ELSE observation[o]]
  BY DEF Acknowledge
<1>7. observation' \in [Observations -> {"absent", "pending", "processed"}]
  BY <1>6
<1>8. UNCHANGED <<lock, learnt, skill, proposal>>
  BY DEF Acknowledge
<1>9. MembersAtHome'
  BY <1>1, <1>2, <1>5 DEF MembersAtHome
<1>10. WaitingIsNew'
  BY <1>1, <1>2, <1>5, <1>6, <1>8, SynthesisAssumption DEF WaitingIsNew, InBatch
<1>11. LearntOnce'
  BY <1>2, <1>5, <1>8 DEF LearntOnce
<1>12. worker' \in [Tokens -> Workers] /\ WorksAtHome'
  BY <1>1, GotoKeeps DEF Acknowledge, Synchronous
<1> QED BY <1>4, <1>7, <1>8, <1>9, <1>10, <1>11, <1>12 DEF LocksTypeOK

LEMMA ObservationStep ==
  ASSUME SInv, NEW o \in Observations,
         \/ Observe(o)
         \/ \E status \in {"pending", "processed"} : PatchStatus(o, status)
  PROVE  SInv'
<1> USE DEF SInv, SynthesisTypeOK
<1>1. UNCHANGED <<lock, batch, skill, proposal, worker>>
  BY DEF Observe, PatchStatus
<1>2. observation' \in [Observations -> {"absent", "pending", "processed"}]
  BY DEF Observe, PatchStatus
<1>3. learnt' \in [Observations -> 0..2]
  BY DEF Observe, PatchStatus
<1>4. \A x \in Observations : learnt'[x] = learnt[x] \/ (learnt'[x] = 0 /\ ~InBatch(x))
  BY DEF Observe, PatchStatus
<1>5. WaitingIsNew'
  BY <1>1 DEF Observe, PatchStatus, WaitingIsNew, InBatch
<1>6. LearntOnce'
  <2>1. \A x \in Observations : learnt'[x] <= 1
    BY <1>4 DEF LearntOnce
  <2>2. ASSUME NEW p \in Projects, NEW x \in batch[p].members PROVE learnt'[x] = learnt[x]
    BY <1>4 DEF MembersAtHome, InBatch, Batches
  <2> QED BY <1>1, <2>1, <2>2 DEF LearntOnce
<1>7. MembersAtHome' /\ WorksAtHome'
  BY <1>1 DEF MembersAtHome, WorksAtHome, Home
<1> QED BY <1>1, <1>2, <1>3, <1>5, <1>6, <1>7 DEF LocksTypeOK

-----------------------------------------------------------------------------
(* Users, the clock and crashes. *)

LEMMA CatalogStep ==
  ASSUME SInv, NEW i \in Items,
         Review(i) \/ Propose(i) \/ SubmitDraft(i) \/ ArchiveTarget(i) \/ AddSkill(i)
  PROVE  SInv'
<1> USE DEF SInv, SynthesisTypeOK
<1>1. UNCHANGED <<lock, observation, learnt, batch, worker>>
  BY DEF Review, Propose, SubmitDraft, ArchiveTarget, AddSkill
<1>2. skill' \subseteq Items
  BY DEF Review, Propose, SubmitDraft, ArchiveTarget, AddSkill
<1>3. proposal' \in [Items -> {"none", "draft", "pending"}]
  BY DEF Review, Propose, SubmitDraft, ArchiveTarget, AddSkill
<1>4. WorksAtHome'
  BY <1>1 DEF WorksAtHome, Home
<1> QED BY <1>1, <1>2, <1>3, <1>4, LedgerStays DEF LocksTypeOK

LEMMA CleanupStep == ASSUME SInv, Cleanup PROVE SInv'
<1> USE DEF SInv, SynthesisTypeOK
<1>1. LocksTypeOK'
  <2>1. Pruned \in [Scopes -> LockRows]
    BY LocksAssumption DEF LocksTypeOK, LockRows, NoLock, Pruned
  <2> QED BY <2>1 DEF Cleanup, CleanupExpiredLocks, LocksTypeOK
<1>2. UNCHANGED <<observation, learnt, batch, skill, proposal, worker>>
  BY DEF Cleanup
<1>3. WorksAtHome'
  BY <1>2 DEF WorksAtHome, Home
<1> QED BY <1>1, <1>2, <1>3, LedgerStays

LEMMA TickStep == ASSUME SInv, Tick PROVE SInv'
<1> USE DEF SInv, SynthesisTypeOK
<1>1. LocksTypeOK'
  <2>1. ASSUME NEW c \in Scopes
        PROVE  [lock[c] EXCEPT !.ttl = IF @ < 0 THEN -1 ELSE @ - 1] \in LockRows
    <3> DEFINE left == IF lock[c].ttl < 0 THEN -1 ELSE lock[c].ttl - 1
    <3>1. lock[c] \in LockRows
      BY DEF LocksTypeOK
    <3>2. left \in -1..LockTicks
      BY <3>1, LocksAssumption DEF LockRows
    <3> HIDE DEF left
    <3>3. [lock[c] EXCEPT !.ttl = left] \in LockRows
      BY <3>1, <3>2 DEF LockRows
    <3> QED BY <3>3 DEF left
  <2> QED BY <2>1 DEF Tick, LocksAge, LocksTypeOK
<1>2. UNCHANGED <<observation, learnt, skill, proposal, worker>>
  BY DEF Tick
<1> DEFINE Aged(p) == [batch[p] EXCEPT !.ttl = IF @ > 0 THEN @ - 1 ELSE 0]
<1>3. ASSUME NEW p \in Projects
      PROVE  /\ Aged(p) \in Batches /\ Aged(p).stage = batch[p].stage
             /\ Aged(p).members = batch[p].members
  <2> DEFINE left == IF batch[p].ttl > 0 THEN batch[p].ttl - 1 ELSE 0
  <2>1. batch[p] \in Batches
    OBVIOUS
  <2>2. left \in 0..BatchTicks
    BY <2>1, SynthesisAssumption DEF Batches
  <2> HIDE DEF left
  <2> DEFINE c == [batch[p] EXCEPT !.ttl = left]
  <2>3. c \in Batches /\ c.stage = batch[p].stage /\ c.members = batch[p].members
    BY <2>1, <2>2 DEF Batches
  <2>4. Aged(p) = c
    BY DEF left
  <2> HIDE DEF c, Aged
  <2> QED BY <2>3, <2>4
<1>4. batch' = [p \in Projects |-> Aged(p)]
  BY DEF Tick
<1> HIDE DEF Aged
<1>5. batch' \in [Projects -> Batches]
  BY <1>3, <1>4
<1>6. MembersAtHome' /\ WaitingIsNew' /\ LearntOnce'
  BY <1>2, <1>3, <1>4, SameLearning
<1>7. WorksAtHome'
  BY <1>2 DEF WorksAtHome, Home
<1> QED BY <1>1, <1>2, <1>5, <1>6, <1>7

LEMMA CrashStep == ASSUME SInv, Crash PROVE SInv'
<1> USE DEF SInv, SynthesisTypeOK
<1>1. UNCHANGED <<lock, observation, learnt, batch, skill, proposal>>
  BY DEF Crash
<1>2. Idle \in Workers
  BY DEF Idle, Workers, Scopes
<1>3. worker' \in [Tokens -> Workers]
  BY <1>2 DEF Crash
<1>4. WorksAtHome'
  BY DEF Crash, WorksAtHome, Home, Idle
<1> QED BY <1>1, <1>3, <1>4, LedgerStays DEF LocksTypeOK

-----------------------------------------------------------------------------
(* The theorems. *)

\* The strengthened invariant: types, and the ledger that ties what is learnt
\* of an observation to the stage of the batch that holds it.
THEOREM SynthesisInvariance == SynthesisSpec => []SInv
<1>1. SynthesisInit => SInv
  <2> SUFFICES ASSUME SynthesisInit PROVE SInv
    OBVIOUS
  <2> USE DEF SynthesisInit
  <2>1. LocksTypeOK
    BY LocksAssumption DEF LocksInit, LocksTypeOK, LockRows, NoLock
  <2>2. NoBatch \in Batches /\ NoBatch.members = {} /\ NoBatch.stage = "none"
    BY Ticks DEF NoBatch, Batches
  <2>3. Idle \in Workers /\ Idle.phase = "idle"
    BY DEF Idle, Workers, Scopes
  <2>4. SynthesisTypeOK
    BY <2>1, <2>2, <2>3 DEF SynthesisTypeOK, Items
  <2> QED BY <2>2, <2>3, <2>4
          DEF SInv, WorksAtHome, MembersAtHome, WaitingIsNew, LearntOnce
<1>2. SInv /\ [SynthesisNext]_synthesisVars => SInv'
  <2> SUFFICES ASSUME SInv, [SynthesisNext]_synthesisVars PROVE SInv'
    OBVIOUS
  <2>1. CASE UNCHANGED synthesisVars
    BY <2>1, LedgerStays DEF synthesisVars, SInv, SynthesisTypeOK, LocksTypeOK, WorksAtHome, Home
  <2>2. ASSUME NEW t \in Tokens, NEW p \in Projects, Acquire(t, p) PROVE SInv'
    BY <2>2, LockStep
  <2>3. ASSUME NEW t \in Tokens, Claims(t) PROVE SInv'
    BY <2>3, ClaimStep, CreateStep, WorkerStep DEF Claims
  <2>4. ASSUME NEW t \in Tokens, Answers(t) PROVE SInv'
    BY <2>4, ConsolidateStep, WorkerStep, PlanStep DEF Answers
  <2>5. ASSUME NEW t \in Tokens, Applies(t) PROVE SInv'
    BY <2>5, WorkerStep, AdvanceStep DEF Applies
  <2>6. ASSUME NEW t \in Tokens, Finishes(t) PROVE SInv'
    BY <2>6, AcknowledgeStep, WorkerStep, ReleaseStep, LockStep DEF Finishes
  <2>7. CASE Clients
    BY <2>7, LockStep DEF Clients
  <2>8. CASE Users
    BY <2>8, ObservationStep, CatalogStep DEF Users
  <2>9. CASE Cleanup \/ Tick \/ Crash
    BY <2>9, CleanupStep, TickStep, CrashStep
  <2> QED BY <2>1, <2>2, <2>3, <2>4, <2>5, <2>6, <2>7, <2>8, <2>9 DEF SynthesisNext
<1> QED BY <1>1, <1>2, PTL DEF SynthesisSpec

\* The types hold, of every row of the locks and the batches and of every
\* worker: no stage, lease or plan leaves its range.
THEOREM SynthesisTypes == SynthesisSpec => []SynthesisTypeOK
<1>1. SInv => SynthesisTypeOK
  BY DEF SInv
<1> QED BY <1>1, SynthesisInvariance, PTL

\* The traits of an observation are applied exactly once on its way through a
\* batch, for any number of workers, crashes and leases that run out.
THEOREM TraitsAreAppliedOnce == SynthesisSpec => []LearntOnce
<1>1. SInv => LearntOnce
  BY DEF SInv
<1> QED BY <1>1, SynthesisInvariance, PTL

\* The locks exclude one another: a row of a project and the row of all
\* projects never exist together, whoever renews, releases and prunes.
THEOREM LocksExclude == SynthesisSpec => []LocksExclusive
<1>1. SynthesisInit => LocksExclusive
  BY DEF SynthesisInit, LocksInit, LocksExclusive, Held, NoLock, Scopes
<1>2. SInv /\ LocksExclusive /\ [SynthesisNext]_synthesisVars => LocksExclusive'
  <2> SUFFICES ASSUME SInv, LocksExclusive, [SynthesisNext]_synthesisVars
               PROVE  LocksExclusive'
    OBVIOUS
  <2>0. LocksTypeOK
    BY DEF SInv, SynthesisTypeOK
  <2>15. \A t \in Tokens : Home(t) \in Scopes
    BY DEF SInv, SynthesisTypeOK, Workers, Home
  <2>1. ASSUME \A s \in Scopes : lock'[s].owner \in {lock[s].owner, NoToken}
        PROVE  LocksExclusive'
    BY <2>1 DEF LocksExclusive, Held, Scopes
  <2>2. \A s \in Scopes : Pruned[s].owner \in {lock[s].owner, NoToken}
    BY DEF Pruned, NoLock
  <2>3. ASSUME NEW s \in Scopes, NEW t \in Tokens, AcquireLock(s, t)
        PROVE  LocksExclusive'
    <3>1. \A c \in Conflicts(s) : Pruned[c].owner = NoToken
      BY <2>3 DEF AcquireLock, Grantable, NoLock
    <3>2. \A c \in Scopes \ {s} : lock'[c] = Pruned[c]
      BY <2>3 DEF AcquireLock, Pruned
    <3>3. CASE s = Global
      BY <3>1, <3>2, <3>3, LocksAssumption DEF Conflicts, Scopes, LocksExclusive, Held
    <3>4. CASE s # Global
      <4>1. lock'[Global].owner = NoToken
        BY <3>1, <3>2, <3>4 DEF Conflicts, Scopes
      <4> QED BY <4>1 DEF LocksExclusive, Held
    <3> QED BY <3>3, <3>4
  <2>4. ASSUME NEW s \in Scopes, NEW t \in Tokens, RenewLock(s, t) \/ ReleaseLock(s, t)
        PROVE  LocksExclusive'
    BY <2>0, <2>1, <2>4 DEF RenewLock, ReleaseLock, NoLock, LocksTypeOK, LockRows
  <2>5. CASE CleanupExpiredLocks
    BY <2>1, <2>2, <2>5 DEF CleanupExpiredLocks
  <2>6. CASE LocksAge
    BY <2>0, <2>1, <2>6 DEF LocksAge, LocksTypeOK, LockRows
  <2>7. CASE UNCHANGED lock
    BY <2>1, <2>7
  <2>8. ASSUME NEW t \in Tokens, Claims(t) \/ Answers(t) \/ Applies(t)
        PROVE  UNCHANGED lock
    BY <2>8 DEF Claims, ClaimBatch, CreateBatch, LearningDisabled, Answers, Consolidated,
                AnswerFails, PlanReady, Applies, SkipItem, TargetMissing, OfferItem,
                SubmitItem, Advance, LeaseLost, Unchanged
  <2>9. ASSUME NEW t \in Tokens, Finishes(t) PROVE LocksExclusive'
    BY <2>4, <2>7, <2>9, <2>15
       DEF Finishes, Acknowledge, AcknowledgeFails, ReleaseBatch, Leave, Unchanged
  <2>10. CASE Clients
    BY <2>3, <2>4, <2>7, <2>10, <2>15, SynthesisAssumption
       DEF Clients, Visit, EndVisit, Renew
  <2>11. CASE Users
    BY <2>7, <2>11 DEF Users, Observe, PatchStatus, Review, Propose, SubmitDraft,
                       ArchiveTarget, AddSkill
  <2>12. ASSUME NEW t \in Tokens, NEW p \in Projects, Acquire(t, p)
         PROVE  LocksExclusive'
    BY <2>3, <2>12 DEF Acquire, Scopes
  <2>13. CASE Cleanup \/ Tick \/ Crash
    BY <2>5, <2>6, <2>7, <2>13 DEF Cleanup, Tick, Crash
  <2>14. CASE UNCHANGED synthesisVars
    BY <2>7, <2>14 DEF synthesisVars
  <2> QED BY <2>7, <2>8, <2>9, <2>10, <2>11, <2>12, <2>13, <2>14 DEF SynthesisNext
<1> QED BY <1>1, <1>2, SynthesisInvariance, PTL DEF SynthesisSpec

-----------------------------------------------------------------------------
(* The plan of a batch. *)

\* A plan is persisted after the traits, and goes with its batch.
PlanFollowsTraits ==
  \A p \in Projects : batch[p].stage \in {"none", "created"} => batch[p].plan = NoPlan

\* One handler at a time is between two awaits.
OneAtATime ==
  \A t, u \in Tokens :
    worker[t].phase \in Synchronous /\ worker[u].phase \in Synchronous => t = u

\* Worker t is half way through the plan of its batch: what it is done with is
\* a skill by now, or waits for review.  Its lease may run out, no more.
Offering(t) ==
  LET b == batch[Home(t)]
  IN  /\ b.stage = "traits_applied" /\ b.owner = t /\ b.plan # NoPlan
      /\ worker[t].todo \subseteq b.plan
      /\ worker[t].at # NoItem => worker[t].at \in worker[t].todo
      /\ \A i \in b.plan \ worker[t].todo :
           i \in Creations \cap skill \/ proposal[i] = "pending"

OffersItsPlan == \A t \in Tokens : worker[t].phase = "applying" => Offering(t)

\* An item is about to be submitted only while a plan is applied.
SubmitsWhileApplying ==
  \A t \in Tokens : worker[t].at # NoItem => worker[t].phase = "applying"

PlanInv == PlanFollowsTraits /\ OneAtATime /\ SubmitsWhileApplying /\ OffersItsPlan

\* The steps of one worker that are its turn.
Turns(t) ==
  \/ \E p \in Projects : Acquire(t, p)
  \/ Claims(t) \/ Answers(t) \/ Applies(t) \/ Finishes(t)
  \/ \E s \in Visitable : Visit(t, s)
  \/ EndVisit(t)

\* Every other step but a crash leaves the workers alone.
Stands ==
  \/ \E t \in Tokens : Renew(t)
  \/ Users \/ Cleanup \/ Tick
  \/ UNCHANGED synthesisVars

LEMMA StepKinds ==
  ASSUME [SynthesisNext]_synthesisVars
  PROVE  (\E t \in Tokens : Turns(t)) \/ Stands \/ Crash
BY DEF SynthesisNext, Clients, Turns, Stands

LEMMA TurnMoves ==
  ASSUME NEW t \in Tokens, SInv, Turns(t)
  PROVE  /\ Turn(t)
         /\ \A u \in Tokens \ {t} : worker'[u] = worker[u]
<1>1. Turn(t)
  BY DEF Turns, Acquire, Claims, ClaimBatch, CreateBatch, LearningDisabled, Answers,
         Consolidated, AnswerFails, PlanReady, Applies, SkipItem, TargetMissing, OfferItem,
         NextItem, SubmitItem, Advance, LeaseLost, Offered, Finishes, Acknowledge,
         AcknowledgeFails, ReleaseBatch, Leave, Visit, EndVisit, In, Turn, Free
<1>2. \E w : Move(t, w)
  <2>1. CASE \E p \in Projects : Acquire(t, p)
    BY <2>1 DEF Acquire
  <2>2. CASE ClaimBatch(t)
    <3> DEFINE claimed == [batch[Home(t)] EXCEPT !.owner = t, !.ttl = BatchTicks]
    <3>0. Home(t) \in Projects /\ batch[Home(t)].stage # "none"
      BY <2>2 DEF ClaimBatch, In, SInv, WorksAtHome
    <3>1. claimed.stage \in {"created", "traits_applied", "proposals_applied"}
      BY <3>0 DEF SInv, SynthesisTypeOK, Batches
    <3>2. Resume(t, claimed) \/ Goto(t, "leaving")
      BY <2>2 DEF ClaimBatch
    <3> HIDE DEF claimed
    <3> QED BY <3>1, <3>2 DEF Resume, Goto
  <2>3. CASE CreateBatch(t) \/ LearningDisabled(t) \/ Answers(t)
    BY <2>3 DEF CreateBatch, LearningDisabled, Answers, Consolidated, AnswerFails, PlanReady,
                Goto
  <2>4. CASE Applies(t)
    BY <2>4 DEF Applies, SkipItem, TargetMissing, OfferItem, SubmitItem, Advance, LeaseLost,
                Goto
  <2>5. CASE Finishes(t) \/ EndVisit(t) \/ \E s \in Visitable : Visit(t, s)
    BY <2>5 DEF Finishes, Acknowledge, AcknowledgeFails, ReleaseBatch, Leave, EndVisit, Visit,
                Goto
  <2> QED BY <2>1, <2>2, <2>3, <2>4, <2>5 DEF Turns, Claims
<1> QED BY <1>1, <1>2 DEF Move, SInv, SynthesisTypeOK

LEMMA StandsStill ==
  ASSUME Stands
  PROVE  UNCHANGED worker
BY DEF Stands, Renew, Users, Observe, PatchStatus, Review, Propose, SubmitDraft, ArchiveTarget,
       AddSkill, Cleanup, Tick, synthesisVars

\* What a step may do to a batch, as far as its plan goes.
Advances(p) == \E t \in Tokens : Advance(t) /\ Home(t) = p

MayReach(p, stage) ==
  \/ stage = "traits_applied"
  \/ stage = "proposals_applied" /\ Advances(p)
  \/ stage = batch[p].stage

KeepsPlan(p) ==
  batch'[p].plan = batch[p].plan /\ MayReach(p, batch'[p].stage)

PlanMoves(p) ==
  \/ KeepsPlan(p)
  \/ /\ batch[p].plan = NoPlan                       \* PlanReady
     /\ batch'[p].stage = "traits_applied"
  \/ /\ batch[p].stage = "none"                      \* CreateBatch
     /\ batch'[p].plan = NoPlan
  \/ batch'[p] = NoBatch                             \* Acknowledge

LEMMA PlanSteps ==
  ASSUME SInv, [SynthesisNext]_synthesisVars, NEW p \in Projects
  PROVE  PlanMoves(p)
<1>0. batch \in [Projects -> Batches] /\ batch[p] \in Batches
  BY DEF SInv, SynthesisTypeOK
<1>1. CASE UNCHANGED batch
  BY <1>1 DEF PlanMoves, KeepsPlan, MayReach
<1>2. ASSUME NEW q \in Projects, NEW b \in Batches, batch' = [batch EXCEPT ![q] = b],
             b.plan = batch[q].plan,
             MayReach(q, b.stage)
      PROVE  PlanMoves(p)
  BY <1>0, <1>2 DEF PlanMoves, KeepsPlan, MayReach
<1>3. ASSUME NEW t \in Tokens, Claims(t) PROVE PlanMoves(p)
  <2> DEFINE q == Home(t)
             claimed == [batch[q] EXCEPT !.owner = t, !.ttl = BatchTicks]
             New(m) == [NoBatch EXCEPT !.stage = "created", !.members = m,
                                       !.owner = t, !.ttl = BatchTicks]
  <2>1. q \in Projects
    BY <1>3 DEF Claims, ClaimBatch, CreateBatch, LearningDisabled, In, SInv, WorksAtHome
  <2>2. CASE ClaimBatch(t) /\ Claimable(q, t)
    <3>1. claimed \in Batches /\ claimed.plan = batch[q].plan /\ claimed.stage = batch[q].stage
      BY <1>0, <2>1, Ticks DEF Batches
    <3>2. batch' = [batch EXCEPT ![q] = claimed]
      BY <2>2 DEF ClaimBatch
    <3> HIDE DEF claimed, q
    <3> QED BY <1>2, <2>1, <3>1, <3>2 DEF MayReach
  <2>3. CASE CreateBatch(t) /\ Pending(q) # {}
    <3>1. PICK m \in SUBSET Pending(q) : batch' = [batch EXCEPT ![q] = New(m)]
      BY <2>3 DEF CreateBatch
    <3>2. New(m).plan = NoPlan /\ batch[q].stage = "none"
      BY <2>3 DEF NoBatch, CreateBatch
    <3> HIDE DEF New, q
    <3> QED BY <1>0, <2>1, <3>1, <3>2 DEF PlanMoves, KeepsPlan, MayReach
  <2>4. CASE ~(ClaimBatch(t) /\ Claimable(q, t)) /\ ~(CreateBatch(t) /\ Pending(q) # {})
    BY <1>1, <1>3, <2>4 DEF Claims, ClaimBatch, CreateBatch, LearningDisabled
  <2> QED BY <2>2, <2>3, <2>4
<1>4. ASSUME NEW t \in Tokens, Answers(t) PROVE PlanMoves(p)
  <2> DEFINE q == Home(t)
  <2>1. q \in Projects
    BY <1>4 DEF Answers, Consolidated, AnswerFails, PlanReady, In, SInv, WorksAtHome
  <2>2. CASE Consolidated(t)
    <3> DEFINE b == [batch[q] EXCEPT !.stage = "traits_applied", !.ttl = BatchTicks]
    <3>1. b \in Batches /\ b.plan = batch[q].plan /\ b.stage = "traits_applied"
      BY <1>0, <2>1, Ticks DEF Batches
    <3>2. batch' = [batch EXCEPT ![q] = b]
      BY <1>0, <2>1, <2>2 DEF Consolidated
    <3> HIDE DEF b, q
    <3> QED BY <1>2, <2>1, <3>1, <3>2 DEF MayReach
  <2>3. ASSUME NEW plan \in Plans, PlanReady(t, plan) PROVE PlanMoves(p)
    <3>1. batch[q].plan = NoPlan /\ batch[q].stage = "traits_applied"
      BY <2>3 DEF PlanReady, OwnsBatch
    <3>2. batch' = [batch EXCEPT ![q] = [batch[q] EXCEPT !.plan = plan, !.ttl = BatchTicks]]
      BY <1>0, <2>1, <2>3 DEF PlanReady
    <3>3. CASE p = q
      <4>1. batch'[p].stage = "traits_applied"
        BY <1>0, <2>1, <3>1, <3>2, <3>3 DEF Batches
      <4> QED BY <3>1, <3>3, <4>1 DEF PlanMoves
    <3>4. CASE p # q
      BY <1>0, <3>2, <3>4 DEF PlanMoves, KeepsPlan, MayReach
    <3> QED BY <3>3, <3>4
  <2> QED BY <1>1, <1>4, <2>2, <2>3 DEF Answers, AnswerFails
<1>5. ASSUME NEW t \in Tokens, Applies(t) PROVE PlanMoves(p)
  <2> DEFINE q == Home(t)
             b == [batch[q] EXCEPT !.stage = "proposals_applied"]
  <2>1. CASE Advance(t)
    <3>1. q \in Projects
      BY <2>1 DEF Advance, Offered, In, SInv, WorksAtHome
    <3>2. b \in Batches /\ b.plan = batch[q].plan /\ b.stage = "proposals_applied"
      BY <1>0, <3>1 DEF Batches
    <3>3. batch' = [batch EXCEPT ![q] = b]
      BY <1>0, <2>1, <3>1 DEF Advance
    <3>4. Advances(q)
      BY <2>1 DEF Advances
    <3> HIDE DEF b, q
    <3> QED BY <1>2, <3>1, <3>2, <3>3, <3>4 DEF MayReach
  <2> QED BY <1>1, <1>5, <2>1
          DEF Applies, SkipItem, TargetMissing, OfferItem, SubmitItem, LeaseLost
<1>6. ASSUME NEW t \in Tokens, Finishes(t) PROVE PlanMoves(p)
  <2> DEFINE q == Home(t)
             b == IF batch[q].owner = t
                  THEN [batch[q] EXCEPT !.owner = NoToken, !.ttl = 0] ELSE batch[q]
  <2>1. CASE Acknowledge(t)
    BY <1>0, <2>1 DEF Acknowledge, PlanMoves, KeepsPlan, MayReach
  <2>2. CASE ReleaseBatch(t)
    <3>1. q \in Projects
      BY <2>2 DEF ReleaseBatch, In, SInv, WorksAtHome
    <3>2. b \in Batches /\ b.plan = batch[q].plan /\ b.stage = batch[q].stage
      BY <1>0, <3>1, Ticks DEF Batches
    <3>3. batch' = [batch EXCEPT ![q] = b]
      BY <1>0, <2>2, <3>1 DEF ReleaseBatch
    <3> HIDE DEF b, q
    <3> QED BY <1>2, <3>1, <3>2, <3>3 DEF MayReach
  <2> QED BY <1>1, <1>6, <2>1, <2>2 DEF Finishes, AcknowledgeFails, Leave
<1>7. CASE Tick
  <2> DEFINE Aged(q) == [batch[q] EXCEPT !.ttl = IF @ > 0 THEN @ - 1 ELSE 0]
  <2>1. Aged(p).plan = batch[p].plan /\ Aged(p).stage = batch[p].stage
    BY <1>0 DEF Batches
  <2>2. batch'[p] = Aged(p)
    BY <1>7 DEF Tick
  <2> HIDE DEF Aged
  <2> QED BY <2>1, <2>2 DEF PlanMoves, KeepsPlan, MayReach
<1>8. CASE Clients \/ Users \/ Cleanup \/ Crash \/ UNCHANGED synthesisVars
        \/ \E t \in Tokens, q \in Projects : Acquire(t, q)
  BY <1>1, <1>8 DEF Clients, Visit, EndVisit, Renew, Users, Observe, PatchStatus, Review,
                    Propose, SubmitDraft, ArchiveTarget, AddSkill, Cleanup, Crash, Acquire,
                    synthesisVars
<1> QED BY <1>3, <1>4, <1>5, <1>6, <1>7, <1>8 DEF SynthesisNext

LEMMA PlanAdvances ==
  ASSUME SInv, [SynthesisNext]_synthesisVars, NEW p \in Projects,
         batch[p].stage = "traits_applied", batch'[p].stage = "proposals_applied"
  PROVE  Advances(p)
BY PlanSteps DEF PlanMoves, KeepsPlan, MayReach, NoBatch

LEMMA PlanFollowsStep ==
  ASSUME SInv, PlanFollowsTraits, [SynthesisNext]_synthesisVars
  PROVE  PlanFollowsTraits'
BY PlanSteps DEF PlanFollowsTraits, PlanMoves, KeepsPlan, MayReach, NoBatch

LEMMA OneAtATimeStep ==
  ASSUME SInv, OneAtATime, [SynthesisNext]_synthesisVars
  PROVE  OneAtATime'
<1>1. CASE \E t \in Tokens : Turns(t)
  BY <1>1, TurnMoves DEF Turn, OneAtATime
<1>2. CASE Stands
  BY <1>2, StandsStill DEF OneAtATime
<1>3. CASE Crash
  BY <1>3 DEF Crash, OneAtATime, Idle, Synchronous, SInv, SynthesisTypeOK
<1> QED BY <1>1, <1>2, <1>3, StepKinds

\* While a worker applies its plan, nobody else has a turn: only its own steps,
\* the clock and a crash can come next.
LEMMA NobodyElse ==
  ASSUME SInv, NEW t \in Tokens, worker[t].phase = "applying",
         [SynthesisNext]_synthesisVars
  PROVE  Applies(t) \/ Tick \/ Crash \/ UNCHANGED synthesisVars
<1>1. ASSUME NEW u \in Tokens, Turns(u) PROVE u = t /\ Applies(t)
  <2>1. u = t
    BY <1>1, TurnMoves DEF Turn, Synchronous
  <2> QED BY <1>1, <2>1
          DEF Turns, Acquire, Fresh, Claims, ClaimBatch, CreateBatch, LearningDisabled,
              Answers, Consolidated, AnswerFails, PlanReady, Finishes, Acknowledge,
              AcknowledgeFails, ReleaseBatch, Leave, Visit, EndVisit, In
<1>2. ~Free
  BY DEF Free, Synchronous
<1>3. CASE Stands
  BY <1>2, <1>3 DEF Stands, Renew, Users, Observe, PatchStatus, Review, Propose, SubmitDraft,
                    ArchiveTarget, AddSkill, Cleanup, MayEdit
<1> QED BY <1>1, <1>3, StepKinds

\* Where a move takes the worker.
LEMMA GotoSets ==
  ASSUME SInv, NEW t \in Tokens, NEW phase, Goto(t, phase)
  PROVE  /\ worker'[t].phase = phase
         /\ worker'[t].at = worker[t].at
         /\ worker'[t].scope = worker[t].scope
BY DEF Goto, Move, SInv, SynthesisTypeOK, Workers

LEMMA IdleSets ==
  ASSUME SInv, NEW t \in Tokens, Move(t, Idle)
  PROVE  worker'[t].phase = "idle" /\ worker'[t].at = NoItem
BY DEF Move, Idle, SInv, SynthesisTypeOK

LEMMA StartSets ==
  ASSUME SInv, NEW t \in Tokens,
         (\E p \in Projects : Acquire(t, p)) \/ (\E s \in Visitable : Visit(t, s))
  PROVE  worker'[t].phase \in {"extracting", "visiting"} /\ worker'[t].at = NoItem
BY ZenonT(60) DEF Acquire, Visit, Move, Idle, SInv, SynthesisTypeOK

LEMMA FinishSets ==
  ASSUME SInv, NEW t \in Tokens, Finishes(t) \/ EndVisit(t)
  PROVE  \/ worker'[t].phase \in {"releasing", "leaving"} /\ worker'[t].at = worker[t].at
         \/ worker'[t].phase = "idle" /\ worker'[t].at = NoItem
<1>1. CASE Acknowledge(t) \/ AcknowledgeFails(t)
  BY <1>1, GotoSets DEF Acknowledge, AcknowledgeFails
<1>2. CASE ReleaseBatch(t)
  BY <1>2, GotoSets DEF ReleaseBatch
<1>3. CASE Leave(t) \/ EndVisit(t)
  BY <1>3, IdleSets DEF Leave, EndVisit
<1> QED BY <1>1, <1>2, <1>3 DEF Finishes

LEMMA SubmitsStep ==
  ASSUME SInv, SubmitsWhileApplying, NEW t \in Tokens, Turns(t)
  PROVE  SubmitsWhileApplying'
<1>1. \A u \in Tokens \ {t} : worker'[u] = worker[u]
  BY TurnMoves
<1>2. worker \in [Tokens -> Workers]
  BY DEF SInv, SynthesisTypeOK
<1>3. CASE worker'[t].at = NoItem \/ worker'[t].phase = "applying"
  BY <1>1, <1>3 DEF SubmitsWhileApplying
<1>4. \/ worker'[t].at = NoItem \/ worker'[t].phase = "applying"
  <2>1. CASE worker[t].phase = "applying"
    <3>1. Applies(t)
      BY <2>1 DEF Turns, Acquire, Fresh, Claims, ClaimBatch, CreateBatch, LearningDisabled,
                  Answers, Consolidated, AnswerFails, PlanReady, Finishes, Acknowledge,
                  AcknowledgeFails, ReleaseBatch, Leave, Visit, EndVisit, In
    <3>2. CASE Advance(t) \/ LeaseLost(t) \/ \E i \in Items : TargetMissing(t, i)
      BY <3>2, GotoSets DEF Advance, LeaseLost, Offered, TargetMissing, NextItem
    <3>3. CASE SubmitItem(t)
      BY <1>2, <2>1, <3>3 DEF SubmitItem, Move, Workers
    <3>4. ASSUME NEW i \in Items, SkipItem(t, i) \/ OfferItem(t, i)
          PROVE  worker'[t].phase = "applying"
      BY <1>2, <2>1, <3>4 DEF SkipItem, OfferItem, Move, Workers
    <3> QED BY <3>1, <3>2, <3>3, <3>4 DEF Applies
  <2>2. CASE worker[t].phase # "applying"
    <3>1. worker[t].at = NoItem
      BY <2>2 DEF SubmitsWhileApplying
    <3>2. CASE \E p \in Projects : Acquire(t, p)
      BY <3>2, StartSets
    <3>3. CASE ClaimBatch(t)
      <4> DEFINE b == [batch[Home(t)] EXCEPT !.owner = t, !.ttl = BatchTicks]
      <4>1. b.stage \in {"created", "traits_applied", "proposals_applied"}
        BY <3>3 DEF ClaimBatch, In, SInv, WorksAtHome, SynthesisTypeOK, Batches
      <4>2. Resume(t, b) \/ Goto(t, "leaving")
        BY <3>3 DEF ClaimBatch
      <4> HIDE DEF b
      <4> QED BY <1>2, <3>1, <4>1, <4>2 DEF Resume, Goto, Move, Workers
    <3>4. CASE CreateBatch(t) \/ LearningDisabled(t) \/ Answers(t)
      <4>1. ASSUME NEW plan \in Plans, PlanReady(t, plan)
            PROVE  worker'[t].phase = "applying"
        BY <1>2, <4>1 DEF PlanReady, Move, Workers
      <4> QED BY <3>1, <3>4, <4>1, GotoSets
              DEF CreateBatch, LearningDisabled, Answers, Consolidated, AnswerFails
    <3>5. CASE Finishes(t) \/ EndVisit(t) \/ \E s \in Visitable : Visit(t, s)
      BY <3>1, <3>5, FinishSets, StartSets
    <3>6. ~Applies(t)
      BY <2>2 DEF Applies, SkipItem, TargetMissing, OfferItem, NextItem, SubmitItem, Advance,
                  LeaseLost, Offered, In
    <3> QED BY <3>2, <3>3, <3>4, <3>5, <3>6 DEF Turns, Claims
  <2> QED BY <2>1, <2>2
<1> QED BY <1>3, <1>4

\* A worker that begins with a plan has all of it before it.
LEMMA BeginsToOffer ==
  ASSUME SInv, SubmitsWhileApplying, NEW t \in Tokens, Claims(t) \/ Answers(t),
         worker'[t].phase = "applying"
  PROVE  Offering(t)'
<1> DEFINE p == Home(t)
<1>1. batch \in [Projects -> Batches] /\ worker \in [Tokens -> Workers]
  BY DEF SInv, SynthesisTypeOK
<1>2. p \in Projects /\ worker[t].phase # "applying"
  BY DEF Claims, ClaimBatch, CreateBatch, LearningDisabled, Answers, Consolidated, AnswerFails,
         PlanReady, In, SInv, WorksAtHome
<1>3. worker[t].at = NoItem
  BY <1>2 DEF SubmitsWhileApplying
<1>4. ASSUME NEW plan \in Plans, NEW b \in Batches, b.stage = "traits_applied", b.owner = t,
             b.plan = plan, batch' = [batch EXCEPT ![p] = b],
             Move(t, [worker[t] EXCEPT !.phase = "applying", !.todo = plan])
      PROVE  Offering(t)'
  <2>1. worker'[t].todo = plan /\ worker'[t].at = NoItem /\ worker'[t].scope = p
    BY <1>1, <1>3, <1>4 DEF Move, Workers, Home
  <2>2. batch'[p] = b
    BY <1>1, <1>2, <1>4
  <2>3. plan # NoPlan
    BY SynthesisAssumption
  <2> QED BY <1>4, <2>1, <2>2, <2>3 DEF Offering, Home
<1>5. CASE ClaimBatch(t)
  <2> DEFINE b == [batch[p] EXCEPT !.owner = t, !.ttl = BatchTicks]
  <2>1. b \in Batches /\ b.owner = t /\ b.stage = batch[p].stage
    BY <1>1, <1>2, Ticks DEF Batches
  <2>2. b.stage \in {"created", "traits_applied", "proposals_applied"}
    BY <1>5, <2>1 DEF ClaimBatch, Batches
  <2>3. Resume(t, b) /\ batch' = [batch EXCEPT ![p] = b]
    BY <1>1, <1>5 DEF ClaimBatch, Goto, Move, Workers
  <2> HIDE DEF b
  <2>4. ASSUME NEW phase \in {"consolidating", "planning", "acknowledging"}, Goto(t, phase)
        PROVE  FALSE
    BY <1>1, <2>4 DEF Goto, Move, Workers
  <2>5. /\ b.stage = "traits_applied" /\ b.plan # NoPlan
        /\ Move(t, [worker[t] EXCEPT !.phase = "applying", !.todo = b.plan])
    BY <2>2, <2>3, <2>4 DEF Resume
  <2>6. b.plan \in Plans
    BY <2>1, <2>5 DEF Batches
  <2> QED BY <1>4, <2>1, <2>3, <2>5, <2>6
<1>6. ASSUME NEW plan \in Plans, PlanReady(t, plan) PROVE Offering(t)'
  <2> DEFINE b == [batch[p] EXCEPT !.plan = plan, !.ttl = BatchTicks]
  <2>1. b \in Batches /\ b.owner = t /\ b.stage = "traits_applied" /\ b.plan = plan
    BY <1>1, <1>2, <1>6, Ticks DEF PlanReady, OwnsBatch, Batches
  <2>2. batch' = [batch EXCEPT ![p] = b]
    BY <1>1, <1>2, <1>6 DEF PlanReady
  <2>3. Move(t, [worker[t] EXCEPT !.phase = "applying", !.todo = plan])
    BY <1>6 DEF PlanReady
  <2> HIDE DEF b
  <2> QED BY <1>4, <2>1, <2>2, <2>3
<1>7. CASE CreateBatch(t) \/ LearningDisabled(t) \/ Consolidated(t) \/ AnswerFails(t)
  <2>1. \E phase \in {"leaving", "releasing", "consolidating", "planning"} : Goto(t, phase)
    BY <1>7 DEF CreateBatch, LearningDisabled, Consolidated, AnswerFails
  <2> QED BY <2>1, GotoSets
<1> QED BY <1>5, <1>6, <1>7 DEF Claims, Answers

\* A worker goes through its plan item by item.
LEMMA GoesOnOffering ==
  ASSUME SInv, NEW t \in Tokens, Offering(t), Applies(t), worker'[t].phase = "applying"
  PROVE  Offering(t)'
<1>1. worker \in [Tokens -> Workers]
  BY DEF SInv, SynthesisTypeOK
<1>2. proposal \in [Items -> {"none", "draft", "pending"}]
  BY DEF SInv, SynthesisTypeOK
<1>3. batch[Home(t)].plan \subseteq Items
  <2>1. Home(t) \in Projects
    BY DEF SInv, WorksAtHome, Applies, SkipItem, TargetMissing, OfferItem, NextItem, SubmitItem,
           Advance, LeaseLost, Offered, In
  <2>2. batch[Home(t)].plan \in Plans
    BY <2>1 DEF Offering, SInv, SynthesisTypeOK, Batches
  <2> QED BY <2>2, SynthesisAssumption
<1>4. ASSUME NEW i \in Items, SkipItem(t, i) PROVE Offering(t)'
  <2>1. /\ worker'[t].todo = worker[t].todo \ {i} /\ worker'[t].at = NoItem
        /\ worker'[t].scope = worker[t].scope
    BY <1>1, <1>4 DEF SkipItem, NextItem, Move, Workers
  <2>2. UNCHANGED <<batch, skill, proposal>> /\ i \in Creations \cap skill
    BY <1>4 DEF SkipItem, Unchanged
  <2> QED BY <2>1, <2>2 DEF Offering, Home
<1>5. ASSUME NEW i \in Items, OfferItem(t, i) PROVE Offering(t)'
  <2>1. /\ worker'[t].todo = worker[t].todo /\ worker'[t].at = i
        /\ worker'[t].scope = worker[t].scope
    BY <1>1, <1>5 DEF OfferItem, Move, Workers
  <2>2. UNCHANGED <<batch, skill>> /\ i \in worker[t].todo
    BY <1>5 DEF OfferItem, NextItem
  <2>3. \A j \in Items \ {i} : proposal'[j] = proposal[j]
    BY <1>2, <1>5 DEF OfferItem
  <2> QED BY <1>3, <2>1, <2>2, <2>3 DEF Offering, Home
<1>6. CASE SubmitItem(t)
  <2> DEFINE i == worker[t].at
  <2>1. /\ worker'[t].todo = worker[t].todo \ {i} /\ worker'[t].at = NoItem
        /\ worker'[t].scope = worker[t].scope
    BY <1>1, <1>6 DEF SubmitItem, Move, Workers
  <2>2. UNCHANGED <<batch, skill>> /\ proposal' = [proposal EXCEPT ![i] = "pending"]
    BY <1>6 DEF SubmitItem
  <2>3. \A j \in Items : proposal[j] = "pending" \/ j = i => proposal'[j] = "pending"
    BY <1>2, <2>2
  <2> HIDE DEF i
  <2> QED BY <1>3, <2>1, <2>2, <2>3 DEF Offering, Home
<1>7. CASE \/ Advance(t) \/ LeaseLost(t)
           \/ \E i \in Items : TargetMissing(t, i)
  BY <1>1, <1>7 DEF Advance, LeaseLost, TargetMissing, Goto, Move, Workers
<1> QED BY <1>4, <1>5, <1>6, <1>7 DEF Applies

LEMMA OffersStep ==
  ASSUME SInv, PlanInv, [SynthesisNext]_synthesisVars
  PROVE  OffersItsPlan'
<1> SUFFICES ASSUME NEW t \in Tokens, worker'[t].phase = "applying"
             PROVE  Offering(t)'
  BY DEF OffersItsPlan
<1>1. worker \in [Tokens -> Workers]
  BY DEF SInv, SynthesisTypeOK
<1>2. CASE worker[t].phase = "applying"
  <2>1. Offering(t)
    BY <1>2 DEF PlanInv, OffersItsPlan
  <2>2. CASE Applies(t)
    BY <2>1, <2>2, GoesOnOffering
  <2>3. CASE Tick
    <3> DEFINE Aged(q) == [batch[q] EXCEPT !.ttl = IF @ > 0 THEN @ - 1 ELSE 0]
    <3>1. Home(t) \in Projects
      BY <1>2 DEF SInv, WorksAtHome
    <3>2. batch[Home(t)] \in Batches
      BY <3>1 DEF SInv, SynthesisTypeOK
    <3>3. /\ Aged(Home(t)).stage = batch[Home(t)].stage
          /\ Aged(Home(t)).owner = batch[Home(t)].owner
          /\ Aged(Home(t)).plan = batch[Home(t)].plan
      BY <3>2 DEF Batches
    <3>4. batch'[Home(t)] = Aged(Home(t))
      BY <2>3, <3>1 DEF Tick
    <3>5. UNCHANGED <<skill, proposal, worker>>
      BY <2>3 DEF Tick
    <3> HIDE DEF Aged
    <3> QED BY <2>1, <3>3, <3>4, <3>5 DEF Offering, Home
  <2>4. CASE Crash
    BY <1>2, <2>4 DEF Crash, Idle
  <2>5. CASE UNCHANGED synthesisVars
    BY <2>1, <2>5 DEF Offering, Home, synthesisVars
  <2> QED BY <1>2, <2>2, <2>3, <2>4, <2>5, NobodyElse
<1>3. CASE worker[t].phase # "applying"
  <2>1. CASE Claims(t) \/ Answers(t)
    BY <2>1, BeginsToOffer DEF PlanInv
  <2>2. ASSUME NEW u \in Tokens, Turns(u) PROVE Claims(t) \/ Answers(t)
    <3>1. u = t
      BY <1>3, <2>2, TurnMoves
    <3>2. ~Applies(t)
      BY <1>3 DEF Applies, SkipItem, TargetMissing, OfferItem, NextItem, SubmitItem, Advance,
                  LeaseLost, Offered, In
    <3> QED BY <2>2, <3>1, <3>2, StartSets, FinishSets DEF Turns
  <2>3. CASE Stands
    BY <1>3, <2>3, StandsStill
  <2>4. CASE Crash
    BY <1>3, <2>4 DEF Crash, Idle
  <2> QED BY <2>1, <2>2, <2>3, <2>4, StepKinds
<1> QED BY <1>2, <1>3

\* The invariant of the plan: types and ledger, the place of the plan among the
\* stages, one handler at a time between two awaits, and for the worker that
\* applies a plan, that everything it is done with is settled.
THEOREM PlanInvariance == SynthesisSpec => []PlanInv
<1>1. SynthesisInit => PlanInv
  BY DEF SynthesisInit, PlanInv, PlanFollowsTraits, OneAtATime, SubmitsWhileApplying,
         OffersItsPlan, NoBatch, Idle, Synchronous
<1>2. SInv /\ PlanInv /\ [SynthesisNext]_synthesisVars => PlanInv'
  <2> SUFFICES ASSUME SInv, PlanInv, [SynthesisNext]_synthesisVars PROVE PlanInv'
    OBVIOUS
  <2>1. SubmitsWhileApplying'
    <3>1. CASE Stands \/ Crash
      BY <3>1, StandsStill DEF Crash, Idle, PlanInv, SubmitsWhileApplying
    <3> QED BY <3>1, SubmitsStep, StepKinds DEF PlanInv
  <2> QED BY <2>1, PlanFollowsStep, OneAtATimeStep, OffersStep DEF PlanInv
<1> QED BY <1>1, <1>2, SynthesisInvariance, PTL DEF SynthesisSpec

\* A persisted plan is reused, never regenerated, until its batch is complete
\* (docs/concepts/self-learning.md).
PlanIsStable ==
  [][\A p \in Projects :
       (batch[p].plan # NoPlan /\ batch'[p].stage # "none") =>
         batch'[p].plan = batch[p].plan]_synthesisVars

\* It is kept, also when two workers were waiting for the model at once.
THEOREM PlansAreKept == SynthesisSpec => PlanIsStable
<1>1. SInv /\ PlanInv /\ [SynthesisNext]_synthesisVars =>
        [\A p \in Projects :
           (batch[p].plan # NoPlan /\ batch'[p].stage # "none") =>
             batch'[p].plan = batch[p].plan]_synthesisVars
  BY PlanSteps DEF PlanInv, PlanFollowsTraits, PlanMoves, KeepsPlan, MayReach, NoBatch
<1> QED BY <1>1, SynthesisInvariance, PlanInvariance, PTL DEF SynthesisSpec, PlanIsStable

\* A batch leaves "traits_applied" with every item of its plan before a
\* reviewer, whichever drafts a crash or a user had left behind.
THEOREM NoItemIsDropped == SynthesisSpec => NothingDropped
<1>1. ASSUME SInv, PlanInv, [SynthesisNext]_synthesisVars, NEW p \in Projects,
             batch[p].stage = "traits_applied", batch'[p].stage = "proposals_applied",
             NEW i \in batch[p].plan \ (Creations \cap skill)
      PROVE  proposal[i] # "draft"
  <2>1. PICK t \in Tokens : Advance(t) /\ Home(t) = p
    BY <1>1, PlanAdvances DEF Advances
  <2>2. worker[t].phase = "applying" /\ worker[t].todo = {}
    BY <2>1 DEF Advance, Offered, In
  <2>3. Offering(t)
    BY <1>1, <2>2 DEF PlanInv, OffersItsPlan
  <2> QED BY <1>1, <2>1, <2>2, <2>3 DEF Offering
<1>2. SInv /\ PlanInv /\ [SynthesisNext]_synthesisVars =>
        [\A p \in Projects :
           (batch[p].stage = "traits_applied" /\ batch'[p].stage = "proposals_applied") =>
             \A i \in batch[p].plan \ (Creations \cap skill) :
               proposal[i] # "draft"]_synthesisVars
  BY <1>1
<1> QED BY <1>2, SynthesisInvariance, PlanInvariance, PTL DEF SynthesisSpec, NothingDropped

-----------------------------------------------------------------------------
(* The contract. *)

\* What the contract sees of a batch.
Row(b) == [stage |-> b.stage, members |-> b.members, plan |-> b.plan]

Work == [p \in Projects |-> Row(batch[p])]

LEMMA WorkIs == Contract!contractVars = <<observation, learnt, Work>>
BY DEF Contract!contractVars, Work, Row

LEMMA WorkMoves ==
  ASSUME SInv, NEW p \in Projects, NEW b, batch' = [batch EXCEPT ![p] = b]
  PROVE  Work' = [Work EXCEPT ![p] = Row(b)]
<1>1. batch \in [Projects -> Batches]
  BY DEF SInv, SynthesisTypeOK
<1>2. \A q \in Projects : batch'[q] = IF q = p THEN b ELSE batch[q]
  BY <1>1
<1>3. Work' = [q \in Projects |-> Row(batch'[q])]
  BY DEF Work, Row
<1>4. Work = [q \in Projects |-> Row(batch[q])]
  BY DEF Work
<1> QED BY <1>2, <1>3, <1>4

LEMMA WorkStays ==
  ASSUME SInv,
         \A p \in Projects : /\ batch'[p].stage = batch[p].stage
                             /\ batch'[p].members = batch[p].members
                             /\ batch'[p].plan = batch[p].plan
  PROVE  Work' = Work
BY DEF Work, Row

\* A step that moves a lease, if anything.
LEMMA LeaseMoves ==
  ASSUME SInv, NEW p \in Projects, NEW b, batch' = [batch EXCEPT ![p] = b],
         Row(b) = Row(batch[p])
  PROVE  Work' = Work
<1>1. Work' = [Work EXCEPT ![p] = Row(b)]
  BY WorkMoves
<1> QED BY <1>1 DEF Work

ContractStutters == UNCHANGED <<observation, learnt>> /\ Work' = Work

LEMMA ClaimStutters ==
  ASSUME SInv, NEW t \in Tokens, ClaimBatch(t)
  PROVE  ContractStutters
<1> DEFINE p == Home(t)
           b == [batch[p] EXCEPT !.owner = t, !.ttl = BatchTicks]
<1>1. p \in Projects
  BY DEF ClaimBatch, In, SInv, WorksAtHome
<1>2. batch[p] \in Batches
  BY <1>1 DEF SInv, SynthesisTypeOK
<1>3. Row(b) = Row(batch[p])
  BY <1>2 DEF Row, Batches
<1>4. batch' = [batch EXCEPT ![p] = b] \/ UNCHANGED batch
  BY DEF ClaimBatch
<1>5. UNCHANGED <<observation, learnt>>
  BY DEF ClaimBatch, Unchanged
<1> HIDE DEF b, p
<1>6. CASE batch' = [batch EXCEPT ![p] = b]
  BY <1>1, <1>3, <1>5, <1>6, LeaseMoves DEF ContractStutters
<1>7. CASE UNCHANGED batch
  BY <1>5, <1>7 DEF ContractStutters, Work
<1> QED BY <1>4, <1>6, <1>7

LEMMA ReleaseStutters ==
  ASSUME SInv, NEW t \in Tokens, ReleaseBatch(t)
  PROVE  ContractStutters
<1> DEFINE p == Home(t)
           b == IF batch[p].owner = t
                THEN [batch[p] EXCEPT !.owner = NoToken, !.ttl = 0] ELSE batch[p]
<1>1. p \in Projects
  BY DEF ReleaseBatch, In, SInv, WorksAtHome
<1>2. batch[p] \in Batches
  BY <1>1 DEF SInv, SynthesisTypeOK
<1>3. Row(b) = Row(batch[p])
  BY <1>2 DEF Row, Batches
<1>4. batch' = [batch EXCEPT ![p] = b]
  BY <1>1 DEF ReleaseBatch, SInv, SynthesisTypeOK
<1>5. UNCHANGED <<observation, learnt>>
  BY DEF ReleaseBatch, Unchanged
<1> HIDE DEF b, p
<1> QED BY <1>1, <1>3, <1>4, <1>5, LeaseMoves DEF ContractStutters

LEMMA TickStutters ==
  ASSUME SInv, Tick
  PROVE  ContractStutters
<1> DEFINE Aged(p) == [batch[p] EXCEPT !.ttl = IF @ > 0 THEN @ - 1 ELSE 0]
<1>1. ASSUME NEW p \in Projects
      PROVE  /\ Aged(p).stage = batch[p].stage
             /\ Aged(p).members = batch[p].members
             /\ Aged(p).plan = batch[p].plan
  BY DEF SInv, SynthesisTypeOK, Batches
<1>2. \A p \in Projects : batch'[p] = Aged(p)
  BY DEF Tick
<1>3. UNCHANGED <<observation, learnt>>
  BY DEF Tick
<1> HIDE DEF Aged
<1> QED BY <1>1, <1>2, <1>3, WorkStays DEF ContractStutters

LEMMA ContractBegins ==
  ASSUME SInv, NEW p \in Projects, PlanInv, NEW t \in Tokens, Home(t) = p, CreateBatch(t)
  PROVE  ContractStutters \/ Contract!Begin(p)
<1> DEFINE B(m) == [NoBatch EXCEPT !.stage = "created", !.members = m,
                                   !.owner = t, !.ttl = BatchTicks]
<1>1. batch[p].stage = "none"
  BY DEF CreateBatch, In
<1>2. UNCHANGED <<observation, learnt>>
  BY DEF CreateBatch, Unchanged
<1>3. CASE Pending(p) = {}
  BY <1>2, <1>3 DEF CreateBatch, ContractStutters, Work
<1>4. CASE Pending(p) # {}
  <2>1. PICK m \in SUBSET Pending(p) :
          /\ IF Cardinality(Pending(p)) <= BatchLimit
             THEN m = Pending(p) ELSE Cardinality(m) = BatchLimit
          /\ batch' = [batch EXCEPT ![p] = B(m)]
    BY <1>4 DEF CreateBatch
  <2>2. m # {} /\ WithinLimit(m)
    <3>1. Cardinality({}) = 0
      BY FS_EmptySet
    <3>2. CASE Cardinality(Pending(p)) <= BatchLimit
      BY <1>4, <2>1, <3>2 DEF WithinLimit
    <3>3. CASE ~(Cardinality(Pending(p)) <= BatchLimit)
      <4>1. Cardinality(m) = BatchLimit
        BY <2>1, <3>3
      <4>2. BatchLimit \in Nat \ {0}
        BY SynthesisAssumption
      <4> QED BY <3>1, <4>1, <4>2 DEF WithinLimit
    <3> QED BY <3>2, <3>3
  <2>3. \A o \in m : learnt[o] = 0
    <3>1. \A o \in Pending(p) : o \in Observations /\ HomeOf[o] = p /\ observation[o] = "pending"
      BY DEF Pending
    <3>2. batch[p].members = {}
      BY <1>1 DEF SInv, MembersAtHome
    <3> QED BY <3>1, <3>2 DEF SInv, WaitingIsNew, InBatch
  <2>4. Work[p] = Contract!NoWork
    BY <1>1 DEF Work, Row, Contract!NoWork, SInv, MembersAtHome, PlanInv, PlanFollowsTraits
  <2>5. Row(B(m)) = [stage |-> "created", members |-> m, plan |-> NoPlan]
    BY DEF Row, NoBatch
  <2>6. Work' = [Work EXCEPT ![p] = [stage |-> "created", members |-> m, plan |-> NoPlan]]
    BY <1>1, <2>1, <2>5, WorkMoves
  <2>7. m \in SUBSET {o \in Observations : HomeOf[o] = p /\ observation[o] = "pending"}
    BY DEF Pending
  <2> HIDE DEF B
  <2>8. \E members \in SUBSET {o \in Observations : HomeOf[o] = p /\ observation[o] = "pending"} :
          /\ members # {} /\ WithinLimit(members)
          /\ \A o \in members : learnt[o] = 0
          /\ Work' = [Work EXCEPT ![p] = [stage |-> "created", members |-> members,
                                         plan |-> NoPlan]]
    BY <2>2, <2>3, <2>6, <2>7
  <2> QED BY <1>2, <2>4, <2>8 DEF Contract!Begin, Work, Row
<1> QED BY <1>3, <1>4

LEMMA ContractLearns ==
  ASSUME SInv, NEW p \in Projects, NEW t \in Tokens, Home(t) = p, Consolidated(t)
  PROVE  Contract!Learn(p)
<1> DEFINE b == [batch[p] EXCEPT !.stage = "traits_applied", !.ttl = BatchTicks]
<1>1. batch[p].stage = "created"
  BY DEF Consolidated, In, OwnsBatch
<1>2. batch[p] \in Batches /\ batch \in [Projects -> Batches]
  BY <1>1 DEF SInv, SynthesisTypeOK
<1>3. batch' = [batch EXCEPT ![p] = b]
  BY <1>1, <1>2 DEF Consolidated
<1>4. Row(b) = [Row(batch[p]) EXCEPT !.stage = "traits_applied"]
  BY <1>2 DEF Row, Batches
<1>5. Work' = [Work EXCEPT ![p].stage = "traits_applied"]
  <2>1. Work' = [Work EXCEPT ![p] = Row(b)]
    BY <1>1, <1>3, WorkMoves
  <2>2. Work[p] = Row(batch[p])
    BY <1>1 DEF Work
  <2> HIDE DEF b
  <2> QED BY <1>4, <2>1, <2>2
<1>6. \A o \in batch[p].members : o \in Observations /\ learnt[o] = 0
  BY <1>1, <1>2 DEF SInv, LearntOnce, Batches
<1>7. learnt' = [o \in Observations |-> IF o \in batch[p].members THEN 1 ELSE learnt[o]]
  BY <1>6 DEF Consolidated, TraitsApplied
<1>8. Work[p].stage = "created" /\ Work[p].members = batch[p].members
  BY <1>1 DEF Work, Row
<1>9. UNCHANGED observation
  BY DEF Consolidated
<1> HIDE DEF b
<1> QED BY <1>5, <1>6, <1>7, <1>8, <1>9 DEF Contract!Learn, Contract!Moves, Work, Row

LEMMA ContractDecides ==
  ASSUME SInv, NEW p \in Projects, NEW t \in Tokens, Home(t) = p, NEW plan \in Plans, PlanReady(t, plan)
  PROVE  Contract!Decide(p)
<1> DEFINE b == [batch[p] EXCEPT !.plan = plan, !.ttl = BatchTicks]
<1>1. batch[p].stage = "traits_applied" /\ batch[p].plan = NoPlan
  BY DEF PlanReady, In, OwnsBatch
<1>2. batch[p] \in Batches /\ batch \in [Projects -> Batches]
  BY <1>1 DEF SInv, SynthesisTypeOK
<1>3. batch' = [batch EXCEPT ![p] = b]
  BY <1>1, <1>2 DEF PlanReady
<1>4. Row(b) = [Row(batch[p]) EXCEPT !.plan = plan]
  BY <1>2 DEF Row, Batches
<1>5. Work' = [Work EXCEPT ![p].plan = plan]
  <2>1. Work' = [Work EXCEPT ![p] = Row(b)]
    BY <1>1, <1>3, WorkMoves
  <2>2. Work[p] = Row(batch[p])
    BY <1>1 DEF Work
  <2> HIDE DEF b
  <2> QED BY <1>4, <2>1, <2>2
<1>6. Work[p].stage = "traits_applied" /\ Work[p].plan = NoPlan
  BY <1>1 DEF Work, Row
<1>7. UNCHANGED <<observation, learnt>>
  BY DEF PlanReady, Unchanged
<1> HIDE DEF b
<1> QED BY <1>5, <1>6, <1>7 DEF Contract!Decide, Work, Row

LEMMA ContractOffers ==
  ASSUME SInv, NEW p \in Projects, PlanInv, NEW t \in Tokens, Home(t) = p, Advance(t)
  PROVE  Contract!Offer(p)
<1> DEFINE b == [batch[p] EXCEPT !.stage = "proposals_applied"]
<1>1. batch[p].stage = "traits_applied"
  BY DEF Advance, Offered, In, OwnsBatch
<1>2. batch[p] \in Batches /\ batch \in [Projects -> Batches]
  BY <1>1 DEF SInv, SynthesisTypeOK
<1>3. batch' = [batch EXCEPT ![p] = b]
  BY <1>1, <1>2 DEF Advance
<1>4. Row(b) = [Row(batch[p]) EXCEPT !.stage = "proposals_applied"]
  BY <1>2 DEF Row, Batches
<1>5. Work' = [Work EXCEPT ![p].stage = "proposals_applied"]
  <2>1. Work' = [Work EXCEPT ![p] = Row(b)]
    BY <1>1, <1>3, WorkMoves
  <2>2. Work[p] = Row(batch[p])
    BY <1>1 DEF Work
  <2> HIDE DEF b
  <2> QED BY <1>4, <2>1, <2>2
<1>6. batch[p].plan # NoPlan
  BY DEF Advance, Offered, In, PlanInv, OffersItsPlan, Offering
<1>7. Work[p].stage = "traits_applied" /\ Work[p].plan # NoPlan
  BY <1>1, <1>6 DEF Work, Row
<1>8. UNCHANGED <<observation, learnt>>
  BY DEF Advance, Unchanged
<1> HIDE DEF b
<1> QED BY <1>5, <1>7, <1>8 DEF Contract!Offer, Contract!Moves, Work, Row

LEMMA ContractCompletes ==
  ASSUME SInv, NEW p \in Projects, NEW t \in Tokens, Home(t) = p, Acknowledge(t)
  PROVE  Contract!Complete(p)
<1>1. batch[p].stage = "proposals_applied" /\ MembersPending(p)
  BY DEF Acknowledge, In, OwnsBatch
<1>2. batch' = [batch EXCEPT ![p] = NoBatch]
  BY <1>1 DEF Acknowledge
<1>3. Work' = [Work EXCEPT ![p] = Contract!NoWork]
  BY <1>1, <1>2, WorkMoves DEF Row, NoBatch, Contract!NoWork
<1>4. \A o \in batch[p].members : observation[o] = "pending" /\ learnt[o] = 1
  BY <1>1 DEF SInv, LearntOnce, MembersPending
<1>5. Work[p].stage = "proposals_applied" /\ Work[p].members = batch[p].members
  BY <1>1 DEF Work, Row
<1>6. /\ observation' = [o \in Observations |->
           IF o \in batch[p].members THEN "processed" ELSE observation[o]]
      /\ UNCHANGED learnt
  BY DEF Acknowledge
<1> QED BY <1>3, <1>4, <1>5, <1>6 DEF Contract!Complete, Work, Row

LEMMA ContractPatches ==
  ASSUME SInv, NEW o \in Observations,
         \/ Observe(o)
         \/ \E status \in {"pending", "processed"} : PatchStatus(o, status)
  PROVE  \E status \in {"pending", "processed"} : Contract!Patch(o, status)
<1>1. UNCHANGED batch /\ Work' = Work
  BY DEF Observe, PatchStatus, Work
<1>2. observation \in [Observations -> {"absent", "pending", "processed"}]
  BY DEF SInv, SynthesisTypeOK
<1>3. learnt \in [Observations -> 0..2]
  BY DEF SInv, SynthesisTypeOK
<1>4. HomeOf[o] \in Projects
  BY SynthesisAssumption
<1>5. Work[HomeOf[o]].members = batch[HomeOf[o]].members
  BY <1>4 DEF Work, Row
<1>6. CASE Observe(o)
  BY <1>1, <1>2, <1>6 DEF Observe, Contract!Patch, Work, Row
<1>7. ASSUME NEW status \in {"pending", "processed"}, PatchStatus(o, status)
      PROVE  Contract!Patch(o, status)
  <2>1. /\ observation[o] # status /\ observation[o] # "absent"
        /\ observation' = [observation EXCEPT ![o] = status]
    BY <1>7 DEF PatchStatus
  <2>2. CASE status = "pending" /\ ~InBatch(o)
    <3>1. learnt' = [learnt EXCEPT ![o] = 0]
      BY <1>7, <2>2 DEF PatchStatus
    <3>2. observation[o] = "processed"
      BY <1>2, <2>1, <2>2
    <3> QED BY <1>1, <1>5, <2>1, <2>2, <3>1, <3>2 DEF Contract!Patch, InBatch, Work, Row
  <2>3. CASE ~(status = "pending" /\ ~InBatch(o))
    <3>1. UNCHANGED learnt
      BY <1>3, <1>7, <2>3 DEF PatchStatus
    <3> QED BY <1>1, <2>1, <3>1 DEF Contract!Patch, Work, Row
  <2> QED BY <2>2, <2>3
<1> QED BY <1>6, <1>7

LEMMA ContractStep ==
  ASSUME SInv, PlanInv, [SynthesisNext]_synthesisVars
  PROVE  Contract!ContractNext \/ ContractStutters
<1>1. ASSUME UNCHANGED <<observation, learnt, batch>> PROVE ContractStutters
  BY <1>1 DEF ContractStutters, Work
<1>2. \A t \in Tokens : worker[t].phase \notin {"idle", "visiting"} => Home(t) \in Projects
  BY DEF SInv, WorksAtHome
<1>3. ASSUME NEW t \in Tokens, Claims(t) PROVE Contract!ContractNext \/ ContractStutters
  <2>1. CASE CreateBatch(t)
    <3>1. PICK p \in Projects : Home(t) = p
      BY <1>2, <2>1 DEF CreateBatch, In
    <3> QED BY <2>1, <3>1, ContractBegins DEF Contract!ContractNext
  <2> QED BY <1>1, <1>3, <2>1, ClaimStutters DEF Claims, LearningDisabled, Unchanged
<1>4. ASSUME NEW t \in Tokens, Answers(t) PROVE Contract!ContractNext \/ ContractStutters
  <2>1. PICK p \in Projects : Home(t) = p
    BY <1>2, <1>4 DEF Answers, Consolidated, AnswerFails, PlanReady, In
  <2>2. CASE AnswerFails(t)
    BY <1>1, <2>2 DEF AnswerFails, Unchanged
  <2> QED BY <1>4, <2>1, <2>2, ContractLearns, ContractDecides
          DEF Answers, Contract!ContractNext
<1>5. ASSUME NEW t \in Tokens, Applies(t) PROVE Contract!ContractNext \/ ContractStutters
  <2>1. CASE Advance(t)
    <3>1. PICK p \in Projects : Home(t) = p
      BY <1>2, <2>1 DEF Advance, Offered, In
    <3> QED BY <2>1, <3>1, ContractOffers DEF Contract!ContractNext
  <2> QED BY <1>1, <1>5, <2>1
          DEF Applies, SkipItem, TargetMissing, OfferItem, SubmitItem, LeaseLost, Unchanged
<1>6. ASSUME NEW t \in Tokens, Finishes(t) PROVE Contract!ContractNext \/ ContractStutters
  <2>1. CASE Acknowledge(t)
    <3>1. PICK p \in Projects : Home(t) = p
      BY <1>2, <2>1 DEF Acknowledge, In
    <3> QED BY <2>1, <3>1, ContractCompletes DEF Contract!ContractNext
  <2> QED BY <1>1, <1>6, <2>1, ReleaseStutters DEF Finishes, AcknowledgeFails, Leave, Unchanged
<1>7. CASE Users
  <2>1. ASSUME NEW o \in Observations,
               \/ Observe(o)
               \/ \E status \in {"pending", "processed"} : PatchStatus(o, status)
        PROVE  Contract!ContractNext
    BY <2>1, ContractPatches DEF Contract!ContractNext
  <2> QED BY <1>1, <1>7, <2>1
          DEF Users, Review, Propose, SubmitDraft, ArchiveTarget, AddSkill
<1>8. CASE Clients \/ Cleanup \/ Crash \/ UNCHANGED synthesisVars
        \/ \E t \in Tokens, p \in Projects : Acquire(t, p)
  BY <1>1, <1>8 DEF Clients, Visit, EndVisit, Renew, Cleanup, Crash, Acquire, synthesisVars
<1> QED BY <1>3, <1>4, <1>5, <1>6, <1>7, <1>8, TickStutters DEF SynthesisNext

\* The pipeline implements its contract: with workers, leases, locks and
\* crashes hidden, each stage of each batch is done once and in order, as by a
\* single worker that never fails.
THEOREM PipelineImplementsContract == SynthesisSpec => ImplementsContract
<1>1. SynthesisInit => Contract!ContractInit
  BY DEF SynthesisInit, Contract!ContractInit, Contract!NoWork, NoBatch
<1>2. SInv /\ PlanInv /\ [SynthesisNext]_synthesisVars =>
        [Contract!ContractNext]_(Contract!contractVars)
  BY ContractStep, WorkIs DEF ContractStutters, Work, Row, Contract!contractVars
<1> QED BY <1>1, <1>2, SynthesisInvariance, PlanInvariance, PTL
        DEF SynthesisSpec, ImplementsContract, Contract!ContractSpec
=============================================================================
