------------------------- MODULE JobDeliveryProofs -------------------------
(***************************************************************************)
(* Proofs about JobDelivery for every set of projects, jobs and events and *)
(* every limit.                                                            *)
(***************************************************************************)
EXTENDS JobDelivery, FiniteSetTheorems, TLAPS

-----------------------------------------------------------------------------
(* The inductive invariant. *)

\* The CHECK of the delivery rows, and the ledger that ties the lease to the
\* attempts: revision and owner are those of the latest attempt.
RowOK(row) ==
  /\ row.rev = row.attempt
  /\ row.state = "none" => row = NoDelivery
  /\ row.state = "queued" => row.attempt = 0
  /\ row.state = "retry_wait" => row.attempt \in 1..(MaxAttempts - 1)
  /\ row.state \in {"leased", "succeeded"} => row.attempt > 0
  /\ row.state \in Waiting <=> row.next # "null"
  /\ row.state = "leased" => row.ttl # NoExpiry /\ row.owner = row.attempt
  /\ row.state # "leased" => row.ttl = NoExpiry /\ row.owner = NoOwner

RowLedger == \A d \in Deliveries : RowOK(delivery[d])

\* No run exists for an attempt that was never claimed.
RunLedger ==
  \A d \in Deliveries, n \in Attempts :
    n > delivery[d].attempt => run[EventRun(d, n)] = "none"

\* A delivery row exists only for an event whose dispatch marker exists.
MarkedBeforeDelivered ==
  \A d \in Deliveries : delivery[d].state # "none" => d[1] \in dispatched

IInv ==
  /\ TypeOK
  /\ RowLedger
  /\ RunLedger
  /\ MarkedBeforeDelivered
  /\ LeaseOwnsRun

-----------------------------------------------------------------------------
(* The helpers. *)

\* An event run and an ordinary run are never the same row.
LEMMA RunsDisjoint == EventRuns \cap OrdinaryRuns = {}
<1> SUFFICES ASSUME NEW r \in EventRuns, r \in OrdinaryRuns PROVE FALSE
  OBVIOUS
<1>1. DOMAIN r = {"delivery", "attempt"}
  BY DEF EventRuns
<1>2. DOMAIN r = {"job", "ordinal"}
  BY DEF OrdinaryRuns
<1> QED BY <1>1, <1>2

LEMMA EventRunType ==
  ASSUME NEW d \in Deliveries, NEW n \in Attempts
  PROVE  /\ EventRun(d, n) \in EventRuns
         /\ EventRun(d, n) \in Runs
         /\ EventRun(d, n).delivery = d
         /\ EventRun(d, n).attempt = n
BY DEF EventRun, EventRuns, Runs

LEMMA EventRunInjective ==
  ASSUME NEW r \in EventRuns
  PROVE  /\ r.delivery \in Deliveries
         /\ r.attempt \in Attempts
         /\ r = EventRun(r.delivery, r.attempt)
BY DEF EventRun, EventRuns

LEMMA NoDeliveryOK == NoDelivery \in DeliveryRows /\ RowOK(NoDelivery)
BY ConstantsAssumption DEF NoDelivery, DeliveryRows, RowOK, NoExpiry, NoOwner, Waiting, Settled

LEMMA NullsInRange ==
  /\ NoExpiry \in NoExpiry..LeaseTicks
  /\ LeaseTicks \in NoExpiry..LeaseTicks
  /\ NoOwner \in 0..MaxAttempts
BY ConstantsAssumption DEF NoExpiry, NoOwner

\* A row that exists and is given up keeps its attempts.
LEMMA DeadLetteredOK ==
  ASSUME NEW row \in DeliveryRows, RowOK(row), row.state # "none"
  PROVE  /\ DeadLettered(row) \in DeliveryRows
         /\ RowOK(DeadLettered(row))
         /\ DeadLettered(row).state = "dead_letter"
         /\ DeadLettered(row).attempt = row.attempt
<1> DEFINE new == DeadLettered(row)
<1>1. new \in DeliveryRows
  BY NullsInRange DEF DeadLettered, DeliveryRows, Settled
<1>2. /\ new.state = "dead_letter" /\ new.attempt = row.attempt /\ new.rev = row.rev
      /\ new.next = "null" /\ new.ttl = NoExpiry /\ new.owner = NoOwner
  BY DEF DeadLettered, DeliveryRows
<1> HIDE DEF new
<1>3. RowOK(new)
  BY <1>2 DEF RowOK, Waiting
<1> QED BY <1>1, <1>2, <1>3 DEF new

LEMMA SucceededOK ==
  ASSUME NEW row \in DeliveryRows, RowOK(row), row.state = "leased"
  PROVE  /\ Succeeded(row) \in DeliveryRows
         /\ RowOK(Succeeded(row))
         /\ Succeeded(row).state = "succeeded"
         /\ Succeeded(row).attempt = row.attempt
<1> DEFINE new == Succeeded(row)
<1>1. new \in DeliveryRows
  BY NullsInRange DEF Succeeded, DeliveryRows, Settled
<1>2. /\ new.state = "succeeded" /\ new.attempt = row.attempt /\ new.rev = row.rev
      /\ new.next = "null" /\ new.ttl = NoExpiry /\ new.owner = NoOwner
  BY DEF Succeeded, DeliveryRows
<1> HIDE DEF new
<1>3. RowOK(new)
  BY <1>2 DEF RowOK, Waiting
<1> QED BY <1>1, <1>2, <1>3 DEF new

LEMMA FailureStateOK ==
  ASSUME NEW row \in DeliveryRows, RowOK(row), row.state = "leased",
         NEW force \in BOOLEAN
  PROVE  LET failed == FailureState(row, row.attempt, force)
         IN  /\ failed \in DeliveryRows
             /\ RowOK(failed)
             /\ failed.state \in {"retry_wait", "dead_letter"}
             /\ failed.attempt = row.attempt
<1>1. CASE force \/ row.attempt >= MaxAttempts
  BY <1>1, DeadLetteredOK DEF FailureState
<1>2. CASE ~(force \/ row.attempt >= MaxAttempts)
  <2> DEFINE new == FailureState(row, row.attempt, force)
  <2>1. new \in DeliveryRows
    BY <1>2, NullsInRange DEF FailureState, DeliveryRows, Waiting
  <2>2. /\ new.state = "retry_wait" /\ new.attempt = row.attempt /\ new.rev = row.rev
        /\ new.next = "later" /\ new.ttl = NoExpiry /\ new.owner = NoOwner
    BY <1>2 DEF FailureState, DeliveryRows
  <2>3. row.attempt \in 1..(MaxAttempts - 1)
    BY <1>2, ConstantsAssumption DEF RowOK, DeliveryRows
  <2> HIDE DEF new
  <2>4. RowOK(new)
    BY <2>2, <2>3 DEF RowOK, Waiting
  <2> QED BY <2>1, <2>2, <2>4 DEF new
<1> QED BY <1>1, <1>2

LEMMA LeasedOK ==
  ASSUME NEW row \in DeliveryRows, RowOK(row), row.state \in Waiting
  PROVE  /\ Leased(row) \in DeliveryRows
         /\ RowOK(Leased(row))
         /\ Leased(row).state = "leased"
         /\ Leased(row).attempt = row.attempt + 1
         /\ row.attempt + 1 \in Attempts
<1> DEFINE new == Leased(row)
<1>1. row.attempt \in 0..(MaxAttempts - 1)
  BY ConstantsAssumption DEF RowOK, DeliveryRows, Waiting
<1>2. new \in DeliveryRows
  <2>1. row.attempt + 1 \in 0..MaxAttempts /\ row.rev + 1 \in Nat
    BY <1>1, ConstantsAssumption DEF DeliveryRows
  <2> QED BY <2>1, NullsInRange DEF Leased, DeliveryRows
<1>3. /\ new.state = "leased" /\ new.attempt = row.attempt + 1 /\ new.rev = row.rev + 1
      /\ new.next = "null" /\ new.ttl = LeaseTicks /\ new.owner = row.attempt + 1
  BY DEF Leased, DeliveryRows
<1> HIDE DEF new
<1>4. RowOK(new)
  BY <1>1, <1>3, ConstantsAssumption DEF RowOK, Waiting, NoExpiry
<1>5. row.attempt + 1 \in Attempts
  BY <1>1, ConstantsAssumption DEF Attempts
<1> QED BY <1>2, <1>3, <1>4, <1>5 DEF new

-----------------------------------------------------------------------------
(* What a step does to one delivery row, and to one event run. *)

Stays(d) == delivery'[d] = delivery[d]

Enqueued(d) ==
  /\ delivery[d].state = "none"
  /\ d[1] \in dispatched' \ dispatched
  /\ \E revision \in Nat :
       delivery'[d] = [NoDelivery EXCEPT !.state = "queued", !.next = "due",
                                         !.jobRev = revision]

Claimed(d) ==
  /\ delivery[d].state \in Waiting
  /\ delivery'[d] = Leased(delivery[d])
  /\ \A e \in Deliveries : e # d /\ e[2] = d[2] => delivery'[e].state # "leased"

Ripened(d) ==
  /\ delivery[d].state \in Waiting
  /\ delivery'[d] = [delivery[d] EXCEPT !.next = "due"]

Retimed(d) ==
  /\ delivery[d].state = "leased"
  /\ delivery[d].ttl > 0
  /\ \E ticks \in 0..LeaseTicks : delivery'[d] = [delivery[d] EXCEPT !.ttl = ticks]

Completed(d) ==
  /\ delivery[d].state = "leased"
  /\ delivery[d].ttl > 0
  /\ delivery'[d] = Succeeded(delivery[d])

Failed(d) ==
  /\ delivery[d].state = "leased"
  /\ \E force \in BOOLEAN :
       /\ delivery'[d] = FailureState(delivery[d], delivery[d].attempt, force)
       /\ delivery[d].ttl = 0 /\ ~force => EventRun(d, delivery[d].attempt) \in identity

GivenUp(d) ==
  /\ delivery[d].state \in Waiting
  /\ delivery'[d] = DeadLettered(delivery[d])

RowStep(d) ==
  \/ Stays(d) \/ Enqueued(d) \/ Claimed(d) \/ Ripened(d)
  \/ Retimed(d) \/ Completed(d) \/ Failed(d) \/ GivenUp(d)

RunKept(d, n) ==
  /\ run'[EventRun(d, n)] = run[EventRun(d, n)]
  /\ Active(EventRun(d, n)) => delivery'[d].state = "leased"

RunEnded(d, n) ==
  run[EventRun(d, n)] # "none" /\ run'[EventRun(d, n)] \in Outcomes

RunBegun(d, n) == n = delivery[d].attempt + 1 /\ Claimed(d)

RunStep(d, n) == RunKept(d, n) \/ RunEnded(d, n) \/ RunBegun(d, n)

Statuses == {"none", "running"} \cup Outcomes

Shape ==
  /\ archived' \subseteq Projects
  /\ job' \in [Jobs -> JobRows]
  /\ recorded' \subseteq Events
  /\ dispatched' \subseteq Events
  /\ dispatched \subseteq dispatched'
  /\ delivery' \in [Deliveries -> DeliveryRows]
  /\ run' \in [Runs -> Statuses]
  /\ identity' \subseteq EventRuns
  /\ \A d \in Deliveries : RowStep(d)
  /\ \A d \in Deliveries, n \in Attempts : RunStep(d, n)

-----------------------------------------------------------------------------
(* The shape is enough for the invariant. *)

LEMMA RowStepOK ==
  ASSUME IInv, Shape, NEW d \in Deliveries
  PROVE  /\ RowOK(delivery'[d])
         /\ delivery'[d].attempt >= delivery[d].attempt
         /\ delivery'[d].state # "none" => d[1] \in dispatched'
         /\ delivery[d].state = "leased" /\ delivery'[d].state = "leased"
            => delivery'[d].attempt = delivery[d].attempt
<1> DEFINE row == delivery[d]  new == delivery'[d]
<1>1. row \in DeliveryRows /\ RowOK(row) /\ row.attempt \in Nat /\ row.rev \in Nat
  BY DEF IInv, TypeOK, RowLedger, DeliveryRows
<1>2. row.state # "none" => d[1] \in dispatched'
  BY DEF IInv, MarkedBeforeDelivered, Shape
<1>3. RowStep(d)
  BY DEF Shape
<1>4. CASE Stays(d)
  BY <1>1, <1>2, <1>4 DEF Stays
<1>5. CASE Enqueued(d)
  <2>1. /\ new.state = "queued" /\ new.attempt = 0 /\ new.rev = 0 /\ new.next = "due"
        /\ new.ttl = NoExpiry /\ new.owner = NoOwner
    BY <1>5 DEF Enqueued, NoDelivery
  <2>2. row = NoDelivery
    BY <1>1, <1>5 DEF Enqueued, RowOK
  <2>3. row.attempt = 0
    BY <2>2 DEF NoDelivery
  <2>4. d[1] \in dispatched'
    BY <1>5 DEF Enqueued
  <2> QED BY <1>5, <2>1, <2>3, <2>4 DEF RowOK, Waiting, Enqueued
<1>6. CASE Claimed(d)
  BY <1>1, <1>2, <1>6, LeasedOK DEF Claimed, Waiting
<1>7. CASE Ripened(d)
  <2>1. /\ new.state = row.state /\ new.attempt = row.attempt /\ new.rev = row.rev
        /\ new.next = "due" /\ new.ttl = row.ttl /\ new.owner = row.owner
    BY <1>1, <1>7 DEF Ripened, DeliveryRows
  <2>2. row.state \in Waiting
    BY <1>7 DEF Ripened
  <2> HIDE DEF new
  <2> QED BY <1>1, <1>2, <2>1, <2>2 DEF RowOK, Waiting, new
<1>8. CASE Retimed(d)
  <2>1. /\ new.state = row.state /\ new.attempt = row.attempt /\ new.rev = row.rev
        /\ new.next = row.next /\ new.ttl \in 0..LeaseTicks /\ new.owner = row.owner
    BY <1>1, <1>8 DEF Retimed, DeliveryRows
  <2>2. row.state = "leased"
    BY <1>8 DEF Retimed
  <2> QED BY <1>1, <1>2, <2>1, <2>2 DEF RowOK, Waiting, NoExpiry
<1>9. CASE Completed(d)
  BY <1>1, <1>2, <1>9, SucceededOK DEF Completed
<1>10. CASE Failed(d)
  <2>1. PICK force \in BOOLEAN : new = FailureState(row, row.attempt, force)
    BY <1>10 DEF Failed
  <2>2. row.state = "leased"
    BY <1>10 DEF Failed
  <2> QED BY <1>1, <1>2, <2>1, <2>2, FailureStateOK
<1>11. CASE GivenUp(d)
  BY <1>1, <1>2, <1>11, DeadLetteredOK DEF GivenUp, Waiting
<1> QED BY <1>3, <1>4, <1>5, <1>6, <1>7, <1>8, <1>9, <1>10, <1>11 DEF RowStep

LEMMA ShapeKeepsIInv == IInv /\ Shape => IInv'
<1> SUFFICES ASSUME IInv, Shape PROVE IInv'
  OBVIOUS
<1>1. TypeOK'
  BY DEF Shape, TypeOK, Statuses
<1>2. RowLedger'
  BY RowStepOK DEF RowLedger
<1>3. MarkedBeforeDelivered'
  BY RowStepOK DEF MarkedBeforeDelivered
<1>4. RunLedger'
  <2> SUFFICES ASSUME NEW d \in Deliveries, NEW n \in Attempts, n > delivery'[d].attempt
               PROVE  run'[EventRun(d, n)] = "none"
    BY DEF RunLedger
  <2>1. delivery[d].attempt \in Nat /\ delivery'[d].attempt \in Nat /\ n \in Nat
    BY <1>1 DEF IInv, TypeOK, DeliveryRows, Attempts
  <2>2. n > delivery[d].attempt
    BY <2>1, RowStepOK
  <2>3. run[EventRun(d, n)] = "none"
    BY <2>2 DEF IInv, RunLedger
  <2>4. ~RunBegun(d, n)
    BY <2>1, LeasedOK DEF RunBegun, Claimed, IInv, TypeOK, RowLedger
  <2> QED BY <2>3, <2>4 DEF Shape, RunStep, RunKept, RunEnded
<1>5. LeaseOwnsRun'
  <2> SUFFICES ASSUME NEW r \in EventRuns, run'[r] = "running"
               PROVE  /\ delivery'[r.delivery].state = "leased"
                      /\ delivery'[r.delivery].attempt = r.attempt
    BY DEF LeaseOwnsRun, Active
  <2> DEFINE d == r.delivery  n == r.attempt
  <2>1. d \in Deliveries /\ n \in Attempts /\ r = EventRun(d, n)
    BY EventRunInjective
  <2>2. ~RunEnded(d, n)
    BY <2>1, ConstantsAssumption DEF RunEnded, Outcomes
  <2>3. CASE RunKept(d, n)
    <3>1. delivery[d].state = "leased" /\ delivery[d].attempt = n
      BY <2>1, <2>3 DEF RunKept, IInv, LeaseOwnsRun, Active
    <3>2. delivery'[d].state = "leased"
      BY <2>1, <2>3 DEF RunKept, Active
    <3> QED BY <2>1, <3>1, <3>2, RowStepOK
  <2>4. CASE RunBegun(d, n)
    BY <2>1, <2>4, LeasedOK DEF RunBegun, Claimed, IInv, TypeOK, RowLedger
  <2> QED BY <2>1, <2>2, <2>3, <2>4 DEF Shape, RunStep
<1> QED BY <1>1, <1>2, <1>3, <1>4, <1>5 DEF IInv

-----------------------------------------------------------------------------
(* Every step has the shape. *)

LEMMA ActiveIsLeased ==
  ASSUME IInv, NEW d \in Deliveries, NEW n \in Attempts, Active(EventRun(d, n))
  PROVE  delivery[d].state = "leased" /\ delivery[d].attempt = n
BY EventRunType DEF IInv, LeaseOwnsRun

\* Neither a delivery nor an event run moves, save for runs that end.
LEMMA RunsOnly ==
  ASSUME IInv, UNCHANGED delivery,
         \A d \in Deliveries, n \in Attempts :
           run'[EventRun(d, n)] = run[EventRun(d, n)] \/ RunEnded(d, n)
  PROVE  /\ delivery' \in [Deliveries -> DeliveryRows]
         /\ \A d \in Deliveries : RowStep(d)
         /\ \A d \in Deliveries, n \in Attempts : RunStep(d, n)
<1>1. \A d \in Deliveries : RowStep(d)
  BY DEF RowStep, Stays
<1>2. ASSUME NEW d \in Deliveries, NEW n \in Attempts PROVE RunStep(d, n)
  BY ActiveIsLeased DEF RunStep, RunKept
<1> QED BY <1>1, <1>2 DEF IInv, TypeOK

LEMMA Administration ==
  ASSUME IInv, UNCHANGED <<dispatched, delivery, run, identity>>,
         archived' \subseteq Projects, job' \in [Jobs -> JobRows], recorded' \subseteq Events
  PROVE  Shape
BY RunsOnly DEF Shape, IInv, TypeOK, Statuses

\* One row d moves by step, and the run of its attempt n with it.
LEMMA OneRow ==
  ASSUME IInv, NEW d \in Deliveries, NEW row \in DeliveryRows,
         UNCHANGED <<archived, job, recorded, dispatched>>,
         delivery' = [delivery EXCEPT ![d] = row],
         run' \in [Runs -> Statuses],
         identity' \subseteq EventRuns,
         RowStep(d),
         \A n \in Attempts : RunStep(d, n),
         \A r \in EventRuns : r.delivery # d => run'[r] = run[r]
  PROVE  Shape
<1>1. delivery' \in [Deliveries -> DeliveryRows]
  BY DEF IInv, TypeOK
<1>2. ASSUME NEW e \in Deliveries PROVE RowStep(e)
  <2>1. e # d => delivery'[e] = delivery[e]
    BY DEF IInv, TypeOK
  <2> QED BY <2>1 DEF RowStep, Stays
<1>3. ASSUME NEW e \in Deliveries, NEW n \in Attempts PROVE RunStep(e, n)
  <2>1. CASE e # d
    <3>1. delivery'[e] = delivery[e]
      BY <2>1 DEF IInv, TypeOK
    <3>2. run'[EventRun(e, n)] = run[EventRun(e, n)]
      BY <2>1, EventRunType
    <3> QED BY <3>1, <3>2, ActiveIsLeased DEF RunStep, RunKept
  <2> QED BY <2>1
<1> QED BY <1>1, <1>2, <1>3 DEF Shape, IInv, TypeOK, Statuses

LEMMA AppendShape ==
  ASSUME IInv, NEW e \in Events, AppendTrustedJobEvent(e) PROVE Shape
<1>1. archived' \subseteq Projects /\ job' \in [Jobs -> JobRows] /\ recorded' \subseteq Events
  BY DEF IInv, TypeOK, AppendTrustedJobEvent
<1> QED BY <1>1, Administration DEF AppendTrustedJobEvent

LEMMA SnapshotShape ==
  ASSUME IInv, NEW p \in Projects, SnapshotTrustedJobEvents(p) PROVE Shape
<1> USE DEF SnapshotTrustedJobEvents
<1>1. dispatched' \subseteq Events /\ dispatched \subseteq dispatched'
  BY DEF IInv, TypeOK, Undispatched
<1>2. ASSUME NEW d \in Deliveries
      PROVE  delivery'[d] \in DeliveryRows /\ RowStep(d)
  <2>1. delivery[d] \in DeliveryRows /\ d[2] \in Jobs
    BY DEF IInv, TypeOK, Deliveries
  <2>2. CASE d[1] \in Undispatched(p) /\ Deliverable(d)
    <3>1. d[1] \in dispatched' \ dispatched
      BY <2>2 DEF Undispatched
    <3>2. delivery[d].state = "none"
      BY <3>1 DEF IInv, MarkedBeforeDelivered
    <3>3. job[d[2]].rev \in Nat
      BY <2>1 DEF IInv, TypeOK, JobRows
    <3>4. delivery'[d] = [NoDelivery EXCEPT !.state = "queued", !.next = "due",
                                            !.jobRev = job[d[2]].rev]
      BY <2>2
    <3>5. delivery'[d] \in DeliveryRows
      BY <3>3, <3>4, NoDeliveryOK DEF DeliveryRows, Waiting
    <3> QED BY <3>1, <3>2, <3>3, <3>4, <3>5 DEF RowStep, Enqueued
  <2>3. CASE ~(d[1] \in Undispatched(p) /\ Deliverable(d))
    BY <2>1, <2>3 DEF RowStep, Stays
  <2> QED BY <2>2, <2>3
<1>3. delivery' \in [Deliveries -> DeliveryRows]
  BY <1>2
<1>4. ASSUME NEW d \in Deliveries, NEW n \in Attempts PROVE RunStep(d, n)
  <2>1. CASE Active(EventRun(d, n))
    <3>1. delivery[d].state = "leased"
      BY <2>1, ActiveIsLeased
    <3>2. d[1] \in dispatched
      BY <3>1 DEF IInv, MarkedBeforeDelivered
    <3> QED BY <3>1, <3>2 DEF RunStep, RunKept, Undispatched
  <2>2. CASE ~Active(EventRun(d, n))
    BY <2>2 DEF RunStep, RunKept
  <2> QED BY <2>1, <2>2
<1> QED BY <1>1, <1>2, <1>3, <1>4 DEF Shape, IInv, TypeOK, Statuses

\* A claim, from rows of which the reconciliation may have given up some.
LEMMA ClaimShape ==
  ASSUME IInv, NEW d \in Deliveries, Claimable(d),
         NEW from \in [Deliveries -> DeliveryRows], from[d] = delivery[d],
         \A e \in Deliveries :
           \/ from[e] = delivery[e]
           \/ delivery[e].state \in Waiting /\ from[e] = DeadLettered(delivery[e]),
         Claim(d, from)
  PROVE  Shape
<1> DEFINE a == delivery[d].attempt
<1>1. /\ delivery[d] \in DeliveryRows /\ RowOK(delivery[d])
      /\ delivery[d].state \in Waiting
  BY DEF IInv, TypeOK, RowLedger, Claimable
<1>2. a + 1 \in Attempts /\ Leased(delivery[d]) \in DeliveryRows
  BY <1>1, LeasedOK
<1>3. delivery'[d] = Leased(delivery[d])
  BY DEF Claim
<1>4. \A e \in Deliveries : e # d => delivery'[e] = from[e]
  BY DEF Claim
<1>5. delivery' \in [Deliveries -> DeliveryRows]
  BY <1>2 DEF Claim
<1>6. Claimed(d)
  <2>1. ASSUME NEW e \in Deliveries, e # d, e[2] = d[2] PROVE delivery'[e].state # "leased"
    <3>1. delivery[e].state # "leased"
      BY <2>1 DEF Claimable, NoLeasedDelivery
    <3>2. DeadLettered(delivery[e]).state = "dead_letter"
      <4>1. delivery[e] \in DeliveryRows
        BY DEF IInv, TypeOK
      <4> QED BY <4>1 DEF DeadLettered, DeliveryRows
    <3> QED BY <2>1, <3>1, <3>2, <1>4
  <2> QED BY <1>1, <1>3, <2>1 DEF Claimed
<1>7. ASSUME NEW e \in Deliveries PROVE RowStep(e)
  <2>1. CASE e = d
    BY <1>6, <2>1 DEF RowStep
  <2>2. CASE e # d
    BY <1>4, <2>2 DEF RowStep, Stays, GivenUp
  <2> QED BY <2>1, <2>2
<1>8. run' = [run EXCEPT ![EventRun(d, a + 1)] = "running"]
  BY DEF Claim
<1>9. run' \in [Runs -> Statuses]
  BY <1>8 DEF IInv, TypeOK, Statuses
<1>10. ASSUME NEW e \in Deliveries, NEW n \in Attempts PROVE RunStep(e, n)
  <2>1. CASE e = d /\ n = a + 1
    BY <1>6, <2>1 DEF RunStep, RunBegun
  <2>2. CASE ~(e = d /\ n = a + 1)
    <3>1. EventRun(e, n) # EventRun(d, a + 1)
      BY <2>2, <1>2, EventRunType
    <3>2. run'[EventRun(e, n)] = run[EventRun(e, n)]
      BY <1>8, <3>1, EventRunType DEF IInv, TypeOK
    <3>3. Active(EventRun(e, n)) => e # d /\ delivery[e].state = "leased"
      BY ActiveIsLeased, <1>1 DEF Waiting
    <3>4. Active(EventRun(e, n)) => delivery'[e] = delivery[e]
      BY <3>3, <1>4 DEF Waiting
    <3> QED BY <3>2, <3>3, <3>4 DEF RunStep, RunKept
  <2> QED BY <2>1, <2>2
<1> QED BY <1>5, <1>7, <1>9, <1>10 DEF Shape, Claim, IInv, TypeOK

LEMMA ClaimNextShape ==
  ASSUME IInv, NEW d \in Deliveries, ClaimNextJobEventDelivery(d) PROVE Shape
<1>1. delivery \in [Deliveries -> DeliveryRows]
  BY DEF IInv, TypeOK
<1> QED BY <1>1, ClaimShape DEF ClaimNextJobEventDelivery

LEMMA ReconcileRows ==
  ASSUME IInv, NEW p \in Projects
  PROVE  LET from == ReconcileUndeliverable(p)
         IN  /\ from \in [Deliveries -> DeliveryRows]
             /\ \A e \in Deliveries :
                  \/ from[e] = delivery[e]
                  \/ /\ delivery[e].state \in Waiting /\ ~Deliverable(e)
                     /\ from[e] = DeadLettered(delivery[e])
<1>1. ASSUME NEW e \in Deliveries, delivery[e].state \in Waiting
      PROVE  DeadLettered(delivery[e]) \in DeliveryRows
  BY <1>1, DeadLetteredOK DEF IInv, TypeOK, RowLedger, Waiting
<1> QED BY <1>1 DEF ReconcileUndeliverable, IInv, TypeOK

\* Rows that wait and are given up, and nothing else.
LEMMA GiveUpShape ==
  ASSUME IInv, UNCHANGED <<archived, recorded, dispatched, run, identity>>,
         job' \in [Jobs -> JobRows],
         delivery' \in [Deliveries -> DeliveryRows],
         \A e \in Deliveries : Stays(e) \/ GivenUp(e)
  PROVE  Shape
<1>1. ASSUME NEW d \in Deliveries, NEW n \in Attempts PROVE RunStep(d, n)
  BY ActiveIsLeased DEF RunStep, RunKept, Stays, GivenUp, Waiting
<1> QED BY <1>1 DEF Shape, RowStep, IInv, TypeOK, Statuses

LEMMA ClaimInProjectShape ==
  ASSUME IInv, NEW p \in Projects, ClaimJobEventDelivery(p) PROVE Shape
<1> DEFINE from == ReconcileUndeliverable(p)
<1>1. CASE \E d \in Deliveries : Claimable(d) /\ Claim(d, from)
  <2>1. PICK d \in Deliveries : Claimable(d) /\ Claim(d, from)
    BY <1>1
  <2>2. Deliverable(d)
    BY <2>1 DEF Claimable
  <2> HIDE DEF from
  <2>3. from[d] = delivery[d]
    BY <2>2, ReconcileRows DEF from
  <2> QED BY <2>1, <2>3, ClaimShape, ReconcileRows DEF from
<1>2. CASE delivery' = from /\ UNCHANGED <<archived, job, recorded, dispatched, run, identity>>
  BY <1>2, ReconcileRows, GiveUpShape DEF Stays, GivenUp, IInv, TypeOK
<1> QED BY <1>1, <1>2 DEF ClaimJobEventDelivery

LEMMA DeleteShape ==
  ASSUME IInv, NEW j \in Jobs, DeleteJob(j) PROVE Shape
<1>1. job' \in [Jobs -> JobRows]
  BY DEF DeleteJob, IInv, TypeOK, JobRows
<1>2. ASSUME NEW e \in Deliveries
      PROVE  delivery'[e] \in DeliveryRows /\ (Stays(e) \/ GivenUp(e))
  <2>1. CASE e[2] = j /\ delivery[e].state \in {"leased"} \cup Waiting
    <3>1. delivery[e].state \in Waiting
      BY <2>1 DEF DeleteJob, HasActiveDelivery
    <3>2. delivery'[e] = DeadLettered(delivery[e])
      BY <2>1 DEF DeleteJob
    <3> QED BY <3>1, <3>2, DeadLetteredOK DEF GivenUp, IInv, TypeOK, RowLedger, Waiting
  <2>2. CASE ~(e[2] = j /\ delivery[e].state \in {"leased"} \cup Waiting)
    BY <2>2 DEF DeleteJob, Stays, IInv, TypeOK
  <2> QED BY <2>1, <2>2
<1>3. delivery' \in [Deliveries -> DeliveryRows]
  BY <1>2 DEF DeleteJob
<1> QED BY <1>1, <1>2, <1>3, GiveUpShape DEF DeleteJob

\* The lease's clock: a heartbeat sets it, time takes from it.
LEMMA RetimedShape ==
  ASSUME IInv, NEW d \in Deliveries, NEW ticks \in 0..LeaseTicks,
         delivery[d].state = "leased", delivery[d].ttl > 0,
         delivery' = [delivery EXCEPT ![d].ttl = ticks],
         UNCHANGED <<archived, job, recorded, dispatched, run, identity>>
  PROVE  Shape
<1> DEFINE new == [delivery[d] EXCEPT !.ttl = ticks]
<1>1. delivery[d] \in DeliveryRows
  BY DEF IInv, TypeOK
<1>2. ticks \in NoExpiry..LeaseTicks
  BY ConstantsAssumption DEF NoExpiry
<1>3. new \in DeliveryRows
  BY <1>1, <1>2 DEF DeliveryRows
<1>4. delivery' = [delivery EXCEPT ![d] = new]
  OBVIOUS
<1>5. delivery'[d] = new
  BY <1>4 DEF IInv, TypeOK
<1>6. RowStep(d)
  BY <1>5 DEF RowStep, Retimed
<1>7. new.state = "leased"
  BY <1>1 DEF DeliveryRows
<1>8. \A n \in Attempts : RunStep(d, n)
  BY <1>5, <1>7 DEF RunStep, RunKept
<1> HIDE DEF new
<1> QED BY <1>3, <1>4, <1>6, <1>8, OneRow DEF IInv, TypeOK, Statuses

LEMMA HeartbeatShape ==
  ASSUME IInv, NEW d \in Deliveries, NEW n \in Nat, HeartbeatJobEventDelivery(d, n)
  PROVE  Shape
<1>1. LeaseTicks \in 0..LeaseTicks
  BY ConstantsAssumption
<1> QED BY <1>1, RetimedShape DEF HeartbeatJobEventDelivery, OwnsLease

LEMMA LeaseAgesShape ==
  ASSUME IInv, NEW d \in Deliveries, LeaseAges(d) PROVE Shape
<1>1. delivery[d].ttl - 1 \in 0..LeaseTicks
  BY ConstantsAssumption DEF LeaseAges, IInv, TypeOK, DeliveryRows, NoExpiry
<1>2. delivery' = [delivery EXCEPT ![d].ttl = delivery[d].ttl - 1]
  BY DEF LeaseAges
<1> QED BY <1>1, <1>2, RetimedShape DEF LeaseAges

LEMMA BackoffShape ==
  ASSUME IInv, NEW d \in Deliveries, BackoffElapses(d) PROVE Shape
<1> DEFINE new == [delivery[d] EXCEPT !.next = "due"]
<1>1. delivery[d] \in DeliveryRows
  BY DEF IInv, TypeOK
<1>2. new \in DeliveryRows
  BY <1>1 DEF DeliveryRows
<1>3. delivery' = [delivery EXCEPT ![d] = new]
  BY DEF BackoffElapses
<1>4. delivery[d].state \in Waiting
  BY DEF BackoffElapses, IInv, RowLedger, RowOK
<1>5. delivery'[d] = new
  BY <1>3 DEF IInv, TypeOK
<1>6. RowStep(d)
  BY <1>4, <1>5 DEF RowStep, Ripened
<1>7. \A n \in Attempts : RunStep(d, n)
  BY <1>4, ActiveIsLeased DEF RunStep, RunKept, BackoffElapses, Waiting
<1> HIDE DEF new
<1> QED BY <1>2, <1>3, <1>6, <1>7, OneRow DEF BackoffElapses, IInv, TypeOK, Statuses

LEMMA IdentityShape ==
  ASSUME IInv, NEW d \in Deliveries, NEW n \in Attempts,
         PersistJobEventAttemptProcessIdentity(d, n)
  PROVE  Shape
<1>1. identity' \subseteq EventRuns
  BY EventRunType DEF PersistJobEventAttemptProcessIdentity, IInv, TypeOK
<1> QED BY <1>1, RunsOnly DEF PersistJobEventAttemptProcessIdentity, Shape, IInv, TypeOK, Statuses

\* The lease of the latest attempt ends, and its run with it.
LEMMA LeaseEndsShape ==
  ASSUME IInv, NEW d \in Deliveries, delivery[d].state = "leased",
         NEW row \in DeliveryRows,
         delivery' = [delivery EXCEPT ![d] = row],
         Completed(d) \/ Failed(d),
         NEW status \in Outcomes, EndIfActive(EventRun(d, delivery[d].attempt), status),
         UNCHANGED <<archived, job, recorded, dispatched, identity>>
  PROVE  Shape
<1> DEFINE a == delivery[d].attempt
<1>1. a \in Attempts
  BY ConstantsAssumption DEF IInv, TypeOK, RowLedger, RowOK, DeliveryRows, Attempts
<1>2. EventRun(d, a) \in Runs
  BY <1>1, EventRunType
<1>3. run' \in [Runs -> Statuses]
  BY DEF EndIfActive, IInv, TypeOK, Statuses
<1>4. RowStep(d)
  BY DEF RowStep
<1>5. ASSUME NEW n \in Attempts PROVE RunStep(d, n)
  <2>1. CASE n = a /\ Active(EventRun(d, n))
    BY <1>2, <2>1 DEF RunStep, RunEnded, EndIfActive, Active, IInv, TypeOK
  <2>2. CASE ~Active(EventRun(d, n))
    BY <1>2, <2>2, EventRunType DEF RunStep, RunKept, EndIfActive, IInv, TypeOK
  <2>3. CASE n # a
    BY <2>3, <2>2, ActiveIsLeased
  <2> QED BY <2>1, <2>2, <2>3
<1>6. ASSUME NEW r \in EventRuns, r.delivery # d PROVE run'[r] = run[r]
  <2>1. r # EventRun(d, a)
    BY <1>1, <1>6, EventRunType
  <2> QED BY <2>1 DEF EndIfActive, Runs, IInv, TypeOK
<1> QED BY <1>3, <1>4, <1>5, <1>6, OneRow DEF IInv, TypeOK

LEMMA CompleteShape ==
  ASSUME IInv, NEW d \in Deliveries, NEW n \in Nat, NEW outcome \in Outcomes,
         NEW force \in BOOLEAN, CompleteJobEventDelivery(d, n, outcome, force)
  PROVE  Shape
<1> DEFINE available == Deliverable(d)
           status == IF available THEN outcome ELSE "failed"
<1>1. /\ delivery[d].state = "leased" /\ delivery[d].ttl > 0 /\ delivery[d].attempt = n
      /\ EndIfActive(EventRun(d, delivery[d].attempt), status)
      /\ UNCHANGED <<archived, job, recorded, dispatched, identity>>
  BY DEF CompleteJobEventDelivery, OwnsLease
<1>2. status \in Outcomes
  BY ConstantsAssumption DEF Outcomes
<1>3. delivery[d] \in DeliveryRows /\ RowOK(delivery[d])
  BY DEF IInv, TypeOK, RowLedger
<1>4. CASE available /\ outcome = "success"
  <2>1. delivery' = [delivery EXCEPT ![d] = Succeeded(delivery[d])]
    BY <1>4 DEF CompleteJobEventDelivery
  <2>2. Completed(d)
    BY <1>1, <2>1 DEF Completed, IInv, TypeOK
  <2> HIDE DEF status
  <2> QED BY <1>1, <1>2, <1>3, <2>1, <2>2, SucceededOK, LeaseEndsShape
<1>5. CASE ~(available /\ outcome = "success")
  <2> DEFINE forced == ~available \/ force
  <2>1. delivery' = [delivery EXCEPT ![d] =
                       FailureState(delivery[d], delivery[d].attempt, forced)]
    BY <1>5, <1>1 DEF CompleteJobEventDelivery
  <2>2. forced \in BOOLEAN
    OBVIOUS
  <2> HIDE DEF forced, status
  <2>3. delivery'[d] = FailureState(delivery[d], delivery[d].attempt, forced)
    BY <2>1 DEF IInv, TypeOK
  <2>4. Failed(d)
    BY <1>1, <2>2, <2>3 DEF Failed
  <2> QED BY <1>1, <1>2, <1>3, <2>1, <2>2, <2>4, FailureStateOK, LeaseEndsShape
<1> QED BY <1>4, <1>5

LEMMA ResolveShape ==
  ASSUME IInv, NEW d \in Deliveries, NEW n \in Nat,
         NEW resolution \in {"retry", "dead_letter"},
         ResolveExpiredJobEventLease(d, n, resolution)
  PROVE  Shape
<1> DEFINE forced == resolution = "dead_letter" \/ EventRun(d, n) \notin identity
<1>1. /\ delivery[d].state = "leased" /\ delivery[d].attempt = n
      /\ EndIfActive(EventRun(d, delivery[d].attempt), "failed")
      /\ delivery' = [delivery EXCEPT ![d] =
                        FailureState(delivery[d], delivery[d].attempt, forced)]
      /\ UNCHANGED <<archived, job, recorded, dispatched, identity>>
  BY DEF ResolveExpiredJobEventLease
<1>2. forced \in BOOLEAN /\ (~forced => EventRun(d, delivery[d].attempt) \in identity)
  BY <1>1
<1> HIDE DEF forced
<1>3. "failed" \in Outcomes
  BY ConstantsAssumption DEF Outcomes
<1>4. delivery[d] \in DeliveryRows /\ RowOK(delivery[d])
  BY DEF IInv, TypeOK, RowLedger
<1>5. Failed(d)
  BY <1>1, <1>2 DEF Failed, IInv, TypeOK
<1> QED BY <1>1, <1>2, <1>3, <1>4, <1>5, FailureStateOK, LeaseEndsShape

LEMMA StartShape ==
  ASSUME IInv, NEW j \in Jobs, NEW k \in 1..MaxOrdinary, StartJobRun(j, k) PROVE Shape
<1> DEFINE r == [job |-> j, ordinal |-> k]
<1>1. r \in OrdinaryRuns
  BY DEF OrdinaryRuns
<1>2. run' = [run EXCEPT ![r] = "running"]
  BY DEF StartJobRun
<1>3. run' \in [Runs -> Statuses]
  BY <1>2 DEF IInv, TypeOK, Statuses
<1>4. ASSUME NEW d \in Deliveries, NEW n \in Attempts
      PROVE  run'[EventRun(d, n)] = run[EventRun(d, n)]
  <2>1. EventRun(d, n) # r
    BY <1>1, EventRunType, RunsDisjoint
  <2> QED BY <1>2, <2>1, EventRunType DEF IInv, TypeOK
<1> QED BY <1>3, <1>4, RunsOnly DEF StartJobRun, Shape, IInv, TypeOK

\* A run is given another final status.
LEMMA RunOverwritten ==
  ASSUME IInv, NEW r \in Runs, NEW status \in Outcomes, run[r] # "none",
         run' = [run EXCEPT ![r] = status],
         UNCHANGED <<archived, job, recorded, dispatched, delivery, identity>>
  PROVE  Shape
<1>1. run' \in [Runs -> Statuses]
  BY DEF IInv, TypeOK, Statuses
<1>2. ASSUME NEW d \in Deliveries, NEW n \in Attempts
      PROVE  run'[EventRun(d, n)] = run[EventRun(d, n)] \/ RunEnded(d, n)
  BY EventRunType DEF RunEnded, IInv, TypeOK
<1> QED BY <1>1, <1>2, RunsOnly DEF Shape, IInv, TypeOK

LEMMA FinishShape ==
  ASSUME IInv, NEW r \in Runs, NEW status \in Outcomes, FinishJobRun(r, status) PROVE Shape
BY RunOverwritten DEF FinishJobRun

LEMMA CancelShape ==
  ASSUME IInv, NEW r \in Runs, CancelJobRun(r) PROVE Shape
<1>1. "cancelled" \in Outcomes
  BY ConstantsAssumption DEF Outcomes
<1> QED BY <1>1, RunOverwritten DEF CancelJobRun, Active

LEMMA RecoverShape == IInv /\ RecoverInterruptedJobRuns => Shape
<1> SUFFICES ASSUME IInv, RecoverInterruptedJobRuns PROVE Shape
  OBVIOUS
<1>1. "failed" \in Outcomes
  BY ConstantsAssumption DEF Outcomes
<1>2. run' \in [Runs -> Statuses]
  BY <1>1 DEF RecoverInterruptedJobRuns, IInv, TypeOK, Statuses
<1>3. ASSUME NEW d \in Deliveries, NEW n \in Attempts
      PROVE  run'[EventRun(d, n)] = run[EventRun(d, n)]
  BY EventRunType, RunsDisjoint DEF RecoverInterruptedJobRuns
<1> QED BY <1>2, <1>3, RunsOnly DEF RecoverInterruptedJobRuns, Shape, IInv, TypeOK

LEMMA CreateShape ==
  ASSUME IInv, NEW j \in Jobs, NEW matches \in BOOLEAN, CreateJob(j, matches) PROVE Shape
<1>1. job' \in [Jobs -> JobRows]
  BY DEF CreateJob, IInv, TypeOK, JobRows
<1> QED BY <1>1, Administration DEF CreateJob, IInv, TypeOK

LEMMA UpdateShape ==
  ASSUME IInv, NEW j \in Jobs, NEW enabled \in BOOLEAN, NEW matches \in BOOLEAN,
         UpdateJob(j, enabled, matches)
  PROVE  Shape
<1>1. job' \in [Jobs -> JobRows]
  BY DEF UpdateJob, IInv, TypeOK, JobRows
<1> QED BY <1>1, Administration DEF UpdateJob, IInv, TypeOK

LEMMA ArchiveShape ==
  ASSUME IInv, NEW p \in Projects, ArchiveProject(p) \/ UnarchiveProject(p) PROVE Shape
<1>1. archived' \subseteq Projects
  BY DEF ArchiveProject, UnarchiveProject, IInv, TypeOK
<1> QED BY <1>1, Administration DEF ArchiveProject, UnarchiveProject, IInv, TypeOK

\* A claim that was handed out names an attempt.
LEMMA ClaimsAreAttempts ==
  ASSUME IInv, NEW d \in Deliveries, NEW n \in Claims(d) PROVE n \in Attempts /\ n \in Nat
BY ConstantsAssumption DEF Claims, Attempts, IInv, TypeOK, DeliveryRows

LEMMA StepShape == IInv /\ [Next]_vars => Shape
<1> SUFFICES ASSUME IInv, [Next]_vars PROVE Shape
  OBVIOUS
<1>1. CASE Record
  BY <1>1, AppendShape DEF Record
<1>2. CASE Dispatch
  BY <1>2, SnapshotShape, ClaimInProjectShape, ClaimNextShape DEF Dispatch
<1>3. CASE Callers
  <2>0. PICK d \in Deliveries : \E n \in Claims(d) : HolderCall(d, n)
    BY <1>3 DEF Callers
  <2>1. PICK n \in Claims(d) : HolderCall(d, n)
    BY <2>0
  <2>2. n \in Attempts /\ n \in Nat
    BY ClaimsAreAttempts
  <2>3. "success" \in Outcomes /\ Failures \subseteq Outcomes
    BY DEF Outcomes
  <2> QED BY <2>1, <2>2, <2>3, HeartbeatShape, IdentityShape, CompleteShape,
            ResolveShape DEF HolderCall
<1>4. CASE RunCalls
  BY <1>4, StartShape, CancelShape, FinishShape, RecoverShape DEF RunCalls
<1>5. CASE Admin
  BY <1>5, CreateShape, UpdateShape, DeleteShape, ArchiveShape DEF Admin
<1>6. CASE Clock
  BY <1>6, LeaseAgesShape, BackoffShape DEF Clock
<1>7. CASE UNCHANGED vars
  BY <1>7, Administration DEF vars, IInv, TypeOK
<1> QED BY <1>1, <1>2, <1>3, <1>4, <1>5, <1>6, <1>7 DEF Next

-----------------------------------------------------------------------------
(* The theorems. *)

LEMMA InitIInv == Init => IInv
<1> SUFFICES ASSUME Init PROVE IInv
  OBVIOUS
<1>1. \A d \in Deliveries : delivery[d] = NoDelivery
  BY DEF Init
<1>2. TypeOK
  BY NoDeliveryOK DEF Init, TypeOK, NoJob, JobRows
<1>3. RowLedger
  BY <1>1, NoDeliveryOK DEF RowLedger
<1>4. RunLedger
  BY EventRunType DEF Init, RunLedger
<1>5. MarkedBeforeDelivered
  BY <1>1 DEF MarkedBeforeDelivered, NoDelivery
<1>6. LeaseOwnsRun
  BY DEF Init, LeaseOwnsRun, Active, Runs
<1> QED BY <1>2, <1>3, <1>4, <1>5, <1>6 DEF IInv

\* The invariant behind every theorem below: the rows of the four tables agree.
THEOREM Invariance == Spec => []IInv
<1>1. IInv /\ [Next]_vars => IInv'
  BY StepShape, ShapeKeepsIInv
<1> QED BY InitIInv, <1>1, PTL DEF Spec

\* Every row keeps its type, attempt counters their limit among it.
THEOREM TypeCorrectness == Spec => []TypeOK
<1>1. IInv => TypeOK
  BY DEF IInv
<1> QED BY <1>1, Invariance, PTL

\* An event run is running only while its delivery is leased to that attempt:
\* no run outlives its lease in the tables and holds the job's slot.
THEOREM RunsHaveTheirLease == Spec => []LeaseOwnsRun
<1>1. IInv => LeaseOwnsRun
  BY DEF IInv
<1> QED BY <1>1, Invariance, PTL

\* No statement trips the CHECK of migration 077.
THEOREM RowsSatisfyTheirCheck == Spec => []RowConstraint
<1>1. IInv => RowConstraint
  <2> SUFFICES ASSUME IInv, NEW d \in Deliveries PROVE CheckHolds(delivery[d])
    BY DEF RowConstraint
  <2>1. delivery[d] \in DeliveryRows /\ RowOK(delivery[d])
    BY DEF IInv, TypeOK, RowLedger
  <2>2. delivery[d].state \in {"none", "queued", "retry_wait", "leased", "succeeded", "dead_letter"}
    BY <2>1 DEF DeliveryRows, Waiting, Settled
  <2>3. delivery[d].attempt \in 0..MaxAttempts /\ delivery[d].rev = delivery[d].attempt
    BY <2>1 DEF DeliveryRows, RowOK
  <2> QED BY <2>1, <2>2, <2>3, ConstantsAssumption
          DEF RowOK, CheckHolds, Unleased, Waiting, NoOwner, Attempts
<1> QED BY <1>1, Invariance, PTL

\* A settled delivery is never touched again.
THEOREM SettledIsFinal == Spec => SettledForever
<1>1. IInv /\ [Next]_vars =>
        \A d \in Deliveries : delivery[d].state \in Settled => delivery'[d] = delivery[d]
  <2> SUFFICES ASSUME IInv, [Next]_vars, NEW d \in Deliveries, delivery[d].state \in Settled
               PROVE  delivery'[d] = delivery[d]
    OBVIOUS
  <2>1. RowStep(d)
    BY StepShape DEF Shape
  <2> QED BY <2>1 DEF RowStep, Stays, Enqueued, Claimed, Ripened, Retimed, Completed,
                      Failed, GivenUp, Settled, Waiting
<1> QED BY <1>1, Invariance, PTL DEF Spec, SettledForever

\* Once a lease has run out, only the expiry resolution moves the row on.
THEOREM ExpiredLeaseStaysLost == Spec => ExpiredLeaseIsLost
<1>1. IInv /\ [Next]_vars =>
        \A d \in Deliveries :
          delivery[d].state = "leased" /\ delivery[d].ttl = 0 =>
            \/ delivery'[d] = delivery[d]
            \/ delivery'[d].state \in {"retry_wait", "dead_letter"}
  <2> SUFFICES ASSUME IInv, [Next]_vars, NEW d \in Deliveries,
                      delivery[d].state = "leased", delivery[d].ttl = 0
               PROVE  \/ delivery'[d] = delivery[d]
                      \/ delivery'[d].state \in {"retry_wait", "dead_letter"}
    OBVIOUS
  <2>1. RowStep(d)
    BY StepShape DEF Shape
  <2>2. Stays(d) \/ Failed(d)
    BY <2>1 DEF RowStep, Enqueued, Claimed, Ripened, Retimed, Completed, GivenUp, Waiting
  <2> QED BY <2>2, FailureStateOK DEF Stays, Failed, IInv, TypeOK, RowLedger
<1> QED BY <1>1, Invariance, PTL DEF Spec, ExpiredLeaseIsLost

\* An attempt without process evidence is never retried on expiry.
THEOREM RetriesHaveEvidence == Spec => RetryNeedsEvidence
<1>1. IInv /\ [Next]_vars =>
        \A d \in Deliveries :
          (/\ delivery[d].state = "leased" /\ delivery[d].ttl = 0
           /\ delivery'[d].state = "retry_wait") =>
             EventRun(d, delivery[d].attempt) \in identity
  <2> SUFFICES ASSUME IInv, [Next]_vars, NEW d \in Deliveries,
                      delivery[d].state = "leased", delivery[d].ttl = 0,
                      delivery'[d].state = "retry_wait"
               PROVE  EventRun(d, delivery[d].attempt) \in identity
    OBVIOUS
  <2>1. RowStep(d)
    BY StepShape DEF Shape
  <2>2. Failed(d)
    BY <2>1 DEF RowStep, Stays, Enqueued, Claimed, Ripened, Retimed, Completed, GivenUp, Waiting
  <2>3. PICK force \in BOOLEAN :
          /\ delivery'[d] = FailureState(delivery[d], delivery[d].attempt, force)
          /\ ~force => EventRun(d, delivery[d].attempt) \in identity
    BY <2>2 DEF Failed
  <2>4. delivery[d] \in DeliveryRows
    BY DEF IInv, TypeOK
  <2>5. ~force
    BY <2>3, <2>4 DEF FailureState, DeadLettered, DeliveryRows
  <2> QED BY <2>3, <2>5
<1> QED BY <1>1, Invariance, PTL DEF Spec, RetryNeedsEvidence

\* An event is fanned out once; no delivery appears for it later.
THEOREM NoLateDelivery == Spec => NoBackfill
<1>1. IInv /\ [Next]_vars =>
        \A d \in Deliveries :
          d[1] \in dispatched /\ delivery[d].state = "none" => delivery'[d].state = "none"
  <2> SUFFICES ASSUME IInv, [Next]_vars, NEW d \in Deliveries,
                      d[1] \in dispatched, delivery[d].state = "none"
               PROVE  delivery'[d].state = "none"
    OBVIOUS
  <2>1. RowStep(d)
    BY StepShape DEF Shape
  <2> QED BY <2>1 DEF RowStep, Stays, Enqueued, Claimed, Ripened, Retimed, Completed,
                      Failed, GivenUp, Waiting
<1> QED BY <1>1, Invariance, PTL DEF Spec, NoBackfill

-----------------------------------------------------------------------------
(* The queue implements its contract. *)

OneLeasePerJob ==
  \A d, e \in Deliveries :
    delivery[d].state = "leased" /\ delivery[e].state = "leased" /\ d[2] = e[2] => d = e

LEMMA StatusOfRow ==
  ASSUME NEW row \in DeliveryRows
  PROVE  /\ row.state = "none" => StatusOf(row) = "absent"
         /\ row.state \in Waiting => StatusOf(row) = "waiting"
         /\ row.state = "leased" => StatusOf(row) = "working"
         /\ row.state = "succeeded" => StatusOf(row) = "done"
         /\ row.state = "dead_letter" => StatusOf(row) = "dead"
         /\ StatusOf(row) = "working" => row.state = "leased"
BY DEF StatusOf, DeliveryRows, Waiting, Settled

LEMMA OneLeaseStep == IInv /\ OneLeasePerJob /\ [Next]_vars => OneLeasePerJob'
<1> SUFFICES ASSUME IInv, OneLeasePerJob, [Next]_vars,
                    NEW d \in Deliveries, NEW e \in Deliveries, d # e, d[2] = e[2],
                    delivery'[d].state = "leased", delivery'[e].state = "leased"
             PROVE  FALSE
  BY DEF OneLeasePerJob
<1>1. RowStep(d) /\ RowStep(e)
  BY StepShape DEF Shape
<1>2. ASSUME NEW x \in Deliveries, RowStep(x), delivery'[x].state = "leased"
      PROVE  Claimed(x) \/ delivery[x].state = "leased"
  <2>1. delivery[x] \in DeliveryRows /\ RowOK(delivery[x])
    BY DEF IInv, TypeOK, RowLedger
  <2>2. CASE Enqueued(x)
    BY <1>2, <2>2 DEF Enqueued, NoDelivery
  <2>3. CASE Ripened(x)
    BY <1>2, <2>1, <2>3 DEF Ripened, DeliveryRows, Waiting
  <2>4. CASE GivenUp(x)
    BY <1>2, <2>1, <2>4, DeadLetteredOK DEF GivenUp, Waiting
  <2> QED BY <1>2, <2>2, <2>3, <2>4 DEF RowStep, Stays, Retimed, Completed, Failed
<1>3. ~Claimed(d) /\ ~Claimed(e)
  BY DEF Claimed
<1>4. delivery[d].state = "leased" /\ delivery[e].state = "leased"
  BY <1>1, <1>2, <1>3
<1> QED BY <1>4 DEF OneLeasePerJob

\* A job has at most one delivery in work.
THEOREM JobsAreExclusive == Spec => []OneLeasePerJob
<1>1. Init => OneLeasePerJob
  BY DEF Init, OneLeasePerJob, NoDelivery
<1> QED BY <1>1, OneLeaseStep, Invariance, PTL DEF Spec

LEMMA ContractStep ==
  IInv /\ OneLeasePerJob /\ [Next]_vars => [Contract!ContractNext]_(Contract!contractVars)
<1> SUFFICES ASSUME IInv, OneLeasePerJob, [Next]_vars PROVE Contract!ContractNext
  OBVIOUS
<1>1. ASSUME NEW d \in Deliveries
      PROVE  \/ Contract!Enqueue(d) \/ Contract!Begin(d) \/ Contract!Succeed(d)
             \/ Contract!GiveBack(d) \/ Contract!GiveUp(d) \/ Contract!Rest(d)
  <2>1. /\ delivery[d] \in DeliveryRows /\ RowOK(delivery[d])
        /\ delivery'[d] \in DeliveryRows /\ RowStep(d)
    BY StepShape DEF Shape, IInv, TypeOK, RowLedger
  <2> DEFINE old == StatusOf(delivery[d])  new == StatusOf(delivery'[d])
  <2>2. CASE Stays(d)
    BY <2>2 DEF Stays, Contract!Rest
  <2>3. CASE Enqueued(d)
    <3>1. delivery'[d].state = "queued" /\ delivery'[d].attempt = delivery[d].attempt
      BY <2>1, <2>3 DEF Enqueued, NoDelivery, RowOK
    <3> QED BY <2>1, <2>3, <3>1, StatusOfRow DEF Enqueued, Contract!Enqueue, Waiting
  <2>4. CASE Claimed(d)
    <3>1. delivery[d].attempt < MaxAttempts
      BY <2>1, <2>4, LeasedOK, ConstantsAssumption DEF Claimed, Attempts, DeliveryRows
    <3> QED BY <2>1, <2>4, <3>1, LeasedOK, StatusOfRow DEF Claimed, Contract!Begin
  <2>5. CASE Ripened(d)
    <3>1. delivery'[d].state = delivery[d].state /\ delivery'[d].attempt = delivery[d].attempt
      BY <2>1, <2>5 DEF Ripened, DeliveryRows
    <3> QED BY <2>1, <2>5, <3>1, StatusOfRow DEF Ripened, Contract!Rest
  <2>6. CASE Retimed(d)
    <3>1. delivery'[d].state = delivery[d].state /\ delivery'[d].attempt = delivery[d].attempt
      BY <2>1, <2>6 DEF Retimed, DeliveryRows
    <3> QED BY <2>1, <2>6, <3>1, StatusOfRow DEF Retimed, Contract!Rest
  <2>7. CASE Completed(d)
    BY <2>1, <2>7, SucceededOK, StatusOfRow DEF Completed, Contract!Succeed
  <2>8. CASE Failed(d)
    <3>1. PICK force \in BOOLEAN :
            delivery'[d] = FailureState(delivery[d], delivery[d].attempt, force)
      BY <2>8 DEF Failed
    <3>2. /\ delivery[d].state = "leased" /\ delivery'[d].attempt = delivery[d].attempt
          /\ delivery'[d].state \in {"retry_wait", "dead_letter"} /\ RowOK(delivery'[d])
      BY <2>1, <2>8, <3>1, FailureStateOK DEF Failed
    <3>3. CASE delivery'[d].state = "retry_wait"
      <4>1. delivery[d].attempt < MaxAttempts
        BY <3>2, <3>3, ConstantsAssumption DEF RowOK
      <4> QED BY <2>1, <3>2, <3>3, <4>1, StatusOfRow DEF Contract!GiveBack, Waiting
    <3>4. CASE delivery'[d].state = "dead_letter"
      BY <2>1, <3>2, <3>4, StatusOfRow DEF Contract!GiveUp
    <3> QED BY <3>2, <3>3, <3>4
  <2>9. CASE GivenUp(d)
    <3>1. delivery'[d].state = "dead_letter" /\ delivery'[d].attempt = delivery[d].attempt
      BY <2>1, <2>9, DeadLetteredOK DEF GivenUp, Waiting
    <3> QED BY <2>1, <2>9, <3>1, StatusOfRow DEF GivenUp, Contract!GiveUp
  <2> QED BY <2>1, <2>2, <2>3, <2>4, <2>5, <2>6, <2>7, <2>8, <2>9 DEF RowStep
<1>2. Contract!OneInWorkPerOwner'
  <2>1. OneLeasePerJob' /\ delivery' \in [Deliveries -> DeliveryRows]
    BY OneLeaseStep, StepShape DEF Shape
  <2> QED BY <2>1, StatusOfRow DEF OneLeasePerJob, Contract!OneInWorkPerOwner, JobOfDelivery
<1> QED BY <1>1, <1>2 DEF Contract!ContractNext

\* Behind every lease, retry, expiry and reconciliation, each event and job
\* pair is enqueued once, tried at most MaxAttempts times, by one attempt at a
\* time, and stays done or dead.
THEOREM QueueImplementsContract == Spec => ImplementsContract
<1>1. Init => Contract!ContractInit
  BY StatusOfRow, NoDeliveryOK DEF Init, Contract!ContractInit, NoDelivery
<1> QED BY <1>1, ContractStep, Invariance, JobsAreExclusive, PTL
        DEF Spec, ImplementsContract, Contract!ContractSpec

-----------------------------------------------------------------------------
(* The concurrency limits. *)

ActiveSet == {r \in Runs : Active(r)}

\* Only a claim and a manual or cron start make a run active, one at a time,
\* and both looked at the limits in the same transaction.
Grows(x) ==
  /\ ActiveSet' \subseteq ActiveSet \cup {x}
  /\ HasAutomationCapacity(RunOrg(x))
  /\ NoActiveRun(JobOf(x))

GrowthIsLimited == ActiveSet' \subseteq ActiveSet \/ \E x \in Runs : Grows(x)

LEMMA ClaimGrows ==
  ASSUME IInv, NEW d \in Deliveries, Claimable(d),
         run' = [run EXCEPT ![EventRun(d, delivery[d].attempt + 1)] = "running"]
  PROVE  GrowthIsLimited
<1> DEFINE x == EventRun(d, delivery[d].attempt + 1)
<1>1. x \in EventRuns /\ x \in Runs /\ x.delivery = d
  BY LeasedOK, EventRunType DEF IInv, TypeOK, RowLedger, Claimable
<1>2. JobOf(x) = d[2]
  BY <1>1 DEF JobOf
<1>3. HasAutomationCapacity(RunOrg(x)) /\ NoActiveRun(JobOf(x))
  BY <1>2 DEF RunOrg, Claimable
<1>4. ActiveSet' \subseteq ActiveSet \cup {x}
  BY DEF ActiveSet, Active, IInv, TypeOK
<1> QED BY <1>1, <1>3, <1>4 DEF Grows, GrowthIsLimited

LEMMA StepGrowth == IInv /\ [Next]_vars => GrowthIsLimited
<1> SUFFICES ASSUME IInv, [Next]_vars PROVE GrowthIsLimited
  OBVIOUS
<1> USE DEF IInv, TypeOK
<1>1. CASE UNCHANGED run
  BY <1>1 DEF GrowthIsLimited, ActiveSet, Active
<1>2. ASSUME NEW r \in Runs, NEW status \in Outcomes, run' = [run EXCEPT ![r] = status]
      PROVE  GrowthIsLimited
  BY <1>2, ConstantsAssumption DEF GrowthIsLimited, ActiveSet, Active, Outcomes
<1>3. ASSUME NEW r \in Runs, NEW status \in Outcomes, EndIfActive(r, status)
      PROVE  GrowthIsLimited
  BY <1>3, ConstantsAssumption DEF GrowthIsLimited, ActiveSet, Active, Outcomes, EndIfActive
<1>4. ASSUME NEW d \in Deliveries, NEW n \in Claims(d), HolderCall(d, n)
      PROVE  GrowthIsLimited
  <2>1. EventRun(d, n) \in Runs
    BY ClaimsAreAttempts, EventRunType
  <2>2. CASE HeartbeatJobEventDelivery(d, n) \/ PersistJobEventAttemptProcessIdentity(d, n)
    BY <1>1, <2>2 DEF HeartbeatJobEventDelivery, PersistJobEventAttemptProcessIdentity
  <2>3. ASSUME NEW outcome \in Outcomes, NEW force \in BOOLEAN,
               CompleteJobEventDelivery(d, n, outcome, force)
        PROVE  GrowthIsLimited
    <3>1. (IF Deliverable(d) THEN outcome ELSE "failed") \in Outcomes
      BY ConstantsAssumption DEF Outcomes
    <3> QED BY <1>3, <2>1, <2>3, <3>1 DEF CompleteJobEventDelivery
  <2>4. ASSUME NEW resolution \in {"retry", "dead_letter"},
               ResolveExpiredJobEventLease(d, n, resolution)
        PROVE  GrowthIsLimited
    BY <1>3, <2>1, <2>4, ConstantsAssumption DEF ResolveExpiredJobEventLease, Outcomes
  <2>5. "success" \in Outcomes /\ Failures \subseteq Outcomes
    BY DEF Outcomes
  <2> QED BY <1>4, <2>2, <2>3, <2>4, <2>5 DEF HolderCall
<1>5. ASSUME NEW p \in Projects, ClaimJobEventDelivery(p)
      PROVE  GrowthIsLimited
  BY <1>1, <1>5, ClaimGrows DEF ClaimJobEventDelivery, Claim
<1>6. CASE Dispatch
  BY <1>1, <1>5, <1>6, ClaimGrows
     DEF Dispatch, SnapshotTrustedJobEvents, ClaimNextJobEventDelivery, Claim
<1>7. ASSUME NEW j \in Jobs, NEW k \in 1..MaxOrdinary, StartJobRun(j, k)
      PROVE  GrowthIsLimited
  <2> DEFINE x == [job |-> j, ordinal |-> k]
  <2>1. x \in OrdinaryRuns /\ x \in Runs /\ x \notin EventRuns /\ x.job = j
    BY RunsDisjoint DEF OrdinaryRuns, Runs
  <2>2. JobOf(x) = j
    BY <2>1 DEF JobOf
  <2>3. HasAutomationCapacity(RunOrg(x)) /\ NoActiveRun(JobOf(x))
    BY <1>7, <2>2 DEF RunOrg, StartJobRun
  <2>4. ActiveSet' \subseteq ActiveSet \cup {x}
    BY <1>7 DEF ActiveSet, Active, StartJobRun
  <2> QED BY <2>1, <2>3, <2>4 DEF Grows, GrowthIsLimited
<1>8. CASE RunCalls
  <2>1. CASE RecoverInterruptedJobRuns
    BY <2>1 DEF RecoverInterruptedJobRuns, GrowthIsLimited, ActiveSet, Active
  <2>2. "cancelled" \in Outcomes
    BY ConstantsAssumption DEF Outcomes
  <2> QED BY <1>2, <1>7, <1>8, <2>1, <2>2 DEF RunCalls, CancelJobRun, FinishJobRun
<1>9. CASE Record \/ Admin \/ Clock \/ UNCHANGED vars
  BY <1>1, <1>9
     DEF Record, Admin, Clock, vars, AppendTrustedJobEvent, CreateJob, UpdateJob, DeleteJob,
         ArchiveProject, UnarchiveProject, LeaseAges, BackoffElapses
<1> QED BY <1>4, <1>6, <1>8, <1>9 DEF Next, Callers

\* The counts are counts: finitely many runs are active at any time.
LimitsInv == IsFiniteSet(ActiveSet) /\ ConcurrencyLimits

LEMMA AddOne ==
  ASSUME NEW S, IsFiniteSet(S), NEW x
  PROVE  /\ IsFiniteSet(S \cup {x})
         /\ Cardinality(S \cup {x}) <= Cardinality(S) + 1
<1>1. Cardinality(S) \in Nat
  BY FS_CardinalityType
<1>2. /\ IsFiniteSet(S \cup {x})
      /\ Cardinality(S \cup {x}) = IF x \in S THEN Cardinality(S) ELSE Cardinality(S) + 1
  BY FS_AddElement
<1> QED BY <1>1, <1>2

LEMMA LimitsStep == IInv /\ LimitsInv /\ [Next]_vars => LimitsInv'
<1> SUFFICES ASSUME IInv, LimitsInv, GrowthIsLimited PROVE LimitsInv'
  BY StepGrowth
<1>1. \A o : /\ IsFiniteSet(ActiveRuns(o))
             /\ ActiveRuns(o) = {r \in ActiveSet : RunOrg(r) = o}
             /\ ActiveRuns(o)' = {r \in ActiveSet' : RunOrg(r) = o}
  BY FS_Subset DEF LimitsInv, ActiveRuns, ActiveSet
<1>2. CASE ActiveSet' \subseteq ActiveSet
  <2>1. IsFiniteSet(ActiveSet') /\ Cardinality(ActiveSet') <= Cardinality(ActiveSet)
    BY <1>2, FS_Subset DEF LimitsInv
  <2>2. ASSUME NEW o \in Orgs
        PROVE  /\ IsFiniteSet(ActiveRuns(o)')
               /\ Cardinality(ActiveRuns(o)') <= Cardinality(ActiveRuns(o))
    BY <1>1, <1>2, FS_Subset
  <2>3. \A r, s \in ActiveSet' : JobOf(r) = JobOf(s) => r = s
    BY <1>2 DEF LimitsInv, ConcurrencyLimits, ActiveSet
  <2> QED BY <1>1, <2>1, <2>2, <2>3, FS_CardinalityType, ConstantsAssumption
          DEF LimitsInv, ConcurrencyLimits, ActiveSet
<1>3. CASE \E x \in Runs : Grows(x)
  <2>1. PICK x \in Runs : Grows(x)
    BY <1>3
  <2>2. /\ IsFiniteSet(ActiveSet \cup {x})
        /\ Cardinality(ActiveSet \cup {x}) <= Cardinality(ActiveSet) + 1
    BY AddOne DEF LimitsInv
  <2>3. /\ IsFiniteSet(ActiveSet')
        /\ Cardinality(ActiveSet') <= Cardinality(ActiveSet \cup {x})
    BY <2>1, <2>2, FS_Subset DEF Grows
  <2>4. Cardinality(ActiveSet) < MaxGlobalRuns
    BY <2>1 DEF Grows, HasAutomationCapacity, ActiveSet
  <2>5. Cardinality(ActiveSet') <= MaxGlobalRuns
    BY <2>2, <2>3, <2>4, FS_CardinalityType, ConstantsAssumption DEF LimitsInv
  <2>6. ASSUME NEW o \in Orgs PROVE Cardinality(ActiveRuns(o)') <= MaxOrgRuns
    <3>1. IsFiniteSet(ActiveRuns(o)) /\ Cardinality(ActiveRuns(o)) \in Nat
      BY <1>1, FS_CardinalityType
    <3>2. CASE RunOrg(x) = o
      <4>1. ActiveRuns(o)' \subseteq ActiveRuns(o) \cup {x}
        BY <1>1, <2>1 DEF Grows
      <4>2. /\ IsFiniteSet(ActiveRuns(o) \cup {x})
            /\ Cardinality(ActiveRuns(o) \cup {x}) <= Cardinality(ActiveRuns(o)) + 1
        BY <3>1, AddOne
      <4>3. /\ IsFiniteSet(ActiveRuns(o)')
            /\ Cardinality(ActiveRuns(o)') <= Cardinality(ActiveRuns(o) \cup {x})
        BY <4>1, <4>2, FS_Subset
      <4>4. Cardinality(ActiveRuns(o)) < MaxOrgRuns
        BY <2>1, <3>2 DEF Grows, HasAutomationCapacity
      <4> QED BY <3>1, <4>2, <4>3, <4>4, FS_CardinalityType, ConstantsAssumption
    <3>3. CASE RunOrg(x) # o
      <4>1. ActiveRuns(o)' \subseteq ActiveRuns(o)
        BY <1>1, <2>1, <3>3 DEF Grows
      <4>2. /\ IsFiniteSet(ActiveRuns(o)')
            /\ Cardinality(ActiveRuns(o)') <= Cardinality(ActiveRuns(o))
        BY <3>1, <4>1, FS_Subset
      <4>3. Cardinality(ActiveRuns(o)) <= MaxOrgRuns
        BY DEF LimitsInv, ConcurrencyLimits
      <4> QED BY <3>1, <4>2, <4>3, FS_CardinalityType, ConstantsAssumption
    <3> QED BY <3>2, <3>3
  <2>7. \A r, s \in ActiveSet' : JobOf(r) = JobOf(s) => r = s
    BY <2>1 DEF Grows, NoActiveRun, LimitsInv, ConcurrencyLimits, ActiveSet
  <2> QED BY <2>3, <2>5, <2>6, <2>7 DEF LimitsInv, ConcurrencyLimits, ActiveSet
<1> QED BY <1>2, <1>3 DEF GrowthIsLimited

\* However claims, manual and cron starts and endings interleave, the global,
\* per-organization and per-job limits hold of the rows.
THEOREM LimitsHold == Spec => []ConcurrencyLimits
<1>1. Init => LimitsInv
  <2> SUFFICES ASSUME Init PROVE LimitsInv
    OBVIOUS
  <2>1. ActiveSet = {} /\ \A o : ActiveRuns(o) = {}
    BY DEF Init, ActiveSet, ActiveRuns, Active
  <2> QED BY <2>1, FS_EmptySet, ConstantsAssumption
          DEF LimitsInv, ConcurrencyLimits, ActiveSet
<1>2. LimitsInv => ConcurrencyLimits
  BY DEF LimitsInv
<1> QED BY <1>1, <1>2, LimitsStep, Invariance, PTL DEF Spec
=============================================================================
