---------------------------- MODULE Coordination ----------------------------
(***************************************************************************)
(* The coordination registry of one worktree (coordination.ts): sessions   *)
(* that hold a lease, the batches of path claims they take, the fences     *)
(* that order them, and the accepted epoch that is quarantined when a      *)
(* managed mutation did not do what it declared.                           *)
(*                                                                         *)
(* Every operation is one transaction.  It proves the session's revision,  *)
(* fence and token, and every change of a session raises its revision, so  *)
(* a request of an old revision, or one repeated under its idempotency     *)
(* key, changes nothing: the model has the requests that do.  All claims   *)
(* of a batch share their key and change together; a batch is one record.  *)
(***************************************************************************)
EXTENDS Integers

CONSTANTS
  Sessions,   \* session incarnations that may register
  Batches,    \* fresh client claim keys, one for each batch
  Units,      \* what can be claimed: paths, and the build
  Paths,      \* the units that are paths
  Hashes,     \* contents of a file
  Absent,     \* null: there is no such file
  None,
  MaxFence    \* bound: fences allocated

ASSUME CoordinationAssumption ==
  /\ Paths \subseteq Units
  /\ Absent \notin Hashes
  /\ None \notin Sessions
  /\ MaxFence \in Nat

VARIABLES
  session,    \* coordination_sessions
  lapsed,     \* sessions whose lease has expired
  claim,      \* coordination_claims, with the managed operation of the batch
  epoch,      \* coordination_worktree_epochs
  managed,    \* coordination_managed_paths
  nextFence,  \* coordination_worktrees.next_fence
  admission   \* the restart admission in a session's snapshot

vars == <<session, lapsed, claim, epoch, managed, nextFence, admission>>

-----------------------------------------------------------------------------
Contents == Hashes \cup {Absent}

Nobody == [state |-> "absent", fence |-> 0]
NoBase == [p \in Paths |-> Absent]
Unused == [state |-> "unused", by |-> None, scope |-> {}, paths |-> {}, whole |-> FALSE,
           fence |-> 0, epoch |-> 0, op |-> "none", opFence |-> 0, base |-> NoBase]
NoRow == [hash |-> Absent, epoch |-> 0]

SessionRows == [state : {"absent", "active", "quarantined", "closed"}, fence : Nat]

\* A claim is "marked" when it is dirty, quarantined or in collision: no
\* operation tells these apart.  `base` has the baselines of managed paths; no
\* other baseline is ever read.
Claims == [state : {"unused", "active", "marked", "released"}, by : Sessions \cup {None},
           scope : SUBSET Units, paths : SUBSET Paths, whole : BOOLEAN, fence : Nat,
           epoch : Nat, op : {"none", "claimed"},
           opFence : Nat, base : [Paths -> Contents]]
EpochRows == [num : Nat, state : {"active", "quarantined"}, owner : Sessions \cup {None},
              fence : Nat, scanned : BOOLEAN]
PathRows == [hash : Contents, epoch : Nat]

\* Every table keeps its shape.  A batch belongs to the session that claimed
\* it; the repository claim covers everything and names no path.  The
\* triggers on the epoch hold: a quarantine names its owner, an active epoch
\* retains no recovery proof.
CoordinationTypeOK ==
  /\ session \in [Sessions -> SessionRows]
  /\ lapsed \subseteq Sessions
  /\ claim \in [Batches -> Claims]
  /\ epoch \in EpochRows
  /\ managed \in [Paths -> PathRows]
  /\ nextFence \in Nat
  /\ admission \in [Sessions -> {"none", "current", "superseded"}]
  /\ \A b \in Batches :
       /\ claim[b].state # "unused" => claim[b].by \in Sessions
       /\ claim[b].paths \subseteq claim[b].scope
       /\ claim[b].whole => claim[b].scope = Units
  /\ epoch.state = "quarantined" <=> epoch.owner # None
  /\ epoch.state = "active" => ~epoch.scanned

Init ==
  /\ session = [s \in Sessions |-> Nobody]
  /\ lapsed = {}
  /\ claim = [b \in Batches |-> Unused]
  /\ epoch = [num |-> 1, state |-> "active", owner |-> None, fence |-> 0, scanned |-> FALSE]
  /\ managed = [p \in Paths |-> NoRow]
  /\ nextFence = 1
  /\ admission = [s \in Sessions |-> "none"]

-----------------------------------------------------------------------------
(* What the operations are made of                                         *)

\* requireActiveLease, for a request with the present revision and fence.
Leased(s) == session[s].state = "active" /\ s \notin lapsed

EpochIsActive == epoch.state = "active"

Live(b) == claim[b].state \in {"active", "marked"}

\* A live claim of the session's present fence.
Held(b, s) == Live(b) /\ claim[b].by = s /\ claim[b].fence = session[s].fence

\* ownedActiveClaims.
Owned(b, s) == Held(b, s) /\ claim[b].state = "active"

\* A marked claim still excludes others in its epoch, and the fence of a
\* released one still counts; the rest of them is never read again.
Retired(c, state) ==
  [state |-> state, by |-> c.by, scope |-> c.scope, paths |-> {}, whole |-> FALSE,
   fence |-> c.fence, epoch |-> c.epoch, op |-> "none", opFence |-> 0, base |-> NoBase]
Released(c) == Retired(c, "released")
Marked(c) == Retired(c, "marked")

\* releaseExpiredClaims, in the transaction of a register, claim or recovery.
Reaped ==
  [b \in Batches |->
     IF \E s \in Sessions : Held(b, s) /\ (session[s].state = "closed" \/ s \in lapsed)
     THEN Released(claim[b]) ELSE claim[b]]

\* The claims of s follow its fence.
Refenced(cs, s, f) ==
  [b \in Batches |-> IF cs[b].state \in {"active", "marked"} /\ cs[b].by = s
                          /\ cs[b].fence = session[s].fence
                     THEN [cs[b] EXCEPT !.fence = f] ELSE cs[b]]

\* allocateFence: f is above every fence the worktree has seen.
Seen == {nextFence} \cup {session[s].fence + 1 : s \in Sessions}
          \cup {claim[b].fence + 1 : b \in Batches}
Allocate(f) ==
  /\ f \in Seen
  /\ \A g \in Seen : g <= f
  /\ nextFence' = f + 1

\* A session's change raises its revision: the admission it minted before is
\* bound to an older one.
Supersede(s) ==
  admission' = [admission EXCEPT ![s] = IF @ = "current" THEN "superseded" ELSE @]

\* The session ends; nothing reads its lease or its admission again.
End(s) ==
  /\ session' = [session EXCEPT ![s].state = "closed"]
  /\ claim' = [b \in Batches |-> IF Held(b, s) THEN Released(claim[b]) ELSE claim[b]]
  /\ admission' = [admission EXCEPT ![s] = "none"]

Fenced(s, f) == session' = [session EXCEPT ![s].fence = f]

-----------------------------------------------------------------------------
(* Sessions                                                                *)

Register(s) ==
  /\ session[s].state = "absent"
  /\ \E f \in 1..MaxFence :
       /\ Allocate(f)
       /\ session' = [session EXCEPT ![s] = [state |-> "active", fence |-> f]]
  /\ claim' = Reaped
  /\ UNCHANGED <<lapsed, epoch, managed, admission>>

\* Recovery by the holder of the old token, and the authorized takeover,
\* which do the same to the registry: an expired or quarantined session
\* becomes active again under a new token and fence, and keeps its claims.
Recover(s) ==
  /\ session[s].state \in {"active", "quarantined"}
  /\ EpochIsActive
  /\ \E f \in 1..MaxFence :
       /\ Allocate(f)
       /\ session' = [session EXCEPT ![s] = [state |-> "active", fence |-> f]]
       /\ claim' = Refenced(claim, s, f)
  /\ lapsed' = lapsed \ {s}
  /\ Supersede(s)
  /\ UNCHANGED <<epoch, managed>>

\* A heartbeat, a snapshot, a handoff or a memory entry: the lease goes on
\* and the revision rises.
Touch(s) ==
  /\ Leased(s)
  /\ Supersede(s)
  /\ UNCHANGED <<session, lapsed, claim, epoch, managed, nextFence>>

Close(s) ==
  /\ Leased(s)
  /\ End(s)
  /\ UNCHANGED <<lapsed, epoch, managed, nextFence>>

\* An admission to restart: at most one that has not expired.
MintAdmission(s) ==
  /\ Leased(s)
  /\ EpochIsActive
  /\ admission[s] = "none"
  /\ admission' = [admission EXCEPT ![s] = "current"]
  /\ UNCHANGED <<session, lapsed, claim, epoch, managed, nextFence>>

\* The restarted process consumes it: the session and its claims end.
ConsumeAdmission(s) ==
  /\ Leased(s)
  /\ EpochIsActive
  /\ admission[s] = "current"
  /\ End(s)
  /\ UNCHANGED <<lapsed, epoch, managed, nextFence>>

\* Time passes: an admission of the present revision does not outlive the lease.
LeaseLapses(s) ==
  /\ Leased(s) \/ (session[s].state = "quarantined" /\ s \notin lapsed)
  /\ lapsed' = lapsed \cup {s}
  /\ admission' = [admission EXCEPT ![s] = IF @ = "current" THEN "none" ELSE @]
  /\ UNCHANGED <<session, claim, epoch, managed, nextFence>>

AdmissionLapses(s) ==
  /\ admission[s] # "none"
  /\ admission' = [admission EXCEPT ![s] = "none"]
  /\ UNCHANGED <<session, lapsed, claim, epoch, managed, nextFence>>

-----------------------------------------------------------------------------
(* Claims and managed mutations                                            *)

\* Defect: only claims of single files are compared.
DisjointFiles(cs, scope) ==
  \A b \in Batches : cs[b].state \in {"active", "marked"} => cs[b].paths \cap scope = {}

\* assertNoPersistedOverlap, over the claims of every session.
Disjoint(cs, scope) ==
  \A b \in Batches : cs[b].state \in {"active", "marked"} => cs[b].scope \cap scope = {}

\* assertAcceptedBaselines: a managed path starts from what this epoch has
\* accepted, another one from the repository.
Baselined(paths, base) ==
  \A p \in paths : managed[p] # NoRow =>
                     managed[p].epoch = epoch.num /\ managed[p].hash = base[p]

\* Defect: a released claim no longer counts.
OutrunByLive(s) ==
  \E b \in Batches : Live(b) /\ claim[b].by # s /\ claim[b].fence >= session[s].fence

\* maximumForeignClaimFence: someone's claim, released or not, is as new.
Outrun(s) ==
  \E b \in Batches : claim[b].by \notin {None, s} /\ claim[b].fence >= session[s].fence

Batch(s, scope, paths, whole, op, f, base) ==
  [state |-> "active", by |-> s, scope |-> scope, paths |-> paths, whole |-> whole,
   fence |-> f, epoch |-> epoch.num, op |-> op, opFence |-> f, base |-> base]

\* A batch of claims: of paths, of trees (which name no path), of the build
\* or of the repository; `op` is "claimed" for a managed operation.
Claim(s, b, scope, paths, whole, op, base) ==
  /\ Leased(s)
  /\ EpochIsActive
  /\ claim[b].state = "unused"
  /\ whole => scope = Units /\ paths = {}
  /\ \A p \in Paths : p \notin paths \/ op = "none" => base[p] = Absent
  /\ op = "claimed" => Baselined(paths, base)
  /\ Disjoint(Reaped, scope)
  /\ \E f \in 1..MaxFence :
       /\ IF Outrun(s) THEN Allocate(f) ELSE f = session[s].fence /\ UNCHANGED nextFence
       /\ Fenced(s, f)
       /\ claim' = [Refenced(Reaped, s, f) EXCEPT
                      ![b] = Batch(s, scope, paths, whole, op, f, base)]
  /\ Supersede(s)
  /\ UNCHANGED <<lapsed, epoch, managed>>

\* The operation of the batch was claimed under the session's present fence.
Completable(b, s) ==
  /\ Leased(s)
  /\ EpochIsActive
  /\ Owned(b, s)
  /\ claim[b].op = "claimed"
  /\ claim[b].opFence = session[s].fence

\* A footprint that fits: the files in `changed` were rewritten or removed.
\* What is accepted is `afterSha256 ?? baseline`, so a removed file is
\* accepted with the content it had, unless a repository operation removed it.
Accepted(b, changed, after, p) ==
  IF p \in changed /\ (after[p] # Absent \/ claim[b].whole) THEN after[p] ELSE claim[b].base[p]

Complete(s, b) ==
  /\ Completable(b, s)
  /\ \E changed \in SUBSET (IF claim[b].whole THEN Paths ELSE claim[b].paths) :
       \E after \in [changed -> Contents] :
         managed' = [p \in Paths |->
           IF p \in (IF claim[b].whole THEN changed ELSE claim[b].paths)
           THEN [hash |-> Accepted(b, changed, after, p), epoch |-> epoch.num]
           ELSE managed[p]]
  /\ claim' = [claim EXCEPT ![b] = Released(@)]
  /\ Supersede(s)
  /\ UNCHANGED <<session, lapsed, epoch, nextFence>>

\* The session and the epoch are quarantined together.  A later quarantine
\* takes the place of an earlier one, with a recovery that is under way.
QuarantineBy(s, b) ==
  /\ claim' = [claim EXCEPT ![b] = Marked(@)]
  /\ epoch' = [epoch EXCEPT !.state = "quarantined", !.owner = s,
                            !.fence = session[s].fence, !.scanned = FALSE]
  /\ session' = [session EXCEPT ![s].state = "quarantined"]
  /\ Supersede(s)
  /\ UNCHANGED <<lapsed, managed, nextFence>>

\* completeManagedMutation with a footprint that does not fit.
CompleteMismatched(s, b) == Completable(b, s) /\ QuarantineBy(s, b)

\* quarantineCoordinationClaims: it asks for the number of the epoch, not for
\* its state.
Quarantine(s, b) ==
  /\ Leased(s)
  /\ Owned(b, s)
  /\ claim[b].epoch = epoch.num
  /\ QuarantineBy(s, b)

ReleaseClaims(s, b) ==
  /\ Leased(s)
  /\ Owned(b, s)
  /\ claim' = [claim EXCEPT ![b] = Released(@)]
  /\ Supersede(s)
  /\ UNCHANGED <<session, lapsed, epoch, managed, nextFence>>

MarkClaims(s, b) ==
  /\ Leased(s)
  /\ Owned(b, s)
  /\ claim' = [claim EXCEPT ![b] = Marked(@)]
  /\ Supersede(s)
  /\ UNCHANGED <<session, lapsed, epoch, managed, nextFence>>

-----------------------------------------------------------------------------
(* Recovery of a quarantined epoch                                         *)

\* requireQuarantinedEpochOwner.
OwnerIsFenced ==
  /\ epoch.state = "quarantined"
  /\ session[epoch.owner].fence = epoch.fence
  /\ \/ session[epoch.owner].state = "quarantined"
     \/ session[epoch.owner].state = "active" /\ epoch.owner \in lapsed

\* The successor records its scan of the worktree.
ReconcileEpoch(s) ==
  /\ Leased(s)
  /\ OwnerIsFenced
  /\ epoch' = [epoch EXCEPT !.scanned = TRUE]
  /\ Supersede(s)
  /\ UNCHANGED <<session, lapsed, claim, managed, nextFence>>

\* Defect: a marked claim is not in the way.
OnlyOwnersActive(cs) ==
  \A b \in Batches : cs[b].state = "active" /\ cs[b].epoch = epoch.num
                       => cs[b].by = epoch.owner

\* No claim of the epoch is left to anyone but its owner.
OnlyOwnersClaims(cs) ==
  \A b \in Batches : cs[b].state \in {"active", "marked"} /\ cs[b].epoch = epoch.num
                       => cs[b].by = epoch.owner

\* Defect: the proof of the recovery is kept.
NextEpochWithProof == [epoch EXCEPT !.num = @ + 1, !.state = "active", !.owner = None]

NextEpoch == [num |-> epoch.num + 1, state |-> "active", owner |-> None,
              fence |-> 0, scanned |-> FALSE]

\* The owner and its claims are retired, the epoch and the successor move on.
\* The successor's own claims keep the fence they have.
RecoverEpoch(s) ==
  /\ Leased(s)
  /\ OwnerIsFenced
  /\ epoch.scanned
  /\ OnlyOwnersClaims(Reaped)
  /\ claim' = [b \in Batches |->
       IF Reaped[b].by = epoch.owner /\ Reaped[b].epoch = epoch.num
            /\ Reaped[b].state \in {"active", "marked"}
       THEN Released(claim[b]) ELSE Reaped[b]]
  /\ epoch' = NextEpoch
  /\ \E f \in 1..MaxFence :
       /\ Allocate(f)
       /\ session' = [session EXCEPT ![epoch.owner].state = "closed", ![s].fence = f]
  /\ admission' = [admission EXCEPT ![s] = IF @ = "current" THEN "superseded" ELSE @,
                                    ![epoch.owner] = "none"]
  /\ lapsed' = lapsed \ {epoch.owner}
  /\ UNCHANGED managed

-----------------------------------------------------------------------------
Next ==
  \E s \in Sessions :
    \/ Register(s) \/ Recover(s) \/ Touch(s) \/ Close(s)
    \/ MintAdmission(s) \/ ConsumeAdmission(s) \/ LeaseLapses(s) \/ AdmissionLapses(s)
    \/ ReconcileEpoch(s) \/ RecoverEpoch(s)
    \/ \E b \in Batches :
         \/ \E scope \in SUBSET Units \ {{}}, whole \in BOOLEAN, op \in {"none", "claimed"} :
              \E paths \in SUBSET (scope \cap Paths), base \in [Paths -> Contents] :
                Claim(s, b, scope, paths, whole, op, base)
         \/ Complete(s, b) \/ CompleteMismatched(s, b) \/ Quarantine(s, b)
         \/ ReleaseClaims(s, b) \/ MarkClaims(s, b)

Spec == Init /\ [][Next]_vars

-----------------------------------------------------------------------------
(* Properties                                                              *)

\* A quarantined epoch can be recovered: its owner stays quarantined under
\* the fence the quarantine recorded, whoever else is quarantined, recovers,
\* is taken over or lapses meanwhile; and no live claim is of another epoch.
QuarantineKeepsItsOwner ==
  /\ epoch.state = "quarantined" =>
       /\ session[epoch.owner].state = "quarantined"
       /\ session[epoch.owner].fence = epoch.fence
  /\ \A b \in Batches : Live(b) => claim[b].epoch = epoch.num

\* No lost update: while a managed operation holds its claims, nobody else
\* moves the accepted content its paths had when it took them.
BaselineIsAccepted ==
  \A b \in Batches : Live(b) /\ claim[b].op = "claimed" =>
    \A p \in claim[b].paths : managed[p] # NoRow =>
      managed[p].hash = claim[b].base[p] /\ managed[p].epoch = epoch.num

\* The sessions whose lease runs, and who has a claim of such a state on u.
Working == {s \in Sessions : session[s].state = "active" /\ s \notin lapsed}
Tokens(u, states) ==
  {<<claim[b].by, claim[b].fence>> :
     b \in {d \in Batches : claim[d].state \in states /\ u \in claim[d].scope}}

\* For each path and for the build the registry is a lock with leases and
\* fencing tokens: a unit has one holder, who loses it by its own act or when
\* its lease is over, whose token outruns every earlier one, and without whom
\* no accepted content moves; though claims come in batches, fences belong to
\* sessions and whole epochs are recovered.
Contract == INSTANCE FencingContract WITH
  lease <- Working,
  hold <- [u \in Units |-> Tokens(u, {"active", "marked"})],
  gone <- [u \in Units |-> Tokens(u, {"released"})],
  value <- managed

ImplementsContract == Contract!ContractSpec

=============================================================================
