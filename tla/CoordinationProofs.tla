------------------------- MODULE CoordinationProofs -------------------------
(***************************************************************************)
(* Proofs about Coordination for every set of sessions, claim keys, units  *)
(* and contents, and every number of fences.                               *)
(***************************************************************************)
EXTENDS Coordination, TLAPS

-----------------------------------------------------------------------------
(* The inductive invariant. *)

\* What was never claimed excludes nobody.
UnusedAreFresh == \A b \in Batches : claim[b].state = "unused" => claim[b] = Unused

\* The counter of the worktree is above every fence in use, so the next one
\* outranks all of them.
FencesBelow ==
  /\ nextFence >= 1
  /\ \A s \in Sessions : session[s].fence < nextFence
  /\ \A b \in Batches : claim[b].fence < nextFence

\* Nobody works under an old claim: live claims are disjoint and carry the
\* fence of a session that goes on, and a live claim has a higher fence
\* than any claim, released ones included, that another session ever took on
\* the same files, though leases expire, sessions are taken over and claims
\* are refenced in any order.
LiveClaimIsNewest ==
  \A b \in Batches : Live(b) =>
    /\ session[claim[b].by].state \in {"active", "quarantined"}
    /\ claim[b].fence = session[claim[b].by].fence
    /\ \A d \in Batches \ {b} : claim[d].scope \cap claim[b].scope # {} =>
         /\ ~Live(d)
         /\ claim[d].by # claim[b].by => claim[d].fence < claim[b].fence

CInv ==
  /\ CoordinationTypeOK
  /\ UnusedAreFresh
  /\ FencesBelow
  /\ LiveClaimIsNewest
  /\ QuarantineKeepsItsOwner
  /\ BaselineIsAccepted

-----------------------------------------------------------------------------
(* What retiring a batch keeps, and what no batch can lose. *)

\* The claims, one by one: well-formed, and fresh while unused.
ClaimFits(c) ==
  /\ c \in Claims
  /\ c.state # "unused" => c.by \in Sessions
  /\ c.paths \subseteq c.scope
  /\ c.whole => c.scope = Units
  /\ c.state = "unused" => c = Unused

IsLive(c) == c.state \in {"active", "marked"}

\* c becomes d: nothing changes, or it is marked or released.
Retires(c, d) ==
  \/ d = c
  \/ IsLive(c) /\ (d = Released(c) \/ d = Marked(c))

\* What is left of a batch that may have been retired.
Leaves(c, d) ==
  /\ ClaimFits(d)
  /\ d.by = c.by /\ d.scope = c.scope /\ d.fence = c.fence /\ d.epoch = c.epoch
  /\ IsLive(d) => IsLive(c)
  /\ IsLive(d) /\ d.op = "claimed" => d = c

LEMMA RetiredFacts ==
  ASSUME NEW c, ClaimFits(c), IsLive(c), NEW st \in {"marked", "released"}
  PROVE  /\ ClaimFits(Retired(c, st))
         /\ Retired(c, st).state = st /\ Retired(c, st).op = "none"
         /\ Retired(c, st).by = c.by /\ Retired(c, st).scope = c.scope
         /\ Retired(c, st).fence = c.fence /\ Retired(c, st).epoch = c.epoch
<1> DEFINE d == Retired(c, st)
<1>1. c \in Claims /\ c.by \in Sessions
  BY DEF ClaimFits, IsLive
<1>2. d = [state |-> st, by |-> c.by, scope |-> c.scope, paths |-> {}, whole |-> FALSE,
           fence |-> c.fence, epoch |-> c.epoch, op |-> "none", opFence |-> 0, base |-> NoBase]
  BY DEF Retired
<1>3. NoBase \in [Paths -> Contents]
  BY DEF NoBase, Contents
<1>4. d \in Claims
  BY <1>1, <1>2, <1>3 DEF Claims
<1> QED BY <1>1, <1>2, <1>4 DEF ClaimFits

LEMMA RetiresLeaves ==
  ASSUME NEW c, ClaimFits(c), NEW d, Retires(c, d)
  PROVE  Leaves(c, d)
<1>1. CASE d = c
  BY <1>1 DEF Leaves
<1>2. CASE IsLive(c) /\ d = Released(c)
  <2>1. ClaimFits(d) /\ d.state = "released"
    BY <1>2, RetiredFacts DEF Released
  <2> QED BY <1>2, <2>1, RetiredFacts DEF Leaves, Released, IsLive
<1>3. CASE IsLive(c) /\ d = Marked(c)
  <2>1. ClaimFits(d) /\ d.op = "none"
    BY <1>3, RetiredFacts DEF Marked
  <2> QED BY <1>3, <2>1, RetiredFacts DEF Leaves, Marked, IsLive
<1> QED BY <1>1, <1>2, <1>3 DEF Retires

\* The claims of the registry fit, one by one.
ClaimsFit == claim \in [Batches -> Claims] /\ \A b \in Batches : ClaimFits(claim[b])

LEMMA FitsOne ==
  ASSUME CoordinationTypeOK, UnusedAreFresh
  PROVE  ClaimsFit
BY DEF CoordinationTypeOK, UnusedAreFresh, ClaimsFit, ClaimFits

LEMMA FitsAll ==
  ASSUME ClaimsFit
  PROVE  /\ UnusedAreFresh
         /\ \A b \in Batches :
              /\ claim[b].state # "unused" => claim[b].by \in Sessions
              /\ claim[b].paths \subseteq claim[b].scope
              /\ claim[b].whole => claim[b].scope = Units
BY DEF UnusedAreFresh, ClaimsFit, ClaimFits

\* Every batch stays, or is retired.
Retiring ==
  /\ claim' = [b \in Batches |-> claim'[b]]
  /\ \A b \in Batches : Retires(claim[b], claim'[b])

\* A session that still has live claims goes on under its fence.
OwnersGoOn ==
  \A b \in Batches : IsLive(claim'[b]) =>
    /\ session'[claim[b].by].state \in {"active", "quarantined"}
    /\ session'[claim[b].by].fence = session[claim[b].by].fence

LEMMA RetiringKeeps ==
  ASSUME CInv, Retiring, OwnersGoOn
  PROVE  ClaimsFit' /\ LiveClaimIsNewest'
<1>1. ClaimsFit
  BY FitsOne DEF CInv
<1>2. \A b \in Batches : Leaves(claim[b], claim'[b])
  BY <1>1, RetiresLeaves DEF ClaimsFit, Retiring
<1>3. ClaimsFit'
  <2>1. \A b \in Batches : ClaimFits(claim'[b]) /\ claim'[b] \in Claims
    BY <1>2 DEF Leaves, ClaimFits
  <2> QED BY <2>1 DEF Retiring, ClaimsFit
<1>4. LiveClaimIsNewest'
  <2> SUFFICES ASSUME NEW b \in Batches, IsLive(claim'[b])
               PROVE  /\ session'[claim'[b].by].state \in {"active", "quarantined"}
                      /\ claim'[b].fence = session'[claim'[b].by].fence
                      /\ \A d \in Batches \ {b} : claim'[d].scope \cap claim'[b].scope # {} =>
                           /\ ~IsLive(claim'[d])
                           /\ claim'[d].by # claim'[b].by => claim'[d].fence < claim'[b].fence
    BY DEF LiveClaimIsNewest, Live, IsLive
  <2>1. Live(b)
    BY <1>2 DEF Leaves, Live, IsLive
  <2>2. /\ session'[claim'[b].by].state \in {"active", "quarantined"}
        /\ claim'[b].fence = session'[claim'[b].by].fence
    BY <1>2, <2>1 DEF CInv, LiveClaimIsNewest, OwnersGoOn, Leaves
  <2>3. ASSUME NEW d \in Batches \ {b}, claim'[d].scope \cap claim'[b].scope # {}
        PROVE  /\ ~IsLive(claim'[d])
               /\ claim'[d].by # claim'[b].by => claim'[d].fence < claim'[b].fence
    <3>1. claim[d].scope \cap claim[b].scope # {}
      BY <1>2, <2>3 DEF Leaves
    <3>2. /\ ~Live(d)
          /\ claim[d].by # claim[b].by => claim[d].fence < claim[b].fence
      BY <2>1, <3>1 DEF CInv, LiveClaimIsNewest
    <3> QED BY <1>2, <3>2 DEF Leaves, Live, IsLive
  <2> QED BY <2>2, <2>3
<1> QED BY <1>3, <1>4

\* Accepted content that no managed operation relies on may move.
LEMMA BaselinesKeep ==
  ASSUME CInv, Retiring, epoch'.num = epoch.num,
         \A b \in Batches : IsLive(claim'[b]) =>
           \A p \in claim[b].paths : managed'[p] = managed[p]
  PROVE  BaselineIsAccepted'
<1>1. ClaimsFit
  BY FitsOne DEF CInv
<1>2. \A b \in Batches : Leaves(claim[b], claim'[b])
  BY <1>1, RetiresLeaves DEF ClaimsFit, Retiring
<1> SUFFICES ASSUME NEW b \in Batches, IsLive(claim'[b]), claim'[b].op = "claimed",
                    NEW p \in claim'[b].paths, managed'[p] # NoRow
             PROVE  managed'[p].hash = claim'[b].base[p] /\ managed'[p].epoch = epoch'.num
  BY DEF BaselineIsAccepted, Live, IsLive
<1>3. claim'[b] = claim[b] /\ Live(b)
  BY <1>2 DEF Leaves, Live, IsLive
<1>4. managed'[p] = managed[p]
  BY <1>3
<1> QED BY <1>3, <1>4 DEF CInv, BaselineIsAccepted

\* The quarantine and the epoch of the claims, when neither ends.
LEMMA OwnerKeeps ==
  ASSUME CInv, Retiring, epoch'.num = epoch.num,
         epoch'.state = "quarantined" =>
           /\ session'[epoch'.owner].state = "quarantined"
           /\ session'[epoch'.owner].fence = epoch'.fence
  PROVE  QuarantineKeepsItsOwner'
<1>1. ClaimsFit
  BY FitsOne DEF CInv
<1>2. \A b \in Batches : Leaves(claim[b], claim'[b])
  BY <1>1, RetiresLeaves DEF ClaimsFit, Retiring
<1>3. ASSUME NEW b \in Batches, IsLive(claim'[b])
      PROVE  claim'[b].epoch = epoch'.num
  BY <1>2, <1>3 DEF Leaves, CInv, QuarantineKeepsItsOwner, Live, IsLive
<1> QED BY <1>3 DEF QuarantineKeepsItsOwner, Live, IsLive

\* The fence of every batch stays below the counter.
LEMMA FencesKeep ==
  ASSUME CInv, Retiring, nextFence' \in Nat, nextFence' >= nextFence,
         \A s \in Sessions : session'[s].fence < nextFence'
  PROVE  FencesBelow'
<1>1. ClaimsFit
  BY FitsOne DEF CInv
<1>2. \A b \in Batches : claim'[b].fence = claim[b].fence /\ claim[b].fence \in Nat
  BY <1>1, RetiresLeaves DEF ClaimsFit, ClaimFits, Claims, Retiring, Leaves
<1>3. nextFence \in Nat
  BY DEF CInv, CoordinationTypeOK
<1>4. ASSUME NEW b \in Batches PROVE claim'[b].fence < nextFence'
  BY <1>2, <1>3 DEF CInv, FencesBelow
<1> QED BY <1>3, <1>4 DEF CInv, FencesBelow

\* The fence a session is given is new: nobody has it, nobody has a higher one.
LEMMA AllocatedIsAbove ==
  ASSUME CInv, NEW f \in Nat, Allocate(f)
  PROVE  /\ f = nextFence /\ nextFence' = f + 1 /\ nextFence' \in Nat /\ f >= 1
         /\ \A s \in Sessions : session[s].fence < f
         /\ \A b \in Batches : claim[b].fence < f
<1>1. /\ nextFence \in Nat
      /\ \A s \in Sessions : session[s].fence \in Nat
      /\ \A b \in Batches : claim[b].fence \in Nat
  BY DEF CInv, CoordinationTypeOK, SessionRows, Claims
<1>2. \A g \in Seen : g <= nextFence
  BY <1>1 DEF Seen, CInv, FencesBelow
<1>3. nextFence <= f /\ f <= nextFence
  BY <1>2 DEF Allocate, Seen
<1>4. f = nextFence
  BY <1>1, <1>3
<1> QED BY <1>1, <1>4 DEF Allocate, CInv, FencesBelow

-----------------------------------------------------------------------------
(* Types: the claims fit, and so does the rest. *)

Admissions == {"none", "current", "superseded"}

RestFits ==
  /\ session \in [Sessions -> SessionRows]
  /\ lapsed \subseteq Sessions
  /\ epoch \in EpochRows
  /\ managed \in [Paths -> PathRows]
  /\ nextFence \in Nat
  /\ admission \in [Sessions -> Admissions]
  /\ epoch.state = "quarantined" <=> epoch.owner # None
  /\ epoch.state = "active" => ~epoch.scanned

LEMMA TypesAreFits ==
  CoordinationTypeOK => RestFits
BY DEF CoordinationTypeOK, RestFits, Admissions

LEMMA FitsAreTypes ==
  ASSUME ClaimsFit', RestFits'
  PROVE  CoordinationTypeOK' /\ UnusedAreFresh'
<1>1. UnusedAreFresh'
  BY DEF UnusedAreFresh, ClaimsFit, ClaimFits
<1>2. \A b \in Batches :
        /\ claim'[b].state # "unused" => claim'[b].by \in Sessions
        /\ claim'[b].paths \subseteq claim'[b].scope
        /\ claim'[b].whole => claim'[b].scope = Units
  BY DEF ClaimsFit, ClaimFits
<1> QED BY <1>1, <1>2 DEF CoordinationTypeOK, RestFits, Admissions, ClaimsFit

LEMMA SupersedeTypes ==
  ASSUME RestFits, NEW s \in Sessions, Supersede(s)
  PROVE  admission' \in [Sessions -> Admissions]
BY DEF RestFits, Supersede, Admissions

\* A step that moves no table of the registry but leases and admissions.
LEMMA RegistryStands ==
  ASSUME CInv, UNCHANGED <<session, claim, epoch, managed, nextFence>>,
         lapsed' \subseteq Sessions, admission' \in [Sessions -> Admissions]
  PROVE  CInv'
<1>1. CoordinationTypeOK'
  BY DEF CInv, CoordinationTypeOK, Admissions
<1>2. UnusedAreFresh' /\ FencesBelow'
  BY DEF CInv, UnusedAreFresh, FencesBelow
<1>3. LiveClaimIsNewest'
  BY DEF CInv, LiveClaimIsNewest, Live
<1>4. QuarantineKeepsItsOwner'
  BY DEF CInv, QuarantineKeepsItsOwner, Live
<1>5. BaselineIsAccepted'
  BY DEF CInv, BaselineIsAccepted, Live
<1> QED BY <1>1, <1>2, <1>3, <1>4, <1>5 DEF CInv

\* What the invariant says of the owner of a live claim.
LEMMA LiveOwner ==
  ASSUME CInv, NEW b \in Batches, Live(b)
  PROVE  /\ claim[b].by \in Sessions
         /\ session[claim[b].by].state \in {"active", "quarantined"}
         /\ claim[b].fence = session[claim[b].by].fence
         /\ Held(b, claim[b].by)
BY DEF CInv, CoordinationTypeOK, LiveClaimIsNewest, Live, Held

\* What the invariant says of the owner of a quarantine.
LEMMA QuarantineOwner ==
  ASSUME CInv, epoch.state = "quarantined"
  PROVE  /\ epoch.owner \in Sessions
         /\ session[epoch.owner].state = "quarantined"
         /\ session[epoch.owner].fence = epoch.fence
BY DEF CInv, CoordinationTypeOK, QuarantineKeepsItsOwner, EpochRows

LEMMA ReapedRetires ==
  ASSUME NEW b \in Batches
  PROVE  Retires(claim[b], Reaped[b])
BY DEF Retires, Reaped, Held, Live, IsLive

\* Only the batch b is retired.
LEMMA OneRetires ==
  ASSUME CInv, NEW b \in Batches, Live(b),
         \/ claim' = [claim EXCEPT ![b] = Released(@)]
         \/ claim' = [claim EXCEPT ![b] = Marked(@)]
  PROVE  /\ Retiring
         /\ \A d \in Batches : d # b => claim'[d] = claim[d]
         /\ claim'[b] \in {Released(claim[b]), Marked(claim[b])}
BY DEF CInv, CoordinationTypeOK, Retiring, Retires, Live, IsLive

-----------------------------------------------------------------------------
(* Sessions. *)

LEMMA RegisterKeeps ==
  ASSUME CInv, NEW s \in Sessions, Register(s)
  PROVE  CInv'
<1>1. RestFits
  BY TypesAreFits DEF CInv
<1>2. PICK f \in 1..MaxFence :
             /\ Allocate(f)
             /\ session' = [session EXCEPT ![s] = [state |-> "active", fence |-> f]]
  BY Zenon DEF Register
<1> f \in Nat
  BY CoordinationAssumption
<1>3. /\ f = nextFence /\ nextFence' = f + 1 /\ nextFence' \in Nat /\ f >= 1
      /\ \A t \in Sessions : session[t].fence < f
  BY <1>2, AllocatedIsAbove
<1>4. session' \in [Sessions -> SessionRows]
  BY <1>1, <1>2 DEF RestFits, SessionRows
<1>5. RestFits'
  BY <1>1, <1>3, <1>4 DEF RestFits, Register
<1>6. Retiring
  BY ReapedRetires DEF Register, Retiring, Reaped
<1>7. \A t \in Sessions : t # s => session'[t] = session[t]
  BY <1>1, <1>2 DEF RestFits
<1>8. OwnersGoOn
  <2> SUFFICES ASSUME NEW b \in Batches, IsLive(claim'[b])
               PROVE  session'[claim[b].by] = session[claim[b].by]
                        /\ session[claim[b].by].state \in {"active", "quarantined"}
    BY DEF OwnersGoOn
  <2>1. Live(b)
    BY <1>6, RetiresLeaves, FitsOne DEF CInv, ClaimsFit, Retiring, Leaves, Live, IsLive
  <2> QED BY <2>1, <1>7, LiveOwner DEF Register
<1>9. ClaimsFit' /\ LiveClaimIsNewest'
  BY <1>6, <1>8, RetiringKeeps
<1>10. QuarantineKeepsItsOwner'
  BY <1>6, <1>7, OwnerKeeps, QuarantineOwner DEF Register
<1>11. BaselineIsAccepted'
  BY <1>6, BaselinesKeep DEF Register
<1>12. \A t \in Sessions : session'[t].fence < nextFence'
  BY <1>1, <1>2, <1>3, <1>7 DEF RestFits, SessionRows
<1>13. FencesBelow'
  BY <1>1, <1>3, <1>6, <1>12, FencesKeep DEF RestFits
<1> QED BY <1>5, <1>9, <1>10, <1>11, <1>13, FitsAreTypes DEF CInv

LEMMA TouchKeeps ==
  ASSUME CInv, NEW s \in Sessions, Touch(s)
  PROVE  CInv'
<1>1. RestFits
  BY TypesAreFits DEF CInv
<1>2. admission' \in [Sessions -> Admissions] /\ lapsed' \subseteq Sessions
  BY <1>1, SupersedeTypes DEF Touch, RestFits
<1> QED BY <1>2, RegistryStands DEF Touch

LEMMA AdmissionsAndLeasesKeep ==
  ASSUME CInv, NEW s \in Sessions, MintAdmission(s) \/ LeaseLapses(s) \/ AdmissionLapses(s)
  PROVE  CInv'
<1>1. RestFits
  BY TypesAreFits DEF CInv
<1>2. CASE MintAdmission(s)
  <2>1. admission' \in [Sessions -> Admissions] /\ lapsed' \subseteq Sessions
    BY <1>1, <1>2 DEF MintAdmission, RestFits, Admissions
  <2> QED BY <1>2, <2>1, RegistryStands DEF MintAdmission
<1>3. CASE LeaseLapses(s)
  <2>1. admission' \in [Sessions -> Admissions] /\ lapsed' \subseteq Sessions
    BY <1>1, <1>3 DEF LeaseLapses, RestFits, Admissions
  <2> QED BY <1>3, <2>1, RegistryStands DEF LeaseLapses
<1>4. CASE AdmissionLapses(s)
  <2>1. admission' \in [Sessions -> Admissions] /\ lapsed' \subseteq Sessions
    BY <1>1, <1>4 DEF AdmissionLapses, RestFits, Admissions
  <2> QED BY <1>4, <2>1, RegistryStands DEF AdmissionLapses
<1> QED BY <1>2, <1>3, <1>4

\* A session that ends leaves no live claim behind, and owns no quarantine.
LEMMA EndKeeps ==
  ASSUME CInv, NEW s \in Sessions, Leased(s), End(s),
         UNCHANGED <<lapsed, epoch, managed, nextFence>>
  PROVE  CInv'
<1>1. RestFits
  BY TypesAreFits DEF CInv
<1>2. \A t \in Sessions : t # s => session'[t] = session[t]
  BY <1>1 DEF RestFits, End
<1>3. session'[s] = [session[s] EXCEPT !.state = "closed"] /\ session[s] \in SessionRows
  BY <1>1 DEF RestFits, End
<1>4. session'[s] \in SessionRows /\ session'[s].fence = session[s].fence
  BY <1>3 DEF SessionRows
<1>5. session' \in [Sessions -> SessionRows]
  BY <1>1, <1>4 DEF RestFits, End
<1>6. RestFits'
  BY <1>1, <1>5 DEF RestFits, End, Admissions
<1>7. Retiring
  BY DEF End, Retiring, Retires, Held, Live, IsLive
<1>8. OwnersGoOn
  <2> SUFFICES ASSUME NEW b \in Batches, IsLive(claim'[b])
               PROVE  session'[claim[b].by] = session[claim[b].by]
                        /\ session[claim[b].by].state \in {"active", "quarantined"}
    BY DEF OwnersGoOn
  <2>1. Live(b)
    BY <1>7, RetiresLeaves, FitsOne DEF CInv, ClaimsFit, Retiring, Leaves, Live, IsLive
  <2>2. claim[b].by # s
    BY <2>1, LiveOwner DEF End, Released, Retired, IsLive
  <2> QED BY <2>1, <2>2, <1>2, LiveOwner
<1>9. ClaimsFit' /\ LiveClaimIsNewest'
  BY <1>7, <1>8, RetiringKeeps
<1>10. QuarantineKeepsItsOwner'
  BY <1>2, <1>7, OwnerKeeps, QuarantineOwner DEF Leased
<1>11. BaselineIsAccepted'
  BY <1>7, BaselinesKeep
<1>12. \A t \in Sessions : session'[t].fence < nextFence'
  BY <1>2, <1>4 DEF CInv, FencesBelow
<1>13. FencesBelow'
  BY <1>1, <1>7, <1>12, FencesKeep DEF RestFits
<1> QED BY <1>6, <1>9, <1>10, <1>11, <1>13, FitsAreTypes DEF CInv

-----------------------------------------------------------------------------
(* Claims that follow the fence of their session. *)

\* c under the fence f, or under its own.
Follows(c, d, f) ==
  /\ ClaimFits(d)
  /\ d.state = c.state /\ d.by = c.by /\ d.scope = c.scope /\ d.paths = c.paths
  /\ d.epoch = c.epoch /\ d.op = c.op /\ d.base = c.base
  /\ d.fence \in {c.fence, f}

LEMMA FollowsItself ==
  ASSUME NEW c, ClaimFits(c), NEW f \in Nat
  PROVE  Follows(c, c, f)
BY DEF Follows

LEMMA RefencedFollows ==
  ASSUME NEW c, ClaimFits(c), IsLive(c), NEW f \in Nat
  PROVE  /\ Follows(c, [c EXCEPT !.fence = f], f)
         /\ [c EXCEPT !.fence = f].fence = f
<1> DEFINE d == [c EXCEPT !.fence = f]
<1>1. c \in Claims /\ c.state # "unused"
  BY DEF ClaimFits, IsLive
<1>2. d \in Claims /\ d.fence = f
  BY <1>1 DEF Claims
<1>3. /\ d.state = c.state /\ d.by = c.by /\ d.scope = c.scope /\ d.paths = c.paths
      /\ d.epoch = c.epoch /\ d.op = c.op /\ d.base = c.base /\ d.whole = c.whole
  BY <1>1 DEF Claims
<1>4. ClaimFits(d)
  BY <1>1, <1>2, <1>3 DEF ClaimFits
<1> QED BY <1>2, <1>3, <1>4 DEF Follows

\* Session s goes on under the fence f, and its claims with it.
Mine(c, s) == IsLive(c) /\ c.by = s /\ c.fence = session[s].fence

LEMMA RefencedFacts ==
  ASSUME NEW cs, NEW s \in Sessions, NEW f \in Nat, NEW b \in Batches, ClaimFits(cs[b])
  PROVE  /\ Follows(cs[b], Refenced(cs, s, f)[b], f)
         /\ Mine(cs[b], s) => Refenced(cs, s, f)[b].fence = f
         /\ ~Mine(cs[b], s) => Refenced(cs, s, f)[b] = cs[b]
<1>1. CASE Mine(cs[b], s)
  <2>1. Refenced(cs, s, f)[b] = [cs[b] EXCEPT !.fence = f]
    BY <1>1 DEF Refenced, Mine, IsLive
  <2> QED BY <1>1, <2>1, RefencedFollows DEF Mine
<1>2. CASE ~Mine(cs[b], s)
  <2>1. Refenced(cs, s, f)[b] = cs[b]
    BY <1>2 DEF Refenced, Mine, IsLive
  <2> QED BY <1>2, <2>1, FollowsItself
<1> QED BY <1>1, <1>2

LEMMA RecoverKeeps ==
  ASSUME CInv, NEW s \in Sessions, Recover(s)
  PROVE  CInv'
<1>1. RestFits
  BY TypesAreFits DEF CInv
<1>2. PICK f \in 1..MaxFence :
             /\ Allocate(f)
             /\ session' = [session EXCEPT ![s] = [state |-> "active", fence |-> f]]
             /\ claim' = Refenced(claim, s, f)
  BY Zenon DEF Recover
<1> f \in Nat
  BY CoordinationAssumption
<1>3. /\ f = nextFence /\ nextFence' = f + 1 /\ nextFence' \in Nat /\ f >= 1
      /\ \A t \in Sessions : session[t].fence < f
      /\ \A b \in Batches : claim[b].fence < f
  BY <1>2, AllocatedIsAbove
<1>4. session' \in [Sessions -> SessionRows]
  BY <1>1, <1>2 DEF RestFits, SessionRows
<1>5. RestFits'
  <2>1. admission' \in [Sessions -> Admissions]
    BY <1>1, SupersedeTypes DEF Recover
  <2> QED BY <1>1, <1>3, <1>4, <2>1 DEF RestFits, Recover
<1>6. \A t \in Sessions : t # s => session'[t] = session[t]
  BY <1>1, <1>2 DEF RestFits
<1>7. session'[s].state = "active" /\ session'[s].fence = f
  BY <1>1, <1>2 DEF RestFits
<1>8. ClaimsFit
  BY FitsOne DEF CInv
<1>9. ASSUME NEW b \in Batches
      PROVE  /\ Follows(claim[b], claim'[b], f)
             /\ Mine(claim[b], s) => claim'[b].fence = f
             /\ ~Mine(claim[b], s) => claim'[b] = claim[b]
  BY <1>2, <1>8, RefencedFacts DEF ClaimsFit
<1>10. ClaimsFit'
  <2>1. claim' = [b \in Batches |-> claim'[b]]
    BY <1>2 DEF Refenced
  <2> QED BY <1>9, <2>1 DEF ClaimsFit, Follows, ClaimFits
<1>11. LiveClaimIsNewest'
  <2> SUFFICES ASSUME NEW b \in Batches, IsLive(claim'[b])
               PROVE  /\ session'[claim'[b].by].state \in {"active", "quarantined"}
                      /\ claim'[b].fence = session'[claim'[b].by].fence
                      /\ \A d \in Batches \ {b} : claim'[d].scope \cap claim'[b].scope # {} =>
                           /\ ~IsLive(claim'[d])
                           /\ claim'[d].by # claim'[b].by => claim'[d].fence < claim'[b].fence
    BY DEF LiveClaimIsNewest, Live, IsLive
  <2>1. Live(b) /\ claim'[b].by = claim[b].by /\ claim'[b].scope = claim[b].scope
    BY <1>9 DEF Follows, Live, IsLive
  <2>2. /\ claim[b].by \in Sessions
        /\ session[claim[b].by].state \in {"active", "quarantined"}
        /\ claim[b].fence = session[claim[b].by].fence
    BY <2>1, LiveOwner
  <2>3. Mine(claim[b], s) <=> claim[b].by = s
    BY <2>1, <2>2 DEF Mine, Live, IsLive
  <2>4. /\ session'[claim'[b].by].state \in {"active", "quarantined"}
        /\ claim'[b].fence = session'[claim'[b].by].fence
    BY <1>6, <1>7, <1>9, <2>1, <2>2, <2>3
  <2>5. ASSUME NEW d \in Batches \ {b}, claim'[d].scope \cap claim'[b].scope # {}
        PROVE  /\ ~IsLive(claim'[d])
               /\ claim'[d].by # claim'[b].by => claim'[d].fence < claim'[b].fence
    <3>1. claim[d].scope \cap claim[b].scope # {}
      BY <1>9, <2>1, <2>5 DEF Follows
    <3>2. /\ ~Live(d)
          /\ claim[d].by # claim[b].by => claim[d].fence < claim[b].fence
      BY <2>1, <3>1 DEF CInv, LiveClaimIsNewest
    <3>3. claim'[d] = claim[d]
      BY <1>9, <3>2 DEF Mine, Live, IsLive
    <3>4. claim'[b].fence \in {claim[b].fence, f}
      BY <1>9 DEF Follows
    <3> QED BY <1>3, <2>1, <3>2, <3>3, <3>4 DEF Live, IsLive
  <2> QED BY <2>4, <2>5
<1>12. QuarantineKeepsItsOwner'
  BY <1>9 DEF CInv, QuarantineKeepsItsOwner, Recover, EpochIsActive, Live, IsLive, Follows
<1>13. BaselineIsAccepted'
  BY <1>9 DEF CInv, BaselineIsAccepted, Recover, Live, IsLive, Follows
<1>14. FencesBelow'
  <2>1. \A t \in Sessions : session'[t].fence < nextFence'
    BY <1>1, <1>3, <1>6, <1>7 DEF RestFits, SessionRows
  <2>2. ASSUME NEW b \in Batches PROVE claim'[b].fence < nextFence'
    <3>1. claim'[b].fence \in {claim[b].fence, f} /\ claim[b].fence < f
      BY <1>3, <1>9 DEF Follows
    <3>2. claim[b].fence \in Nat
      BY <1>8 DEF ClaimsFit, Claims
    <3> QED BY <1>3, <3>1, <3>2
  <2> QED BY <1>3, <2>1, <2>2 DEF FencesBelow
<1> QED BY <1>5, <1>10, <1>11, <1>12, <1>13, <1>14, FitsAreTypes DEF CInv

-----------------------------------------------------------------------------
(* A new batch. *)

\* The fence of the batch: at least the session's, and above every foreign claim.
LEMMA ClaimFence ==
  ASSUME CInv, NEW s \in Sessions, NEW f \in Nat,
         IF Outrun(s) THEN Allocate(f) ELSE f = session[s].fence /\ UNCHANGED nextFence
  PROVE  /\ session[s].fence <= f /\ f < nextFence' /\ nextFence' \in Nat
         /\ nextFence' >= nextFence
         /\ \A e \in Batches : claim[e].by \notin {None, s} => claim[e].fence < f
<1>1. /\ nextFence \in Nat
      /\ \A t \in Sessions : session[t].fence \in Nat
      /\ \A e \in Batches : claim[e].fence \in Nat
  BY DEF CInv, CoordinationTypeOK, SessionRows, Claims
<1>2. CASE Outrun(s)
  BY <1>1, <1>2, AllocatedIsAbove
<1>3. CASE ~Outrun(s)
  BY <1>1, <1>3 DEF Outrun, CInv, FencesBelow
<1> QED BY <1>2, <1>3

LEMMA ClaimKeeps ==
  ASSUME CInv, NEW s \in Sessions, NEW b \in Batches,
         NEW scope \in SUBSET Units, NEW whole \in BOOLEAN, NEW op \in {"none", "claimed"},
         NEW paths \in SUBSET (scope \cap Paths), NEW base \in [Paths -> Contents],
         Claim(s, b, scope, paths, whole, op, base)
  PROVE  CInv'
<1>1. RestFits /\ ClaimsFit
  BY TypesAreFits, FitsOne DEF CInv
<1> DEFINE R == Reaped
<1>2. PICK f \in 1..MaxFence :
             /\ IF Outrun(s) THEN Allocate(f) ELSE f = session[s].fence /\ UNCHANGED nextFence
             /\ Fenced(s, f)
             /\ claim' = [Refenced(R, s, f) EXCEPT
                            ![b] = Batch(s, scope, paths, whole, op, f, base)]
  BY Zenon DEF Claim
<1> f \in Nat
  BY CoordinationAssumption
<1>3. /\ session[s].fence <= f /\ f < nextFence' /\ nextFence' \in Nat /\ nextFence' >= nextFence
      /\ \A e \in Batches : claim[e].by \notin {None, s} => claim[e].fence < f
  BY <1>2, ClaimFence
<1>4. /\ session[s].state = "active" /\ epoch.state = "active" /\ claim[b].state = "unused"
      /\ whole => scope = Units
      /\ op = "claimed" => Baselined(paths, base)
      /\ Disjoint(R, scope)
      /\ UNCHANGED <<lapsed, epoch, managed>>
  BY DEF Claim, Leased, EpochIsActive
<1>5. /\ session' \in [Sessions -> SessionRows]
      /\ session'[s].state = "active" /\ session'[s].fence = f
      /\ \A t \in Sessions : t # s => session'[t] = session[t]
  <2>1. session[s] \in SessionRows
    BY <1>1 DEF RestFits
  <2>2. [session[s] EXCEPT !.fence = f] \in SessionRows
    BY <2>1 DEF SessionRows
  <2>3. session'[s] = [session[s] EXCEPT !.fence = f]
    BY <1>1, <1>2 DEF RestFits, Fenced
  <2>4. session'[s].state = "active" /\ session'[s].fence = f
    BY <1>4, <2>1, <2>3 DEF SessionRows
  <2> QED BY <1>1, <1>2, <2>2, <2>4 DEF RestFits, Fenced
<1>6. RestFits'
  <2>1. admission' \in [Sessions -> Admissions]
    BY <1>1, SupersedeTypes DEF Claim
  <2> QED BY <1>1, <1>3, <1>4, <1>5, <2>1 DEF RestFits
<1> DEFINE new == Batch(s, scope, paths, whole, op, f, base)
<1>7. /\ new.state = "active" /\ new.by = s /\ new.scope = scope /\ new.paths = paths
      /\ new.fence = f /\ new.epoch = epoch.num /\ new.op = op /\ new.base = base
      /\ ClaimFits(new)
  <2>1. epoch.num \in Nat
    BY <1>1 DEF RestFits, EpochRows
  <2>2. new \in Claims
    BY <2>1 DEF Batch, Claims
  <2> QED BY <1>4, <2>2 DEF Batch, ClaimFits
<1> HIDE DEF new
<1>8. ASSUME NEW e \in Batches PROVE Leaves(claim[e], R[e])
  BY <1>1, ReapedRetires, RetiresLeaves DEF ClaimsFit
<1> HIDE DEF R
<1>9. ASSUME NEW e \in Batches, e # b
      PROVE  /\ Follows(R[e], claim'[e], f)
             /\ Mine(R[e], s) => claim'[e].fence = f
             /\ ~Mine(R[e], s) => claim'[e] = R[e]
  <2>1. claim'[e] = Refenced(R, s, f)[e]
    BY <1>2, <1>9 DEF Refenced
  <2>2. ClaimFits(R[e])
    BY <1>8 DEF Leaves
  <2> QED BY <2>1, <2>2, RefencedFacts
<1>10. claim'[b] = new
  BY <1>2 DEF Refenced, new
<1>11. ClaimsFit'
  <2>1. claim' = [e \in Batches |-> claim'[e]]
    BY <1>2 DEF Refenced
  <2>2. \A e \in Batches : ClaimFits(claim'[e])
    BY <1>7, <1>9, <1>10 DEF Follows
  <2> QED BY <2>1, <2>2 DEF ClaimsFit, ClaimFits
<1>12. ASSUME NEW e \in Batches, e # b, IsLive(claim'[e])
       PROVE  /\ Live(e) /\ IsLive(R[e])
              /\ claim'[e].by = claim[e].by /\ claim'[e].scope = claim[e].scope
              /\ claim'[e].epoch = claim[e].epoch
              /\ claim'[e].op = "claimed" =>
                   /\ claim[e].op = "claimed" /\ claim'[e].base = claim[e].base
                   /\ claim'[e].paths = claim[e].paths
              /\ claim'[e].scope \cap scope = {}
  <2>1. IsLive(R[e])
    BY <1>9, <1>12 DEF Follows, IsLive
  <2>2. claim'[e].op = "claimed" => R[e] = claim[e]
    BY <1>8, <1>9, <1>12, <2>1 DEF Follows, Leaves
  <2> QED BY <1>4, <1>8, <1>9, <1>12, <2>1, <2>2 DEF Follows, Leaves, Disjoint, IsLive, Live
<1>13. LiveClaimIsNewest'
  <2> SUFFICES ASSUME NEW x \in Batches, IsLive(claim'[x])
               PROVE  /\ session'[claim'[x].by].state \in {"active", "quarantined"}
                      /\ claim'[x].fence = session'[claim'[x].by].fence
                      /\ \A d \in Batches \ {x} : claim'[d].scope \cap claim'[x].scope # {} =>
                           /\ ~IsLive(claim'[d])
                           /\ claim'[d].by # claim'[x].by => claim'[d].fence < claim'[x].fence
    BY DEF LiveClaimIsNewest, Live, IsLive
  <2>1. CASE x = b
    <3>1. ASSUME NEW d \in Batches \ {b}, claim'[d].scope \cap scope # {}
          PROVE  /\ ~IsLive(claim'[d])
                 /\ claim'[d].by # s => claim'[d].fence < f
      <4>1. ~IsLive(claim'[d])
        BY <1>12, <3>1
      <4>2. ~IsLive(R[d])
        BY <1>9, <4>1 DEF Follows, IsLive
      <4>3. claim'[d] = R[d]
        BY <1>9, <4>2 DEF Mine
      <4>4. claim'[d].by = claim[d].by /\ claim'[d].fence = claim[d].fence
              /\ claim'[d].scope = claim[d].scope
        BY <1>8, <4>3 DEF Leaves
      <4>5. claim[d].by # None
        BY <1>1, <3>1, <4>4, CoordinationAssumption DEF ClaimsFit, ClaimFits, Unused
      <4> QED BY <1>3, <4>1, <4>4, <4>5
    <3> QED BY <1>5, <1>7, <1>10, <2>1, <3>1
  <2>2. CASE x # b
    <3>1. /\ Live(x) /\ IsLive(R[x])
          /\ claim'[x].by = claim[x].by /\ claim'[x].scope = claim[x].scope
          /\ claim'[x].scope \cap scope = {}
      BY <1>12, <2>2
    <3>2. /\ claim[x].by \in Sessions
          /\ session[claim[x].by].state \in {"active", "quarantined"}
          /\ claim[x].fence = session[claim[x].by].fence
      BY <3>1, LiveOwner
    <3>3. R[x].by = claim[x].by /\ R[x].fence = claim[x].fence
      BY <1>8 DEF Leaves
    <3>4. claim'[x].fence = IF claim[x].by = s THEN f ELSE claim[x].fence
      BY <1>9, <2>2, <3>1, <3>2, <3>3 DEF Mine
    <3>5. /\ session'[claim'[x].by].state \in {"active", "quarantined"}
          /\ claim'[x].fence = session'[claim'[x].by].fence
      BY <1>5, <3>1, <3>2, <3>4
    <3>6. ASSUME NEW d \in Batches \ {x}, claim'[d].scope \cap claim'[x].scope # {}
          PROVE  /\ ~IsLive(claim'[d])
                 /\ claim'[d].by # claim'[x].by => claim'[d].fence < claim'[x].fence
      <4>1. d # b
        BY <1>7, <1>10, <3>1, <3>6
      <4>2. /\ R[d].by = claim[d].by /\ R[d].fence = claim[d].fence
            /\ R[d].scope = claim[d].scope /\ (IsLive(R[d]) => Live(d))
        BY <1>8 DEF Leaves, Live, IsLive
      <4>3. claim[d].scope \cap claim[x].scope # {}
        BY <1>9, <3>1, <3>6, <4>1, <4>2 DEF Follows
      <4>4. /\ ~Live(d)
            /\ claim[d].by # claim[x].by => claim[d].fence < claim[x].fence
        BY <3>1, <4>3 DEF CInv, LiveClaimIsNewest
      <4>5. claim'[d] = R[d] /\ ~IsLive(R[d])
        BY <1>9, <4>1, <4>2, <4>4 DEF Mine
      <4>6. claim[d].fence \in Nat /\ claim[x].fence \in Nat
        BY <1>1 DEF ClaimsFit, Claims
      <4> QED BY <1>3, <3>1, <3>2, <3>4, <4>2, <4>4, <4>5, <4>6
    <3> QED BY <3>5, <3>6
  <2> QED BY <2>1, <2>2
<1>14. QuarantineKeepsItsOwner'
  <2>1. ASSUME NEW x \in Batches, IsLive(claim'[x]) PROVE claim'[x].epoch = epoch.num
    BY <1>7, <1>10, <1>12, <2>1 DEF CInv, QuarantineKeepsItsOwner
  <2> QED BY <1>4, <2>1 DEF QuarantineKeepsItsOwner, Live, IsLive
<1>15. BaselineIsAccepted'
  <2> SUFFICES ASSUME NEW x \in Batches, IsLive(claim'[x]), claim'[x].op = "claimed",
                      NEW p \in claim'[x].paths, managed[p] # NoRow
               PROVE  managed[p].hash = claim'[x].base[p] /\ managed[p].epoch = epoch.num
    BY <1>4 DEF BaselineIsAccepted, Live, IsLive
  <2>1. CASE x = b
    BY <1>4, <1>7, <1>10, <2>1 DEF Baselined
  <2>2. CASE x # b
    BY <1>12, <2>2 DEF CInv, BaselineIsAccepted
  <2> QED BY <2>1, <2>2
<1>16. FencesBelow'
  <2>1. /\ nextFence \in Nat /\ nextFence >= 1
        /\ \A t \in Sessions : session[t].fence \in Nat /\ session[t].fence < nextFence
        /\ \A e \in Batches : claim[e].fence \in Nat /\ claim[e].fence < nextFence
    BY <1>1 DEF RestFits, ClaimsFit, SessionRows, Claims, CInv, FencesBelow
  <2>2. ASSUME NEW t \in Sessions PROVE session'[t].fence < nextFence'
    BY <1>3, <1>5, <2>1
  <2>3. ASSUME NEW e \in Batches PROVE claim'[e].fence < nextFence'
    <3>1. claim'[e].fence \in {claim[e].fence, f}
      BY <1>7, <1>8, <1>9, <1>10 DEF Follows, Leaves
    <3> QED BY <1>3, <2>1, <3>1
  <2> QED BY <1>3, <2>1, <2>2, <2>3 DEF FencesBelow
<1> QED BY <1>6, <1>11, <1>13, <1>14, <1>15, <1>16, FitsAreTypes DEF CInv

-----------------------------------------------------------------------------
(* Batches that end, and quarantines. *)

\* A batch of the session is retired; the sessions, the epoch and the fences stand.
LEMMA RetireKeeps ==
  ASSUME CInv, NEW s \in Sessions, NEW b \in Batches, Owned(b, s), Supersede(s),
         \/ claim' = [claim EXCEPT ![b] = Released(@)]
         \/ claim' = [claim EXCEPT ![b] = Marked(@)],
         UNCHANGED <<session, lapsed, epoch, nextFence>>,
         managed' \in [Paths -> PathRows],
         \A d \in Batches : d # b /\ Live(d) => \A p \in claim[d].paths : managed'[p] = managed[p],
         IsLive(claim'[b]) => UNCHANGED managed
  PROVE  CInv'
<1>1. RestFits
  BY TypesAreFits DEF CInv
<1>2. RestFits'
  <2>1. admission' \in [Sessions -> Admissions]
    BY <1>1, SupersedeTypes
  <2> QED BY <1>1, <2>1 DEF RestFits
<1>3. Live(b)
  BY DEF Owned, Held
<1>4. Retiring /\ \A d \in Batches : d # b => claim'[d] = claim[d]
  BY <1>3, OneRetires
<1>5. ASSUME NEW d \in Batches, IsLive(claim'[d]) PROVE Live(d)
  BY <1>3, <1>4, <1>5 DEF Live, IsLive
<1>6. OwnersGoOn
  BY <1>5, LiveOwner DEF OwnersGoOn
<1>7. ClaimsFit' /\ LiveClaimIsNewest'
  BY <1>4, <1>6, RetiringKeeps
<1>8. QuarantineKeepsItsOwner'
  BY <1>4, OwnerKeeps, QuarantineOwner
<1>9. \A d \in Batches : IsLive(claim'[d]) => \A p \in claim[d].paths : managed'[p] = managed[p]
  BY <1>5
<1>10. BaselineIsAccepted'
  BY <1>4, <1>9, BaselinesKeep
<1>11. FencesBelow'
  BY <1>1, <1>4, FencesKeep DEF RestFits, CInv, FencesBelow
<1> QED BY <1>2, <1>7, <1>8, <1>10, <1>11, FitsAreTypes DEF CInv

LEMMA ReleaseAndMarkKeep ==
  ASSUME CInv, NEW s \in Sessions, NEW b \in Batches, ReleaseClaims(s, b) \/ MarkClaims(s, b)
  PROVE  CInv'
<1>1. managed' = managed /\ managed' \in [Paths -> PathRows]
  BY DEF ReleaseClaims, MarkClaims, CInv, CoordinationTypeOK
<1> QED BY <1>1, RetireKeeps DEF ReleaseClaims, MarkClaims

\* A completion moves the accepted content of its own paths: no other live
\* claim has one of them.
LEMMA CompleteKeeps ==
  ASSUME CInv, NEW s \in Sessions, NEW b \in Batches, Complete(s, b)
  PROVE  CInv'
<1>1. RestFits /\ ClaimsFit
  BY TypesAreFits, FitsOne DEF CInv
<1>2. Owned(b, s) /\ Live(b)
  BY DEF Complete, Completable, Owned, Held
<1> DEFINE Names == IF claim[b].whole THEN Paths ELSE claim[b].paths
<1> DEFINE Moved(changed, after) ==
             [p \in Paths |-> IF p \in (IF claim[b].whole THEN changed ELSE claim[b].paths)
                              THEN [hash |-> Accepted(b, changed, after, p), epoch |-> epoch.num]
                              ELSE managed[p]]
<1>3. PICK changed \in SUBSET Names :
        \E after \in [changed -> Contents] : managed' = Moved(changed, after)
  BY Zenon DEF Complete
<1>4. PICK after \in [changed -> Contents] : managed' = Moved(changed, after)
  BY <1>3
<1>5. ASSUME NEW p \in Paths PROVE Accepted(b, changed, after, p) \in Contents
  <2>1. claim[b].base[p] \in Contents
    BY <1>1 DEF ClaimsFit, Claims
  <2> QED BY <2>1 DEF Accepted
<1>6. managed' \in [Paths -> PathRows]
  <2>1. epoch.num \in Nat /\ managed \in [Paths -> PathRows]
    BY <1>1 DEF RestFits, EpochRows
  <2>2. ASSUME NEW p \in Paths
        PROVE  [hash |-> Accepted(b, changed, after, p), epoch |-> epoch.num] \in PathRows
    BY <1>5, <2>1 DEF PathRows
  <2> QED BY <1>4, <2>1, <2>2
<1>7. /\ claim[b].paths \subseteq claim[b].scope
      /\ claim[b].whole => claim[b].scope = Units
  BY <1>1 DEF ClaimsFit, ClaimFits
<1>8. ASSUME NEW d \in Batches, d # b, Live(d), NEW p \in claim[d].paths
      PROVE  managed'[p] = managed[p]
  <2>1. p \in claim[d].scope /\ p \in Paths
    BY <1>1, <1>8 DEF ClaimsFit, ClaimFits, Claims
  <2>2. claim[d].scope \cap claim[b].scope = {}
    BY <1>2, <1>8 DEF CInv, LiveClaimIsNewest
  <2>3. p \in Units
    BY <2>1, CoordinationAssumption
  <2>4. ~claim[b].whole /\ p \notin claim[b].paths
    BY <1>7, <2>1, <2>2, <2>3
  <2> QED BY <1>4, <2>1, <2>4
<1>9. claim'[b] = Released(claim[b]) /\ ~IsLive(claim'[b])
  BY <1>1 DEF Complete, ClaimsFit, Released, Retired, IsLive
<1> QED BY <1>2, <1>6, <1>8, <1>9, RetireKeeps DEF Complete

\* The owner of a new quarantine is the session that is quarantined with it.
LEMMA QuarantineKeeps ==
  ASSUME CInv, NEW s \in Sessions, NEW b \in Batches, Owned(b, s), Leased(s), QuarantineBy(s, b)
  PROVE  CInv'
<1>1. RestFits
  BY TypesAreFits DEF CInv
<1>2. Live(b)
  BY DEF Owned, Held
<1>3. Retiring /\ \A d \in Batches : d # b => claim'[d] = claim[d]
  BY <1>2, OneRetires DEF QuarantineBy
<1>4. /\ session' \in [Sessions -> SessionRows]
      /\ session'[s].state = "quarantined"
      /\ \A t \in Sessions : session'[t].fence = session[t].fence
      /\ \A t \in Sessions : t # s => session'[t] = session[t]
  <2>1. session[s] \in SessionRows
    BY <1>1 DEF RestFits
  <2>2. [session[s] EXCEPT !.state = "quarantined"] \in SessionRows
    BY <2>1 DEF SessionRows
  <2>3. session'[s] = [session[s] EXCEPT !.state = "quarantined"]
    BY <1>1 DEF RestFits, QuarantineBy
  <2>4. session'[s].state = "quarantined" /\ session'[s].fence = session[s].fence
    BY <2>1, <2>3 DEF SessionRows
  <2>5. \A t \in Sessions : t # s => session'[t] = session[t]
    BY <1>1 DEF RestFits, QuarantineBy
  <2> QED BY <1>1, <2>2, <2>4, <2>5 DEF RestFits, QuarantineBy
<1>5. /\ epoch' \in EpochRows
      /\ epoch'.num = epoch.num /\ epoch'.state = "quarantined" /\ epoch'.owner = s
      /\ epoch'.fence = session[s].fence
  <2>1. epoch \in EpochRows /\ session[s].fence \in Nat
    BY <1>1 DEF RestFits, SessionRows
  <2> QED BY <2>1 DEF QuarantineBy, EpochRows
<1>6. RestFits'
  <2>1. admission' \in [Sessions -> Admissions]
    BY <1>1, SupersedeTypes DEF QuarantineBy
  <2>2. s # None
    BY CoordinationAssumption
  <2> QED BY <1>1, <1>4, <1>5, <2>1, <2>2 DEF RestFits, QuarantineBy
<1>7. OwnersGoOn
  <2> SUFFICES ASSUME NEW d \in Batches, IsLive(claim'[d])
               PROVE  /\ session'[claim[d].by].state \in {"active", "quarantined"}
                      /\ session'[claim[d].by].fence = session[claim[d].by].fence
    BY DEF OwnersGoOn
  <2>1. Live(d)
    BY <1>2, <1>3 DEF Live, IsLive
  <2> QED BY <1>4, <2>1, LiveOwner
<1>8. ClaimsFit' /\ LiveClaimIsNewest'
  BY <1>3, <1>7, RetiringKeeps
<1>9. QuarantineKeepsItsOwner'
  BY <1>3, <1>4, <1>5, OwnerKeeps
<1>10. BaselineIsAccepted'
  BY <1>3, <1>5, BaselinesKeep DEF QuarantineBy
<1>11. FencesBelow'
  BY <1>1, <1>3, <1>4, FencesKeep DEF QuarantineBy, RestFits, CInv, FencesBelow
<1> QED BY <1>6, <1>8, <1>9, <1>10, <1>11, FitsAreTypes DEF CInv

-----------------------------------------------------------------------------
(* Recovery of the epoch. *)

LEMMA ReconcileKeeps ==
  ASSUME CInv, NEW s \in Sessions, ReconcileEpoch(s)
  PROVE  CInv'
<1>1. RestFits /\ ClaimsFit
  BY TypesAreFits, FitsOne DEF CInv
<1>2. epoch.state = "quarantined"
  BY DEF ReconcileEpoch, OwnerIsFenced
<1>3. /\ epoch' \in EpochRows
      /\ epoch'.num = epoch.num /\ epoch'.state = epoch.state /\ epoch'.owner = epoch.owner
      /\ epoch'.fence = epoch.fence
  BY <1>1 DEF ReconcileEpoch, RestFits, EpochRows
<1>4. RestFits'
  <2>1. admission' \in [Sessions -> Admissions]
    BY <1>1, SupersedeTypes DEF ReconcileEpoch
  <2> QED BY <1>1, <1>2, <1>3, <2>1 DEF RestFits, ReconcileEpoch
<1>5. Retiring
  BY <1>1 DEF Retiring, Retires, ReconcileEpoch, ClaimsFit
<1>6. ClaimsFit' /\ UnusedAreFresh' /\ FencesBelow'
  BY <1>1 DEF ClaimsFit, ReconcileEpoch, CInv, UnusedAreFresh, FencesBelow
<1>7. LiveClaimIsNewest'
  BY DEF CInv, LiveClaimIsNewest, Live, ReconcileEpoch
<1>8. QuarantineKeepsItsOwner'
  BY <1>3, <1>5, OwnerKeeps, QuarantineOwner DEF ReconcileEpoch
<1>9. BaselineIsAccepted'
  BY <1>3, <1>5, BaselinesKeep DEF ReconcileEpoch
<1> QED BY <1>4, <1>6, <1>7, <1>8, <1>9, FitsAreTypes DEF CInv

\* No claim survives the epoch it was taken in.
LEMMA RecoverEpochKeeps ==
  ASSUME CInv, NEW s \in Sessions, RecoverEpoch(s)
  PROVE  CInv'
<1>1. RestFits /\ ClaimsFit
  BY TypesAreFits, FitsOne DEF CInv
<1> DEFINE R == Reaped
<1> DEFINE o == epoch.owner
<1>2. PICK f \in 1..MaxFence :
        /\ Allocate(f)
        /\ session' = [session EXCEPT ![o].state = "closed", ![s].fence = f]
  BY Zenon DEF RecoverEpoch
<1> f \in Nat
  BY CoordinationAssumption
<1>3. /\ f = nextFence /\ nextFence' = f + 1 /\ nextFence' \in Nat /\ f >= 1
      /\ \A t \in Sessions : session[t].fence < f
  BY <1>2, AllocatedIsAbove
<1>4. /\ epoch.state = "quarantined" /\ o \in Sessions
      /\ session[o].state = "quarantined" /\ session[s].state = "active" /\ o # s
  BY QuarantineOwner DEF RecoverEpoch, OwnerIsFenced, Leased
<1>5. ASSUME NEW e \in Batches
      PROVE  /\ Leaves(claim[e], R[e])
             /\ IsLive(R[e]) => R[e].by = o /\ R[e].epoch = epoch.num
  <2>1. Leaves(claim[e], R[e])
    BY <1>1, ReapedRetires, RetiresLeaves DEF ClaimsFit
  <2>2. IsLive(R[e]) => R[e].epoch = epoch.num
    BY <2>1 DEF Leaves, CInv, QuarantineKeepsItsOwner, Live, IsLive
  <2> QED BY <2>1, <2>2 DEF RecoverEpoch, OnlyOwnersClaims, IsLive
<1>6. claim' = [e \in Batches |-> IF R[e].by = o /\ R[e].epoch = epoch.num /\ IsLive(R[e])
                                  THEN Released(claim[e]) ELSE R[e]]
  BY DEF RecoverEpoch, IsLive
<1>7. \A e \in Batches : Retires(claim[e], R[e])
  BY ReapedRetires
<1> HIDE DEF R
<1>8. ASSUME NEW e \in Batches PROVE ~IsLive(claim'[e])
  BY <1>5, <1>6 DEF Released, Retired, IsLive
<1>9. Retiring
  <2>1. claim' = [e \in Batches |-> claim'[e]]
    BY <1>6
  <2>2. ASSUME NEW e \in Batches PROVE Retires(claim[e], claim'[e])
    <3>1. CASE R[e].by = o /\ R[e].epoch = epoch.num /\ IsLive(R[e])
      <4>1. claim'[e] = Released(claim[e]) /\ IsLive(claim[e])
        BY <1>5, <1>6, <3>1 DEF Leaves
      <4> QED BY <4>1 DEF Retires
    <3>2. CASE ~(R[e].by = o /\ R[e].epoch = epoch.num /\ IsLive(R[e]))
      <4>1. claim'[e] = R[e]
        BY <1>6, <3>2
      <4> QED BY <1>7, <4>1
    <3> QED BY <3>1, <3>2
  <2> QED BY <2>1, <2>2 DEF Retiring
<1>10. OwnersGoOn
  BY <1>8 DEF OwnersGoOn
<1>11. ClaimsFit' /\ LiveClaimIsNewest'
  BY <1>9, <1>10, RetiringKeeps
<1>12. /\ epoch' \in EpochRows
       /\ epoch'.state = "active" /\ epoch'.owner = None /\ ~epoch'.scanned
  BY <1>1 DEF RecoverEpoch, NextEpoch, RestFits, EpochRows
<1>13. /\ session' \in [Sessions -> SessionRows]
       /\ session'[s].fence = f /\ session'[o].fence = session[o].fence
       /\ \A t \in Sessions : t # s /\ t # o => session'[t] = session[t]
  <2>1. session[s] \in SessionRows /\ session[o] \in SessionRows
    BY <1>1, <1>4 DEF RestFits
  <2>2. /\ session'[s] = [session[s] EXCEPT !.fence = f]
        /\ session'[o] = [session[o] EXCEPT !.state = "closed"]
        /\ \A t \in Sessions : t # s /\ t # o => session'[t] = session[t]
        /\ session' = [t \in Sessions |-> session'[t]]
    BY <1>1, <1>2, <1>4 DEF RestFits
  <2>3. session'[s] \in SessionRows /\ session'[o] \in SessionRows
    BY <2>1, <2>2 DEF SessionRows
  <2>4. session'[s].fence = f /\ session'[o].fence = session[o].fence
    BY <2>1, <2>2 DEF SessionRows
  <2>5. \A t \in Sessions : session'[t] \in SessionRows
    BY <1>1, <2>2, <2>3 DEF RestFits
  <2> QED BY <2>2, <2>4, <2>5
<1>14. RestFits'
  <2>1. admission' \in [Sessions -> Admissions]
    BY <1>1, <1>4 DEF RecoverEpoch, RestFits, Admissions
  <2>2. lapsed' \subseteq Sessions /\ managed' \in [Paths -> PathRows]
    BY <1>1 DEF RecoverEpoch, RestFits
  <2> QED BY <1>3, <1>12, <1>13, <2>1, <2>2 DEF RestFits
<1>15. QuarantineKeepsItsOwner'
  BY <1>8, <1>12 DEF QuarantineKeepsItsOwner, Live, IsLive
<1>16. BaselineIsAccepted'
  BY <1>8 DEF BaselineIsAccepted, Live, IsLive
<1>17. \A t \in Sessions : session'[t].fence < nextFence'
  <2>1. \A t \in Sessions : session[t].fence \in Nat
    BY <1>1 DEF RestFits, SessionRows
  <2> QED BY <1>3, <1>13, <2>1
<1>18. FencesBelow'
  BY <1>1, <1>3, <1>9, <1>17, FencesKeep DEF RestFits
<1> QED BY <1>11, <1>14, <1>15, <1>16, <1>18, FitsAreTypes DEF CInv

-----------------------------------------------------------------------------
(* The theorems. *)

LEMMA InitHolds ==
  Init => CInv
<1> SUFFICES ASSUME Init PROVE CInv
  OBVIOUS
<1>1. NoBase \in [Paths -> Contents]
  BY DEF NoBase, Contents
<1>2. Unused \in Claims
  BY <1>1 DEF Unused, Claims
<1>3. NoRow \in PathRows /\ Nobody \in SessionRows
  BY DEF NoRow, PathRows, Contents, Nobody, SessionRows
<1>4. CoordinationTypeOK
  <2>1. /\ Unused.state = "unused" /\ Unused.paths = {} /\ ~Unused.whole
    BY DEF Unused
  <2> QED BY <1>2, <1>3, <2>1 DEF Init, CoordinationTypeOK, EpochRows
<1>5. UnusedAreFresh
  BY DEF Init, UnusedAreFresh
<1>6. FencesBelow
  BY DEF Init, FencesBelow, Nobody, Unused
<1>7. \A b \in Batches : ~Live(b)
  BY DEF Init, Live, Unused
<1>8. QuarantineKeepsItsOwner
  BY <1>7 DEF Init, QuarantineKeepsItsOwner
<1> QED BY <1>4, <1>5, <1>6, <1>7, <1>8 DEF CInv, LiveClaimIsNewest, BaselineIsAccepted

LEMMA StepKeeps ==
  CInv /\ [Next]_vars => CInv'
<1> SUFFICES ASSUME CInv, [Next]_vars PROVE CInv'
  OBVIOUS
<1>1. CASE UNCHANGED vars
  BY <1>1, RegistryStands, TypesAreFits DEF vars, CInv, RestFits
<1>2. CASE Next
  <2>1. PICK s \in Sessions :
          \/ Register(s) \/ Recover(s) \/ Touch(s) \/ Close(s)
          \/ MintAdmission(s) \/ ConsumeAdmission(s) \/ LeaseLapses(s) \/ AdmissionLapses(s)
          \/ ReconcileEpoch(s) \/ RecoverEpoch(s)
          \/ \E b \in Batches :
               \/ \E scope \in SUBSET Units \ {{}}, whole \in BOOLEAN,
                     op \in {"none", "claimed"} :
                    \E paths \in SUBSET (scope \cap Paths), base \in [Paths -> Contents] :
                      Claim(s, b, scope, paths, whole, op, base)
               \/ Complete(s, b) \/ CompleteMismatched(s, b) \/ Quarantine(s, b)
               \/ ReleaseClaims(s, b) \/ MarkClaims(s, b)
    BY <1>2, Zenon DEF Next
  <2>2. CASE Register(s) \/ Recover(s) \/ Touch(s)
    BY <2>2, RegisterKeeps, RecoverKeeps, TouchKeeps
  <2>3. CASE Close(s) \/ ConsumeAdmission(s)
    BY <2>3, EndKeeps DEF Close, ConsumeAdmission
  <2>4. CASE MintAdmission(s) \/ LeaseLapses(s) \/ AdmissionLapses(s)
    BY <2>4, AdmissionsAndLeasesKeep
  <2>5. CASE ReconcileEpoch(s) \/ RecoverEpoch(s)
    BY <2>5, ReconcileKeeps, RecoverEpochKeeps
  <2>6. ASSUME NEW b \in Batches,
               \E scope \in SUBSET Units \ {{}}, whole \in BOOLEAN, op \in {"none", "claimed"} :
                 \E paths \in SUBSET (scope \cap Paths), base \in [Paths -> Contents] :
                   Claim(s, b, scope, paths, whole, op, base)
        PROVE  CInv'
    <3>1. PICK scope \in SUBSET Units, whole \in BOOLEAN, op \in {"none", "claimed"} :
            \E paths \in SUBSET (scope \cap Paths), base \in [Paths -> Contents] :
              Claim(s, b, scope, paths, whole, op, base)
      BY <2>6, Zenon
    <3>2. PICK paths \in SUBSET (scope \cap Paths), base \in [Paths -> Contents] :
            Claim(s, b, scope, paths, whole, op, base)
      BY <3>1, Zenon
    <3> QED BY <3>2, ClaimKeeps, Zenon
  <2>7. ASSUME NEW b \in Batches, Complete(s, b) PROVE CInv'
    BY <2>7, CompleteKeeps
  <2>8. ASSUME NEW b \in Batches, CompleteMismatched(s, b) \/ Quarantine(s, b) PROVE CInv'
    BY <2>8, QuarantineKeeps DEF CompleteMismatched, Completable, Quarantine
  <2>9. ASSUME NEW b \in Batches, ReleaseClaims(s, b) \/ MarkClaims(s, b) PROVE CInv'
    BY <2>9, ReleaseAndMarkKeep
  <2> QED BY <2>1, <2>2, <2>3, <2>4, <2>5, <2>6, <2>7, <2>8, <2>9, Zenon
<1> QED BY <1>1, <1>2

LEMMA InvariantHolds ==
  Spec => []CInv
BY InitHolds, StepKeeps, PTL DEF Spec

\* Every operation keeps every table in its shape, and the triggers on the
\* epoch never have to refuse.
THEOREM CoordinationTypes ==
  Spec => []CoordinationTypeOK
<1>1. CInv => CoordinationTypeOK
  BY DEF CInv
<1> QED BY <1>1, InvariantHolds, PTL

\* A live claim has the highest fence ever taken on its files, and its
\* session goes on under that fence.
THEOREM NewestClaimIsLive ==
  Spec => []LiveClaimIsNewest
<1>1. CInv => LiveClaimIsNewest
  BY DEF CInv
<1> QED BY <1>1, InvariantHolds, PTL

\* A quarantine names a session that is quarantined under the recorded fence
\* until the epoch is recovered, and no claim survives its epoch.
THEOREM QuarantineIsRecoverable ==
  Spec => []QuarantineKeepsItsOwner
<1>1. CInv => QuarantineKeepsItsOwner
  BY DEF CInv
<1> QED BY <1>1, InvariantHolds, PTL

\* What a managed operation saw of its paths is still what is accepted.
THEOREM BaselinesStand ==
  Spec => []BaselineIsAccepted
<1>1. CInv => BaselineIsAccepted
  BY DEF CInv
<1> QED BY <1>1, InvariantHolds, PTL

-----------------------------------------------------------------------------
(* The contract: what one step does to the batches and to each unit. *)

\* Session s lets go of the batch c, or finds its holder without a lease; c
\* keeps its fence; s goes on with it under a higher one; s takes it.
Loses(c, d, s, lease) ==
  /\ IsLive(c) /\ d.state = "released"
  /\ d.by = c.by /\ d.scope = c.scope /\ d.fence = c.fence
  /\ c.by = s \/ c.by \notin lease
Stays(c, d) ==
  /\ IsLive(c) <=> IsLive(d)
  /\ c.state = "released" <=> d.state = "released"
  /\ d.by = c.by /\ d.scope = c.scope /\ d.fence = c.fence
Rises(c, d, s) ==
  /\ IsLive(c) /\ IsLive(d)
  /\ c.by = s /\ d.by = s /\ d.scope = c.scope /\ c.fence < d.fence
Begins(c, d, s, lease) ==
  c.state = "unused" /\ IsLive(d) /\ d.by = s /\ s \in lease

Moves(c, d, s, lease) ==
  Loses(c, d, s, lease) \/ Stays(c, d) \/ Rises(c, d, s) \/ Begins(c, d, s, lease)

\* The tokens of the batches cs on the unit u.
On(cs, u, states) == {b \in Batches : cs[b].state \in states /\ u \in cs[b].scope}
Toks(cs, u, states) == {<<cs[b].by, cs[b].fence>> : b \in On(cs, u, states)}

\* One live batch at most, with a fence above what others gave up.
Single(cs, u) ==
  \A b, e \in Batches : IsLive(cs[b]) /\ u \in cs[b].scope /\ u \in cs[e].scope /\ b # e =>
    ~IsLive(cs[e]) /\ (cs[e].by # cs[b].by => cs[e].fence < cs[b].fence)

LivesIn == {"active", "marked"}

LEMMA OneToken ==
  ASSUME NEW cs, NEW u, Single(cs, u), NEW b \in Batches, IsLive(cs[b]), u \in cs[b].scope
  PROVE  Toks(cs, u, LivesIn) = {<<cs[b].by, cs[b].fence>>}
BY DEF Toks, On, Single, LivesIn, IsLive

LEMMA NoToken ==
  ASSUME NEW cs, NEW u, \A b \in Batches : IsLive(cs[b]) => u \notin cs[b].scope
  PROVE  Toks(cs, u, LivesIn) = {}
BY DEF Toks, On, LivesIn, IsLive

\* Only what lets go of u adds to the tokens of the past.
LEMMA GoneTokens ==
  ASSUME NEW cs, NEW ds, NEW s, NEW lease, NEW u, Single(cs, u),
         \A b \in Batches : Moves(cs[b], ds[b], s, lease)
  PROVE  /\ \A b \in Batches : Loses(cs[b], ds[b], s, lease) /\ u \in cs[b].scope =>
              Toks(ds, u, {"released"}) = Toks(cs, u, {"released"}) \cup {<<cs[b].by, cs[b].fence>>}
         /\ (\A b \in Batches : Loses(cs[b], ds[b], s, lease) => u \notin cs[b].scope) =>
              Toks(ds, u, {"released"}) = Toks(cs, u, {"released"})
<1>1. \A e \in On(cs, u, {"released"}) :
        /\ e \in On(ds, u, {"released"})
        /\ ds[e].by = cs[e].by /\ ds[e].fence = cs[e].fence
  BY DEF On, Moves, Loses, Stays, Rises, Begins, IsLive
<1>2. \A e \in On(ds, u, {"released"}) :
        /\ ds[e].by = cs[e].by /\ ds[e].fence = cs[e].fence /\ u \in cs[e].scope
        /\ e \in On(cs, u, {"released"}) \/ Loses(cs[e], ds[e], s, lease)
  BY DEF On, Moves, Loses, Stays, Rises, Begins, IsLive
<1>3. ASSUME NEW b \in Batches, Loses(cs[b], ds[b], s, lease), u \in cs[b].scope
      PROVE  Toks(ds, u, {"released"}) = Toks(cs, u, {"released"}) \cup {<<cs[b].by, cs[b].fence>>}
  <2>1. \A e \in Batches : Loses(cs[e], ds[e], s, lease) /\ u \in cs[e].scope => e = b
    BY <1>3 DEF Single, Loses
  <2>2. b \in On(ds, u, {"released"}) /\ ds[b].by = cs[b].by /\ ds[b].fence = cs[b].fence
    BY <1>3 DEF On, Loses
  <2>3. \A e \in On(ds, u, {"released"}) : e \in On(cs, u, {"released"}) \/ e = b
    BY <1>2, <2>1 DEF On
  <2> QED BY <1>1, <1>2, <2>2, <2>3 DEF Toks
<1>4. ASSUME \A b \in Batches : Loses(cs[b], ds[b], s, lease) => u \notin cs[b].scope
      PROVE  Toks(ds, u, {"released"}) = Toks(cs, u, {"released"})
  <2>1. \A e \in On(ds, u, {"released"}) : e \in On(cs, u, {"released"})
    BY <1>2, <1>4 DEF On
  <2> QED BY <1>1, <1>2, <2>1 DEF Toks
<1> QED BY <1>3, <1>4

\* What becomes of a unit: its holder stays, is let go, is replaced by s, or
\* is s and goes on under a higher token.
UnitStep(hold, after, gone, past, s, lease) ==
  \/ after = hold /\ past = gone
  \/ \E h \in hold : (h[1] = s \/ h[1] \notin lease) /\ after = {} /\ past = gone \cup {h}
  \/ \E t \in after :
       /\ after = {t} /\ t[1] = s
       /\ \A h \in past : h[1] # s => h[2] < t[2]
       /\ s \in lease
       /\ \/ hold = {} /\ past = gone
          \/ \E h \in hold : (h[1] = s \/ h[1] \notin lease) /\ past = gone \cup {h}
  \/ \E t \in after :
       /\ after = {t} /\ t[1] = s
       /\ \A h \in gone : h[1] # s => h[2] < t[2]
       /\ \E h \in hold : h[1] = s /\ h[2] < t[2]
       /\ past = gone

LEMMA UnitMoves ==
  ASSUME NEW cs, NEW ds, NEW s, NEW lease, NEW u, Single(cs, u), Single(ds, u),
         \A b \in Batches : Moves(cs[b], ds[b], s, lease),
         \A b \in Batches : ds[b].fence \in Nat
  PROVE  UnitStep(Toks(cs, u, LivesIn), Toks(ds, u, LivesIn),
                  Toks(cs, u, {"released"}), Toks(ds, u, {"released"}), s, lease)
<1> DEFINE hold == Toks(cs, u, LivesIn)       after == Toks(ds, u, LivesIn)
           gone == Toks(cs, u, {"released"})  past  == Toks(ds, u, {"released"})
<1> SUFFICES UnitStep(hold, after, gone, past, s, lease)
  OBVIOUS
<1> HIDE DEF hold, after, gone, past
<1>a. /\ \A b \in Batches : IsLive(cs[b]) /\ u \in cs[b].scope => hold = {<<cs[b].by, cs[b].fence>>}
      /\ (\A b \in Batches : IsLive(cs[b]) => u \notin cs[b].scope) => hold = {}
      /\ \A b \in Batches : IsLive(ds[b]) /\ u \in ds[b].scope => after = {<<ds[b].by, ds[b].fence>>}
      /\ (\A b \in Batches : IsLive(ds[b]) => u \notin ds[b].scope) => after = {}
  BY OneToken, NoToken DEF hold, after
<1>b. /\ \A b \in Batches : Loses(cs[b], ds[b], s, lease) /\ u \in cs[b].scope =>
           past = gone \cup {<<cs[b].by, cs[b].fence>>}
      /\ (\A b \in Batches : Loses(cs[b], ds[b], s, lease) => u \notin cs[b].scope) => past = gone
  BY GoneTokens, SMTT(30) DEF gone, past
<1>1. ASSUME NEW b \in Batches, IsLive(cs[b]), u \in cs[b].scope, Loses(cs[b], ds[b], s, lease)
      PROVE  /\ hold = {<<cs[b].by, cs[b].fence>>}
             /\ past = gone \cup {<<cs[b].by, cs[b].fence>>}
             /\ cs[b].by = s \/ cs[b].by \notin lease
  BY <1>a, <1>b, <1>1 DEF Loses
<1>2. ASSUME NEW b \in Batches, IsLive(cs[b]), u \in cs[b].scope, ~Loses(cs[b], ds[b], s, lease)
      PROVE  hold = {<<cs[b].by, cs[b].fence>>} /\ past = gone
  <2>1. \A e \in Batches : Loses(cs[e], ds[e], s, lease) => u \notin cs[e].scope
    BY <1>2 DEF Single, Loses
  <2> QED BY <1>a, <1>b, <1>2, <2>1
<1>3. ASSUME \A b \in Batches : IsLive(cs[b]) => u \notin cs[b].scope
      PROVE  hold = {} /\ past = gone
  <2>1. \A e \in Batches : Loses(cs[e], ds[e], s, lease) => u \notin cs[e].scope
    BY <1>3 DEF Loses
  <2> QED BY <1>a, <1>b, <1>3, <2>1
<1>4. CASE \A b \in Batches : IsLive(ds[b]) => u \notin ds[b].scope
  <2>1. after = {}
    BY <1>a, <1>4
  <2>2. CASE \E b \in Batches : IsLive(cs[b]) /\ u \in cs[b].scope
    <3>1. PICK b \in Batches : IsLive(cs[b]) /\ u \in cs[b].scope
      BY <2>2
    <3>2. Loses(cs[b], ds[b], s, lease)
      BY <1>4, <3>1 DEF Moves, Stays, Rises, Begins, IsLive
    <3> QED BY <1>1, <2>1, <3>1, <3>2 DEF UnitStep
  <2>3. CASE \A b \in Batches : IsLive(cs[b]) => u \notin cs[b].scope
    BY <1>3, <2>1, <2>3 DEF UnitStep
  <2> QED BY <2>2, <2>3
<1>5. ASSUME NEW b \in Batches, IsLive(ds[b]), u \in ds[b].scope
      PROVE  /\ after = {<<ds[b].by, ds[b].fence>>}
             /\ \A h \in past : h[1] # ds[b].by => h[2] < ds[b].fence
  <2>1. after = {<<ds[b].by, ds[b].fence>>}
    BY <1>a, <1>5
  <2>2. \A e \in On(ds, u, {"released"}) : ds[e].by # ds[b].by => ds[e].fence < ds[b].fence
    BY <1>5 DEF On, Single, IsLive
  <2> QED BY <2>1, <2>2 DEF past, Toks
<1>6. ASSUME NEW b \in Batches, IsLive(ds[b]), u \in ds[b].scope, Stays(cs[b], ds[b])
      PROVE  after = hold /\ past = gone
  BY <1>2, <1>5, <1>6 DEF Stays, Loses, IsLive
<1>7. ASSUME NEW b \in Batches, IsLive(ds[b]), u \in ds[b].scope, Rises(cs[b], ds[b], s)
      PROVE  /\ after = {<<s, ds[b].fence>>} /\ past = gone
             /\ \E h \in hold : h[1] = s /\ h[2] < ds[b].fence
  <2>1. /\ IsLive(cs[b]) /\ u \in cs[b].scope /\ ~Loses(cs[b], ds[b], s, lease)
        /\ cs[b].by = s /\ ds[b].by = s /\ cs[b].fence < ds[b].fence
    BY <1>5, <1>7 DEF Rises, Loses, IsLive
  <2>2. hold = {<<s, cs[b].fence>>} /\ past = gone
    BY <1>2, <2>1
  <2>3. after = {<<s, ds[b].fence>>}
    BY <1>5, <1>7, <2>1
  <2> QED BY <2>1, <2>2, <2>3
<1>8. ASSUME NEW b \in Batches, IsLive(ds[b]), u \in ds[b].scope, Begins(cs[b], ds[b], s, lease)
      PROVE  /\ after = {<<s, ds[b].fence>>} /\ s \in lease
             /\ \/ hold = {} /\ past = gone
                \/ \E h \in hold : (h[1] = s \/ h[1] \notin lease) /\ past = gone \cup {h}
  <2>1. after = {<<s, ds[b].fence>>} /\ s \in lease
    BY <1>5, <1>8 DEF Begins
  <2>2. CASE \A e \in Batches : IsLive(cs[e]) => u \notin cs[e].scope
    BY <1>3, <2>1, <2>2
  <2>3. ASSUME NEW e \in Batches, IsLive(cs[e]), u \in cs[e].scope
        PROVE  Loses(cs[e], ds[e], s, lease)
    <3>1. e # b
      BY <1>8, <2>3 DEF Begins, IsLive
    <3>2. u \in ds[e].scope => ~IsLive(ds[e])
      BY <1>8, <3>1 DEF Single
    <3> QED BY <2>3, <3>2 DEF Moves, Stays, Rises, Begins, IsLive
  <2>4. CASE \E e \in Batches : IsLive(cs[e]) /\ u \in cs[e].scope
    <3>1. PICK e \in Batches : IsLive(cs[e]) /\ u \in cs[e].scope
      BY <2>4
    <3>2. /\ hold = {<<cs[e].by, cs[e].fence>>} /\ past = gone \cup {<<cs[e].by, cs[e].fence>>}
          /\ cs[e].by = s \/ cs[e].by \notin lease
      BY <1>1, <2>3, <3>1
    <3> QED BY <2>1, <3>2
  <2> QED BY <2>2, <2>4
<1>9. CASE \E b \in Batches : IsLive(ds[b]) /\ u \in ds[b].scope
  <2>1. PICK b \in Batches : IsLive(ds[b]) /\ u \in ds[b].scope
    BY <1>9
  <2>2. Stays(cs[b], ds[b]) \/ Rises(cs[b], ds[b], s) \/ Begins(cs[b], ds[b], s, lease)
    BY <2>1 DEF Moves, Loses, IsLive
  <2> DEFINE t == <<ds[b].by, ds[b].fence>>
  <2>3. after = {t} /\ t \in after /\ t[1] = ds[b].by /\ t[2] = ds[b].fence
    BY <1>5, <2>1
  <2>4. \A h \in past : h[1] # t[1] => h[2] < t[2]
    BY <1>5, <2>1, <2>3
  <2>5. CASE Stays(cs[b], ds[b])
    BY <1>6, <2>1, <2>5 DEF UnitStep
  <2>6. CASE Rises(cs[b], ds[b], s)
    <3>1. /\ after = {<<s, ds[b].fence>>} /\ past = gone
          /\ \E h \in hold : h[1] = s /\ h[2] < ds[b].fence
      BY <1>7, <2>1, <2>6
    <3>2. t[1] = s
      BY <2>3, <2>6 DEF Rises
    <3> HIDE DEF t
    <3> QED BY <2>3, <2>4, <3>1, <3>2 DEF UnitStep
  <2>7. CASE Begins(cs[b], ds[b], s, lease)
    <3>1. /\ s \in lease
          /\ \/ hold = {} /\ past = gone
             \/ \E h \in hold : (h[1] = s \/ h[1] \notin lease) /\ past = gone \cup {h}
      BY <1>8, <2>1, <2>7
    <3>2. t[1] = s
      BY <2>3, <2>7 DEF Begins
    <3> HIDE DEF t
    <3> QED BY <2>3, <2>4, <3>1, <3>2 DEF UnitStep
  <2> QED BY <2>2, <2>5, <2>6, <2>7
<1> QED BY <1>4, <1>9

\* What session s does to the registry: accepted content moves only where
\* it gives up the one claim it completes.
Acted(s) ==
  /\ \A b \in Batches : Moves(claim[b], claim'[b], s, Working)
  /\ \/ managed' = managed
     \/ \E b \in Batches :
          /\ IsLive(claim[b]) /\ claim[b].by = s /\ s \in Working
          /\ ~IsLive(claim'[b])
          /\ \A d \in Batches : d # b => claim'[d] = claim[d]
          /\ \A p \in Paths : managed'[p] = managed[p] \/ p \in claim[b].scope

LEMMA Stands ==
  ASSUME NEW c, NEW s, NEW lease
  PROVE  Moves(c, c, s, lease)
BY DEF Moves, Stays

\* A batch that is released is lost, one that is marked stays.
LEMMA RetiredMoves ==
  ASSUME NEW c, ClaimFits(c), IsLive(c), NEW s, NEW lease
  PROVE  /\ c.by = s \/ c.by \notin lease => Loses(c, Released(c), s, lease)
         /\ Moves(c, Marked(c), s, lease)
<1>1. /\ Released(c).state = "released" /\ Released(c).by = c.by
      /\ Released(c).scope = c.scope /\ Released(c).fence = c.fence
  BY RetiredFacts DEF Released
<1>2. /\ Marked(c).state = "marked" /\ Marked(c).by = c.by
      /\ Marked(c).scope = c.scope /\ Marked(c).fence = c.fence
  BY RetiredFacts DEF Marked
<1> QED BY <1>1, <1>2 DEF Loses, Moves, Stays, IsLive

\* Who is reaped has no lease.
LEMMA ReapedMoves ==
  ASSUME CInv, NEW s, NEW b \in Batches
  PROVE  \/ Reaped[b] = claim[b]
         \/ Loses(claim[b], Reaped[b], s, Working)
<1>1. ClaimFits(claim[b])
  BY FitsOne DEF CInv, ClaimsFit
<1>2. CASE \E t \in Sessions : Held(b, t) /\ (session[t].state = "closed" \/ t \in lapsed)
  <2>1. PICK t \in Sessions : Held(b, t) /\ (session[t].state = "closed" \/ t \in lapsed)
    BY <1>2
  <2>2. IsLive(claim[b]) /\ claim[b].by = t /\ t \notin Working
    BY <2>1 DEF Held, Live, IsLive, Working
  <2>3. Reaped[b] = Released(claim[b])
    BY <1>2 DEF Reaped
  <2> QED BY <1>1, <2>2, <2>3, RetiredMoves
<1>3. CASE ~\E t \in Sessions : Held(b, t) /\ (session[t].state = "closed" \/ t \in lapsed)
  BY <1>3 DEF Reaped
<1> QED BY <1>2, <1>3

LEMMA RegisterActs ==
  ASSUME CInv, NEW s \in Sessions, Register(s)
  PROVE  Acted(s)
<1>1. \A b \in Batches : Moves(claim[b], claim'[b], s, Working)
  BY ReapedMoves, Stands DEF Register, Moves
<1> QED BY <1>1 DEF Acted, Register

\* A claim that follows the fence of s rises with it.
LEMMA FollowsRises ==
  ASSUME NEW c, NEW d, NEW s, NEW lease, NEW f \in Nat, c.fence \in Nat, c.fence <= f,
         Follows(c, d, f), IsLive(c), c.by = s
  PROVE  Moves(c, d, s, lease)
<1>1. CASE d.fence = c.fence
  BY <1>1 DEF Follows, Moves, Stays, IsLive
<1>2. CASE d.fence = f /\ f # c.fence
  BY <1>2 DEF Follows, Moves, Rises, IsLive
<1> QED BY <1>1, <1>2 DEF Follows

LEMMA RecoverActs ==
  ASSUME CInv, NEW s \in Sessions, Recover(s)
  PROVE  Acted(s)
<1>1. ClaimsFit
  BY FitsOne DEF CInv
<1>2. PICK f \in 1..MaxFence : Allocate(f) /\ claim' = Refenced(claim, s, f)
  BY Zenon DEF Recover
<1> f \in Nat
  BY CoordinationAssumption
<1>3. \A b \in Batches : claim[b].fence < f /\ claim[b].fence \in Nat
  BY <1>1, <1>2, AllocatedIsAbove DEF ClaimsFit, Claims
<1>4. ASSUME NEW b \in Batches PROVE Moves(claim[b], claim'[b], s, Working)
  <2>1. /\ Follows(claim[b], claim'[b], f)
        /\ ~Mine(claim[b], s) => claim'[b] = claim[b]
    BY <1>1, <1>2, RefencedFacts DEF ClaimsFit
  <2>2. claim[b].fence <= f
    BY <1>3
  <2> QED BY <1>3, <2>1, <2>2, FollowsRises, Stands DEF Mine
<1> QED BY <1>4 DEF Acted, Recover

LEMMA EndActs ==
  ASSUME CInv, NEW s \in Sessions, End(s), managed' = managed
  PROVE  Acted(s)
<1>1. ASSUME NEW b \in Batches PROVE Moves(claim[b], claim'[b], s, Working)
  <2>1. ClaimFits(claim[b])
    BY FitsOne DEF CInv, ClaimsFit
  <2>2. CASE Held(b, s)
    <3>1. claim'[b] = Released(claim[b]) /\ IsLive(claim[b]) /\ claim[b].by = s
      BY <2>2 DEF End, Held, Live, IsLive
    <3> QED BY <2>1, <3>1, RetiredMoves DEF Moves
  <2>3. CASE ~Held(b, s)
    BY <2>3, Stands DEF End
  <2> QED BY <2>2, <2>3
<1> QED BY <1>1 DEF Acted

LEMMA ClaimActs ==
  ASSUME CInv, NEW s \in Sessions, NEW b \in Batches, NEW scope, NEW whole, NEW op,
         NEW paths, NEW base, Claim(s, b, scope, paths, whole, op, base)
  PROVE  Acted(s)
<1>1. ClaimsFit
  BY FitsOne DEF CInv
<1> DEFINE R == Reaped
<1>2. PICK f \in 1..MaxFence :
             /\ IF Outrun(s) THEN Allocate(f) ELSE f = session[s].fence /\ UNCHANGED nextFence
             /\ claim' = [Refenced(R, s, f) EXCEPT
                            ![b] = Batch(s, scope, paths, whole, op, f, base)]
  BY Zenon DEF Claim
<1> f \in Nat
  BY CoordinationAssumption
<1>3. session[s].fence <= f
  BY <1>2, ClaimFence
<1>4. s \in Working /\ claim[b].state = "unused"
  BY DEF Claim, Leased, Working
<1>5. ASSUME NEW e \in Batches, e # b PROVE Moves(claim[e], claim'[e], s, Working)
  <2>1. claim'[e] = Refenced(R, s, f)[e]
    BY <1>2, <1>5 DEF Refenced
  <2>2. ClaimFits(claim[e]) /\ claim[e].fence \in Nat
    BY <1>1 DEF ClaimsFit, Claims
  <2>3. R[e] = claim[e] \/ Loses(claim[e], R[e], s, Working)
    BY ReapedMoves
  <2>4. CASE Loses(claim[e], R[e], s, Working)
    <3>1. claim'[e] = R[e]
      BY <2>1, <2>4 DEF Refenced, Loses
    <3> QED BY <2>4, <3>1 DEF Moves
  <2>5. CASE R[e] = claim[e]
    <3>1. /\ Follows(claim[e], claim'[e], f)
          /\ ~Mine(claim[e], s) => claim'[e] = claim[e]
      BY <2>1, <2>2, <2>5, RefencedFacts
    <3>2. Mine(claim[e], s) => claim[e].fence <= f
      BY <1>3 DEF Mine
    <3> HIDE DEF R
    <3> QED BY <2>2, <3>1, <3>2, FollowsRises, Stands DEF Mine
  <2> QED BY <2>3, <2>4, <2>5
<1>6. Moves(claim[b], claim'[b], s, Working)
  <2>1. claim'[b] = Batch(s, scope, paths, whole, op, f, base)
    BY <1>2 DEF Refenced
  <2>2. claim'[b].state = "active" /\ claim'[b].by = s
    BY <2>1 DEF Batch
  <2> QED BY <1>4, <2>2 DEF Moves, Begins, IsLive
<1> QED BY <1>5, <1>6 DEF Acted, Claim

\* One batch is released or marked by its owner.
LEMMA OneActs ==
  ASSUME CInv, NEW s \in Sessions, NEW b \in Batches, Owned(b, s), managed' = managed,
         \/ claim' = [claim EXCEPT ![b] = Released(@)]
         \/ claim' = [claim EXCEPT ![b] = Marked(@)]
  PROVE  Acted(s)
<1>1. Live(b) /\ IsLive(claim[b]) /\ claim[b].by = s /\ ClaimFits(claim[b])
  BY FitsOne DEF Owned, Held, Live, IsLive, CInv, ClaimsFit
<1>2. /\ \A d \in Batches : d # b => claim'[d] = claim[d]
      /\ claim'[b] \in {Released(claim[b]), Marked(claim[b])}
  BY <1>1, OneRetires
<1>3. Moves(claim[b], claim'[b], s, Working)
  BY <1>1, <1>2, RetiredMoves DEF Moves
<1> QED BY <1>2, <1>3, Stands DEF Acted

LEMMA CompleteActs ==
  ASSUME CInv, NEW s \in Sessions, NEW b \in Batches, Complete(s, b)
  PROVE  Acted(s)
<1>1. /\ Live(b) /\ IsLive(claim[b]) /\ claim[b].by = s /\ ClaimFits(claim[b])
      /\ s \in Working
  BY FitsOne DEF Complete, Completable, Leased, Working, Owned, Held, Live, IsLive, CInv, ClaimsFit
<1>2. claim' = [claim EXCEPT ![b] = Released(@)]
  BY DEF Complete
<1>3. \A d \in Batches : d # b => claim'[d] = claim[d]
  BY <1>1, <1>2, OneRetires
<1>4. claim'[b] = Released(claim[b])
  BY <1>2 DEF CInv, CoordinationTypeOK
<1>5. Loses(claim[b], claim'[b], s, Working)
  BY <1>1, <1>4, RetiredMoves
<1>6. \A d \in Batches : Moves(claim[d], claim'[d], s, Working)
  BY <1>3, <1>5, Stands DEF Moves
<1> DEFINE Names == IF claim[b].whole THEN Paths ELSE claim[b].paths
<1> DEFINE Moved(changed, after) ==
             [p \in Paths |-> IF p \in (IF claim[b].whole THEN changed ELSE claim[b].paths)
                              THEN [hash |-> Accepted(b, changed, after, p), epoch |-> epoch.num]
                              ELSE managed[p]]
<1>7. PICK changed \in SUBSET Names :
        \E after \in [changed -> Contents] : managed' = Moved(changed, after)
  BY Zenon DEF Complete
<1>8. PICK after \in [changed -> Contents] : managed' = Moved(changed, after)
  BY <1>7
<1>9. ASSUME NEW p \in Paths PROVE managed'[p] = managed[p] \/ p \in claim[b].scope
  <2>1. p \in Units
    BY CoordinationAssumption
  <2>2. claim[b].whole \/ p \in claim[b].paths => p \in claim[b].scope
    BY <1>1, <2>1 DEF ClaimFits
  <2> QED BY <1>8, <2>2
<1>10. ~IsLive(claim'[b])
  BY <1>5 DEF Loses, IsLive
<1> QED BY <1>1, <1>3, <1>6, <1>9, <1>10 DEF Acted

\* The live claims of the epoch that is recovered are of its owner, who is
\* quarantined, or of sessions without a lease.
LEMMA RecoverEpochActs ==
  ASSUME CInv, NEW s \in Sessions, RecoverEpoch(s)
  PROVE  Acted(s)
<1>1. epoch.owner \notin Working
  BY QuarantineOwner DEF RecoverEpoch, OwnerIsFenced, Working
<1>2. ASSUME NEW b \in Batches PROVE Moves(claim[b], claim'[b], s, Working)
  <2>1. ClaimFits(claim[b])
    BY FitsOne DEF CInv, ClaimsFit
  <2>2. claim'[b] = IF /\ Reaped[b].by = epoch.owner /\ Reaped[b].epoch = epoch.num
                       /\ Reaped[b].state \in {"active", "marked"}
                    THEN Released(claim[b]) ELSE Reaped[b]
    BY DEF RecoverEpoch
  <2>3. CASE Loses(claim[b], Reaped[b], s, Working)
    <3>1. claim'[b] = Reaped[b]
      BY <2>2, <2>3 DEF Loses
    <3> QED BY <2>3, <3>1 DEF Moves
  <2>4. CASE Reaped[b] = claim[b]
    <3>1. CASE IsLive(claim[b]) /\ claim[b].by = epoch.owner /\ claim[b].epoch = epoch.num
      <4>1. claim'[b] = Released(claim[b])
        BY <2>2, <2>4, <3>1 DEF IsLive
      <4> QED BY <1>1, <2>1, <3>1, <4>1, RetiredMoves DEF Moves
    <3>2. CASE ~(IsLive(claim[b]) /\ claim[b].by = epoch.owner /\ claim[b].epoch = epoch.num)
      <4>1. claim'[b] = claim[b]
        BY <2>2, <2>4, <3>2 DEF IsLive
      <4> QED BY <4>1, Stands
    <3> QED BY <3>1, <3>2
  <2> QED BY <2>3, <2>4, ReapedMoves
<1> QED BY <1>2 DEF Acted, RecoverEpoch

LEMMA StandingActs ==
  ASSUME UNCHANGED <<claim, managed>>, NEW s \in Sessions
  PROVE  Acted(s)
BY Stands DEF Acted

LEMMA NextActs ==
  ASSUME CInv, Next
  PROVE  \E s \in Sessions : Acted(s)
<1>1. PICK s \in Sessions :
        \/ Register(s) \/ Recover(s) \/ Touch(s) \/ Close(s)
        \/ MintAdmission(s) \/ ConsumeAdmission(s) \/ LeaseLapses(s) \/ AdmissionLapses(s)
        \/ ReconcileEpoch(s) \/ RecoverEpoch(s)
        \/ \E b \in Batches :
             \/ \E scope \in SUBSET Units \ {{}}, whole \in BOOLEAN,
                   op \in {"none", "claimed"} :
                  \E paths \in SUBSET (scope \cap Paths), base \in [Paths -> Contents] :
                    Claim(s, b, scope, paths, whole, op, base)
             \/ Complete(s, b) \/ CompleteMismatched(s, b) \/ Quarantine(s, b)
             \/ ReleaseClaims(s, b) \/ MarkClaims(s, b)
  BY Zenon DEF Next
<1>2. CASE Register(s) \/ Recover(s) \/ RecoverEpoch(s)
  BY <1>2, RegisterActs, RecoverActs, RecoverEpochActs
<1>3. CASE Close(s) \/ ConsumeAdmission(s)
  BY <1>3, EndActs DEF Close, ConsumeAdmission
<1>4. CASE \/ Touch(s) \/ MintAdmission(s) \/ LeaseLapses(s) \/ AdmissionLapses(s)
           \/ ReconcileEpoch(s)
  BY <1>4, StandingActs
     DEF Touch, MintAdmission, LeaseLapses, AdmissionLapses, ReconcileEpoch
<1>5. ASSUME NEW b \in Batches,
             \E scope \in SUBSET Units \ {{}}, whole \in BOOLEAN, op \in {"none", "claimed"} :
               \E paths \in SUBSET (scope \cap Paths), base \in [Paths -> Contents] :
                 Claim(s, b, scope, paths, whole, op, base)
      PROVE  Acted(s)
  BY <1>5, ClaimActs, Zenon
<1>6. ASSUME NEW b \in Batches, Complete(s, b) PROVE Acted(s)
  BY <1>6, CompleteActs
<1>7. ASSUME NEW b \in Batches, CompleteMismatched(s, b) \/ Quarantine(s, b) PROVE Acted(s)
  BY <1>7, OneActs DEF CompleteMismatched, Completable, Quarantine, QuarantineBy
<1>8. ASSUME NEW b \in Batches, ReleaseClaims(s, b) \/ MarkClaims(s, b) PROVE Acted(s)
  BY <1>8, OneActs DEF ReleaseClaims, MarkClaims
<1> QED BY <1>1, <1>2, <1>3, <1>4, <1>5, <1>6, <1>7, <1>8, Zenon

-----------------------------------------------------------------------------
(* The registry implements the lock. *)

Holds(cs) == [u \in Units |-> Toks(cs, u, LivesIn)]
Past(cs) == [u \in Units |-> Toks(cs, u, {"released"})]

LEMMA MappedTokens ==
  /\ [u \in Units |-> Tokens(u, {"active", "marked"})] = Holds(claim)
  /\ [u \in Units |-> Tokens(u, {"released"})] = Past(claim)
BY DEF Holds, Past, Tokens, Toks, On, LivesIn

LEMMA MappedTokensLater ==
  /\ [u \in Units |-> Tokens(u, {"active", "marked"})]' = Holds(claim')
  /\ [u \in Units |-> Tokens(u, {"released"})]' = Past(claim')
BY DEF Holds, Past, Tokens, Toks, On, LivesIn

\* The claims of a state are tokens of sessions.
LEMMA TokenTypes ==
  ASSUME NEW cs, NEW u,
         \A b \in Batches : /\ cs[b].state # "unused" => cs[b].by \in Sessions
                            /\ cs[b].fence \in Nat
  PROVE  /\ Toks(cs, u, LivesIn) \in SUBSET (Sessions \X Nat)
         /\ Toks(cs, u, {"released"}) \in SUBSET (Sessions \X Nat)
BY DEF Toks, On, LivesIn

LEMMA StepImplements ==
  ASSUME CInv, CInv', Next
  PROVE  Contract!ContractNext
<1>1. PICK s \in Sessions : Acted(s)
  BY NextActs
<1>2. \A u \in Units : Single(claim, u)
  BY DEF CInv, LiveClaimIsNewest, Live, IsLive, Single
<1>3. \A u \in Units : Single(claim', u)
  BY DEF CInv, LiveClaimIsNewest, Live, IsLive, Single
<1>4. \A b \in Batches : /\ claim'[b].state # "unused" => claim'[b].by \in Sessions
                         /\ claim'[b].fence \in Nat
  BY DEF CInv, CoordinationTypeOK, Claims
<1>5. Working' \subseteq Sessions
  BY DEF Working
<1>6. /\ Holds(claim') \in [Units -> SUBSET (Sessions \X Nat)]
      /\ Past(claim') \in [Units -> SUBSET (Sessions \X Nat)]
  BY <1>4, TokenTypes DEF Holds, Past
<1>7. ASSUME NEW u \in Units
      PROVE  Contract!Keeps(u) \/ Contract!LetsGo(s, u) \/ Contract!Takes(s, u)
               \/ Contract!Renews(s, u)
  <2>1. \A b \in Batches : Moves(claim[b], claim'[b], s, Working)
    BY <1>1 DEF Acted
  <2> DEFINE hold == Toks(claim, u, LivesIn)       after == Toks(claim', u, LivesIn)
             gone == Toks(claim, u, {"released"})  past  == Toks(claim', u, {"released"})
  <2>2. UnitStep(hold, after, gone, past, s, Working)
    BY <1>2, <1>3, <1>4, <2>1, UnitMoves
  <2>3. Holds(claim)[u] = hold /\ Holds(claim')[u] = after
          /\ Past(claim)[u] = gone /\ Past(claim')[u] = past
    BY DEF Holds, Past
  <2> HIDE DEF hold, after, gone, past
  <2> QED BY <2>2, <2>3, MappedTokens, MappedTokensLater
          DEF UnitStep, Contract!Keeps, Contract!LetsGo, Contract!Takes, Contract!Renews, Contract!MayEnd
<1>8. ASSUME NEW p \in Paths
      PROVE  managed'[p] = managed[p] \/ Contract!Commits(s, p)
  <2>1. CASE managed'[p] # managed[p]
    <3>1. PICK b \in Batches :
            /\ IsLive(claim[b]) /\ claim[b].by = s /\ s \in Working
            /\ ~IsLive(claim'[b])
            /\ \A d \in Batches : d # b => claim'[d] = claim[d]
            /\ p \in claim[b].scope
      BY <1>1, <2>1 DEF Acted
    <3>2. p \in Units
      BY CoordinationAssumption
    <3>3. Toks(claim, p, LivesIn) = {<<s, claim[b].fence>>}
      BY <1>2, <3>1, <3>2, OneToken
    <3>4. \A d \in Batches : IsLive(claim'[d]) => p \notin claim'[d].scope
      BY <1>2, <3>1, <3>2 DEF Single
    <3>5. Toks(claim', p, LivesIn) = {}
      BY <3>4, NoToken
    <3>6. Holds(claim)[p] = {<<s, claim[b].fence>>} /\ Holds(claim')[p] = {}
      BY <3>2, <3>3, <3>5 DEF Holds
    <3>7. (\E h \in Holds(claim)[p] : h[1] = s) /\ Holds(claim')[p] = {}
      BY <3>6
    <3> QED BY <3>1, <3>7, MappedTokens, MappedTokensLater DEF Contract!Commits
  <2> QED BY <2>1
<1>9. Contract!Acts(s)
  BY <1>7, <1>8 DEF Contract!Acts
<1> QED BY <1>5, <1>6, <1>9, MappedTokensLater DEF Contract!ContractNext, Contract!Tokens

LEMMA InitImplements ==
  Init => Contract!ContractInit
<1> SUFFICES ASSUME Init PROVE Contract!ContractInit
  OBVIOUS
<1>1. Working = {}
  BY DEF Init, Working, Nobody
<1>2. \A b \in Batches : claim[b].state = "unused"
  BY DEF Init, Unused
<1>3. \A u \in Units : Tokens(u, {"active", "marked"}) = {} /\ Tokens(u, {"released"}) = {}
  BY <1>2 DEF Tokens
<1> QED BY <1>1, <1>3 DEF Contract!ContractInit

\* Whatever sessions register, lapse, recover, claim and quarantine, each
\* unit is a lock with leases and fencing tokens, and accepted content moves
\* only under it.
THEOREM RegistryImplementsContract ==
  Spec => ImplementsContract
<1>1. Init => Contract!ContractInit
  BY InitImplements
<1>2. CInv /\ CInv' /\ [Next]_vars => [Contract!ContractNext]_(Contract!contractVars)
  <2> SUFFICES ASSUME CInv, CInv', [Next]_vars
               PROVE  [Contract!ContractNext]_(Contract!contractVars)
    OBVIOUS
  <2>1. CASE Next
    BY <2>1, StepImplements
  <2>2. CASE UNCHANGED vars
    <3>1. UNCHANGED <<session, lapsed, claim, managed>>
      BY <2>2 DEF vars
    <3>2. Working' = Working
      BY <3>1 DEF Working
    <3>3. Holds(claim') = Holds(claim) /\ Past(claim') = Past(claim)
      BY <3>1
    <3> QED BY <3>1, <3>2, <3>3, MappedTokens, MappedTokensLater DEF Contract!contractVars
  <2> QED BY <2>1, <2>2
<1> QED BY <1>1, <1>2, InvariantHolds, PTL DEF Spec, ImplementsContract, Contract!ContractSpec

=============================================================================
