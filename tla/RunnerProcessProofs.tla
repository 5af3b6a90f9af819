------------------------- MODULE RunnerProcessProofs -------------------------
(***************************************************************************)
(* The processes of the runner, for every number of runs, slots, restarts  *)
(* and passes: an execution has exactly what its phase gave it, files      *)
(* outlive the processes that use them, a slot is held from the start of a *)
(* run to the end of its child, and the trigger of 081 refuses a write     *)
(* only for a run that a recovery pass took over.                          *)
(*                                                                         *)
(* ProcessInv says what an execution may look like in each phase and what  *)
(* a pass, the handler in progress and the slots know of it.  The helpers  *)
(* of job-runner.ts come first (what each leaves of an execution, and when *)
(* it may throw), then one lemma per action.                               *)
(***************************************************************************)
EXTENDS JobRunnerProofs, FiniteSetTheorems

\* The phases a handler goes through without giving way, and those that come
\* once the outcome of the spawn is settled.
BusyPhases == {"handed", "prepared", "written", "forked", "identified"}
LatePhases == {"unborn", "live", "torn", "closed", "done"}

\* Before its child is tracked an execution has exactly what its phase gave it.
UntrackedFits(x) ==
  x.phase \in {"idle", "handed", "resolving", "prepared", "written", "forked"} =>
    /\ ~x.unproven /\ ~x.timedOut /\ x.term = "none" /\ x.owned = "no"
    /\ ~x.salvage /\ x.stop = "no" /\ ~x.ident
    /\ x.slot <=> x.phase \notin {"idle", "handed"}
    /\ x.secrets <=> x.phase \in {"written", "forked"}
    /\ x.dir <=> x.secrets
    /\ x.vault = IF x.phase \in {"prepared", "written", "forked"} THEN "prepared" ELSE "none"
    /\ x.group # "none" => x.phase = "forked"

\* Processes have their files, and files outlive what still refers to them.
FilesFit(x) ==
  /\ x.group # "none" => x.dir /\ x.vault \in {"prepared", "spawned", "teardown_pending"}
  /\ x.secrets \/ x.owned = "unknown" => x.dir
  /\ x.dir => x.vault \notin {"none", "cleaned"}

IdentifiedFits(x) ==
  x.phase = "identified" =>
    /\ x.slot /\ x.term = "none" /\ ~x.timedOut /\ x.stop = "no"
    /\ x.secrets /\ ~x.salvage /\ x.owned # "no" /\ x.vault \notin {"none", "prepared"}

\* A run whose files were cleaned under one of its two owners and that is still
\* captured under the other, which is where the trigger throws: only a run that
\* a pass took over while its child was live gets there.
HalfCleaned(x) == Vanished(x) /\ x.salvage /\ x.vault = "cleaned"

TakeoverFits(x) ==
  /\ x.owned = "captured" => x.dir \/ HalfCleaned(x)
  /\ HalfCleaned(x) => x.phase = "live" /\ x.term # "none"
  /\ Wedged(x) => x.salvage /\ x.vault = "cleaned"

\* What the late phases have and what they gave up, if the child's termination
\* has begun or has not; a live child with secrets is owned.
Late(x, terminating) ==
  /\ x.phase \in LatePhases
  /\ x.phase # "done" => x.vault \notin {"none", "prepared"}
  /\ x.phase \in {"unborn", "torn"} => x.slot /\ terminating /\ x.group = "none" /\ x.owned = "no"
  /\ x.phase = "live" => x.slot /\ (x.timedOut => terminating)
  /\ x.phase = "closed" => x.group # "leader" /\ (x.slot => terminating)
  /\ x.phase = "done" => /\ ~x.slot /\ ~x.secrets /\ ~terminating
                         /\ x.vault = "prepared" => x.owned = "no"
  /\ x.stop = "mark" => x.phase \in {"unborn", "live", "torn"}
  /\ x.secrets /\ x.owned = "no" => x.group = "none"

\* Whatever a handler left, if it threw or not; between two steps nothing is thrown.
ShapeFits(x) ==
  /\ UntrackedFits(x) /\ FilesFit(x) /\ IdentifiedFits(x) /\ TakeoverFits(x)
  /\ x.phase \in LatePhases => Late(x, x.term # "none")

ExecutionFits(x) == ShapeFits(x) /\ ~x.thrown

\* A pass saw a row in "prepared" only where a crash had left it.
ListingFits(r) ==
  pass.listed[r].vault = "prepared" =>
    exec[r].phase = "done" /\ exec[r].owned = "no" /\ exec[r].vault = "prepared"

PassFits ==
  pass.at # NoRun => /\ pass.on
                     /\ pass.listed[pass.at] = NotListed
                     /\ exec[pass.at].phase \in LatePhases

BusyFits ==
  /\ \A r \in Runs : exec[r].phase \in BusyPhases <=> busy = r
  /\ \A r \in Runs : exec[r].stop = "mark" => busy = NoRun
  /\ up = "down" => busy = NoRun

SlotsFit == IsFiniteSet(Occupied) /\ Cardinality(Occupied) <= MaxConcurrentRuns

\* A run without a row has no execution and is on no list.
UnstartedFits ==
  \A r \in Runs : run[r] = "none" =>
    exec[r].phase = "idle" /\ pass.listed[r] = NotListed /\ pass.at # r

ProcessInv ==
  /\ RunnerTypeOK
  /\ \A r \in Runs : ExecutionFits(exec[r]) /\ ListingFits(r)
  /\ PassFits /\ BusyFits /\ SlotsFit /\ UnstartedFits

-----------------------------------------------------------------------------
(* What the functions of job-runner.ts leave of an execution. *)

\* What the helpers leave alone in an execution, and what they may give up; one
\* that throws does so over a cleaned row that a pass still holds.
Kin(x, y) ==
  /\ y \in Executions
  /\ y.phase = x.phase /\ y.slot = x.slot /\ y.unproven = x.unproven
  /\ y.timedOut = x.timedOut /\ y.due = x.due /\ y.stop = x.stop /\ y.group = x.group
  /\ y.ident = x.ident /\ y.rev = x.rev
  /\ y.secrets => x.secrets
  /\ y.salvage => x.salvage
  /\ y.owned = x.owned \/ (y.owned = "no" /\ Vanished(x))
  /\ y.vault \in {x.vault, "teardown_pending", "failed", "cleaned"}
  /\ x.vault = "cleaned" => y.vault = "cleaned" /\ y.salvage = x.salvage
  /\ y.thrown => x.thrown \/ (y.salvage /\ y.vault = "cleaned")

LEMMA KinTrans ==
  ASSUME NEW x, NEW y, NEW z, Kin(x, y), Kin(y, z)
  PROVE  Kin(x, z)
BY DEF Kin, Vanished

LEMMA MarkIs ==
  ASSUME NEW x \in Executions, NEW state \in {"teardown_pending", "failed", "cleaned"},
         x.vault # "none", x.vault = "cleaned" => state = "cleaned"
  PROVE  /\ Mark(x, state) = [x EXCEPT !.vault = state]
         /\ Mark(x, state) \in Executions
<1>1. x.vault \in VaultStates
  BY DEF Executions
<1>2. ~Aborts(x, state)
  BY <1>1 DEF Aborts, Transitions, VaultStates
<1>3. Mark(x, state) = [x EXCEPT !.vault = state]
  BY <1>2 DEF Mark
<1> QED BY <1>3 DEF Executions, VaultStates

\* The trigger throws over a cleaned row, and only there.
LEMMA MarkAborts ==
  ASSUME NEW x \in Executions, NEW state \in {"teardown_pending", "failed"}, x.vault = "cleaned"
  PROVE  /\ Mark(x, state) = [x EXCEPT !.thrown = TRUE]
         /\ Mark(x, state) \in Executions
<1>1. Aborts(x, state)
  BY DEF Aborts, Transitions
<1>2. Mark(x, state) = [x EXCEPT !.thrown = TRUE]
  BY <1>1 DEF Mark
<1> QED BY <1>2 DEF Executions

LEMMA MarkKeeps ==
  ASSUME NEW x \in Executions, NEW state \in {"teardown_pending", "failed"},
         x.vault = "cleaned" => x.salvage
  PROVE  LET y == Mark(x, state)
         IN  /\ Kin(x, y) /\ y.owned = x.owned /\ y.term = x.term /\ y.dir = x.dir
             /\ y.salvage = x.salvage /\ y.secrets = x.secrets
             /\ y.vault = IF x.vault \in {"none", "cleaned"} THEN x.vault ELSE state
             /\ y.thrown => x.thrown \/ x.vault = "cleaned"
<1>1. CASE x.vault = "none"
  <2>1. Mark(x, state) = x
    BY <1>1 DEF Mark
  <2> QED BY <1>1, <2>1 DEF Kin
<1>2. CASE x.vault = "cleaned"
  <2> DEFINE y == [x EXCEPT !.thrown = TRUE]
  <2>1. Mark(x, state) = y /\ y \in Executions
    BY <1>2, MarkAborts
  <2>2. /\ y.phase = x.phase /\ y.slot = x.slot /\ y.unproven = x.unproven
        /\ y.timedOut = x.timedOut /\ y.due = x.due /\ y.stop = x.stop /\ y.group = x.group
        /\ y.ident = x.ident /\ y.rev = x.rev /\ y.owned = x.owned /\ y.term = x.term
        /\ y.salvage = x.salvage /\ y.secrets = x.secrets /\ y.dir = x.dir
        /\ y.vault = x.vault
    BY DEF Executions
  <2> HIDE DEF y
  <2> QED BY <1>2, <2>1, <2>2 DEF Kin
<1>3. CASE x.vault \notin {"none", "cleaned"}
  <2> DEFINE y == [x EXCEPT !.vault = state]
  <2>1. Mark(x, state) = y /\ y \in Executions
    <3>1. /\ Mark(x, state) = [x EXCEPT !.vault = state]
          /\ Mark(x, state) \in Executions
      <4>1. state \in {"teardown_pending", "failed", "cleaned"}
        OBVIOUS
      <4>2. x.vault # "none" /\ (x.vault = "cleaned" => state = "cleaned")
        BY <1>3
      <4> QED BY <4>1, <4>2, MarkIs
    <3> QED BY <3>1
  <2>2. /\ y.phase = x.phase /\ y.slot = x.slot /\ y.unproven = x.unproven
        /\ y.timedOut = x.timedOut /\ y.due = x.due /\ y.stop = x.stop /\ y.group = x.group
        /\ y.ident = x.ident /\ y.rev = x.rev /\ y.owned = x.owned /\ y.term = x.term
        /\ y.salvage = x.salvage /\ y.secrets = x.secrets /\ y.dir = x.dir
        /\ y.vault = state /\ y.thrown = x.thrown
    BY DEF Executions
  <2> HIDE DEF y
  <2> QED BY <1>3, <2>1, <2>2 DEF Kin
<1> QED BY <1>1, <1>2, <1>3

\* The cleanup ends the row one way or the other, and never throws.
LEMMA CleanupRunKeeps ==
  ASSUME NEW x \in Executions, NEW safe \in BOOLEAN, FilesFit(x),
         x.secrets => x.group = "none" /\ x.owned # "unknown"
  PROVE  LET y == CleanupRun(x, safe)
         IN  /\ Kin(x, y) /\ FilesFit(y) /\ y.owned = x.owned /\ y.term = x.term
             /\ y.salvage = x.salvage /\ ~y.secrets /\ y.thrown = x.thrown
<1>0. CASE ~x.secrets
  BY <1>0 DEF CleanupRun, Kin
<1>1. CASE x.secrets /\ safe
  <2> DEFINE u == [x EXCEPT !.secrets = FALSE, !.dir = FALSE]
             y == [u EXCEPT !.vault = "cleaned"]
  <2>1. u \in Executions /\ u.vault = x.vault
    BY DEF Executions
  <2>2. x.dir /\ x.vault \notin {"none", "cleaned"}
    BY <1>1 DEF FilesFit
  <2>3. Mark(u, "cleaned") = [u EXCEPT !.vault = "cleaned"] /\ Mark(u, "cleaned") \in Executions
    <3> HIDE DEF u
    <3> QED BY <2>1, <2>2, MarkIs
  <2>4. CleanupRun(x, safe) = y /\ y \in Executions
    BY <2>2, <2>3, <1>1 DEF CleanupRun
  <2>5. /\ y.phase = x.phase /\ y.slot = x.slot /\ y.unproven = x.unproven
        /\ y.timedOut = x.timedOut /\ y.due = x.due /\ y.stop = x.stop /\ y.group = x.group
        /\ y.ident = x.ident /\ y.rev = x.rev /\ y.owned = x.owned /\ y.term = x.term
        /\ y.salvage = x.salvage /\ ~y.secrets /\ ~y.dir /\ y.vault = "cleaned"
        /\ y.thrown = x.thrown
    BY DEF Executions
  <2> HIDE DEF u, y
  <2> QED BY <1>1, <2>4, <2>5 DEF Kin, FilesFit
<1>2. CASE x.secrets /\ ~safe
  <2> DEFINE v == [x EXCEPT !.secrets = FALSE]
             y == [v EXCEPT !.vault = "failed"]
  <2>1. v \in Executions /\ v.vault = x.vault
    BY DEF Executions
  <2>2. x.dir /\ x.vault \notin {"none", "cleaned"}
    BY <1>2 DEF FilesFit
  <2>3. Mark(v, "failed") = [v EXCEPT !.vault = "failed"] /\ Mark(v, "failed") \in Executions
    <3> HIDE DEF v
    <3> QED BY <2>1, <2>2, MarkIs
  <2>4. CleanupRun(x, safe) = y /\ y \in Executions
    BY <2>3, <1>2 DEF CleanupRun
  <2>5. /\ y.phase = x.phase /\ y.slot = x.slot /\ y.unproven = x.unproven
        /\ y.timedOut = x.timedOut /\ y.due = x.due /\ y.stop = x.stop /\ y.group = x.group
        /\ y.ident = x.ident /\ y.rev = x.rev /\ y.owned = x.owned /\ y.term = x.term
        /\ y.salvage = x.salvage /\ ~y.secrets /\ y.vault = "failed" /\ y.thrown = x.thrown
    BY DEF Executions
  <2> HIDE DEF v, y
  <2> QED BY <1>2, <2>2, <2>4, <2>5 DEF Kin, FilesFit
<1> QED BY <1>0, <1>1, <1>2

\* An empty group is finalized.
LEMMA FinalizeKeeps ==
  ASSUME NEW x \in Executions, NEW safe \in BOOLEAN, FilesFit(x),
         x.group = "none", x.owned # "unknown"
  PROVE  LET y == FinalizeVerified(x, safe)
         IN  /\ Kin(x, y) /\ FilesFit(y) /\ y.owned = x.owned /\ y.term = x.term /\ ~y.secrets
             /\ y.thrown => x.thrown \/ x.vault = "cleaned"
<1>1. CASE x.secrets
  <2>1. FinalizeVerified(x, safe) = CleanupRun(x, safe)
    BY <1>1 DEF FinalizeVerified
  <2> QED BY <2>1, <1>1, CleanupRunKeeps
<1>2. CASE ~x.secrets /\ ~x.salvage
  BY <1>2 DEF FinalizeVerified, Kin
<1>3. CASE ~x.secrets /\ x.salvage /\ x.dir /\ safe
  <2> DEFINE u == [x EXCEPT !.salvage = FALSE, !.dir = FALSE]
             y == [u EXCEPT !.vault = "cleaned"]
  <2>1. u \in Executions /\ u.vault = x.vault
    BY DEF Executions
  <2>2. x.vault \notin {"none", "cleaned"}
    BY <1>3 DEF FilesFit
  <2>3. Mark(u, "cleaned") = [u EXCEPT !.vault = "cleaned"] /\ Mark(u, "cleaned") \in Executions
    <3> HIDE DEF u
    <3> QED BY <2>1, <2>2, MarkIs
  <2>4. FinalizeVerified(x, safe) = y /\ y \in Executions
    BY <1>3, <2>3 DEF FinalizeVerified
  <2>5. /\ y.phase = x.phase /\ y.slot = x.slot /\ y.unproven = x.unproven
        /\ y.timedOut = x.timedOut /\ y.due = x.due /\ y.stop = x.stop /\ y.group = x.group
        /\ y.ident = x.ident /\ y.rev = x.rev /\ y.owned = x.owned /\ y.term = x.term
        /\ ~y.salvage /\ y.secrets = x.secrets /\ ~y.dir /\ y.vault = "cleaned"
        /\ y.thrown = x.thrown
    BY DEF Executions
  <2> HIDE DEF u, y
  <2> QED BY <1>3, <2>2, <2>4, <2>5 DEF Kin, FilesFit
<1>4. CASE ~x.secrets /\ x.salvage /\ ~(x.dir /\ safe)
  <2> DEFINE y == Mark(x, "failed")
  <2>1. FinalizeVerified(x, safe) = y
    BY <1>4 DEF FinalizeVerified
  <2>2. /\ Kin(x, y) /\ y.owned = x.owned /\ y.term = x.term /\ y.dir = x.dir
        /\ y.secrets = x.secrets
        /\ y.vault = IF x.vault \in {"none", "cleaned"} THEN x.vault ELSE "failed"
        /\ y.thrown => x.thrown \/ x.vault = "cleaned"
    BY <1>4, MarkKeeps
  <2> HIDE DEF y
  <2>3. FilesFit(y)
    BY <2>2, <1>4 DEF FilesFit, Kin
  <2> QED BY <2>1, <2>2, <2>3, <1>4
<1> QED BY <1>1, <1>2, <1>3, <1>4

LEMMA VerifyTeardownKeeps ==
  ASSUME NEW x \in Executions, NEW safe \in BOOLEAN, FilesFit(x)
  PROVE  LET y == VerifyTeardown(x, safe)
         IN  /\ Kin(x, y) /\ FilesFit(y) /\ y.term = x.term
             /\ ~Vanished(y) /\ (y.owned = "no" \/ y = x) /\ (Vanished(x) \/ y = x)
             /\ y.thrown => x.thrown \/ x.vault = "cleaned"
<1>1. CASE ~Vanished(x)
  BY <1>1 DEF VerifyTeardown, Kin
<1>2. CASE Vanished(x)
  <2> DEFINE u == [x EXCEPT !.owned = "no"]
             y == FinalizeVerified(u, safe)
  <2>0. /\ u \in Executions /\ u.owned = "no" /\ u.group = "none" /\ u.term = x.term
        /\ u.phase = x.phase /\ u.slot = x.slot /\ u.unproven = x.unproven
        /\ u.timedOut = x.timedOut /\ u.due = x.due /\ u.stop = x.stop /\ u.group = x.group
        /\ u.ident = x.ident /\ u.rev = x.rev /\ u.salvage = x.salvage
        /\ u.secrets = x.secrets /\ u.dir = x.dir /\ u.vault = x.vault /\ u.thrown = x.thrown
    BY <1>2 DEF Executions, Vanished
  <2>4. VerifyTeardown(x, safe) = y
    BY <1>2 DEF VerifyTeardown
  <2> HIDE DEF u
  <2>1. Kin(x, u) /\ FilesFit(u)
    BY <1>2, <2>0 DEF Kin, FilesFit
  <2>2. /\ Kin(u, y) /\ FilesFit(y) /\ y.owned = u.owned /\ y.term = u.term
        /\ y.thrown => u.thrown \/ u.vault = "cleaned"
    BY <2>0, <2>1, FinalizeKeeps
  <2> HIDE DEF y
  <2>3. Kin(x, y)
    BY <2>1, <2>2, KinTrans
  <2> QED BY <1>2, <2>0, <2>2, <2>3, <2>4 DEF Vanished
<1> QED BY <1>1, <1>2

LEMMA MarkPendingKeeps ==
  ASSUME NEW x \in Executions, FilesFit(x)
  PROVE  LET y == MarkTeardownPending(x)
         IN  /\ Kin(x, y) /\ FilesFit(y) /\ y.owned = x.owned /\ y.term = x.term
             /\ y.salvage = x.salvage /\ y.secrets = x.secrets /\ y.dir = x.dir
             /\ y.vault = "cleaned" => x.vault = "cleaned"
             /\ y.thrown => x.thrown \/ x.vault = "cleaned"
<1>1. CASE ~(x.secrets \/ x.salvage)
  BY <1>1 DEF MarkTeardownPending, Kin
<1>2. CASE x.secrets \/ x.salvage
  <2> DEFINE y == Mark(x, "teardown_pending")
  <2>1. MarkTeardownPending(x) = y
    BY <1>2 DEF MarkTeardownPending
  <2>2. x.vault = "cleaned" => x.salvage
    BY <1>2 DEF FilesFit
  <2>3. /\ Kin(x, y) /\ y.owned = x.owned /\ y.term = x.term /\ y.dir = x.dir
        /\ y.salvage = x.salvage /\ y.secrets = x.secrets
        /\ y.vault = IF x.vault \in {"none", "cleaned"} THEN x.vault ELSE "teardown_pending"
        /\ y.thrown => x.thrown \/ x.vault = "cleaned"
    BY <2>2, MarkKeeps
  <2> HIDE DEF y
  <2>4. FilesFit(y)
    BY <2>3 DEF FilesFit, Kin
  <2> QED BY <2>1, <2>3, <2>4
<1> QED BY <1>1, <1>2

\* A handler throws only where nothing is left of a captured group.
LEMMA CleanupAfterTeardownKeeps ==
  ASSUME NEW x \in Executions, NEW safe \in BOOLEAN, FilesFit(x),
         x.secrets /\ x.owned = "no" => x.group = "none"
  PROVE  LET y == CleanupAfterTeardown(x, safe)
         IN  /\ Kin(x, y) /\ FilesFit(y) /\ y.term = x.term
             /\ Vanished(y) => y.thrown
             /\ y.thrown => x.thrown \/ Vanished(x)
<1>1. CASE x.owned = "no"
  BY <1>1, CleanupRunKeeps DEF CleanupAfterTeardown, Kin, Vanished
<1>2. CASE x.owned # "no"
  <2> DEFINE u == MarkTeardownPending(x)
             y == VerifyTeardown(u, safe)
  <2>1. /\ Kin(x, u) /\ FilesFit(u) /\ u.owned = x.owned /\ u.term = x.term
        /\ u.thrown => x.thrown \/ x.vault = "cleaned"
    BY MarkPendingKeeps
  <2>2. CleanupAfterTeardown(x, safe) = IF u.thrown THEN u ELSE y
    BY <1>2 DEF CleanupAfterTeardown, Then
  <2>3. x.vault = "cleaned" => Vanished(x)
    BY <1>2 DEF FilesFit, Vanished, Executions
  <2> HIDE DEF u
  <2>4. CASE u.thrown
    BY <2>1, <2>2, <2>3, <2>4
  <2>5. CASE ~u.thrown
    <3>1. u \in Executions
      BY <2>1 DEF Kin
    <3>2. /\ Kin(u, y) /\ FilesFit(y) /\ y.term = u.term /\ ~Vanished(y)
          /\ y.owned = "no" \/ y = u
      BY <2>1, <3>1, VerifyTeardownKeeps
    <3> HIDE DEF y
    <3>3. Kin(x, y)
      BY <2>1, <3>2, KinTrans
    <3>4. y.thrown => Vanished(x)
      BY <2>1, <2>5, <3>2, <1>2 DEF Kin, Vanished
    <3> QED BY <2>1, <2>2, <2>5, <3>2, <3>3, <3>4
  <2> QED BY <2>4, <2>5
<1> QED BY <1>1, <1>2

LEMMA TerminateKeeps ==
  ASSUME NEW x \in Executions, NEW safe \in BOOLEAN, FilesFit(x)
  PROVE  LET y == Terminate(x, safe)
         IN  /\ Kin(x, y) /\ FilesFit(y) /\ y.owned = x.owned
             /\ y.term = IF x.term = "none" THEN "grace" ELSE x.term
             /\ y.thrown => x.thrown \/ Vanished(x)
<1>1. CASE x.term # "none"
  BY <1>1 DEF Terminate, Kin
<1>2. CASE x.term = "none"
  <2> DEFINE u == [x EXCEPT !.term = "grace"]
  <2>0. /\ u \in Executions /\ u.owned = x.owned /\ u.term = "grace"
        /\ u.phase = x.phase /\ u.slot = x.slot /\ u.unproven = x.unproven
        /\ u.timedOut = x.timedOut /\ u.due = x.due /\ u.stop = x.stop /\ u.group = x.group
        /\ u.ident = x.ident /\ u.rev = x.rev /\ u.salvage = x.salvage
        /\ u.secrets = x.secrets /\ u.dir = x.dir /\ u.vault = x.vault /\ u.thrown = x.thrown
    BY DEF Executions
  <2>1. Terminate(x, safe) = Signal(u, safe)
    BY <1>2 DEF Terminate
  <2> HIDE DEF u
  <2>2. Kin(x, u) /\ FilesFit(u) /\ (Vanished(u) <=> Vanished(x))
    BY <2>0 DEF Kin, FilesFit, Vanished
  <2>3. CASE Vanished(u)
    <3> DEFINE y == FinalizeVerified(u, safe)
    <3>1. Signal(u, safe) = y
      BY <2>3 DEF Signal
    <3>2. Kin(u, y) /\ FilesFit(y) /\ y.owned = u.owned /\ y.term = u.term
      BY <2>0, <2>2, <2>3, FinalizeKeeps DEF Vanished
    <3> HIDE DEF y
    <3>3. Kin(x, y)
      BY <2>2, <3>2, KinTrans
    <3> QED BY <1>2, <2>0, <2>1, <2>2, <2>3, <3>1, <3>2, <3>3
  <2>4. CASE ~Vanished(u) /\ u.owned = "unknown"
    <3> DEFINE y == MarkTeardownPending(u)
    <3>1. Signal(u, safe) = y
      BY <2>4 DEF Signal
    <3>2. /\ Kin(u, y) /\ FilesFit(y) /\ y.owned = u.owned /\ y.term = u.term
          /\ y.thrown => u.thrown \/ u.vault = "cleaned"
      BY <2>0, <2>2, MarkPendingKeeps
    <3>3. u.vault # "cleaned"
      BY <2>2, <2>4 DEF FilesFit
    <3> HIDE DEF y
    <3>4. Kin(x, y)
      BY <2>2, <3>2, KinTrans
    <3> QED BY <1>2, <2>0, <2>1, <3>1, <3>2, <3>3, <3>4
  <2>5. CASE ~Vanished(u) /\ u.owned # "unknown"
    BY <1>2, <2>0, <2>1, <2>2, <2>5 DEF Signal
  <2> QED BY <2>3, <2>4, <2>5
<1> QED BY <1>1, <1>2

\* The pair of termination and cleanup, whatever became of the group.
LEMMA AbandonKeeps ==
  ASSUME NEW x \in Executions, NEW safe \in BOOLEAN, FilesFit(x),
         x.secrets /\ x.owned = "no" => x.group = "none"
  PROVE  LET y == Abandon(x, safe)
         IN  /\ Kin(x, y) /\ FilesFit(y)
             /\ y.term = IF x.term = "none" THEN "grace" ELSE x.term
             /\ Vanished(y) => y.thrown
             /\ y.thrown => x.thrown \/ Vanished(x)
<1> DEFINE u == Terminate(x, safe)
           y == CleanupAfterTeardown(u, safe)
<1>1. /\ Kin(x, u) /\ FilesFit(u) /\ u.owned = x.owned
      /\ u.term = IF x.term = "none" THEN "grace" ELSE x.term
      /\ u.thrown => x.thrown \/ Vanished(x)
  BY TerminateKeeps
<1>2. Abandon(x, safe) = IF u.thrown THEN u ELSE y
  BY DEF Abandon, Then
<1> HIDE DEF u
<1>3. CASE u.thrown
  BY <1>1, <1>2, <1>3
<1>4. CASE ~u.thrown
  <2>1. u \in Executions /\ (u.secrets /\ u.owned = "no" => u.group = "none")
    BY <1>1 DEF Kin
  <2>2. /\ Kin(u, y) /\ FilesFit(y) /\ y.term = u.term /\ (Vanished(y) => y.thrown)
        /\ y.thrown => u.thrown \/ Vanished(u)
    BY <1>1, <2>1, CleanupAfterTeardownKeeps
  <2> HIDE DEF y
  <2>3. Kin(x, y)
    BY <1>1, <2>2, KinTrans
  <2>4. Vanished(u) => Vanished(x)
    BY <1>1 DEF Kin, Vanished
  <2> QED BY <1>1, <1>2, <1>4, <2>2, <2>3, <2>4
<1> QED BY <1>3, <1>4

-----------------------------------------------------------------------------
(* What a step must leave alone for the rest to hold. *)

\* What a helper leaves of an execution has its shape again.
LEMMA KinFits ==
  ASSUME NEW x \in Executions, NEW y, Kin(x, y), FilesFit(y), TakeoverFits(y),
         Late(x, y.term # "none")
  PROVE  /\ y \in Executions /\ ShapeFits(y)
         /\ y.phase = x.phase /\ y.slot = x.slot /\ y.group = x.group /\ y.stop = x.stop
<1>1. /\ y \in Executions
      /\ y.phase = x.phase /\ y.slot = x.slot /\ y.group = x.group /\ y.stop = x.stop
  BY DEF Kin
<1>2. y.phase \in LatePhases
  BY <1>1 DEF Late
<1>3. UntrackedFits(y) /\ IdentifiedFits(y)
  BY <1>2 DEF UntrackedFits, IdentifiedFits, LatePhases
<1>4. Late(y, y.term # "none")
  BY <1>2 DEF Late, Kin, Vanished
<1> QED BY <1>1, <1>3, <1>4 DEF ShapeFits

\* Catching changes nothing else.
LEMMA CaughtFits ==
  ASSUME NEW x \in Executions, ShapeFits(x)
  PROVE  /\ Caught(x) \in Executions /\ ExecutionFits(Caught(x))
         /\ Caught(x).phase = x.phase /\ Caught(x).slot = x.slot /\ Caught(x).group = x.group
         /\ Caught(x).stop = x.stop /\ Caught(x).vault = x.vault /\ Caught(x).owned = x.owned
         /\ Caught(x).term = x.term /\ Caught(x).salvage = x.salvage
         /\ Caught(x).secrets = x.secrets /\ Caught(x).dir = x.dir
<1> DEFINE y == Caught(x)
<1>1. /\ y \in Executions /\ ~y.thrown
      /\ y.phase = x.phase /\ y.slot = x.slot /\ y.unproven = x.unproven
      /\ y.timedOut = x.timedOut /\ y.due = x.due /\ y.stop = x.stop /\ y.group = x.group
      /\ y.ident = x.ident /\ y.rev = x.rev /\ y.owned = x.owned /\ y.term = x.term
      /\ y.salvage = x.salvage /\ y.secrets = x.secrets /\ y.dir = x.dir /\ y.vault = x.vault
  BY DEF Caught, Executions
<1> HIDE DEF y
<1>2. UntrackedFits(y) /\ FilesFit(y) /\ IdentifiedFits(y)
  BY <1>1 DEF ShapeFits, UntrackedFits, FilesFit, IdentifiedFits
<1>3. TakeoverFits(y)
  BY <1>1 DEF ShapeFits, TakeoverFits, HalfCleaned, Vanished, Wedged
<1>4. y.phase \in LatePhases => Late(y, y.term # "none")
  BY <1>1 DEF ShapeFits, Late
<1>5. ExecutionFits(y)
  BY <1>1, <1>2, <1>3, <1>4 DEF ExecutionFits, ShapeFits
<1> QED BY <1>1, <1>5 DEF y

\* A run that was taken over and cleaned stays so.
WedgeFits(x) == Wedged(x) => x.salvage /\ x.vault = "cleaned"

LEMMA KinWedge ==
  ASSUME NEW x, NEW y, Kin(x, y), WedgeFits(x), y.term \in {x.term, "grace"}
  PROVE  WedgeFits(y)
BY DEF WedgeFits, Wedged, Kin

LEMMA AbandonFits ==
  ASSUME NEW x \in Executions, NEW safe \in BOOLEAN, FilesFit(x), Late(x, TRUE), ~x.thrown,
         WedgeFits(x), Vanished(x) => x.phase = "live"
  PROVE  LET y == Abandon(x, safe)
         IN  /\ y \in Executions /\ ShapeFits(y)
             /\ y.phase = x.phase /\ y.slot = x.slot /\ y.group = x.group /\ y.stop = x.stop
             /\ y.thrown => Vanished(x) /\ x.salvage
<1> DEFINE y == Abandon(x, safe)
<1>1. x.secrets /\ x.owned = "no" => x.group = "none"
  BY DEF Late
<1>2. /\ Kin(x, y) /\ FilesFit(y) /\ y.term = (IF x.term = "none" THEN "grace" ELSE x.term)
      /\ Vanished(y) => y.thrown
      /\ y.thrown => x.thrown \/ Vanished(x)
  BY <1>1, AbandonKeeps
<1> HIDE DEF y
<1>3. WedgeFits(y)
  BY <1>2, KinWedge
<1>4. TakeoverFits(y)
  <2>1. Vanished(y) => HalfCleaned(y) /\ y.phase = "live" /\ y.term # "none"
    BY <1>2 DEF Kin, Vanished, HalfCleaned
  <2>2. y.owned = "captured" => y.dir \/ Vanished(y)
    BY <1>2 DEF FilesFit, Vanished
  <2> QED BY <1>3, <2>1, <2>2 DEF TakeoverFits, HalfCleaned, WedgeFits
<1>5. Late(x, y.term # "none")
  BY <1>2
<1>6. y.thrown => Vanished(x) /\ x.salvage
  BY <1>2 DEF Kin
<1> QED BY <1>2, <1>4, <1>5, <1>6, KinFits DEF y

LEMMA VerifyTeardownFits ==
  ASSUME NEW x \in Executions, NEW safe \in BOOLEAN, FilesFit(x), Late(x, x.term # "none"),
         ~x.thrown, WedgeFits(x)
  PROVE  LET y == VerifyTeardown(x, safe)
         IN  /\ y \in Executions /\ ShapeFits(y)
             /\ y.phase = x.phase /\ y.slot = x.slot /\ y.group = x.group /\ y.stop = x.stop
             /\ y.term = x.term /\ ~Vanished(y) /\ (y.owned = "no" \/ y = x)
             /\ y.thrown => HalfCleaned(x) /\ y.salvage /\ y.vault = "cleaned" /\ y.owned = "no"
<1> DEFINE y == VerifyTeardown(x, safe)
<1>1. /\ Kin(x, y) /\ FilesFit(y) /\ y.term = x.term /\ ~Vanished(y)
      /\ y.owned = "no" \/ y = x
      /\ Vanished(x) \/ y = x
      /\ y.thrown => x.thrown \/ x.vault = "cleaned"
  BY VerifyTeardownKeeps
<1> HIDE DEF y
<1>2. WedgeFits(y)
  BY <1>1, KinWedge
<1>3. TakeoverFits(y)
  BY <1>1, <1>2 DEF TakeoverFits, HalfCleaned, WedgeFits, FilesFit, Vanished
<1>4. y.thrown => HalfCleaned(x) /\ y.salvage /\ y.vault = "cleaned" /\ y.owned = "no"
  BY <1>1 DEF Kin, HalfCleaned, Vanished
<1>5. Late(x, y.term # "none")
  BY <1>1
<1> QED BY <1>1, <1>3, <1>4, <1>5, KinFits DEF y

LEMMA MarkPendingFits ==
  ASSUME NEW x \in Executions, FilesFit(x), Late(x, x.term # "none"), ~x.thrown,
         TakeoverFits(x), x.vault # "cleaned"
  PROVE  LET y == MarkTeardownPending(x)
         IN  /\ y \in Executions /\ ExecutionFits(y)
             /\ y.phase = x.phase /\ y.slot = x.slot /\ y.group = x.group /\ y.stop = x.stop
<1> DEFINE y == MarkTeardownPending(x)
<1>1. /\ Kin(x, y) /\ FilesFit(y) /\ y.owned = x.owned /\ y.term = x.term /\ y.dir = x.dir
      /\ y.vault = "cleaned" => x.vault = "cleaned"
      /\ y.thrown => x.thrown \/ x.vault = "cleaned"
  BY MarkPendingKeeps
<1> HIDE DEF y
<1>2. TakeoverFits(y)
  BY <1>1 DEF TakeoverFits, HalfCleaned, Wedged, Kin
<1>3. Late(x, y.term # "none") /\ ~y.thrown
  BY <1>1
<1> QED BY <1>1, <1>2, <1>3, KinFits DEF y, ExecutionFits

(* The frame: one execution changes. *)

RunsStay == \A s \in Runs : run'[s] = "none" => run[s] = "none"

LEMMA RunsStayStep == IInv /\ [Next]_vars => RunsStay
<1> SUFFICES ASSUME IInv, Next PROVE RunsStay
  BY DEF RunsStay, vars
<1>r. run \in [Runs -> {"none", "running"} \cup Outcomes]
  BY DEF IInv, TypeOK
<1>o. "none" \notin Outcomes /\ "failed" \in Outcomes /\ "cancelled" \in Outcomes
  BY ConstantsAssumption DEF Outcomes
<1>k. UNCHANGED run => RunsStay
  BY DEF RunsStay
<1>w. ASSUME NEW x, NEW v, run' = [run EXCEPT ![x] = v], v # "none" PROVE RunsStay
  BY <1>w, <1>r DEF RunsStay
<1>1. CASE Record \/ Admin \/ Clock
  BY <1>1, <1>k DEF Record, AppendTrustedJobEvent, Admin, CreateJob, UpdateJob, DeleteJob,
                    ArchiveProject, UnarchiveProject, Clock, LeaseAges, BackoffElapses
<1>2. CASE Dispatch
  <2>1. ASSUME NEW d \in Deliveries, NEW from, Claim(d, from) PROVE RunsStay
    BY <2>1, <1>w DEF Claim
  <2>2. ASSUME NEW p \in Projects, ClaimJobEventDelivery(p) PROVE RunsStay
    BY <2>1, <2>2, <1>k DEF ClaimJobEventDelivery
  <2>3. ASSUME NEW p \in Projects, SnapshotTrustedJobEvents(p) PROVE RunsStay
    BY <2>3, <1>k DEF SnapshotTrustedJobEvents
  <2> QED BY <1>2, <2>1, <2>2, <2>3 DEF Dispatch, ClaimNextJobEventDelivery
<1>3. CASE Callers
  <2>d. PICK d \in Deliveries : \E n \in Claims(d) : HolderCall(d, n)
    BY <1>3 DEF Callers
  <2>n. PICK n \in Claims(d) : HolderCall(d, n)
    BY <2>d
  <2>1. ASSUME NEW x, NEW v, EndIfActive(x, v), v # "none" PROVE RunsStay
    BY <2>1, <1>r DEF EndIfActive, RunsStay
  <2>2. ASSUME NEW outcome \in Outcomes, NEW force \in BOOLEAN,
               CompleteJobEventDelivery(d, n, outcome, force)
        PROVE  RunsStay
    BY <2>1, <2>2, <1>o DEF CompleteJobEventDelivery
  <2>3. ASSUME NEW resolution, ResolveExpiredJobEventLease(d, n, resolution) PROVE RunsStay
    BY <2>1, <2>3 DEF ResolveExpiredJobEventLease
  <2>4. HeartbeatJobEventDelivery(d, n) \/ PersistJobEventAttemptProcessIdentity(d, n) => RunsStay
    BY <1>k DEF HeartbeatJobEventDelivery, PersistJobEventAttemptProcessIdentity
  <2>5. "success" \in Outcomes /\ Failures \subseteq Outcomes
    BY DEF Outcomes
  <2> QED BY <2>n, <2>2, <2>3, <2>4, <2>5 DEF HolderCall
<1>4. CASE RunCalls
  <2>1. ASSUME NEW j \in Jobs, NEW k \in 1..MaxOrdinary, StartJobRun(j, k) PROVE RunsStay
    BY <2>1, <1>w DEF StartJobRun
  <2>2. ASSUME NEW r \in Runs, CancelJobRun(r) PROVE RunsStay
    BY <2>2, <1>w DEF CancelJobRun
  <2>3. ASSUME NEW r \in Runs, NEW s \in Outcomes, FinishJobRun(r, s) PROVE RunsStay
    BY <2>3, <1>w, <1>o DEF FinishJobRun
  <2>4. ASSUME RecoverInterruptedJobRuns PROVE RunsStay
    BY <2>4 DEF RecoverInterruptedJobRuns, RunsStay
  <2> QED BY <1>4, <2>1, <2>2, <2>3, <2>4 DEF RunCalls
<1> QED BY <1>1, <1>2, <1>3, <1>4 DEF Next

LEMMA SlotsStay ==
  ASSUME ProcessInv, NEW r \in Runs, NEW x, Set(r, x),
         x.slot => exec[r].slot \/ Cardinality(Occupied) < MaxConcurrentRuns
  PROVE  SlotsFit'
<1>e. exec \in [Runs -> Executions]
  BY DEF ProcessInv, RunnerTypeOK
<1>1. IsFiniteSet(Occupied) /\ Cardinality(Occupied) <= MaxConcurrentRuns
  BY DEF ProcessInv, SlotsFit
<1>2. CASE x.slot => exec[r].slot
  <2>1. Occupied' \subseteq Occupied
    BY <1>2, <1>e DEF Occupied, Set
  <2>2. IsFiniteSet(Occupied') /\ Cardinality(Occupied') <= Cardinality(Occupied)
    BY <2>1, <1>1, FS_Subset
  <2>3. Cardinality(Occupied') \in Nat /\ Cardinality(Occupied) \in Nat
    BY <2>2, <1>1, FS_CardinalityType
  <2> QED BY <1>1, <2>2, <2>3, RunnerAssumption DEF SlotsFit
<1>3. CASE x.slot /\ ~exec[r].slot
  <2>1. Occupied' = Occupied \cup {r} /\ r \notin Occupied
    BY <1>3, <1>e DEF Occupied, Set
  <2>2. IsFiniteSet(Occupied') /\ Cardinality(Occupied') = Cardinality(Occupied) + 1
    BY <2>1, <1>1, FS_AddElement
  <2>3. Cardinality(Occupied) \in Nat /\ Cardinality(Occupied) < MaxConcurrentRuns
    BY <1>1, <1>3, FS_CardinalityType
  <2> QED BY <2>2, <2>3, RunnerAssumption DEF SlotsFit
<1> QED BY <1>2, <1>3

LEMMA SetKeeps ==
  ASSUME ProcessInv, RunsStay, NEW r \in Runs, NEW x \in Executions, Set(r, x),
         ExecutionFits(x), run'[r] # "none",
         x.slot => exec[r].slot \/ Cardinality(Occupied) < MaxConcurrentRuns,
         up' = up, restarts' = restarts,
         busy' \in Runs \cup {NoRun}, x.phase \in BusyPhases <=> busy' = r,
         \A s \in Runs : s # r => (busy' = s <=> busy = s),
         \A s \in Runs : exec'[s].stop = "mark" => busy' = NoRun,
         up = "down" => busy' = NoRun,
         pass' \in Passes, ListingFits(r)',
         \A s \in Runs : s # r => pass'.listed[s] \in {pass.listed[s], NotListed},
         \A s \in Runs : pass'.at = s /\ s # r => pass.at = s,
         pass'.at # NoRun => pass'.on /\ pass'.listed[pass'.at] = NotListed,
         pass'.at = r => x.phase \in LatePhases
  PROVE  ProcessInv'
<1>e. exec \in [Runs -> Executions] /\ exec' \in [Runs -> Executions]
  BY DEF ProcessInv, RunnerTypeOK, Set
<1>x. exec'[r] = x /\ \A s \in Runs : s # r => exec'[s] = exec[s]
  BY <1>e DEF Set
<1>2. ASSUME NEW s \in Runs PROVE ExecutionFits(exec'[s])
  BY <1>x DEF ProcessInv
<1>1. RunnerTypeOK'
  <2>1. \A s \in Runs : ~exec'[s].thrown /\ (Wedged(exec'[s]) => exec'[s].salvage)
    BY <1>2 DEF ExecutionFits, ShapeFits, TakeoverFits
  <2> QED BY <1>e, <2>1 DEF ProcessInv, RunnerTypeOK
<1>3. ASSUME NEW s \in Runs PROVE ListingFits(s)'
  <2>1. CASE s = r
    BY <2>1
  <2>2. CASE s # r
    <3>1. pass'.listed[s] = pass.listed[s] \/ pass'.listed[s].vault = "none"
      BY <2>2 DEF NotListed
    <3>2. exec'[s] = exec[s] /\ ListingFits(s)
      BY <2>2, <1>x DEF ProcessInv
    <3> QED BY <3>1, <3>2 DEF ListingFits
  <2> QED BY <2>1, <2>2
<1>4. PassFits'
  <2>1. pass'.at \in Runs \cup {NoRun}
    BY DEF Passes
  <2>2. pass'.at # NoRun => exec'[pass'.at].phase \in LatePhases
    BY <2>1, <1>x, RunnerAssumption DEF ProcessInv, PassFits
  <2> QED BY <2>2 DEF PassFits
<1>5. BusyFits'
  <2>1. \A s \in Runs : exec'[s].phase \in BusyPhases <=> busy' = s
    BY <1>x DEF ProcessInv, BusyFits
  <2> QED BY <2>1 DEF BusyFits
<1>6. SlotsFit'
  BY SlotsStay
<1>7. UnstartedFits'
  <2> SUFFICES ASSUME NEW s \in Runs, run'[s] = "none"
               PROVE  exec'[s].phase = "idle" /\ pass'.listed[s] = NotListed /\ pass'.at # s
    BY DEF UnstartedFits
  <2>1. s # r /\ run[s] = "none"
    BY DEF RunsStay
  <2>2. exec[s].phase = "idle" /\ pass.listed[s] = NotListed /\ pass.at # s
    BY <2>1 DEF ProcessInv, UnstartedFits
  <2> QED BY <1>x, <2>1, <2>2
<1>8. \A s \in Runs : (ExecutionFits(exec[s]) /\ ListingFits(s))'
  BY <1>2, <1>3
<1> QED BY <1>1, <1>8, <1>4, <1>5, <1>6, <1>7 DEF ProcessInv

\* A handler or a piece of one: what Go and Return do.
LEMMA TurnKeeps ==
  ASSUME ProcessInv, RunsStay, NEW r \in Runs, NEW x \in Executions, Set(r, x),
         UNCHANGED <<up, restarts, pass>>,
         busy' = IF x.phase \in BusyPhases THEN r ELSE NoRun,
         \/ busy = r
         \/ /\ busy = NoRun
            /\ x.phase \in BusyPhases => \A s \in Runs : exec[s].stop # "mark",
         up # "down", ExecutionFits(x), exec[r].phase # "idle",
         exec[r].phase \in LatePhases => x.phase \in LatePhases,
         exec[r].phase = "done" => x.phase = "done" /\ exec[r].vault # "prepared",
         x.slot => exec[r].slot \/ Cardinality(Occupied) < MaxConcurrentRuns
  PROVE  ProcessInv'
<1>e. exec \in [Runs -> Executions] /\ NoRun \notin Runs
  BY RunnerAssumption DEF ProcessInv, RunnerTypeOK
<1>x. exec'[r] = x /\ \A s \in Runs : s # r => exec'[s] = exec[s]
  BY <1>e DEF Set
<1>1. run'[r] # "none"
  BY DEF ProcessInv, UnstartedFits, RunsStay
<1>2. \A s \in Runs : exec[s].stop = "mark" => busy = NoRun
  BY DEF ProcessInv, BusyFits
<1>3. \A s \in Runs : exec'[s].stop = "mark" => busy' = NoRun
  <2>1. x.stop = "mark" => x.phase \notin BusyPhases
    BY DEF ExecutionFits, ShapeFits, UntrackedFits, IdentifiedFits, BusyPhases
  <2> QED BY <2>1, <1>e, <1>x, <1>2
<1>4. ListingFits(r) /\ PassFits
  BY DEF ProcessInv
<1>5. ListingFits(r)'
  BY <1>4 DEF ListingFits
<1>6. pass'.at = r => x.phase \in LatePhases
  BY <1>4, <1>e DEF PassFits
<1>7. pass' \in Passes
  BY DEF ProcessInv, RunnerTypeOK
<1> QED BY <1>1, <1>3, <1>4, <1>5, <1>6, <1>7, <1>e, SetKeeps DEF PassFits

-----------------------------------------------------------------------------
(* The launch of a child, its confirmation, and the heartbeat and cancel calls. *)

LEMMA GoKeeps ==
  ASSUME ProcessInv, RunsStay, NEW r \in Runs, NEW x \in Executions, Go(r, x),
         x.phase \in BusyPhases, Idle \/ (up # "down" /\ busy = r), ExecutionFits(x),
         exec[r].phase \notin {"idle"} \cup LatePhases,
         x.slot => exec[r].slot \/ Cardinality(Occupied) < MaxConcurrentRuns
  PROVE  ProcessInv'
<1>1. busy = r \/ (busy = NoRun /\ \A s \in Runs : exec[s].stop # "mark")
  BY DEF Idle
<1>2. up # "down" /\ exec[r].phase # "done"
  BY DEF Idle, LatePhases
<1> QED BY <1>1, <1>2, TurnKeeps DEF Go

LEMMA ReturnKeeps ==
  ASSUME ProcessInv, RunsStay, NEW r \in Runs, NEW x \in Executions, Return(r, x),
         x.phase \notin BusyPhases, up # "down", busy = NoRun \/ busy = r, ExecutionFits(x),
         exec[r].phase # "idle",
         exec[r].phase \in LatePhases => x.phase \in LatePhases,
         exec[r].phase = "done" => x.phase = "done" /\ exec[r].vault # "prepared",
         x.slot => exec[r].slot \/ Cardinality(Occupied) < MaxConcurrentRuns
  PROVE  ProcessInv'
BY TurnKeeps DEF Return

\* What every handler starts from.
LEMMA ExecutionIs ==
  ASSUME ProcessInv, NEW r \in Runs
  PROVE  exec[r] \in Executions /\ ExecutionFits(exec[r])
BY DEF ProcessInv, RunnerTypeOK

LEMMA InspectionIs == \A safe \in Inspections : safe \in BOOLEAN
BY RunnerAssumption

\* What one of several executions may become in a step that ends a handler.
Follows(x, y) ==
  /\ y \in Executions /\ ExecutionFits(y) /\ (y.slot => x.slot)
  /\ IF x.phase \in LatePhases THEN y.phase \in LatePhases ELSE y.phase = x.phase
  /\ x.phase = "done" => /\ y.phase = "done"
                         /\ x.vault = "prepared" => y.vault = x.vault /\ y.owned = x.owned

LEMMA ManyKeeps ==
  ASSUME ProcessInv, RunsStay, NEW next,
         exec' = [s \in Runs |-> next[s]], \A s \in Runs : Follows(exec[s], next[s]),
         busy = NoRun, busy' = NoRun, up' \in {"up", "stopping", "down"},
         UNCHANGED <<restarts, pass>>
  PROVE  ProcessInv'
<1>e. exec \in [Runs -> Executions] /\ \A s \in Runs : exec'[s] = next[s]
  BY DEF ProcessInv, RunnerTypeOK
<1>1. \A s \in Runs : exec'[s] \in Executions /\ ExecutionFits(exec'[s])
  BY <1>e DEF Follows
<1>2. RunnerTypeOK'
  <2>1. exec' \in [Runs -> Executions]
    BY <1>e, <1>1
  <2>2. \A s \in Runs : ~exec'[s].thrown /\ (Wedged(exec'[s]) => exec'[s].salvage)
    BY <1>1 DEF ExecutionFits, ShapeFits, TakeoverFits
  <2> QED BY <2>1, <2>2 DEF ProcessInv, RunnerTypeOK
<1>3. \A s \in Runs : ListingFits(s)'
  BY <1>e DEF ProcessInv, ListingFits, Follows
<1>4. PassFits'
  <2>1. pass.at \in Runs \cup {NoRun}
    BY DEF ProcessInv, RunnerTypeOK, Passes
  <2> QED BY <1>e, <2>1 DEF ProcessInv, PassFits, Follows
<1>5. BusyFits'
  <2>1. \A s \in Runs : exec[s].phase \notin BusyPhases
    BY RunnerAssumption DEF ProcessInv, BusyFits
  <2>2. \A s \in Runs : exec'[s].phase \notin BusyPhases
    BY <1>e, <2>1 DEF Follows, BusyPhases, LatePhases
  <2> QED BY <2>2, RunnerAssumption DEF BusyFits
<1>6. SlotsFit'
  <2>1. Occupied' \subseteq Occupied
    BY <1>e DEF Occupied, Follows
  <2>2. IsFiniteSet(Occupied) /\ Cardinality(Occupied) <= MaxConcurrentRuns
    BY DEF ProcessInv, SlotsFit
  <2>3. IsFiniteSet(Occupied') /\ Cardinality(Occupied') <= Cardinality(Occupied)
    BY <2>1, <2>2, FS_Subset
  <2>4. Cardinality(Occupied') \in Nat /\ Cardinality(Occupied) \in Nat
    BY <2>2, <2>3, FS_CardinalityType
  <2> QED BY <2>2, <2>3, <2>4, RunnerAssumption DEF SlotsFit
<1>7. UnstartedFits'
  <2> SUFFICES ASSUME NEW s \in Runs, run'[s] = "none"
               PROVE  exec'[s].phase = "idle" /\ pass'.listed[s] = NotListed /\ pass'.at # s
    BY DEF UnstartedFits
  <2>1. exec[s].phase = "idle" /\ pass.listed[s] = NotListed /\ pass.at # s
    BY DEF RunsStay, ProcessInv, UnstartedFits
  <2> QED BY <1>e, <2>1 DEF Follows, LatePhases
<1>8. \A s \in Runs : (ExecutionFits(exec[s]) /\ ListingFits(s))'
  BY <1>1, <1>3
<1> QED BY <1>2, <1>4, <1>5, <1>6, <1>7, <1>8 DEF ProcessInv

\* A run that is collected for the shutdown fits as well.
LEMMA CollectedFits ==
  ASSUME NEW x, NEW y, Follows(x, y)
  PROVE  Follows(x, Collected(y))
<1>1. CASE y.phase \notin {"live", "unborn", "torn"}
  BY <1>1 DEF Collected
<1>2. CASE y.phase \in {"live", "unborn", "torn"}
  <2> DEFINE z == [y EXCEPT !.stop = "mark"]
  <2>1. Collected(y) = z
    BY <1>2 DEF Collected
  <2>2. y \in Executions /\ ExecutionFits(y)
    BY DEF Follows
  <2>3. /\ z \in Executions /\ z.stop = "mark" /\ z.phase = y.phase /\ z.slot = y.slot
        /\ z.unproven = y.unproven /\ z.timedOut = y.timedOut /\ z.group = y.group
        /\ z.ident = y.ident /\ z.owned = y.owned /\ z.term = y.term /\ z.salvage = y.salvage
        /\ z.secrets = y.secrets /\ z.dir = y.dir /\ z.vault = y.vault /\ z.thrown = y.thrown
    BY <2>2 DEF Executions
  <2> HIDE DEF z
  <2>4. UntrackedFits(z) /\ FilesFit(z) /\ IdentifiedFits(z)
    BY <1>2, <2>2, <2>3 DEF ExecutionFits, ShapeFits, UntrackedFits, FilesFit, IdentifiedFits
  <2>5. TakeoverFits(z)
    BY <2>2, <2>3 DEF ExecutionFits, ShapeFits, TakeoverFits, HalfCleaned, Wedged, Vanished
  <2>6. Late(z, z.term # "none")
    BY <1>2, <2>2, <2>3 DEF ExecutionFits, ShapeFits, Late, LatePhases
  <2>7. ExecutionFits(z)
    BY <2>2, <2>3, <2>4, <2>5, <2>6 DEF ExecutionFits, ShapeFits
  <2> QED BY <2>1, <2>3, <2>7 DEF Follows
<1> QED BY <1>1, <1>2

LEMMA SameFollows ==
  ASSUME ProcessInv, NEW r \in Runs
  PROVE  Follows(exec[r], exec[r])
BY ExecutionIs DEF Follows

\* An exception out of a timer or an event handler.
LEMMA UncaughtKeeps ==
  ASSUME ProcessInv, RunsStay, NEW r \in Runs, NEW x \in Executions, Idle, Uncaught(r, x),
         ShapeFits(x), exec[r].phase \in LatePhases, x.phase \in LatePhases,
         x.slot => exec[r].slot,
         exec[r].phase = "done" => x.phase = "done" /\ exec[r].vault # "prepared"
  PROVE  ProcessInv'
<1>1. /\ Caught(x) \in Executions /\ ExecutionFits(Caught(x))
      /\ Caught(x).phase = x.phase /\ Caught(x).slot = x.slot
  BY CaughtFits
<1>2. up # "down" /\ busy = NoRun
  BY DEF Idle
<1>3. Follows(exec[r], Caught(x))
  BY <1>1 DEF Follows
<1>4. CASE up = "up"
  <2> DEFINE next == [s \in Runs |-> Collected(IF s = r THEN Caught(x) ELSE exec[s])]
  <2>1. exec' = [s \in Runs |-> next[s]] /\ up' = "stopping" /\ busy' = NoRun
        /\ UNCHANGED <<restarts, pass>>
    BY <1>4 DEF Uncaught
  <2>2. \A s \in Runs : Follows(exec[s], next[s])
    BY <1>3, SameFollows, CollectedFits
  <2> HIDE DEF next
  <2> QED BY <1>2, <2>1, <2>2, ManyKeeps
<1>5. CASE up # "up"
  <2>1. Return(r, Caught(x))
    BY <1>5 DEF Uncaught, Return
  <2>2. x.phase \notin BusyPhases /\ exec[r].phase # "idle"
    BY DEF BusyPhases, LatePhases
  <2> QED BY <1>1, <1>2, <2>1, <2>2, ReturnKeeps
<1> QED BY <1>4, <1>5

LEMMA EndsKeeps ==
  ASSUME ProcessInv, RunsStay, NEW r \in Runs, NEW x \in Executions, Idle, Ends(r, x),
         ShapeFits(x), exec[r].phase \in LatePhases, x.phase \in LatePhases,
         x.slot => exec[r].slot,
         exec[r].phase = "done" => x.phase = "done" /\ exec[r].vault # "prepared"
  PROVE  ProcessInv'
<1>1. CASE x.thrown
  BY <1>1, UncaughtKeeps DEF Ends
<1>2. CASE ~x.thrown
  <2>1. Return(r, x) /\ ExecutionFits(x)
    BY <1>2 DEF Ends, ExecutionFits
  <2>2. x.phase \notin BusyPhases /\ exec[r].phase # "idle" /\ up # "down" /\ busy = NoRun
    BY DEF BusyPhases, LatePhases, Idle
  <2> QED BY <2>1, <2>2, ReturnKeeps
<1> QED BY <1>1, <1>2

-----------------------------------------------------------------------------
(* executeJobRun. *)

LEMMA BeginKeeps ==
  ASSUME ProcessInv, RunsStay, NEW r \in Runs, Begin(r)
  PROVE  ProcessInv'
<1>e. exec[r] \in Executions /\ ExecutionFits(exec[r])
  BY ExecutionIs
<1>1. exec[r].phase = "handed" /\ up # "down" /\ busy = r
  BY DEF Begin, At
<1>2. CASE Return(r, GiveUp(exec[r]))
  <2> DEFINE x == GiveUp(exec[r])
  <2>1. x \in Executions /\ ExecutionFits(x) /\ ~x.slot /\ x.phase = "done"
    BY <1>e, <1>1 DEF GiveUp, ExecutionFits, ShapeFits, UntrackedFits, FilesFit, IdentifiedFits,
                      Late, LatePhases, TakeoverFits, HalfCleaned, Wedged, Vanished, Executions
  <2> HIDE DEF x
  <2> QED BY <1>1, <1>2, <2>1, ReturnKeeps DEF x, BusyPhases, LatePhases
<1>3. CASE /\ Cardinality(Occupied) < MaxConcurrentRuns
           /\ Return(r, [exec[r] EXCEPT !.phase = "resolving", !.slot = TRUE])
  <2> DEFINE x == [exec[r] EXCEPT !.phase = "resolving", !.slot = TRUE]
  <2>0. /\ x \in Executions /\ x.phase = "resolving" /\ x.slot = TRUE
        /\ x.unproven = exec[r].unproven /\ x.timedOut = exec[r].timedOut
        /\ x.term = exec[r].term /\ x.owned = exec[r].owned /\ x.salvage = exec[r].salvage
        /\ x.stop = exec[r].stop /\ x.ident = exec[r].ident /\ x.secrets = exec[r].secrets
        /\ x.dir = exec[r].dir /\ x.vault = exec[r].vault /\ x.group = exec[r].group
        /\ x.thrown = exec[r].thrown
    BY <1>e DEF Executions
  <2>1. x \in Executions /\ ExecutionFits(x) /\ x.phase = "resolving"
    <3>f. /\ ~exec[r].unproven /\ ~exec[r].timedOut
          /\ exec[r].term = "none" /\ exec[r].owned = "no"
          /\ ~exec[r].salvage /\ exec[r].stop = "no" /\ ~exec[r].ident /\ ~exec[r].secrets
          /\ ~exec[r].dir /\ exec[r].vault = "none" /\ exec[r].group = "none"
      BY <1>e, <1>1 DEF ExecutionFits, ShapeFits, UntrackedFits, Executions
    <3>1. UntrackedFits(x)
      BY <1>e, <3>f DEF UntrackedFits, Executions
    <3> HIDE DEF x
    <3>2. FilesFit(x)
      BY <1>e, <1>1, <2>0 DEF ExecutionFits, ShapeFits, UntrackedFits, FilesFit
    <3>3. IdentifiedFits(x) /\ x.phase \notin LatePhases /\ ~x.thrown
      BY <1>e, <1>1, <2>0 DEF ExecutionFits, IdentifiedFits, LatePhases
    <3>4. TakeoverFits(x)
      BY <2>0, <3>f DEF TakeoverFits, HalfCleaned, Vanished, Wedged
    <3> QED BY <2>0, <3>1, <3>2, <3>3, <3>4 DEF ExecutionFits, ShapeFits
  <2> HIDE DEF x
  <2> QED BY <1>1, <1>3, <2>1, ReturnKeeps DEF x, BusyPhases, LatePhases
<1>4. IsFiniteSet(Occupied)
  BY DEF ProcessInv, SlotsFit
<1>5. Cardinality(Occupied) \in Nat
  BY <1>4, FS_CardinalityType
<1>6. Cardinality(Occupied) < MaxConcurrentRuns \/ Cardinality(Occupied) >= MaxConcurrentRuns
  BY <1>5, RunnerAssumption
<1> QED BY <1>2, <1>3, <1>6 DEF Begin

LEMMA ResolvedKeeps ==
  ASSUME ProcessInv, RunsStay, NEW r \in Runs, Resolved(r)
  PROVE  ProcessInv'
<1>e. exec[r] \in Executions /\ ExecutionFits(exec[r])
  BY ExecutionIs
<1> DEFINE x == [exec[r] EXCEPT !.phase = "prepared", !.vault = "prepared"]
<1>1. Go(r, x) /\ exec[r].phase = "resolving" /\ Idle
  BY DEF Resolved
<1>2. /\ x.phase = "prepared" /\ x.vault = "prepared" /\ x.slot = exec[r].slot
      /\ x.unproven = exec[r].unproven /\ x.timedOut = exec[r].timedOut
      /\ x.term = exec[r].term /\ x.owned = exec[r].owned /\ x.salvage = exec[r].salvage
      /\ x.stop = exec[r].stop /\ x.ident = exec[r].ident /\ x.secrets = exec[r].secrets
      /\ x.dir = exec[r].dir /\ x.group = exec[r].group /\ x.thrown = exec[r].thrown
  BY <1>e DEF Executions
<1>t. x \in Executions
  <2>1. "prepared" \in {"none"} \cup VaultStates
    BY DEF VaultStates
  <2>2. [exec[r] EXCEPT !.phase = "prepared"] \in Executions
    BY <1>e DEF Executions
  <2> QED BY <1>e, <2>1, <2>2 DEF Executions
<1> HIDE DEF x
<1>3. ExecutionFits(x)
  <2>1. UntrackedFits(x) /\ FilesFit(x) /\ IdentifiedFits(x) /\ ~x.thrown
    BY <1>e, <1>1, <1>2, <1>t DEF ExecutionFits, ShapeFits, UntrackedFits, FilesFit,
                                  IdentifiedFits, Executions
  <2>2. TakeoverFits(x)
    BY <1>2, <2>1 DEF UntrackedFits, TakeoverFits, HalfCleaned, Vanished, Wedged
  <2> QED BY <1>2, <2>1, <2>2 DEF ExecutionFits, ShapeFits, LatePhases
<1> QED BY <1>1, <1>2, <1>t, <1>3, GoKeeps DEF BusyPhases, LatePhases

LEMMA ResolveFailsKeeps ==
  ASSUME ProcessInv, RunsStay, NEW r \in Runs, ResolveFails(r)
  PROVE  ProcessInv'
<1>e. exec[r] \in Executions /\ ExecutionFits(exec[r])
  BY ExecutionIs
<1> DEFINE x == GiveUp(exec[r])
<1>1. Return(r, x) /\ exec[r].phase = "resolving" /\ Idle /\ up # "down" /\ busy = NoRun
  BY DEF ResolveFails, Idle
<1>2. x \in Executions /\ ExecutionFits(x) /\ x.slot = FALSE
  BY <1>e, <1>1 DEF GiveUp, ExecutionFits, ShapeFits, UntrackedFits, FilesFit, IdentifiedFits,
                    Late, LatePhases, TakeoverFits, HalfCleaned, Wedged, Vanished, Executions
<1>3. x.phase = "done"
  BY <1>e DEF GiveUp, Executions
<1> HIDE DEF x
<1> QED BY <1>1, <1>2, <1>3, ReturnKeeps DEF BusyPhases, LatePhases

LEMMA WriteFilesKeeps ==
  ASSUME ProcessInv, RunsStay, NEW r \in Runs, WriteFiles(r)
  PROVE  ProcessInv'
<1>e. exec[r] \in Executions /\ ExecutionFits(exec[r])
  BY ExecutionIs
<1> DEFINE x == [exec[r] EXCEPT !.phase = "written", !.dir = TRUE, !.secrets = TRUE]
<1>1. Go(r, x) /\ exec[r].phase = "prepared" /\ up # "down" /\ busy = r
  BY DEF WriteFiles, At
<1>2. x \in Executions /\ ExecutionFits(x) /\ x.slot = exec[r].slot
  BY <1>e, <1>1 DEF ExecutionFits, ShapeFits, UntrackedFits, FilesFit, IdentifiedFits, Late,
                    LatePhases,
                    TakeoverFits, HalfCleaned, Wedged, Vanished, Executions
<1>3. x.phase = "written"
  BY <1>e DEF Executions
<1> HIDE DEF x
<1> QED BY <1>1, <1>2, <1>3, GoKeeps DEF BusyPhases, LatePhases

LEMMA WriteFailsKeeps ==
  ASSUME ProcessInv, RunsStay, NEW r \in Runs, WriteFails(r)
  PROVE  ProcessInv'
<1>e. exec[r] \in Executions /\ ExecutionFits(exec[r])
  BY ExecutionIs
<1>1. exec[r].phase = "prepared" /\ up # "down" /\ busy = r
  BY DEF WriteFails, At
<1>2. PICK state \in {"cleaned", "failed", "teardown_pending"}, left \in BOOLEAN :
        /\ state = "cleaned" => left = FALSE
        /\ Return(r, [GiveUp(exec[r]) EXCEPT !.vault = state, !.dir = left])
  <2>1. PICK p \in {<<"cleaned", FALSE>>, <<"failed", TRUE>>,
                    <<"teardown_pending", TRUE>>, <<"teardown_pending", FALSE>>} :
          Return(r, [GiveUp(exec[r]) EXCEPT !.vault = p[1], !.dir = p[2]])
    BY Zenon DEF WriteFails
  <2>2. CASE p = <<"cleaned", FALSE>>
    <3>1. Return(r, [GiveUp(exec[r]) EXCEPT !.vault = "cleaned", !.dir = FALSE])
      BY <2>1, <2>2
    <3> QED BY <3>1
  <2>3. CASE p = <<"failed", TRUE>>
    <3>1. Return(r, [GiveUp(exec[r]) EXCEPT !.vault = "failed", !.dir = TRUE])
      BY <2>1, <2>3
    <3> QED BY <3>1
  <2>4. CASE p = <<"teardown_pending", TRUE>>
    <3>1. Return(r, [GiveUp(exec[r]) EXCEPT !.vault = "teardown_pending", !.dir = TRUE])
      BY <2>1, <2>4
    <3> QED BY <3>1
  <2>5. CASE p = <<"teardown_pending", FALSE>>
    <3>1. Return(r, [GiveUp(exec[r]) EXCEPT !.vault = "teardown_pending", !.dir = FALSE])
      BY <2>1, <2>5
    <3> QED BY <3>1
  <2> QED BY <2>2, <2>3, <2>4, <2>5
<1> DEFINE x == [GiveUp(exec[r]) EXCEPT !.vault = state, !.dir = left]
<1>3. x \in Executions /\ ExecutionFits(x) /\ ~x.slot /\ x.phase = "done"
  BY ZenonT(60), <1>e, <1>1, <1>2 DEF GiveUp, VaultStates, ExecutionFits, ShapeFits,
                                      UntrackedFits, FilesFit, IdentifiedFits, Late, LatePhases,
                                      TakeoverFits, HalfCleaned, Wedged, Vanished, Executions
<1> HIDE DEF x
<1> QED BY <1>1, <1>2, <1>3, ReturnKeeps DEF x, BusyPhases, LatePhases

LEMMA ForkKeeps ==
  ASSUME ProcessInv, RunsStay, NEW r \in Runs, Fork(r)
  PROVE  ProcessInv'
<1>e. exec[r] \in Executions /\ ExecutionFits(exec[r])
  BY ExecutionIs
<1> DEFINE x == [exec[r] EXCEPT !.phase = "forked", !.group = "leader"]
<1>1. Go(r, x) /\ exec[r].phase = "written" /\ up # "down" /\ busy = r
  BY DEF Fork, At
<1>2. x \in Executions /\ ExecutionFits(x) /\ x.slot = exec[r].slot
  BY <1>e, <1>1 DEF ExecutionFits, ShapeFits, UntrackedFits, FilesFit, IdentifiedFits, Late,
                    LatePhases,
                    TakeoverFits, HalfCleaned, Wedged, Vanished, Executions
<1>3. x.phase = "forked"
  BY <1>e DEF Executions
<1> HIDE DEF x
<1> QED BY <1>1, <1>2, <1>3, GoKeeps DEF BusyPhases, LatePhases

LEMMA SpawnThrowsKeeps ==
  ASSUME ProcessInv, RunsStay, NEW r \in Runs, SpawnThrows(r)
  PROVE  ProcessInv'
<1>e. exec[r] \in Executions /\ ExecutionFits(exec[r])
  BY ExecutionIs
<1>1. exec[r].phase = "written" /\ up # "down" /\ busy = r
  BY DEF SpawnThrows, At
<1>2. PICK safe \in Inspections : Return(r, GiveUp(CleanupRun(exec[r], safe)))
  BY DEF SpawnThrows
<1>3. safe \in BOOLEAN
  BY InspectionIs
<1> DEFINE y == CleanupRun(exec[r], safe)
           x == GiveUp(y)
<1>4. exec[r].owned = "no" /\ exec[r].term = "none" /\ exec[r].stop = "no" /\ ~exec[r].thrown
      /\ exec[r].group = "none" /\ FilesFit(exec[r])
  BY <1>e, <1>1 DEF ExecutionFits, ShapeFits, UntrackedFits
<1>5. /\ y \in Executions /\ FilesFit(y) /\ y.owned = "no" /\ y.group = "none"
      /\ y.term = "none" /\ y.stop = "no" /\ ~y.secrets /\ ~y.thrown
  BY <1>e, <1>3, <1>4, CleanupRunKeeps DEF Kin
<1> HIDE DEF y
<1>t. /\ x \in Executions /\ x.phase = "done" /\ ~x.slot /\ x.group = y.group
      /\ x.owned = y.owned /\ x.term = y.term /\ x.stop = y.stop /\ x.secrets = y.secrets
      /\ x.thrown = y.thrown /\ x.dir = y.dir /\ x.vault = y.vault
  BY <1>5 DEF GiveUp, Executions
<1> HIDE DEF x
<1>6. ExecutionFits(x)
  <2>1. UntrackedFits(x) /\ FilesFit(x) /\ IdentifiedFits(x)
    BY <1>5, <1>t DEF UntrackedFits, FilesFit, IdentifiedFits
  <2>2. TakeoverFits(x)
    BY <1>5, <1>t DEF TakeoverFits, HalfCleaned, Vanished, Wedged
  <2>3. Late(x, x.term # "none")
    BY <1>5, <1>t DEF Late, LatePhases
  <2> QED BY <1>5, <1>t, <2>1, <2>2, <2>3 DEF ExecutionFits, ShapeFits
<1> QED BY <1>1, <1>2, <1>t, <1>6, ReturnKeeps DEF x, y, BusyPhases, LatePhases

LEMMA SpawnWithoutPidKeeps ==
  ASSUME ProcessInv, RunsStay, NEW r \in Runs, SpawnWithoutPid(r)
  PROVE  ProcessInv'
<1>e. exec[r] \in Executions /\ ExecutionFits(exec[r])
  BY ExecutionIs
<1>1. exec[r].phase = "written" /\ up # "down" /\ busy = r
  BY DEF SpawnWithoutPid, At
<1> DEFINE x == [Mark(exec[r], "teardown_pending") EXCEPT !.phase = "unborn", !.unproven = TRUE]
<1>2. PICK safe \in Inspections : Return(r, Abandon(x, safe))
  BY DEF SpawnWithoutPid
<1>3. safe \in BOOLEAN
  BY InspectionIs
<1>4. Mark(exec[r], "teardown_pending") = [exec[r] EXCEPT !.vault = "teardown_pending"]
  <2>1. exec[r].vault = "prepared"
    BY <1>e, <1>1 DEF ExecutionFits, ShapeFits, UntrackedFits
  <2> QED BY <1>e, <2>1, MarkIs
<1>5. /\ x \in Executions /\ FilesFit(x) /\ Late(x, TRUE) /\ ~x.thrown /\ WedgeFits(x)
      /\ x.phase = "unborn" /\ x.slot = exec[r].slot /\ ~Vanished(x)
  BY ZenonT(60), <1>e, <1>1, <1>4 DEF VaultStates, WedgeFits, ExecutionFits, ShapeFits,
                                      UntrackedFits, FilesFit, IdentifiedFits, Late, LatePhases,
                                      TakeoverFits, HalfCleaned, Wedged, Vanished, Executions
<1> HIDE DEF x
<1> DEFINE y == Abandon(x, safe)
<1>6. y \in Executions /\ ExecutionFits(y) /\ y.phase = x.phase /\ y.slot = x.slot
  BY <1>3, <1>5, AbandonFits DEF ExecutionFits
<1> HIDE DEF y
<1> QED BY <1>1, <1>2, <1>5, <1>6, ReturnKeeps DEF y, BusyPhases, LatePhases

LEMMA LaunchErrorKeeps ==
  ASSUME ProcessInv, RunsStay, NEW r \in Runs, LaunchError(r)
  PROVE  ProcessInv'
<1>e. exec[r] \in Executions /\ ExecutionFits(exec[r])
  BY ExecutionIs
<1>1. exec[r].phase = "unborn" /\ Idle /\ up # "down" /\ busy = NoRun
  BY DEF LaunchError, Idle
<1> DEFINE x == [exec[r] EXCEPT !.phase = "closed"]
<1>2. PICK safe \in Inspections : Return(r, CleanupRun(x, safe))
  BY DEF LaunchError
<1>3. safe \in BOOLEAN
  BY InspectionIs
<1>4. exec[r].stop # "mark"
  BY <1>1 DEF Idle
<1>5. /\ x \in Executions /\ FilesFit(x) /\ x.owned = "no" /\ x.group = "none" /\ ~x.thrown
      /\ Late(x, x.term # "none") /\ x.phase = "closed" /\ x.slot = exec[r].slot
      /\ WedgeFits(x)
  BY <1>e, <1>1, <1>4 DEF ExecutionFits, ShapeFits, FilesFit, TakeoverFits, Wedged, WedgeFits,
                          Late, LatePhases, Executions
<1> HIDE DEF x
<1> DEFINE y == CleanupRun(x, safe)
<1>6. Kin(x, y) /\ FilesFit(y) /\ y.owned = x.owned /\ y.term = x.term /\ y.thrown = x.thrown
  BY <1>3, <1>5, CleanupRunKeeps
<1> HIDE DEF y
<1>7. WedgeFits(y)
  BY <1>5, <1>6, KinWedge
<1>8. TakeoverFits(y)
  BY <1>5, <1>6, <1>7 DEF TakeoverFits, HalfCleaned, WedgeFits, Vanished
<1>9. Late(x, y.term # "none")
  BY <1>5, <1>6
<1>10. y \in Executions /\ ExecutionFits(y) /\ y.phase = x.phase /\ y.slot = x.slot
  BY <1>5, <1>6, <1>8, <1>9, KinFits DEF ExecutionFits
<1> QED BY <1>1, <1>2, <1>5, <1>10, ReturnKeeps DEF y, BusyPhases, LatePhases

LEMMA IdentifyKeeps ==
  ASSUME ProcessInv, RunsStay, NEW r \in Runs, Identify(r)
  PROVE  ProcessInv'
<1>e. exec[r] \in Executions /\ ExecutionFits(exec[r])
  BY ExecutionIs
<1>1. exec[r].phase = "forked" /\ exec[r].group = "leader" /\ up # "down" /\ busy = r
  BY DEF Identify, At
<1> DEFINE x == [exec[r] EXCEPT !.owned = "captured", !.vault = "spawned", !.ident = TRUE]
           y == [x EXCEPT !.phase = "identified"]
           z == [x EXCEPT !.phase = "live"]
<1>2. Go(r, y) \/ Return(r, z)
  BY DEF Identify
<1>3. y \in Executions /\ ExecutionFits(y) /\ y.phase = "identified" /\ y.slot = exec[r].slot
  BY <1>e, <1>1 DEF VaultStates, ExecutionFits, ShapeFits, UntrackedFits, FilesFit,
                    IdentifiedFits, Late, LatePhases, TakeoverFits, HalfCleaned, Wedged,
                    Vanished, Executions
<1>4. z \in Executions /\ ExecutionFits(z) /\ z.phase = "live" /\ z.slot = exec[r].slot
  BY <1>e, <1>1 DEF VaultStates, ExecutionFits, ShapeFits, UntrackedFits, FilesFit,
                    IdentifiedFits, Late, LatePhases, TakeoverFits, HalfCleaned, Wedged,
                    Vanished, Executions
<1> HIDE DEF y, z
<1> QED BY <1>1, <1>2, <1>3, <1>4, GoKeeps, ReturnKeeps DEF BusyPhases, LatePhases

LEMMA UnidentifiedKeeps ==
  ASSUME ProcessInv, RunsStay, NEW r \in Runs, Unidentified(r)
  PROVE  ProcessInv'
<1>e. exec[r] \in Executions /\ ExecutionFits(exec[r])
  BY ExecutionIs
<1>1. exec[r].phase = "forked" /\ up # "down" /\ busy = r
  BY DEF Unidentified, At
<1>2. PICK owned \in {"unknown", "captured"} :
        LET x == [Mark(exec[r], "teardown_pending") EXCEPT !.owned = owned, !.unproven = TRUE]
        IN  \/ Go(r, [x EXCEPT !.phase = "identified"])
            \/ \E safe \in Inspections : Return(r, Abandon([x EXCEPT !.phase = "live"], safe))
  <2>1. \A owned \in {"unknown"} \cup (IF exec[r].group = "leader" THEN {"captured"} ELSE {}) :
          owned \in {"unknown", "captured"}
    OBVIOUS
  <2> QED BY <2>1 DEF Unidentified
<1>3. Mark(exec[r], "teardown_pending") = [exec[r] EXCEPT !.vault = "teardown_pending"]
  <2>1. exec[r].vault = "prepared"
    BY <1>e, <1>1 DEF ExecutionFits, ShapeFits, UntrackedFits
  <2> QED BY <1>e, <2>1, MarkIs
<1> DEFINE x == [Mark(exec[r], "teardown_pending") EXCEPT !.owned = owned, !.unproven = TRUE]
           y == [x EXCEPT !.phase = "identified"]
           z == [x EXCEPT !.phase = "live"]
<1>4. y \in Executions /\ ExecutionFits(y) /\ y.phase = "identified" /\ y.slot = exec[r].slot
  BY ZenonT(60), <1>e, <1>1, <1>3 DEF VaultStates, ExecutionFits, ShapeFits, UntrackedFits,
                                      FilesFit, IdentifiedFits, Late, LatePhases, TakeoverFits,
                                      HalfCleaned, Wedged, Vanished, Executions
<1>5. /\ z \in Executions /\ FilesFit(z) /\ Late(z, TRUE) /\ ~z.thrown /\ WedgeFits(z)
      /\ z.phase = "live" /\ z.slot = exec[r].slot /\ ~z.salvage
  BY ZenonT(60), <1>e, <1>1, <1>3 DEF VaultStates, WedgeFits, ExecutionFits, ShapeFits,
                                      UntrackedFits, FilesFit, IdentifiedFits, Late, LatePhases,
                                      TakeoverFits, HalfCleaned, Wedged, Vanished, Executions
<1>6. CASE Go(r, y)
  <2> HIDE DEF y
  <2> QED BY <1>1, <1>4, <1>6, GoKeeps DEF BusyPhases, LatePhases
<1>7. ASSUME NEW safe \in Inspections, Return(r, Abandon(z, safe)) PROVE ProcessInv'
  <2> HIDE DEF z
  <2> DEFINE w == Abandon(z, safe)
  <2>1. safe \in BOOLEAN
    BY InspectionIs
  <2>2. w \in Executions /\ ExecutionFits(w) /\ w.phase = z.phase /\ w.slot = z.slot
    BY <1>5, <2>1, AbandonFits DEF ExecutionFits
  <2> HIDE DEF w
  <2> QED BY <1>1, <1>5, <1>7, <2>2, ReturnKeeps DEF w, BusyPhases, LatePhases
<1> QED BY <1>2, <1>6, <1>7

LEMMA PersistIdentityKeeps ==
  ASSUME ProcessInv, RunsStay, NEW r \in Runs, PersistIdentity(r)
  PROVE  ProcessInv'
<1>e. exec[r] \in Executions /\ ExecutionFits(exec[r])
  BY ExecutionIs
<1>1. exec[r].phase = "identified" /\ ~exec[r].unproven /\ up # "down" /\ busy = r
  BY DEF PersistIdentity, At
<1> DEFINE x == [exec[r] EXCEPT !.phase = "live"]
<1>2. Return(r, x)
  BY DEF PersistIdentity
<1>3. x \in Executions /\ ExecutionFits(x) /\ x.phase = "live" /\ x.slot = exec[r].slot
  BY <1>e, <1>1 DEF ExecutionFits, ShapeFits, UntrackedFits, FilesFit, IdentifiedFits, Late,
                    LatePhases,
                    TakeoverFits, HalfCleaned, Wedged, Vanished, Executions
<1> HIDE DEF x
<1> QED BY <1>1, <1>2, <1>3, ReturnKeeps DEF BusyPhases, LatePhases

LEMMA IdentityRefusedKeeps ==
  ASSUME ProcessInv, RunsStay, NEW r \in Runs, IdentityRefused(r)
  PROVE  ProcessInv'
<1>e. exec[r] \in Executions /\ ExecutionFits(exec[r])
  BY ExecutionIs
<1>1. exec[r].phase = "identified" /\ up # "down" /\ busy = r
  BY DEF IdentityRefused, At
<1> DEFINE x == [exec[r] EXCEPT !.phase = "live", !.unproven = TRUE]
<1>2. PICK safe \in Inspections : Return(r, Abandon(x, safe))
  BY DEF IdentityRefused
<1>3. safe \in BOOLEAN
  BY InspectionIs
<1>4. /\ x \in Executions /\ FilesFit(x) /\ Late(x, TRUE) /\ ~x.thrown /\ WedgeFits(x)
      /\ x.phase = "live" /\ x.slot = exec[r].slot /\ ~x.salvage
  BY <1>e, <1>1 DEF WedgeFits, ExecutionFits, ShapeFits, UntrackedFits, FilesFit,
                    IdentifiedFits, Late, LatePhases, TakeoverFits, HalfCleaned, Wedged,
                    Vanished, Executions
<1> HIDE DEF x
<1> DEFINE y == Abandon(x, safe)
<1>5. y \in Executions /\ ExecutionFits(y) /\ y.phase = x.phase /\ y.slot = x.slot
  BY <1>3, <1>4, AbandonFits DEF ExecutionFits
<1> HIDE DEF y
<1> QED BY <1>1, <1>2, <1>4, <1>5, ReturnKeeps DEF y, BusyPhases, LatePhases

-----------------------------------------------------------------------------
(* Callbacks of a live child. *)

LEMMA FrameKeeps ==
  ASSUME ProcessInv, RunsStay, UNCHANGED runnerVars
  PROVE  ProcessInv'
BY DEF ProcessInv, RunsStay, runnerVars, RunnerTypeOK, ListingFits, PassFits, BusyFits,
       SlotsFit, Occupied, UnstartedFits

\* A child that its handlers can still terminate, by its timer or by a stop.
LEMMA LiveAbandoned ==
  ASSUME ProcessInv, NEW r \in Runs, exec[r].phase \in {"live", "torn"}, NEW timedOut \in BOOLEAN,
         NEW safe \in Inspections
  PROVE  LET y == Abandon([exec[r] EXCEPT !.timedOut = timedOut], safe)
         IN  /\ y \in Executions /\ ShapeFits(y)
             /\ y.phase = exec[r].phase /\ y.slot = exec[r].slot
<1>e. exec[r] \in Executions /\ ExecutionFits(exec[r])
  BY ExecutionIs
<1> DEFINE x == [exec[r] EXCEPT !.timedOut = timedOut]
<1>1. /\ x \in Executions /\ x.stop = exec[r].stop /\ x.phase = exec[r].phase
      /\ x.slot = exec[r].slot /\ x.group = exec[r].group /\ x.owned = exec[r].owned
      /\ x.term = exec[r].term /\ x.salvage = exec[r].salvage /\ x.secrets = exec[r].secrets
      /\ x.dir = exec[r].dir /\ x.vault = exec[r].vault /\ x.thrown = exec[r].thrown
  BY <1>e DEF Executions
<1> HIDE DEF x
<1>2. FilesFit(x) /\ ~x.thrown
  BY <1>e, <1>1 DEF ExecutionFits, ShapeFits, FilesFit
<1>3. Late(x, TRUE)
  BY <1>e, <1>1 DEF ExecutionFits, ShapeFits, Late, LatePhases
<1>4. WedgeFits(x)
  BY <1>e, <1>1 DEF ExecutionFits, ShapeFits, TakeoverFits, WedgeFits, Wedged
<1>5. Vanished(x) => x.phase = "live"
  BY <1>1, <1>3 DEF Vanished, Late
<1>6. safe \in BOOLEAN
  BY InspectionIs
<1> QED BY <1>1, <1>2, <1>3, <1>4, <1>5, <1>6, AbandonFits DEF x

\* Who completes the event is of no interest here.
LEMMA DueFits ==
  ASSUME NEW x \in Executions, ExecutionFits(x), NEW due \in BOOLEAN
  PROVE  LET y == [x EXCEPT !.due = due]
         IN  y \in Executions /\ ExecutionFits(y) /\ y.phase = x.phase /\ y.slot = x.slot
<1> DEFINE y == [x EXCEPT !.due = due]
<1>1. /\ y \in Executions /\ ~y.thrown
      /\ y.phase = x.phase /\ y.slot = x.slot /\ y.unproven = x.unproven
      /\ y.timedOut = x.timedOut /\ y.stop = x.stop /\ y.group = x.group
      /\ y.ident = x.ident /\ y.rev = x.rev /\ y.owned = x.owned /\ y.term = x.term
      /\ y.salvage = x.salvage /\ y.secrets = x.secrets /\ y.dir = x.dir /\ y.vault = x.vault
  BY DEF Executions, ExecutionFits
<1> HIDE DEF y
<1>2. UntrackedFits(y) /\ FilesFit(y) /\ IdentifiedFits(y)
  BY <1>1 DEF ExecutionFits, ShapeFits, UntrackedFits, FilesFit, IdentifiedFits
<1>3. TakeoverFits(y)
  BY <1>1 DEF ExecutionFits, ShapeFits, TakeoverFits, HalfCleaned, Vanished, Wedged
<1>4. y.phase \in LatePhases => Late(y, y.term # "none")
  BY <1>1 DEF ExecutionFits, ShapeFits, Late
<1>5. ExecutionFits(y)
  BY <1>1, <1>2, <1>3, <1>4 DEF ExecutionFits, ShapeFits
<1> QED BY <1>1, <1>5 DEF y

LEMMA TimeoutKeeps ==
  ASSUME ProcessInv, RunsStay, NEW r \in Runs, Timeout(r)
  PROVE  ProcessInv'
<1>1. exec[r].phase = "live" /\ Idle /\ up # "down" /\ busy = NoRun
  BY DEF Timeout, Expiring, Idle
<1>2. PICK safe \in Inspections :
        LET x == TimesOut(r, safe)
        IN  IF x.thrown THEN Uncaught(r, x)
            ELSE Return(r, [x EXCEPT !.due = r \in EventRuns])
  BY DEF Timeout
<1> DEFINE x == TimesOut(r, safe)
<1>3. x \in Executions /\ ShapeFits(x) /\ x.phase = "live" /\ x.slot = exec[r].slot
  BY <1>1, LiveAbandoned DEF TimesOut
<1> HIDE DEF x
<1>4. CASE x.thrown
  <2>1. Uncaught(r, x)
    BY <1>2, <1>4 DEF x
  <2> QED BY <1>1, <1>3, <2>1, UncaughtKeeps DEF LatePhases
<1>5. CASE ~x.thrown
  <2> DEFINE y == [x EXCEPT !.due = r \in EventRuns]
  <2>1. Return(r, y)
    BY <1>2, <1>5 DEF x
  <2>2. ExecutionFits(x) /\ (r \in EventRuns) \in BOOLEAN
    BY <1>3, <1>5 DEF ExecutionFits
  <2>3. y \in Executions /\ ExecutionFits(y) /\ y.phase = "live" /\ y.slot = exec[r].slot
    BY <1>3, <2>2, DueFits
  <2> HIDE DEF y
  <2> QED BY <1>1, <2>1, <2>3, ReturnKeeps DEF BusyPhases, LatePhases
<1> QED BY <1>4, <1>5

LEMMA HeartbeatKeeps ==
  ASSUME ProcessInv, RunsStay, NEW r \in Runs, Heartbeat(r)
  PROVE  ProcessInv'
<1>1. CASE UNCHANGED runnerVars
  BY <1>1, FrameKeeps
<1>2. ASSUME NEW safe \in Inspections, Ends(r, Abandon(exec[r], safe))
      PROVE  ProcessInv'
  <2>1. exec[r].phase \in {"live", "torn"} /\ Idle
    BY DEF Heartbeat
  <2>2. exec[r].timedOut \in BOOLEAN /\ exec[r] = [exec[r] EXCEPT !.timedOut = exec[r].timedOut]
    BY ExecutionIs DEF Executions
  <2> DEFINE x == Abandon(exec[r], safe)
  <2>3. x \in Executions /\ ShapeFits(x) /\ x.phase = exec[r].phase /\ x.slot = exec[r].slot
    BY <2>1, <2>2, LiveAbandoned
  <2> HIDE DEF x
  <2>4. Ends(r, x)
    BY <1>2 DEF x
  <2> QED BY <2>1, <2>3, <2>4, EndsKeeps DEF LatePhases
<1> QED BY <1>1, <1>2 DEF Heartbeat

LEMMA CancelKeeps ==
  ASSUME ProcessInv, RunsStay, NEW r \in Runs, Cancel(r)
  PROVE  ProcessInv'
<1>1. CASE UNCHANGED runnerVars
  BY <1>1, FrameKeeps
<1>2. ASSUME exec[r].phase = "live", NEW safe \in Inspections,
             Return(r, Caught(Abandon(exec[r], safe)))
      PROVE  ProcessInv'
  <2>1. up # "down" /\ busy = NoRun
    BY DEF Cancel, Serving, Idle
  <2>2. exec[r].timedOut \in BOOLEAN /\ exec[r] = [exec[r] EXCEPT !.timedOut = exec[r].timedOut]
    BY ExecutionIs DEF Executions
  <2> DEFINE x == Abandon(exec[r], safe)
             y == Caught(x)
  <2>3. x \in Executions /\ ShapeFits(x) /\ x.phase = exec[r].phase /\ x.slot = exec[r].slot
    BY <1>2, <2>2, LiveAbandoned
  <2> HIDE DEF x
  <2>4. y \in Executions /\ ExecutionFits(y) /\ y.phase = "live" /\ y.slot = exec[r].slot
    BY <1>2, <2>3, CaughtFits
  <2>5. Return(r, y)
    BY <1>2 DEF x
  <2> HIDE DEF y
  <2> QED BY <1>2, <2>1, <2>4, <2>5, ReturnKeeps DEF BusyPhases, LatePhases
<1>3. \/ UNCHANGED runnerVars
      \/ /\ exec[r].phase = "live"
         /\ \E safe \in Inspections : Return(r, Caught(Abandon(exec[r], safe)))
  BY DEF Cancel
<1> QED BY <1>1, <1>2, <1>3

-----------------------------------------------------------------------------
(* The end of a child. *)

\* Where the close finds nothing left to throw over it ends; otherwise its rest
\* is lost and the slot with it.
LEMMA TornFits ==
  ASSUME NEW x \in Executions, ShapeFits(x), x.phase = "closed", x.slot, x.group = "none",
         x.owned = "no", x.salvage, x.vault = "cleaned"
  PROVE  LET y == [x EXCEPT !.phase = "torn"]
         IN  y \in Executions /\ ShapeFits(y) /\ y.phase = "torn" /\ y.slot = x.slot
<1> DEFINE y == [x EXCEPT !.phase = "torn"]
<1>1. /\ y \in Executions /\ y.phase = "torn" /\ y.slot = x.slot
      /\ y.timedOut = x.timedOut /\ y.stop = x.stop /\ y.group = x.group
      /\ y.owned = x.owned /\ y.term = x.term
      /\ y.salvage = x.salvage /\ y.secrets = x.secrets /\ y.dir = x.dir /\ y.vault = x.vault
  BY DEF Executions
<1> HIDE DEF y
<1>2. UntrackedFits(y) /\ FilesFit(y) /\ IdentifiedFits(y)
  BY <1>1 DEF ShapeFits, UntrackedFits, FilesFit, IdentifiedFits
<1>3. TakeoverFits(y)
  BY <1>1 DEF TakeoverFits, HalfCleaned, Vanished
<1>4. Late(y, y.term # "none")
  BY <1>1 DEF ShapeFits, Late, LatePhases
<1> QED BY <1>1, <1>2, <1>3, <1>4 DEF ShapeFits, y

LEMMA CloseKeeps ==
  ASSUME ProcessInv, RunsStay, NEW r \in Runs, Close(r)
  PROVE  ProcessInv'
<1>e. exec[r] \in Executions /\ ExecutionFits(exec[r])
  BY ExecutionIs
<1> DEFINE natural == ~exec[r].timedOut /\ exec[r].term = "none"
           x == [exec[r] EXCEPT !.phase = "closed", !.slot = exec[r].slot /\ ~natural]
<1>1. exec[r].phase = "live" /\ exec[r].group # "leader" /\ Idle /\ up # "down" /\ busy = NoRun
  BY DEF Close, Idle
<1>2. PICK safe \in Inspections :
        LET seen == VerifyTeardown(x, safe)
            left == IF seen.owned = "no" THEN seen ELSE Terminate(seen, safe)
        IN  IF seen.thrown THEN Uncaught(r, [seen EXCEPT !.phase = "torn"])
            ELSE Return(r, CleanupAfterTeardown(left, safe))
  BY DEF Close
<1>3. safe \in BOOLEAN
  BY InspectionIs
<1>4. exec[r].stop # "mark" /\ exec[r].slot /\ (exec[r].timedOut => exec[r].term # "none")
  BY <1>e, <1>1 DEF Idle, ExecutionFits, ShapeFits, Late, LatePhases
<1>5. /\ x \in Executions /\ x.phase = "closed" /\ x.slot = (exec[r].term # "none")
      /\ x.stop = exec[r].stop /\ x.group = exec[r].group /\ x.owned = exec[r].owned
      /\ x.term = exec[r].term /\ x.salvage = exec[r].salvage /\ x.secrets = exec[r].secrets
      /\ x.dir = exec[r].dir /\ x.vault = exec[r].vault /\ x.thrown = exec[r].thrown
      /\ x.timedOut = exec[r].timedOut
  <2>1. (exec[r].slot /\ ~natural) = (exec[r].term # "none")
    BY <1>4
  <2> HIDE DEF natural
  <2> QED BY ZenonT(60), <1>e, <2>1 DEF Executions
<1> HIDE DEF x
<1>6. FilesFit(x) /\ ~x.thrown
  BY <1>e, <1>5 DEF ExecutionFits, ShapeFits, FilesFit
<1>7. WedgeFits(x)
  BY <1>e, <1>1, <1>5 DEF ExecutionFits, ShapeFits, TakeoverFits, WedgeFits, Wedged
<1>8. Late(x, x.term # "none")
  BY <1>e, <1>1, <1>4, <1>5 DEF ExecutionFits, ShapeFits, Late, LatePhases
<1> DEFINE seen == VerifyTeardown(x, safe)
<1>9. /\ seen \in Executions /\ ShapeFits(seen) /\ seen.phase = "closed"
      /\ seen.slot = x.slot /\ seen.group = x.group /\ seen.stop = x.stop /\ seen.term = x.term
      /\ ~Vanished(seen)
      /\ seen.thrown => /\ HalfCleaned(x) /\ seen.salvage
                        /\ seen.vault = "cleaned" /\ seen.owned = "no"
  BY <1>3, <1>5, <1>6, <1>7, <1>8, VerifyTeardownFits
<1> HIDE DEF seen
<1>10. CASE seen.thrown
  <2> DEFINE y == [seen EXCEPT !.phase = "torn"]
  <2>1. Uncaught(r, y)
    BY <1>2, <1>10 DEF seen
  <2>2. HalfCleaned(exec[r])
    BY <1>5, <1>9, <1>10 DEF HalfCleaned, Vanished
  <2>3. x.slot /\ x.group = "none"
    BY <1>e, <1>5, <2>2 DEF ExecutionFits, ShapeFits, TakeoverFits, HalfCleaned, Vanished
  <2>4. y \in Executions /\ ShapeFits(y) /\ y.phase = "torn"
    BY <1>9, <1>10, <2>3, TornFits
  <2> HIDE DEF y
  <2> QED BY <1>1, <1>4, <2>1, <2>4, UncaughtKeeps DEF LatePhases
<1>11. CASE ~seen.thrown
  <2>1. FilesFit(seen) /\ Late(seen, seen.term # "none") /\ TakeoverFits(seen)
    BY <1>9 DEF ShapeFits, LatePhases
  <2>2. WedgeFits(seen)
    BY <2>1 DEF TakeoverFits, WedgeFits
  <2>3. seen.secrets /\ seen.owned = "no" => seen.group = "none"
    BY <2>1 DEF Late
  <2>4. CASE seen.owned = "no"
    <3> DEFINE y == CleanupAfterTeardown(seen, safe)
    <3>1. Return(r, y)
      BY <1>2, <1>11, <2>4 DEF seen
    <3>2. /\ Kin(seen, y) /\ FilesFit(y) /\ y.term = seen.term /\ (Vanished(y) => y.thrown)
          /\ y.thrown => seen.thrown \/ Vanished(seen)
      BY <1>3, <1>9, <2>1, <2>3, CleanupAfterTeardownKeeps
    <3> HIDE DEF y
    <3>3. WedgeFits(y)
      BY <2>2, <3>2, KinWedge
    <3>4. TakeoverFits(y) /\ ~y.thrown
      BY <1>9, <1>11, <3>2, <3>3 DEF TakeoverFits, HalfCleaned, WedgeFits, FilesFit, Vanished
    <3>5. Late(seen, y.term # "none")
      BY <2>1, <3>2
    <3>6. y \in Executions /\ ExecutionFits(y) /\ y.phase = "closed"
      BY <1>9, <3>2, <3>4, <3>5, KinFits DEF ExecutionFits
    <3> QED BY <1>1, <1>4, <3>1, <3>6, ReturnKeeps DEF BusyPhases, LatePhases
  <2>5. CASE seen.owned # "no"
    <3> DEFINE left == Terminate(seen, safe)
               y == Abandon(seen, safe)
    <3>1. left.thrown => seen.thrown \/ Vanished(seen)
      BY <1>3, <1>9, <2>1, TerminateKeeps
    <3>2. Return(r, y)
      <4>1. ~left.thrown
        BY <1>9, <1>11, <3>1
      <4>2. Return(r, CleanupAfterTeardown(left, safe))
        BY <1>2, <1>11, <2>5 DEF seen
      <4> QED BY <4>1, <4>2 DEF Abandon, Then
    <3>3. Late(seen, TRUE)
      BY <1>9, <2>1 DEF Late
    <3>4. /\ y \in Executions /\ ShapeFits(y) /\ y.phase = "closed"
          /\ y.thrown => Vanished(seen) /\ seen.salvage
      BY <1>3, <1>9, <1>11, <2>1, <2>2, <3>3, AbandonFits
    <3> HIDE DEF y, left
    <3>5. ExecutionFits(y)
      BY <1>9, <3>4 DEF ExecutionFits
    <3> QED BY <1>1, <1>4, <3>2, <3>4, <3>5, ReturnKeeps DEF BusyPhases, LatePhases
  <2> QED BY <2>4, <2>5
<1> QED BY <1>10, <1>11

\* A termination in flight belongs to a late phase before `done`.
LEMMA TerminatingIsLate ==
  ASSUME ProcessInv, NEW r \in Runs, Idle, exec[r].term # "none"
  PROVE  /\ exec[r].phase \in LatePhases \ {"done"} /\ Late(exec[r], TRUE)
         /\ FilesFit(exec[r]) /\ TakeoverFits(exec[r]) /\ exec[r].stop # "mark"
         /\ exec[r].phase # "idle" /\ exec[r].phase \notin BusyPhases
BY ExecutionIs DEF ProcessInv, BusyFits, BusyPhases, Idle, ExecutionFits, ShapeFits,
                   UntrackedFits, IdentifiedFits, Late, LatePhases, Executions

\* The next state of a termination that is not over.
LEMMA TerminatingFits ==
  ASSUME ProcessInv, NEW r \in Runs, Idle, exec[r].term # "none",
         NEW term \in {"waiting", "escalated"}
  PROVE  LET x == [exec[r] EXCEPT !.term = term]
         IN  /\ x \in Executions /\ FilesFit(x) /\ Late(x, x.term # "none") /\ WedgeFits(x)
             /\ TakeoverFits(x) /\ ~x.thrown /\ x.owned = exec[r].owned /\ x.term = term
             /\ x.phase = exec[r].phase /\ x.slot = exec[r].slot
<1>e. exec[r] \in Executions /\ ExecutionFits(exec[r])
  BY ExecutionIs
<1>1. Late(exec[r], TRUE) /\ FilesFit(exec[r]) /\ TakeoverFits(exec[r])
  BY TerminatingIsLate
<1> DEFINE x == [exec[r] EXCEPT !.term = term]
<1>2. /\ x \in Executions /\ x.term = term /\ x.stop = exec[r].stop /\ x.phase = exec[r].phase
      /\ x.slot = exec[r].slot /\ x.group = exec[r].group /\ x.owned = exec[r].owned
      /\ x.timedOut = exec[r].timedOut /\ x.salvage = exec[r].salvage
      /\ x.secrets = exec[r].secrets /\ x.dir = exec[r].dir /\ x.vault = exec[r].vault
      /\ x.thrown = exec[r].thrown
  BY <1>e DEF Executions
<1> HIDE DEF x
<1>3. FilesFit(x) /\ ~x.thrown
  BY <1>e, <1>1, <1>2 DEF ExecutionFits, FilesFit
<1>4. Late(x, x.term # "none")
  BY <1>1, <1>2 DEF Late
<1>5. WedgeFits(x) /\ TakeoverFits(x)
  BY <1>1, <1>2 DEF TakeoverFits, HalfCleaned, Vanished, WedgeFits, Wedged
<1> QED BY <1>2, <1>3, <1>4, <1>5 DEF x

LEMMA RejectsKeeps ==
  ASSUME ProcessInv, RunsStay, NEW r \in Runs, NEW x \in Executions, Idle, Rejects(r, x),
         exec[r].term # "none", ShapeFits(x), x.term # "none",
         x.phase = exec[r].phase, x.slot = exec[r].slot,
         x.thrown => x.salvage /\ x.vault = "cleaned"
  PROVE  ProcessInv'
<1>1. /\ exec[r].phase \in LatePhases \ {"done"} /\ exec[r].phase # "idle"
      /\ exec[r].phase \notin BusyPhases
  BY TerminatingIsLate
<1>2. up # "down" /\ busy = NoRun
  BY DEF Idle
<1>3. CASE ~x.thrown
  <2>1. Return(r, x) /\ ExecutionFits(x)
    BY <1>3 DEF Rejects, ExecutionFits
  <2> QED BY <1>1, <1>2, <2>1, ReturnKeeps
<1>4. CASE x.thrown
  <2> DEFINE c == Caught(x)
             y == [c EXCEPT !.term = "stuck"]
  <2>1. Return(r, y)
    BY <1>4 DEF Rejects
  <2>2. /\ c \in Executions /\ ExecutionFits(c)
        /\ c.phase = x.phase /\ c.slot = x.slot /\ c.term = x.term
        /\ c.salvage = x.salvage /\ c.vault = x.vault
    BY CaughtFits
  <2> HIDE DEF c
  <2>3. /\ y \in Executions /\ y.term = "stuck" /\ y.stop = c.stop /\ y.phase = c.phase
        /\ y.slot = c.slot /\ y.group = c.group /\ y.owned = c.owned
        /\ y.timedOut = c.timedOut /\ y.salvage = c.salvage
        /\ y.secrets = c.secrets /\ y.dir = c.dir /\ y.vault = c.vault
        /\ y.thrown = c.thrown
    BY <2>2 DEF Executions
  <2> HIDE DEF y
  <2>4. y.phase \in LatePhases \ {"done"}
    BY <1>1, <2>2, <2>3
  <2>5. UntrackedFits(y) /\ IdentifiedFits(y) /\ FilesFit(y)
    BY <2>2, <2>3, <2>4 DEF UntrackedFits, IdentifiedFits, LatePhases, ExecutionFits, ShapeFits,
                            FilesFit
  <2>6. TakeoverFits(y)
    BY <1>4, <2>2, <2>3 DEF ExecutionFits, ShapeFits, TakeoverFits, HalfCleaned, Vanished
  <2>7. Late(y, y.term # "none")
    BY <2>2, <2>3, <2>4 DEF ExecutionFits, ShapeFits, Late
  <2>8. ExecutionFits(y)
    BY <2>2, <2>3, <2>5, <2>6, <2>7 DEF ExecutionFits, ShapeFits
  <2> QED BY <1>1, <1>2, <2>1, <2>2, <2>3, <2>4, <2>8, ReturnKeeps
<1> QED BY <1>3, <1>4

LEMMA ForceKillKeeps ==
  ASSUME ProcessInv, RunsStay, NEW r \in Runs, ForceKill(r)
  PROVE  ProcessInv'
<1>e. exec[r] \in Executions /\ ExecutionFits(exec[r])
  BY ExecutionIs
<1>1. exec[r].term = "grace" /\ Idle /\ up # "down" /\ busy = NoRun
  BY DEF ForceKill, Idle
<1>2. /\ exec[r].phase \in LatePhases \ {"done"} /\ Late(exec[r], TRUE)
      /\ FilesFit(exec[r]) /\ exec[r].phase # "idle" /\ exec[r].phase \notin BusyPhases
  BY <1>1, TerminatingIsLate
<1>3. ASSUME NEW safe \in Inspections,
             Rejects(r, VerifyTeardown([exec[r] EXCEPT !.term = "escalated"], safe))
      PROVE  ProcessInv'
  <2> DEFINE x == [exec[r] EXCEPT !.term = "escalated"]
             y == VerifyTeardown(x, safe)
  <2>1. safe \in BOOLEAN
    BY InspectionIs
  <2>2. /\ x \in Executions /\ FilesFit(x) /\ Late(x, x.term # "none") /\ WedgeFits(x)
        /\ ~x.thrown /\ x.term = "escalated"
        /\ x.phase = exec[r].phase /\ x.slot = exec[r].slot
    BY <1>1, TerminatingFits
  <2> HIDE DEF x
  <2>3. /\ y \in Executions /\ ShapeFits(y) /\ y.phase = x.phase /\ y.slot = x.slot
        /\ y.term = x.term /\ (y.thrown => y.salvage /\ y.vault = "cleaned")
    BY <2>1, <2>2, VerifyTeardownFits
  <2> HIDE DEF y
  <2>4. Rejects(r, y)
    BY <1>3 DEF x, y
  <2> QED BY <1>1, <2>2, <2>3, <2>4, RejectsKeeps
<1>4. ASSUME exec[r].owned = "unknown",
             Return(r, MarkTeardownPending([exec[r] EXCEPT !.term = "waiting"]))
      PROVE  ProcessInv'
  <2> DEFINE x == [exec[r] EXCEPT !.term = "waiting"]
             y == MarkTeardownPending(x)
  <2>2. /\ x \in Executions /\ FilesFit(x) /\ Late(x, x.term # "none") /\ TakeoverFits(x)
        /\ ~x.thrown /\ x.owned = "unknown"
        /\ x.phase = exec[r].phase /\ x.slot = exec[r].slot
    BY <1>1, <1>4, TerminatingFits
  <2> HIDE DEF x
  <2>3. x.vault # "cleaned"
    BY <2>2 DEF FilesFit
  <2>4. y \in Executions /\ ExecutionFits(y) /\ y.phase = x.phase /\ y.slot = x.slot
    BY <2>2, <2>3, MarkPendingFits
  <2> HIDE DEF y
  <2>5. Return(r, y)
    BY <1>4 DEF x, y
  <2> QED BY <1>1, <1>2, <2>2, <2>4, <2>5, ReturnKeeps
<1>5. ASSUME exec[r].group # "none", NEW killed \in Kills,
             Return(r, [exec[r] EXCEPT !.term = "waiting",
                                       !.group = IF killed THEN "none" ELSE @])
      PROVE  ProcessInv'
  <2> DEFINE x == [exec[r] EXCEPT !.term = "waiting", !.group = IF killed THEN "none" ELSE @]
  <2>1. x.group = exec[r].group \/ x.group = "none"
    BY <1>e DEF Executions
  <2>2. /\ x \in Executions /\ x.term = "waiting"
        /\ x.phase = exec[r].phase /\ x.slot = exec[r].slot /\ x.stop = exec[r].stop
        /\ x.timedOut = exec[r].timedOut /\ x.owned = exec[r].owned /\ x.dir = exec[r].dir
        /\ x.secrets = exec[r].secrets /\ x.vault = exec[r].vault
        /\ x.salvage = exec[r].salvage /\ x.thrown = exec[r].thrown
    BY ZenonT(60), <1>e DEF Executions
  <2> HIDE DEF x
  <2>3. FilesFit(x) /\ Late(x, TRUE) /\ x.phase \in LatePhases
    BY <1>2, <2>1, <2>2 DEF FilesFit, Late
  <2>4. TakeoverFits(x)
    <3>1. x.dir /\ x.vault # "cleaned"
      BY <1>2, <1>5, <2>2 DEF FilesFit
    <3> QED BY <1>e, <2>2, <3>1 DEF ExecutionFits, ShapeFits, TakeoverFits, HalfCleaned, Wedged
  <2>5. ExecutionFits(x)
    BY <1>e, <1>2, <2>2, <2>3, <2>4
    DEF ExecutionFits, ShapeFits, UntrackedFits, IdentifiedFits, LatePhases
  <2>6. Return(r, x)
    BY <1>5 DEF x
  <2> QED BY <1>1, <1>2, <2>2, <2>5, <2>6, ReturnKeeps
<1> QED BY <1>3, <1>4, <1>5 DEF ForceKill

LEMMA WaitEndsKeeps ==
  ASSUME ProcessInv, RunsStay, NEW r \in Runs, WaitEnds(r)
  PROVE  ProcessInv'
<1>1. exec[r].term # "none" /\ Idle
  BY DEF WaitEnds
<1> DEFINE x == [exec[r] EXCEPT !.term = "escalated"]
<1>3. PICK safe \in Inspections :
        LET y == VerifyTeardown(x, safe)
        IN  Rejects(r, IF y.owned = "no" THEN y ELSE MarkTeardownPending(y))
  BY DEF WaitEnds
<1>4. safe \in BOOLEAN
  BY InspectionIs
<1>5. /\ x \in Executions /\ FilesFit(x) /\ Late(x, x.term # "none") /\ WedgeFits(x)
      /\ TakeoverFits(x) /\ ~x.thrown /\ x.term = "escalated"
      /\ x.phase = exec[r].phase /\ x.slot = exec[r].slot
  BY <1>1, TerminatingFits
<1> HIDE DEF x
<1> DEFINE y == VerifyTeardown(x, safe)
<1>6. /\ y \in Executions /\ ShapeFits(y) /\ y.phase = x.phase /\ y.slot = x.slot
      /\ y.term = x.term /\ ~Vanished(y) /\ (y.owned = "no" \/ y = x)
      /\ y.thrown => y.salvage /\ y.vault = "cleaned"
  BY <1>4, <1>5, VerifyTeardownFits
<1>7. CASE y.owned = "no"
  <2>1. Rejects(r, y)
    BY <1>3, <1>7
  <2> HIDE DEF y
  <2> QED BY <1>1, <1>5, <1>6, <2>1, RejectsKeeps
<1>8. CASE y.owned # "no"
  <2> DEFINE z == MarkTeardownPending(x)
  <2>1. Rejects(r, z)
    BY <1>3, <1>6, <1>8
  <2>2. x.vault # "cleaned"
    <3> HIDE DEF y
    <3> QED BY <1>5, <1>6, <1>8 DEF FilesFit, Vanished, Executions
  <2>3. z \in Executions /\ ExecutionFits(z) /\ z.phase = x.phase /\ z.slot = x.slot
    BY <1>5, <2>2, MarkPendingFits
  <2>4. z.term = x.term
    BY <1>5, MarkPendingKeeps
  <2> HIDE DEF z
  <2> QED BY <1>1, <1>5, <2>1, <2>3, <2>4, RejectsKeeps DEF ExecutionFits
<1> QED BY <1>7, <1>8

LEMMA TerminatedKeeps ==
  ASSUME ProcessInv, RunsStay, NEW r \in Runs, Terminated(r)
  PROVE  ProcessInv'
<1>e. exec[r] \in Executions /\ ExecutionFits(exec[r])
  BY ExecutionIs
<1>1. exec[r].phase = "closed" /\ exec[r].term # "none" /\ Idle /\ up # "down" /\ busy = NoRun
  BY DEF Terminated, Idle
<1>2. Late(exec[r], TRUE) /\ FilesFit(exec[r]) /\ exec[r].stop # "mark"
  BY <1>1, TerminatingIsLate
<1> DEFINE x == [exec[r] EXCEPT !.term = "none", !.slot = FALSE]
<1>3. PICK safe \in Inspections : Return(r, VerifyTeardown(x, safe))
  BY DEF Terminated
<1>4. safe \in BOOLEAN
  BY InspectionIs
<1>t. /\ x \in Executions /\ x.term = "none" /\ ~x.slot /\ x.phase = exec[r].phase
      /\ x.stop = exec[r].stop /\ x.group = exec[r].group /\ x.owned = exec[r].owned
      /\ x.salvage = exec[r].salvage /\ x.secrets = exec[r].secrets /\ x.dir = exec[r].dir
      /\ x.vault = exec[r].vault /\ x.thrown = exec[r].thrown
  BY <1>e DEF Executions
<1> HIDE DEF x
<1>5. /\ x \in Executions /\ FilesFit(x) /\ Late(x, x.term # "none") /\ ~x.thrown
      /\ WedgeFits(x) /\ x.phase = "closed" /\ ~x.slot
  BY <1>e, <1>1, <1>2, <1>t DEF ExecutionFits, FilesFit, Late, WedgeFits, Wedged
<1> DEFINE y == VerifyTeardown(x, safe)
<1>6. /\ y \in Executions /\ ShapeFits(y) /\ y.phase = x.phase /\ y.slot = x.slot
      /\ y.thrown => HalfCleaned(x)
  BY <1>4, <1>5, VerifyTeardownFits
<1> HIDE DEF y
<1>7. ~HalfCleaned(x)
  BY <1>e, <1>1, <1>t DEF ExecutionFits, ShapeFits, TakeoverFits, HalfCleaned, Vanished
<1>8. ExecutionFits(y)
  BY <1>6, <1>7 DEF ExecutionFits
<1> QED BY <1>1, <1>3, <1>5, <1>6, <1>8, ReturnKeeps DEF y, BusyPhases, LatePhases

LEMMA GroupRecoveryKeeps ==
  ASSUME ProcessInv, RunsStay, NEW r \in Runs, GroupRecovery(r)
  PROVE  ProcessInv'
<1>e. exec[r] \in Executions /\ ExecutionFits(exec[r])
  BY ExecutionIs
<1>1. Vanished(exec[r]) /\ Idle /\ up # "down" /\ busy = NoRun
  BY DEF GroupRecovery, Idle
<1>2. PICK safe \in Inspections : Ends(r, VerifyTeardown(exec[r], safe))
  BY DEF GroupRecovery
<1>3. safe \in BOOLEAN
  BY InspectionIs
<1>4. exec[r].phase \notin BusyPhases
  BY <1>1, RunnerAssumption DEF ProcessInv, BusyFits
<1>5. exec[r].phase \in LatePhases
  BY <1>e, <1>1, <1>4 DEF Vanished, ExecutionFits, ShapeFits, UntrackedFits, BusyPhases,
                          LatePhases, Executions
<1>6. /\ FilesFit(exec[r]) /\ Late(exec[r], exec[r].term # "none") /\ ~exec[r].thrown
      /\ WedgeFits(exec[r])
  BY <1>e, <1>5 DEF ExecutionFits, ShapeFits, TakeoverFits, WedgeFits
<1> DEFINE y == VerifyTeardown(exec[r], safe)
<1>7. y \in Executions /\ ShapeFits(y) /\ y.phase = exec[r].phase /\ y.slot = exec[r].slot
  BY <1>e, <1>3, <1>6, VerifyTeardownFits
<1>8. exec[r].phase = "done" => exec[r].vault # "prepared"
  BY <1>1, <1>6 DEF Vanished, Late
<1> HIDE DEF y
<1>9. Ends(r, y)
  BY <1>2 DEF y
<1> QED BY <1>1, <1>5, <1>7, <1>8, <1>9, EndsKeeps

-----------------------------------------------------------------------------
(* The recovery pass. *)

LEMMA ListingIs ==
  ASSUME ProcessInv, busy = NoRun
  PROVE  /\ Listing \in [Runs -> [vault : {"none"} \cup VaultStates, ident : BOOLEAN]]
         /\ \A r \in Runs : Listing[r].vault = "prepared" =>
              exec[r].phase = "done" /\ exec[r].owned = "no" /\ exec[r].vault = "prepared"
         /\ \A r \in Runs : exec[r].phase = "idle" => Listing[r] = NotListed
<1> SUFFICES ASSUME NEW r \in Runs
             PROVE  LET row == IF exec[r].vault \in {"none", "cleaned"} THEN NotListed
                               ELSE [vault |-> exec[r].vault, ident |-> exec[r].ident]
                    IN  /\ row \in [vault : {"none"} \cup VaultStates, ident : BOOLEAN]
                        /\ row.vault = "prepared" =>
                             exec[r].phase = "done" /\ exec[r].owned = "no"
                             /\ exec[r].vault = "prepared"
                        /\ exec[r].phase = "idle" => row = NotListed
  BY DEF Listing
<1>e. exec[r] \in Executions /\ ExecutionFits(exec[r])
  BY ExecutionIs
<1>1. exec[r].phase \notin BusyPhases
  BY RunnerAssumption DEF ProcessInv, BusyFits
<1>2. exec[r].vault = "prepared" => exec[r].phase = "done" /\ exec[r].owned = "no"
  BY <1>e, <1>1 DEF ExecutionFits, ShapeFits, UntrackedFits, Late, LatePhases, BusyPhases,
                    Executions
<1>3. exec[r].phase = "idle" => exec[r].vault = "none"
  BY <1>e DEF ExecutionFits, ShapeFits, UntrackedFits
<1>4. exec[r].vault \in {"none"} \cup VaultStates /\ exec[r].ident \in BOOLEAN
  BY <1>e DEF Executions
<1>5. CASE exec[r].vault \in {"none", "cleaned"}
  BY <1>5 DEF NotListed
<1>6. CASE exec[r].vault \notin {"none", "cleaned"}
  BY <1>2, <1>3, <1>4, <1>6
<1> QED BY <1>5, <1>6

\* A pass that begins, or is found in flight, lists what is there.
LEMMA PassBegins ==
  ASSUME ProcessInv, RunsStay, UNCHANGED <<restarts, busy, exec>>, up' \in {"up", "stopping"},
         busy = NoRun, NEW awaited \in EventRuns \cup {NoRun},
         pass.on \/ pass.at = NoRun,
         pass' = [pass EXCEPT !.awaited = awaited, !.on = TRUE,
                              !.listed = IF pass.on THEN @ ELSE Listing]
  PROVE  ProcessInv'
<1>p. pass \in Passes
  BY DEF ProcessInv, RunnerTypeOK
<1>1. pass' \in Passes
  BY <1>p, ListingIs DEF Passes
<1>2. /\ pass'.on /\ pass'.at = pass.at
      /\ pass'.listed = IF pass.on THEN pass.listed ELSE Listing
  BY <1>p DEF Passes
<1>3. \A r \in Runs : ListingFits(r)'
  BY <1>2, ListingIs DEF ProcessInv, ListingFits
<1>4. PassFits'
  BY <1>2 DEF ProcessInv, PassFits
<1>5. UnstartedFits'
  BY <1>2, ListingIs DEF ProcessInv, UnstartedFits, RunsStay
<1>6. RunnerTypeOK' /\ BusyFits' /\ SlotsFit'
  BY <1>1 DEF ProcessInv, RunnerTypeOK, BusyFits, SlotsFit, Occupied
<1> QED BY <1>3, <1>4, <1>5, <1>6 DEF ProcessInv

LEMMA PassStartsKeeps ==
  ASSUME ProcessInv, RunsStay, PassStarts PROVE ProcessInv'
<1>p. pass \in Passes
  BY DEF ProcessInv, RunnerTypeOK
<1>1. ~pass.on /\ busy = NoRun /\ pass.at = NoRun
  BY DEF PassStarts, Serving, Idle, ProcessInv, PassFits
<1>2. pass.awaited \in EventRuns \cup {NoRun}
  BY <1>p DEF Passes
<1>3. pass' = [pass EXCEPT !.awaited = pass.awaited, !.on = TRUE,
                           !.listed = IF pass.on THEN @ ELSE Listing]
  BY <1>p, <1>1 DEF PassStarts, Passes
<1>4. up' \in {"up", "stopping"}
  BY DEF PassStarts, Serving
<1> QED BY <1>1, <1>2, <1>3, <1>4, PassBegins DEF PassStarts

LEMMA BootKeeps ==
  ASSUME ProcessInv, RunsStay, Boot PROVE ProcessInv'
<1>1. busy = NoRun
  BY DEF Boot, ProcessInv, BusyFits
<1>2. /\ pass' = [NoPass EXCEPT !.on = TRUE, !.listed = Listing]
      /\ up' = "up" /\ UNCHANGED <<restarts, busy, exec>>
  BY DEF Boot
<1>3. pass'.on /\ pass'.at = NoRun /\ pass'.listed = Listing /\ pass' \in Passes
  BY <1>1, <1>2, ListingIs DEF NoPass, Passes
<1>4. \A r \in Runs : ListingFits(r)'
  BY <1>1, <1>2, <1>3, ListingIs DEF ListingFits
<1>5. UnstartedFits'
  BY <1>1, <1>2, <1>3, ListingIs, RunnerAssumption DEF ProcessInv, UnstartedFits, RunsStay
<1>6. RunnerTypeOK' /\ BusyFits' /\ SlotsFit' /\ PassFits'
  BY <1>1, <1>2, <1>3 DEF ProcessInv, RunnerTypeOK, BusyFits, SlotsFit, Occupied, PassFits
<1>7. \A r \in Runs : ExecutionFits(exec'[r])
  BY <1>2 DEF ProcessInv
<1> QED BY <1>4, <1>5, <1>6, <1>7 DEF ProcessInv

\* Passes end, and awaited attempts are resolved, over the same lists.
LEMMA PassFrame ==
  ASSUME ProcessInv, RunsStay, UNCHANGED <<up, restarts, busy, exec>>,
         NEW on \in BOOLEAN, NEW awaited \in EventRuns \cup {NoRun}, on \/ pass.at = NoRun,
         pass' = [pass EXCEPT !.on = on, !.awaited = awaited]
  PROVE  ProcessInv'
<1>p. pass \in Passes
  BY DEF ProcessInv, RunnerTypeOK
<1>1. /\ pass' \in Passes /\ pass'.on = on /\ pass'.at = pass.at /\ pass'.listed = pass.listed
  BY <1>p DEF Passes
<1>2. \A r \in Runs : ListingFits(r)' /\ ExecutionFits(exec'[r])
  BY <1>1 DEF ProcessInv, ListingFits
<1>3. PassFits' /\ UnstartedFits'
  BY <1>1 DEF ProcessInv, PassFits, UnstartedFits, RunsStay
<1>4. RunnerTypeOK' /\ BusyFits' /\ SlotsFit'
  BY <1>1 DEF ProcessInv, RunnerTypeOK, BusyFits, SlotsFit, Occupied
<1> QED BY <1>2, <1>3, <1>4 DEF ProcessInv

LEMMA PassEndsKeeps ==
  ASSUME ProcessInv, RunsStay, PassEnds PROVE ProcessInv'
<1>p. pass \in Passes
  BY DEF ProcessInv, RunnerTypeOK
<1>1. pass' = [pass EXCEPT !.on = FALSE, !.awaited = pass.awaited]
      /\ pass.awaited \in EventRuns \cup {NoRun}
  BY <1>p DEF PassEnds, Passes
<1> QED BY <1>1, PassFrame DEF PassEnds

LEMMA ResolveRecoveredKeeps ==
  ASSUME ProcessInv, RunsStay, NEW r \in EventRuns, ResolveRecovered(r) PROVE ProcessInv'
<1>p. pass \in Passes
  BY DEF ProcessInv, RunnerTypeOK
<1>1. ~pass.on /\ pass.on = FALSE
  BY <1>p DEF ResolveRecovered, Passes
<1>2. pass' = [pass EXCEPT !.on = FALSE, !.awaited = NoRun] /\ pass.at = NoRun
  BY <1>p, <1>1 DEF ResolveRecovered, Passes, ProcessInv, PassFits
<1> QED BY <1>2, PassFrame DEF ResolveRecovered

LEMMA RecoverExpiredKeeps ==
  ASSUME ProcessInv, RunsStay, NEW d \in Deliveries, RecoverExpired(d), IInv PROVE ProcessInv'
<1>1. CASE UNCHANGED runnerVars
  BY <1>1, FrameKeeps
<1> DEFINE r == EventRun(d, delivery[d].rev)
<1>2. CASE /\ pass' = [pass EXCEPT !.awaited = r, !.on = TRUE,
                                   !.listed = IF pass.on THEN @ ELSE Listing]
           /\ UNCHANGED <<up, restarts, busy, exec>>
  <2>1. delivery[d].state = "leased" /\ busy = NoRun /\ up = "up"
    BY DEF RecoverExpired, Serving, Idle
  <2>2. delivery[d] \in DeliveryRows /\ RowOK(delivery[d])
    BY DEF IInv, TypeOK, RowLedger
  <2>3. delivery[d].rev \in Attempts
    BY <2>1, <2>2, ConstantsAssumption DEF DeliveryRows, RowOK, Attempts
  <2>4. r \in EventRuns
    BY <2>3, EventRunType
  <2>5. pass.on \/ pass.at = NoRun
    BY DEF ProcessInv, PassFits
  <2> HIDE DEF r
  <2> QED BY <1>2, <2>1, <2>4, <2>5, PassBegins
<1> QED BY <1>1, <1>2 DEF RecoverExpired

-----------------------------------------------------------------------------
(* What a pass does to a run, the shutdown, and the kernel. *)

LEMMA PassSetKeeps ==
  ASSUME ProcessInv, RunsStay, NEW r \in Runs, NEW x \in Executions, Set(r, x),
         UNCHANGED <<up, restarts, busy>>, Idle, ExecutionFits(x), run[r] # "none",
         x.phase = exec[r].phase, x.slot = exec[r].slot, x.stop = exec[r].stop,
         pass' \in Passes, pass'.listed[r].vault # "prepared",
         \A s \in Runs : s # r => pass'.listed[s] \in {pass.listed[s], NotListed},
         pass'.at \in {pass.at, r, NoRun},
         pass'.at # NoRun => pass'.on /\ pass'.listed[pass'.at] = NotListed,
         pass'.at = r => x.phase \in LatePhases
  PROVE  ProcessInv'
<1>e. exec \in [Runs -> Executions] /\ NoRun \notin Runs
  BY RunnerAssumption DEF ProcessInv, RunnerTypeOK
<1>1. up # "down" /\ busy' = NoRun /\ busy = NoRun
  BY DEF Idle
<1>2. run'[r] # "none"
  BY DEF RunsStay
<1>3. x.phase \notin BusyPhases
  BY <1>1, <1>e DEF ProcessInv, BusyFits
<1>4. ListingFits(r)'
  BY DEF ListingFits
<1>5. \A s \in Runs : pass'.at = s /\ s # r => pass.at = s
  BY <1>e
<1> HIDE DEF ListingFits
<1> QED BY <1>1, <1>2, <1>3, <1>4, <1>5, <1>e, SetKeeps

\* The two ways a visit ends.
LEMMA VisitKeeps ==
  ASSUME ProcessInv, RunsStay, NEW r \in Runs, Visiting(r), NEW x \in Executions,
         ExecutionFits(x), x.phase = exec[r].phase, x.slot = exec[r].slot, x.stop = exec[r].stop,
         Visited(r, x) \/ PassThrows(r, x)
  PROVE  ProcessInv'
<1>p. pass \in Passes
  BY DEF ProcessInv, RunnerTypeOK
<1>1. Idle /\ pass.at = NoRun /\ run[r] # "none"
  BY DEF Visiting, ProcessInv, UnstartedFits
<1>n. /\ NotListed \in [vault : {"none"} \cup VaultStates, ident : BOOLEAN]
      /\ NotListed.vault = "none"
  BY DEF NotListed
<1>2. CASE Visited(r, x)
  <2>1. /\ pass' \in Passes /\ pass'.at = NoRun
        /\ pass'.listed = [pass.listed EXCEPT ![r] = NotListed]
    BY <1>p, <1>1, <1>2, <1>n DEF Visited, Passes
  <2>2. pass'.listed[r] = NotListed /\ \A s \in Runs : s # r => pass'.listed[s] = pass.listed[s]
    BY <1>p, <2>1 DEF Passes
  <2> QED BY <1>1, <1>2, <1>n, <2>1, <2>2, RunnerAssumption, PassSetKeeps DEF Visited
<1>3. CASE PassThrows(r, x)
  <2>1. /\ pass' \in Passes /\ pass'.at = NoRun
        /\ \A s \in Runs : pass'.listed[s] = NotListed
    BY <1>3, <1>n DEF PassThrows, Passes, NoPass
  <2> QED BY <1>1, <1>3, <1>n, <2>1, RunnerAssumption, PassSetKeeps DEF PassThrows
<1> QED BY <1>2, <1>3

\* A visited run whose row is there is past the outcome of its spawn.
LEMMA VisitedIsLate ==
  ASSUME ProcessInv, NEW r \in Runs, Idle, exec[r].vault # "none"
  PROVE  /\ exec[r].phase \in LatePhases /\ Late(exec[r], exec[r].term # "none")
         /\ FilesFit(exec[r]) /\ TakeoverFits(exec[r])
         /\ exec[r].stop # "mark" /\ ~exec[r].thrown
<1>e. exec[r] \in Executions /\ ExecutionFits(exec[r])
  BY ExecutionIs
<1>1. exec[r].phase \notin BusyPhases
  BY RunnerAssumption DEF ProcessInv, BusyFits, Idle
<1>2. exec[r].phase \in LatePhases
  BY <1>e, <1>1 DEF ExecutionFits, ShapeFits, UntrackedFits, BusyPhases, LatePhases, Executions
<1> QED BY <1>e, <1>2 DEF ExecutionFits, ShapeFits, Idle

\* What marking the row of a visited run does to its execution.
LEMMA MarkFits ==
  ASSUME NEW x \in Executions, NEW state \in {"teardown_pending", "failed", "cleaned"},
         ExecutionFits(x), x.vault # "none" => x.phase \in LatePhases,
         ~Aborts(x, state),
         state # "teardown_pending" => x.group = "none",
         state = "cleaned" => ~x.dir
  PROVE  LET y == Mark(x, state)
         IN  /\ y \in Executions /\ ExecutionFits(y)
             /\ y.phase = x.phase /\ y.slot = x.slot /\ y.stop = x.stop
<1>1. CASE x.vault = "none"
  BY <1>1 DEF Mark
<1>2. CASE x.vault # "none"
  <2> DEFINE y == [x EXCEPT !.vault = state]
  <2>1. Mark(x, state) = y
    BY <1>2 DEF Mark
  <2>2. /\ x.phase \in LatePhases /\ Late(x, x.term # "none")
        /\ FilesFit(x) /\ TakeoverFits(x) /\ ~x.thrown
    BY <1>2 DEF ExecutionFits, ShapeFits
  <2>3. x.vault = "cleaned" => state = "cleaned"
    BY DEF Aborts, Transitions
  <2>4. y \in Executions
    BY DEF Executions, VaultStates
  <2>5. /\ y.vault = state /\ y.phase = x.phase /\ y.slot = x.slot
        /\ y.stop = x.stop /\ y.group = x.group /\ y.dir = x.dir
        /\ y.secrets = x.secrets /\ y.owned = x.owned /\ y.term = x.term
        /\ y.timedOut = x.timedOut /\ y.salvage = x.salvage /\ y.thrown = x.thrown
    BY DEF Executions
  <2> HIDE DEF y
  <2>6. FilesFit(y)
    BY <2>2, <2>5 DEF FilesFit
  <2>7. Late(y, y.term # "none")
    BY <2>2, <2>5 DEF Late
  <2>8. TakeoverFits(y)
    BY <2>2, <2>3, <2>5 DEF TakeoverFits, HalfCleaned, Vanished, Wedged
  <2>9. UntrackedFits(y) /\ IdentifiedFits(y)
    BY <2>2, <2>5 DEF UntrackedFits, IdentifiedFits, LatePhases
  <2>10. ExecutionFits(y)
    BY <2>2, <2>5, <2>6, <2>7, <2>8, <2>9 DEF ExecutionFits, ShapeFits
  <2> QED BY <2>1, <2>4, <2>5, <2>10
<1> QED BY <1>1, <1>2

LEMMA RetainKeeps ==
  ASSUME ProcessInv, RunsStay, NEW r \in Runs, Visiting(r), NEW x \in Executions,
         ExecutionFits(x), x.vault # "none" => x.phase \in LatePhases,
         x.phase = exec[r].phase, x.slot = exec[r].slot, x.stop = exec[r].stop,
         Retain(r, x)
  PROVE  ProcessInv'
<1> DEFINE y == Mark(x, "teardown_pending")
<1>1. \/ Visited(r, x)
      \/ IF y.thrown THEN PassThrows(r, Caught(y)) ELSE Visited(r, y)
  BY DEF Retain
<1>2. CASE Visited(r, x)
  BY <1>2, VisitKeeps
<1>3. CASE Aborts(x, "teardown_pending")
  <2>1. y = [x EXCEPT !.thrown = TRUE] /\ y.thrown
    BY <1>3 DEF Mark, Aborts, Executions
  <2>2. Caught(y) = x
    BY <2>1 DEF Caught, ExecutionFits, Executions
  <2> HIDE DEF y
  <2> QED BY <1>1, <1>2, <2>1, <2>2, VisitKeeps
<1>4. CASE ~Aborts(x, "teardown_pending")
  <2>1. /\ y \in Executions /\ ExecutionFits(y)
        /\ y.phase = x.phase /\ y.slot = x.slot /\ y.stop = x.stop
    BY <1>4, MarkFits
  <2> HIDE DEF y
  <2>2. ~y.thrown
    BY <2>1 DEF ExecutionFits
  <2> QED BY <1>1, <1>2, <2>1, <2>2, VisitKeeps
<1> QED BY <1>3, <1>4

LEMMA PassStaleKeeps ==
  ASSUME ProcessInv, RunsStay, NEW r \in Runs, PassStale(r) \/ PassRetains(r)
  PROVE  ProcessInv'
<1>1. Visiting(r) /\ Retain(r, exec[r])
  BY DEF PassStale, PassRetains
<1>2. exec[r].vault # "none" => exec[r].phase \in LatePhases
  BY <1>1, VisitedIsLate DEF Visiting
<1> QED BY <1>1, <1>2, ExecutionIs, RetainKeeps

LEMMA PassCleansPreparedKeeps ==
  ASSUME ProcessInv, RunsStay, NEW r \in Runs, PassCleansPrepared(r)
  PROVE  ProcessInv'
<1>e. exec[r] \in Executions /\ ExecutionFits(exec[r])
  BY ExecutionIs
<1>1. /\ Visiting(r) /\ Idle /\ exec[r].group = "none"
      /\ exec[r].phase = "done" /\ exec[r].owned = "no" /\ exec[r].vault = "prepared"
  BY DEF PassCleansPrepared, Visiting, ProcessInv, ListingFits
<1>2. /\ Late(exec[r], exec[r].term # "none") /\ FilesFit(exec[r]) /\ TakeoverFits(exec[r])
      /\ exec[r].phase \in LatePhases /\ ~exec[r].thrown
  BY <1>1, VisitedIsLate
<1> DEFINE u == [exec[r] EXCEPT !.dir = FALSE]
<1>3. Visited(r, Mark(exec[r], "failed")) \/ Visited(r, Mark(u, "cleaned"))
  BY Zenon DEF PassCleansPrepared
<1>4. CASE Visited(r, Mark(exec[r], "failed"))
  <2> DEFINE y == Mark(exec[r], "failed")
  <2>0. ~Aborts(exec[r], "failed")
    BY <1>1 DEF Aborts, Transitions
  <2>1. /\ y \in Executions /\ ExecutionFits(y)
        /\ y.phase = exec[r].phase /\ y.slot = exec[r].slot /\ y.stop = exec[r].stop
    BY <1>e, <1>1, <1>2, <2>0, MarkFits
  <2> HIDE DEF y
  <2> QED BY <1>1, <1>4, <2>1, VisitKeeps DEF y
<1>5. CASE Visited(r, Mark(u, "cleaned"))
  <2>1. u \in Executions /\ u.vault = "prepared"
    BY <1>e, <1>1 DEF Executions
  <2> DEFINE y == [u EXCEPT !.vault = "cleaned"]
  <2>2. Mark(u, "cleaned") = y /\ y \in Executions
    <3> HIDE DEF u
    <3> QED BY <2>1, MarkIs
  <2>3. /\ y.vault = "cleaned" /\ ~y.dir /\ y.phase = exec[r].phase /\ y.slot = exec[r].slot
        /\ y.stop = exec[r].stop /\ y.group = exec[r].group
        /\ y.secrets = exec[r].secrets /\ y.owned = exec[r].owned /\ y.term = exec[r].term
        /\ ~y.thrown
    BY <1>e, <1>2 DEF Executions
  <2> HIDE DEF y
  <2>4. UntrackedFits(y) /\ FilesFit(y) /\ IdentifiedFits(y) /\ Late(y, y.term # "none")
    BY <1>1, <1>2, <2>3 DEF FilesFit, Late, UntrackedFits, IdentifiedFits, LatePhases
  <2>5. TakeoverFits(y)
    BY <1>1, <1>2, <2>3 DEF TakeoverFits, HalfCleaned, Vanished, Wedged
  <2>6. ExecutionFits(y)
    BY <2>3, <2>4, <2>5 DEF ExecutionFits, ShapeFits
  <2> QED BY <1>1, <1>5, <2>2, <2>3, <2>6, VisitKeeps
<1> QED BY <1>3, <1>4, <1>5

LEMMA PassConfirmsCleanedKeeps ==
  ASSUME ProcessInv, RunsStay, NEW r \in Runs, PassConfirmsCleaned(r)
  PROVE  ProcessInv'
<1>e. exec[r] \in Executions /\ ExecutionFits(exec[r])
  BY ExecutionIs
<1>1. /\ Visiting(r) /\ Idle /\ exec[r].group = "none" /\ ~exec[r].dir
      /\ Visited(r, Mark(exec[r], "cleaned"))
  BY DEF PassConfirmsCleaned, Visiting
<1>2. ~Aborts(exec[r], "cleaned")
  BY <1>e DEF Aborts, Transitions, Executions, VaultStates
<1> DEFINE y == Mark(exec[r], "cleaned")
<1>3. exec[r].vault # "none" => exec[r].phase \in LatePhases
  BY <1>1, VisitedIsLate
<1>4. /\ y \in Executions /\ ExecutionFits(y)
      /\ y.phase = exec[r].phase /\ y.slot = exec[r].slot /\ y.stop = exec[r].stop
  BY <1>e, <1>1, <1>2, <1>3, MarkFits
<1> HIDE DEF y
<1> QED BY <1>1, <1>4, VisitKeeps DEF y

\* A live leader that a pass found is recorded and remembered.
LEMMA RecoveredFits ==
  ASSUME ProcessInv, NEW r \in Runs, Found(r)
  PROVE  LET x == Recovered(r)
         IN  /\ x \in Executions /\ ExecutionFits(x) /\ x.phase \in LatePhases
             /\ x.phase = exec[r].phase /\ x.slot = exec[r].slot /\ x.stop = exec[r].stop
             /\ x.group = "leader" /\ x.dir /\ x.salvage
             /\ x.vault \in {"prepared", "spawned", "teardown_pending"}
<1>e. exec[r] \in Executions /\ ExecutionFits(exec[r])
  BY ExecutionIs
<1>1. /\ Idle /\ exec[r].group = "leader"
      /\ exec[r].ident \/ exec[r].vault = "prepared"
  BY DEF Found, Visiting
<1>2. exec[r].vault \in {"prepared", "spawned", "teardown_pending"} /\ exec[r].dir
  BY <1>e, <1>1 DEF ExecutionFits, ShapeFits, FilesFit
<1>3. /\ exec[r].phase \in LatePhases /\ Late(exec[r], exec[r].term # "none")
      /\ FilesFit(exec[r]) /\ TakeoverFits(exec[r]) /\ ~exec[r].thrown
  BY <1>1, <1>2, VisitedIsLate
<1> DEFINE x == Recovered(r)
<1>4. /\ x \in Executions /\ x.vault \in {exec[r].vault, "spawned"} /\ x.salvage
      /\ x.phase = exec[r].phase /\ x.slot = exec[r].slot /\ x.stop = exec[r].stop
      /\ x.group = exec[r].group /\ x.dir = exec[r].dir /\ x.secrets = exec[r].secrets
      /\ x.term = exec[r].term /\ x.timedOut = exec[r].timedOut /\ x.owned = exec[r].owned
      /\ ~x.thrown
  <2>1. CASE exec[r].ident
    BY <1>e, <1>3, <2>1 DEF Recovered, Executions
  <2>2. CASE ~exec[r].ident
    <3> DEFINE u == [exec[r] EXCEPT !.salvage = TRUE]
               v == [u EXCEPT !.ident = TRUE]
    <3>1. u \in Executions /\ v \in Executions
      BY <1>e DEF Executions
    <3>2. x = [v EXCEPT !.vault = "spawned"]
      BY <2>2 DEF Recovered
    <3>3. /\ v.salvage /\ v.phase = exec[r].phase /\ v.slot = exec[r].slot
          /\ v.stop = exec[r].stop /\ v.group = exec[r].group /\ v.dir = exec[r].dir
          /\ v.secrets = exec[r].secrets /\ v.term = exec[r].term
          /\ v.timedOut = exec[r].timedOut /\ v.owned = exec[r].owned /\ ~v.thrown
      BY <1>e, <1>3 DEF Executions
    <3> HIDE DEF v, x
    <3> QED BY <3>1, <3>2, <3>3 DEF Executions, VaultStates
  <2> QED BY <2>1, <2>2
<1> HIDE DEF x
<1>5. FilesFit(x)
  BY <1>1, <1>2, <1>3, <1>4 DEF FilesFit
<1>6. TakeoverFits(x)
  BY <1>1, <1>2, <1>3, <1>4 DEF TakeoverFits, HalfCleaned, Vanished, Wedged
<1>7. Late(x, x.term # "none")
  BY <1>1, <1>3, <1>4 DEF Late
<1>8. UntrackedFits(x) /\ IdentifiedFits(x)
  BY <1>3, <1>4 DEF UntrackedFits, IdentifiedFits, LatePhases
<1>9. ExecutionFits(x)
  BY <1>4, <1>5, <1>6, <1>7, <1>8 DEF ExecutionFits, ShapeFits
<1> QED BY <1>1, <1>2, <1>3, <1>4, <1>9 DEF x

LEMMA PassLosesTrackKeeps ==
  ASSUME ProcessInv, RunsStay, NEW r \in Runs, PassLosesTrack(r)
  PROVE  ProcessInv'
<1> DEFINE x == Recovered(r)
<1>1. Visiting(r) /\ Found(r) /\ Retain(r, x)
  BY DEF PassLosesTrack, Found
<1>2. /\ x \in Executions /\ ExecutionFits(x) /\ x.phase \in LatePhases
      /\ x.phase = exec[r].phase /\ x.slot = exec[r].slot /\ x.stop = exec[r].stop
  BY <1>1, RecoveredFits
<1> HIDE DEF x
<1> QED BY <1>1, <1>2, RetainKeeps

LEMMA PassTerminatesKeeps ==
  ASSUME ProcessInv, RunsStay, NEW r \in Runs, PassTerminates(r)
  PROVE  ProcessInv'
<1>p. pass \in Passes
  BY DEF ProcessInv, RunnerTypeOK
<1> DEFINE x == Recovered(r)
           z == [x EXCEPT !.owned = "captured"]
           y == MarkTeardownPending(z)
<1>1. /\ Idle /\ Found(r) /\ pass.on
      /\ Set(r, y) /\ UNCHANGED <<up, restarts, busy>>
      /\ pass' = [pass EXCEPT !.listed[r] = NotListed, !.at = r, !.killed = FALSE]
  BY DEF PassTerminates, Found, Visiting
<1>2. /\ x \in Executions /\ ExecutionFits(x) /\ x.phase \in LatePhases
      /\ x.phase = exec[r].phase /\ x.slot = exec[r].slot /\ x.stop = exec[r].stop
      /\ x.group = "leader" /\ x.dir /\ x.salvage
      /\ x.vault \in {"prepared", "spawned", "teardown_pending"}
  BY <1>1, RecoveredFits
<1> HIDE DEF x
<1>3. /\ FilesFit(x) /\ TakeoverFits(x) /\ Late(x, x.term # "none") /\ ~x.thrown
  BY <1>2 DEF ExecutionFits, ShapeFits
<1>5. /\ z \in Executions /\ z.vault = x.vault
      /\ z.phase = x.phase /\ z.slot = x.slot /\ z.stop = x.stop
      /\ z.group = x.group /\ z.dir = x.dir /\ z.secrets = x.secrets /\ z.thrown = x.thrown
      /\ z.term = x.term /\ z.timedOut = x.timedOut /\ z.owned = "captured" /\ z.salvage
  BY <1>2 DEF Executions
<1> HIDE DEF z
<1>6. y = [z EXCEPT !.vault = "teardown_pending"] /\ y \in Executions
  BY <1>2, <1>5, MarkIs DEF MarkTeardownPending
<1> HIDE DEF y
<1>7. /\ y.vault = "teardown_pending"
      /\ y.phase = x.phase /\ y.slot = x.slot /\ y.stop = x.stop
      /\ y.group = "leader" /\ y.dir /\ y.secrets = x.secrets /\ ~y.thrown
      /\ y.term = x.term /\ y.timedOut = x.timedOut /\ y.owned = "captured" /\ y.salvage
  <2>1. /\ y.vault = "teardown_pending" /\ y.phase = z.phase /\ y.slot = z.slot
        /\ y.stop = z.stop /\ y.group = z.group /\ y.dir = z.dir /\ y.secrets = z.secrets
        /\ y.thrown = z.thrown /\ y.term = z.term /\ y.timedOut = z.timedOut
        /\ y.owned = z.owned /\ y.salvage = z.salvage
    BY <1>5, <1>6 DEF Executions
  <2> QED BY <1>2, <1>3, <1>5, <2>1
<1>8. FilesFit(y) /\ Late(y, y.term # "none") /\ TakeoverFits(y)
  <2>1. FilesFit(y)
    BY <1>7 DEF FilesFit
  <2>2. ~Wedged(x)
    BY <1>2, <1>3 DEF TakeoverFits
  <2>3. TakeoverFits(y)
    BY <1>7, <2>2 DEF TakeoverFits, HalfCleaned, Vanished, Wedged
  <2>4. x.phase \notin {"unborn", "torn", "closed"}
    BY <1>2, <1>3 DEF Late
  <2> QED BY <1>2, <1>3, <1>7, <2>1, <2>3, <2>4 DEF Late
<1>9. ExecutionFits(y)
  BY <1>2, <1>7, <1>8 DEF ExecutionFits, ShapeFits, UntrackedFits, IdentifiedFits, LatePhases
<1>n. /\ NotListed \in [vault : {"none"} \cup VaultStates, ident : BOOLEAN]
      /\ NotListed.vault = "none"
  BY DEF NotListed
<1>10. /\ pass' \in Passes /\ pass'.at = r /\ pass'.on
       /\ pass'.listed = [pass.listed EXCEPT ![r] = NotListed]
  BY <1>p, <1>1, <1>n DEF Passes
<1>11. pass'.listed[r] = NotListed /\ \A s \in Runs : s # r => pass'.listed[s] = pass.listed[s]
  BY <1>p, <1>10 DEF Passes
<1>12. run[r] # "none"
  BY <1>2 DEF ProcessInv, UnstartedFits, LatePhases
<1>13. pass'.listed[r].vault # "prepared" /\ pass'.listed[pass'.at] = NotListed
  BY <1>10, <1>11, <1>n
<1>14. y.phase = exec[r].phase /\ y.slot = exec[r].slot /\ y.stop = exec[r].stop
       /\ y.phase \in LatePhases
  BY <1>2, <1>7
<1> QED BY <1>1, <1>6, <1>9, <1>10, <1>11, <1>12, <1>13, <1>14, PassSetKeeps

\* The group under recovery: what the pass still knows, and how it goes on.
LEMMA TeardownIs ==
  ASSUME ProcessInv, NEW r \in Runs, Idle, pass.at = r
  PROVE  /\ exec[r].phase \in LatePhases /\ Late(exec[r], exec[r].term # "none")
         /\ FilesFit(exec[r]) /\ TakeoverFits(exec[r])
         /\ exec[r].stop # "mark" /\ ~exec[r].thrown
         /\ pass.listed[r] = NotListed /\ pass.on /\ run[r] # "none"
<1>e. exec[r] \in Executions /\ ExecutionFits(exec[r]) /\ r # NoRun
  BY ExecutionIs, RunnerAssumption
<1>1. pass.listed[r] = NotListed /\ pass.on /\ exec[r].phase \in LatePhases
  BY <1>e DEF ProcessInv, PassFits
<1> QED BY <1>e, <1>1 DEF ProcessInv, UnstartedFits, ExecutionFits, ShapeFits, Idle

LEMMA TeardownKeeps ==
  ASSUME ProcessInv, RunsStay, NEW r \in Runs, Idle, pass.at = r, NEW x \in Executions,
         ExecutionFits(x), Set(r, x), UNCHANGED <<up, restarts, busy>>,
         x.phase = exec[r].phase, x.slot = exec[r].slot, x.stop = exec[r].stop,
         \/ pass' = NoPass
         \/ pass' = [pass EXCEPT !.at = NoRun]
         \/ pass' = [pass EXCEPT !.killed = TRUE]
  PROVE  ProcessInv'
<1>p. pass \in Passes
  BY DEF ProcessInv, RunnerTypeOK
<1>n. /\ NotListed \in [vault : {"none"} \cup VaultStates, ident : BOOLEAN]
      /\ NotListed.vault = "none"
  BY DEF NotListed
<1>1. exec[r].phase \in LatePhases /\ pass.listed[r] = NotListed /\ pass.on /\ run[r] # "none"
  BY TeardownIs
<1>2. CASE pass' = NoPass
  <2>1. /\ pass' \in Passes /\ pass'.at = NoRun
        /\ \A s \in Runs : pass'.listed[s] = NotListed
    BY <1>2, <1>n DEF Passes, NoPass
  <2> QED BY <1>1, <1>n, <2>1, RunnerAssumption, PassSetKeeps
<1>3. CASE pass' = [pass EXCEPT !.at = NoRun]
  <2>1. pass' \in Passes /\ pass'.at = NoRun /\ pass'.listed = pass.listed
    BY <1>p, <1>3 DEF Passes
  <2> QED BY <1>1, <1>n, <2>1, RunnerAssumption, PassSetKeeps
<1>4. CASE pass' = [pass EXCEPT !.killed = TRUE]
  <2>1. pass' \in Passes /\ pass'.at = r /\ pass'.listed = pass.listed /\ pass'.on = pass.on
    BY <1>p, <1>4 DEF Passes
  <2> QED BY <1>1, <1>n, <2>1, RunnerAssumption, PassSetKeeps
<1> QED BY <1>2, <1>3, <1>4

LEMMA PassVerifiedKeeps ==
  ASSUME ProcessInv, RunsStay, NEW r \in Runs, PassVerified(r)
  PROVE  ProcessInv'
<1>e. exec[r] \in Executions /\ ExecutionFits(exec[r])
  BY ExecutionIs
<1> DEFINE x == [exec[r] EXCEPT !.owned = "no"]
<1>1. Idle /\ pass.at = r /\ exec[r].group = "none" /\ UNCHANGED <<up, restarts, busy>>
  BY DEF PassVerified, PassThrows
<1>2. /\ exec[r].phase \in LatePhases /\ Late(exec[r], exec[r].term # "none")
      /\ FilesFit(exec[r]) /\ TakeoverFits(exec[r]) /\ ~exec[r].thrown
  BY <1>1, TeardownIs
<1>3. /\ x \in Executions /\ x.owned = "no" /\ x.group = "none" /\ x.vault = exec[r].vault
      /\ x.phase = exec[r].phase /\ x.slot = exec[r].slot /\ x.stop = exec[r].stop
      /\ x.dir = exec[r].dir /\ x.secrets = exec[r].secrets /\ x.salvage = exec[r].salvage
      /\ x.term = exec[r].term /\ x.timedOut = exec[r].timedOut /\ x.thrown = exec[r].thrown
  BY <1>e, <1>1 DEF Executions
<1>4. PICK safe \in Inspections :
        LET y == FinalizeVerified(x, safe)
        IN  IF y.thrown THEN PassThrows(r, Caught(y))
            ELSE Set(r, y) /\ pass' = [pass EXCEPT !.at = NoRun]
  BY DEF PassVerified
<1> HIDE DEF x
<1>5. FilesFit(x) /\ Late(x, x.term # "none") /\ WedgeFits(x)
  BY <1>2, <1>3 DEF FilesFit, Late, TakeoverFits, WedgeFits, Wedged
<1>6. safe \in BOOLEAN
  BY InspectionIs
<1> DEFINE y == FinalizeVerified(x, safe)
<1>7. Kin(x, y) /\ FilesFit(y) /\ y.owned = "no" /\ y.term = x.term
  BY <1>3, <1>5, <1>6, FinalizeKeeps
<1>8. CASE y.thrown
  <2>1. Set(r, Caught(y)) /\ pass' = NoPass
    BY <1>4, <1>8 DEF PassThrows
  <2> HIDE DEF y
  <2>2. TakeoverFits(y)
    BY <1>5, <1>7, KinWedge DEF TakeoverFits, HalfCleaned, Vanished, WedgeFits
  <2>3. /\ y \in Executions /\ ShapeFits(y)
        /\ y.phase = x.phase /\ y.slot = x.slot /\ y.stop = x.stop
    BY <1>3, <1>5, <1>7, <2>2, KinFits
  <2> DEFINE z == Caught(y)
  <2>4. /\ z \in Executions /\ ExecutionFits(z)
        /\ z.phase = y.phase /\ z.slot = y.slot /\ z.stop = y.stop
    BY <2>3, CaughtFits
  <2> HIDE DEF z
  <2> QED BY <1>1, <1>3, <2>1, <2>3, <2>4, TeardownKeeps DEF z
<1>9. CASE ~y.thrown
  <2>1. Set(r, y) /\ pass' = [pass EXCEPT !.at = NoRun]
    BY <1>4, <1>9
  <2> HIDE DEF y
  <2>2. TakeoverFits(y)
    BY <1>5, <1>7, KinWedge DEF TakeoverFits, HalfCleaned, Vanished, WedgeFits
  <2>3. /\ y \in Executions /\ ExecutionFits(y)
        /\ y.phase = x.phase /\ y.slot = x.slot /\ y.stop = x.stop
    BY <1>3, <1>5, <1>7, <1>9, <2>2, KinFits DEF ExecutionFits
  <2> QED BY <1>1, <1>3, <2>1, <2>3, TeardownKeeps
<1> QED BY <1>8, <1>9

LEMMA PassKillsKeeps ==
  ASSUME ProcessInv, RunsStay, NEW r \in Runs, PassKills(r)
  PROVE  ProcessInv'
<1>e. exec[r] \in Executions /\ ExecutionFits(exec[r])
  BY ExecutionIs
<1>1. PICK killed \in Kills :
        Set(r, [exec[r] EXCEPT !.group = IF killed THEN "none" ELSE @])
  BY DEF PassKills
<1> DEFINE x == [exec[r] EXCEPT !.group = IF killed THEN "none" ELSE @]
<1>2. /\ Idle /\ pass.at = r /\ pass' = [pass EXCEPT !.killed = TRUE]
      /\ UNCHANGED <<up, restarts, busy>>
  BY DEF PassKills
<1>3. /\ exec[r].phase \in LatePhases /\ Late(exec[r], exec[r].term # "none")
      /\ FilesFit(exec[r]) /\ TakeoverFits(exec[r]) /\ ~exec[r].thrown
      /\ exec[r].group # "none"
  BY <1>2, TeardownIs DEF PassKills
<1>4. x.group = exec[r].group \/ x.group = "none"
  BY <1>e DEF Executions
<1>5. /\ x \in Executions /\ x.term = exec[r].term /\ ~x.thrown
      /\ x.phase = exec[r].phase /\ x.slot = exec[r].slot /\ x.stop = exec[r].stop
      /\ x.timedOut = exec[r].timedOut /\ x.owned = exec[r].owned /\ x.dir = exec[r].dir
      /\ x.secrets = exec[r].secrets /\ x.vault = exec[r].vault /\ x.salvage = exec[r].salvage
  BY <1>e, <1>3 DEF Executions
<1> HIDE DEF x
<1>6. FilesFit(x) /\ Late(x, x.term # "none")
  BY <1>3, <1>4, <1>5 DEF FilesFit, Late
<1>7. TakeoverFits(x)
  BY <1>3, <1>5 DEF FilesFit, TakeoverFits, HalfCleaned, Wedged
<1>8. ExecutionFits(x)
  BY <1>3, <1>5, <1>6, <1>7 DEF ExecutionFits, ShapeFits, UntrackedFits, IdentifiedFits,
                                LatePhases
<1> QED BY <1>1, <1>2, <1>5, <1>8, TeardownKeeps DEF x

LEMMA PassGivesUpKeeps ==
  ASSUME ProcessInv, RunsStay, NEW r \in Runs, PassGivesUp(r)
  PROVE  ProcessInv'
<1>e. exec[r] \in Executions /\ ExecutionFits(exec[r])
  BY ExecutionIs
<1> DEFINE y == MarkTeardownPending(exec[r])
<1>1. /\ Idle /\ pass.at = r /\ pass' = [pass EXCEPT !.at = NoRun] /\ exec[r].group # "none"
      /\ UNCHANGED <<up, restarts, busy>> /\ Set(r, y)
  BY DEF PassGivesUp
<1>2. /\ Late(exec[r], exec[r].term # "none") /\ ~exec[r].thrown
      /\ FilesFit(exec[r]) /\ TakeoverFits(exec[r])
  BY <1>1, TeardownIs
<1>3. exec[r].vault # "cleaned"
  BY <1>1, <1>2 DEF FilesFit
<1>4. /\ y \in Executions /\ ExecutionFits(y)
      /\ y.phase = exec[r].phase /\ y.slot = exec[r].slot /\ y.stop = exec[r].stop
  BY <1>e, <1>2, <1>3, MarkPendingFits
<1> HIDE DEF y
<1> QED BY <1>1, <1>4, TeardownKeeps

-----------------------------------------------------------------------------
(* Shutdown, crash, the kernel, and the start of a run. *)

LEMMA BeginStopKeeps ==
  ASSUME ProcessInv, RunsStay, BeginStop PROVE ProcessInv'
<1> DEFINE next == [r \in Runs |-> Collected(exec[r])]
<1>1. /\ busy = NoRun /\ busy' = NoRun /\ UNCHANGED <<restarts, pass>> /\ up' = "stopping"
      /\ exec' = [r \in Runs |-> next[r]]
  BY DEF BeginStop, Serving, Idle
<1>2. \A r \in Runs : Follows(exec[r], next[r])
  BY SameFollows, CollectedFits
<1> HIDE DEF next
<1> QED BY <1>1, <1>2, ManyKeeps

\* A run that the shutdown does not wait for, or no longer.
LEMMA StoppedFits ==
  ASSUME NEW x \in Executions, ExecutionFits(x), NEW stop \in {"no", "wait"},
         stop = "no" \/ x.phase \in LatePhases
  PROVE  LET y == [x EXCEPT !.stop = stop]
         IN  /\ y \in Executions /\ ExecutionFits(y) /\ y.stop = stop
             /\ y.phase = x.phase /\ y.slot = x.slot /\ y.vault = x.vault /\ y.owned = x.owned
             /\ y.group = x.group /\ y.term = x.term /\ y.salvage = x.salvage
<1> DEFINE y == [x EXCEPT !.stop = stop]
<1>1. /\ y \in Executions /\ ~y.thrown
      /\ y.phase = x.phase /\ y.slot = x.slot /\ y.unproven = x.unproven
      /\ y.timedOut = x.timedOut /\ y.stop = stop /\ y.group = x.group
      /\ y.ident = x.ident /\ y.rev = x.rev /\ y.owned = x.owned /\ y.term = x.term
      /\ y.salvage = x.salvage /\ y.secrets = x.secrets /\ y.dir = x.dir /\ y.vault = x.vault
  BY DEF Executions, ExecutionFits
<1> HIDE DEF y
<1>2. UntrackedFits(y) /\ FilesFit(y) /\ IdentifiedFits(y)
  BY <1>1 DEF ExecutionFits, ShapeFits, UntrackedFits, FilesFit, IdentifiedFits, LatePhases
<1>3. TakeoverFits(y)
  BY <1>1 DEF ExecutionFits, ShapeFits, TakeoverFits, HalfCleaned, Vanished, Wedged
<1>4. y.phase \in LatePhases => Late(y, y.term # "none")
  BY <1>1 DEF ExecutionFits, ShapeFits, Late
<1>5. ExecutionFits(y)
  BY <1>1, <1>2, <1>3, <1>4 DEF ExecutionFits, ShapeFits
<1> QED BY <1>1, <1>5 DEF y

LEMMA StopRunKeeps ==
  ASSUME ProcessInv, RunsStay, NEW r \in Runs, StopRun(r)
  PROVE  ProcessInv'
<1>e. exec[r] \in Executions /\ ExecutionFits(exec[r])
  BY ExecutionIs
<1>1. up = "stopping" /\ exec[r].stop = "mark" /\ busy = NoRun
  BY DEF StopRun, ProcessInv, BusyFits
<1>2. exec[r].phase \in {"unborn", "live", "torn"}
  BY <1>e, <1>1 DEF ExecutionFits, ShapeFits, UntrackedFits, IdentifiedFits, Late, LatePhases,
                    Executions
<1> DEFINE x == [exec[r] EXCEPT !.stop = "wait"]
<1>3. PICK safe \in Inspections :
        LET y == Abandon(x, safe)
        IN  IF y.thrown THEN StopThrows(r, Caught(y)) ELSE Return(r, y)
  BY DEF StopRun
<1>4. safe \in BOOLEAN
  BY InspectionIs
<1>5. /\ x \in Executions /\ ExecutionFits(x) /\ x.phase = exec[r].phase
      /\ x.slot = exec[r].slot
  BY <1>e, <1>2, StoppedFits DEF LatePhases
<1> HIDE DEF x
<1>6. /\ FilesFit(x) /\ ~x.thrown /\ WedgeFits(x) /\ Late(x, x.term # "none")
  BY <1>2, <1>5 DEF ExecutionFits, ShapeFits, TakeoverFits, WedgeFits, LatePhases
<1>7. Late(x, TRUE) /\ (Vanished(x) => x.phase = "live")
  BY <1>2, <1>5, <1>6 DEF Late, Vanished
<1> DEFINE y == Abandon(x, safe)
<1>8. y \in Executions /\ ShapeFits(y) /\ y.phase = x.phase /\ y.slot = x.slot
  BY <1>4, <1>5, <1>6, <1>7, AbandonFits
<1>9. CASE ~y.thrown
  <2>1. Return(r, y)
    BY <1>3, <1>9
  <2> HIDE DEF y
  <2>2. ExecutionFits(y)
    BY <1>8, <1>9 DEF ExecutionFits
  <2> QED BY <1>1, <1>2, <1>5, <1>8, <2>1, <2>2, ReturnKeeps DEF BusyPhases, LatePhases
<1>10. CASE y.thrown
  <2> DEFINE z == Caught(y)
  <2>1. StopThrows(r, z)
    BY <1>3, <1>10
  <2> HIDE DEF y
  <2>2. z \in Executions /\ ExecutionFits(z) /\ z.phase = y.phase /\ z.slot = y.slot
    BY <1>8, CaughtFits
  <2> HIDE DEF z
  <2> DEFINE next == [s \in Runs |-> [IF s = r THEN z ELSE exec[s] EXCEPT !.stop = "no"]]
  <2>3. /\ exec' = [s \in Runs |-> next[s]] /\ busy' = NoRun /\ up' = "stopping"
        /\ UNCHANGED <<restarts, pass>>
    BY <1>1, <2>1 DEF StopThrows
  <2>4. ASSUME NEW s \in Runs PROVE Follows(exec[s], next[s])
    <3>1. CASE s = r
      <4>1. next[s] = [z EXCEPT !.stop = "no"]
        BY <3>1
      <4>2. /\ next[s] \in Executions /\ ExecutionFits(next[s])
            /\ next[s].phase = z.phase /\ next[s].slot = z.slot
        <5> DEFINE v == [z EXCEPT !.stop = "no"]
        <5>1. /\ v \in Executions /\ ExecutionFits(v)
              /\ v.phase = z.phase /\ v.slot = z.slot
          BY <2>2, StoppedFits
        <5> HIDE DEF v, next
        <5> QED BY <4>1, <5>1 DEF v
      <4> HIDE DEF next
      <4> QED BY <1>2, <1>5, <1>8, <2>2, <3>1, <4>2 DEF Follows, LatePhases
    <3>2. CASE s # r
      <4>1. next[s] = [exec[s] EXCEPT !.stop = "no"]
        BY <3>2
      <4>2. /\ next[s] \in Executions /\ ExecutionFits(next[s])
            /\ next[s].phase = exec[s].phase /\ next[s].slot = exec[s].slot
            /\ next[s].vault = exec[s].vault /\ next[s].owned = exec[s].owned
        <5> DEFINE v == [exec[s] EXCEPT !.stop = "no"]
        <5>1. exec[s] \in Executions /\ ExecutionFits(exec[s])
          BY ExecutionIs
        <5>2. /\ v \in Executions /\ ExecutionFits(v)
              /\ v.phase = exec[s].phase /\ v.slot = exec[s].slot
              /\ v.vault = exec[s].vault /\ v.owned = exec[s].owned
          BY <5>1, StoppedFits
        <5> HIDE DEF v, next
        <5> QED BY <4>1, <5>2 DEF v
      <4> HIDE DEF next
      <4> QED BY <4>2 DEF Follows
    <3> QED BY <3>1, <3>2
  <2> HIDE DEF next
  <2> QED BY <1>1, <2>3, <2>4, ManyKeeps
<1> QED BY <1>9, <1>10

LEMMA StopCompletesKeeps ==
  ASSUME ProcessInv, RunsStay, NEW r \in Runs, StopCompletes(r)
  PROVE  ProcessInv'
<1>1. exec[r].phase = "closed" /\ Idle /\ up # "down" /\ busy = NoRun
  BY DEF StopCompletes, Idle
<1> DEFINE x == [exec[r] EXCEPT !.stop = "no"]
<1>2. Return(r, x)
  BY DEF StopCompletes
<1>3. x \in Executions /\ ExecutionFits(x) /\ x.phase = "closed" /\ x.slot = exec[r].slot
  BY <1>1, ExecutionIs, StoppedFits
<1> HIDE DEF x
<1> QED BY <1>1, <1>2, <1>3, ReturnKeeps DEF BusyPhases, LatePhases

LEMMA GoDownKeeps ==
  ASSUME ProcessInv, RunsStay, GoDown PROVE ProcessInv'
<1>1. /\ restarts < MaxRestarts /\ restarts' = restarts + 1 /\ up' = "down" /\ busy' = NoRun
      /\ exec' = [r \in Runs |-> Forget(exec[r])] /\ pass' = NoPass
  BY DEF GoDown
<1>2. ASSUME NEW r \in Runs
      PROVE  /\ exec'[r] \in Executions /\ ExecutionFits(exec'[r])
             /\ exec'[r].phase \in {"idle", "done"} /\ exec'[r].stop = "no" /\ ~exec'[r].slot
             /\ exec[r].phase = "idle" => exec'[r].phase = "idle"
  <2> DEFINE x == Forget(exec[r])
  <2>e. exec[r] \in Executions /\ ExecutionFits(exec[r])
    BY ExecutionIs
  <2>1. exec'[r] = x
    BY <1>1
  <2>2. /\ x \in Executions
        /\ x.phase = IF exec[r].phase = "idle" THEN "idle" ELSE "done"
        /\ ~x.slot /\ ~x.unproven /\ ~x.timedOut /\ x.term = "none" /\ x.owned = "no"
        /\ ~x.secrets /\ ~x.salvage /\ ~x.thrown /\ x.stop = "no" /\ x.group = exec[r].group
        /\ x.dir = exec[r].dir /\ x.vault = exec[r].vault /\ x.ident = exec[r].ident
    <3>1. NoExecution \in Executions
      BY DEF NoExecution, Executions
    <3>2. /\ NoExecution.slot = FALSE /\ NoExecution.unproven = FALSE
          /\ NoExecution.timedOut = FALSE /\ NoExecution.term = "none"
          /\ NoExecution.owned = "no" /\ NoExecution.secrets = FALSE
          /\ NoExecution.salvage = FALSE /\ NoExecution.stop = "no"
          /\ NoExecution.thrown = FALSE
      BY DEF NoExecution
    <3>3. x \in Executions
      <4> DEFINE u == [NoExecution EXCEPT !.phase = IF exec[r].phase = "idle" THEN "idle"
                                                    ELSE "done"]
      <4>1. u \in Executions
        BY <3>1 DEF Executions
      <4>2. x = [u EXCEPT !.group = exec[r].group, !.dir = exec[r].dir, !.vault = exec[r].vault,
                          !.ident = exec[r].ident, !.rev = exec[r].rev]
        BY DEF Forget
      <4> HIDE DEF u, x
      <4> QED BY ZenonT(60), <2>e, <4>1, <4>2 DEF Executions
    <3> QED BY <2>e, <3>1, <3>2, <3>3 DEF Forget, Executions
  <2> HIDE DEF x
  <2>3. FilesFit(x)
    BY <2>e, <2>2 DEF ExecutionFits, ShapeFits, FilesFit
  <2>t. TakeoverFits(x)
    BY <2>2 DEF TakeoverFits, HalfCleaned, Wedged
  <2>4. CASE exec[r].phase = "idle"
    BY <2>e, <2>1, <2>2, <2>3, <2>t, <2>4 DEF ExecutionFits, ShapeFits, UntrackedFits,
                                              IdentifiedFits, LatePhases
  <2>5. CASE exec[r].phase # "idle"
    BY <2>1, <2>2, <2>3, <2>t, <2>5 DEF ExecutionFits, ShapeFits, UntrackedFits, IdentifiedFits,
                                        Late, LatePhases
  <2> QED BY <2>4, <2>5
<1>3. exec' \in [Runs -> Executions]
  BY <1>1, <1>2
<1>4. pass' \in Passes /\ pass'.at = NoRun /\ \A r \in Runs : pass'.listed[r] = NotListed
  BY <1>1 DEF NoPass, Passes, NotListed
<1>5. RunnerTypeOK'
  <2>1. \A r \in Runs : ~exec'[r].thrown /\ (Wedged(exec'[r]) => exec'[r].salvage)
    BY <1>2 DEF ExecutionFits, ShapeFits, TakeoverFits
  <2> QED BY <1>1, <1>3, <1>4, <2>1, RunnerAssumption DEF ProcessInv, RunnerTypeOK
<1>6. BusyFits'
  BY <1>1, <1>2, RunnerAssumption DEF BusyFits, BusyPhases
<1>7. Occupied' = {}
  BY <1>2 DEF Occupied
<1>8. SlotsFit'
  BY <1>7, FS_EmptySet, RunnerAssumption DEF SlotsFit
<1>9. UnstartedFits' /\ PassFits' /\ \A r \in Runs : ListingFits(r)'
  BY <1>2, <1>4, RunnerAssumption
     DEF ProcessInv, UnstartedFits, RunsStay, PassFits, ListingFits, NotListed
<1> QED BY <1>2, <1>5, <1>6, <1>8, <1>9 DEF ProcessInv

LEMMA KernelKeeps ==
  ASSUME ProcessInv, RunsStay, NEW r \in Runs, Kernel(r) PROVE ProcessInv'
<1>e. exec[r] \in Executions /\ ExecutionFits(exec[r]) /\ exec \in [Runs -> Executions]
  BY ExecutionIs DEF ProcessInv, RunnerTypeOK
<1>1. /\ exec[r].group \in {"leader", "orphans"}
      /\ UNCHANGED <<up, restarts, busy, pass>>
      /\ \E left \in {"none", "orphans"} : Set(r, [exec[r] EXCEPT !.group = left])
  BY DEF Kernel, LeaderExits, OrphansExit
<1>2. PICK left \in {"none", "orphans"} : Set(r, [exec[r] EXCEPT !.group = left])
  BY <1>1
<1> DEFINE x == [exec[r] EXCEPT !.group = left]
<1>3. /\ x \in Executions /\ x.group = left /\ x.term = exec[r].term
      /\ x.phase = exec[r].phase /\ x.slot = exec[r].slot /\ x.stop = exec[r].stop
      /\ x.timedOut = exec[r].timedOut /\ x.owned = exec[r].owned /\ x.dir = exec[r].dir
      /\ x.secrets = exec[r].secrets /\ x.vault = exec[r].vault /\ x.ident = exec[r].ident
      /\ x.salvage = exec[r].salvage /\ x.unproven = exec[r].unproven
      /\ x.thrown = exec[r].thrown
  BY <1>e DEF Executions
<1> HIDE DEF x
<1>4. FilesFit(x)
  BY <1>e, <1>1, <1>3 DEF ExecutionFits, ShapeFits, FilesFit
<1>5. UntrackedFits(x) /\ IdentifiedFits(x)
  BY <1>e, <1>1, <1>3 DEF ExecutionFits, ShapeFits, UntrackedFits, IdentifiedFits
<1>6. x.phase \in LatePhases => Late(x, x.term # "none")
  <2> SUFFICES ASSUME x.phase \in LatePhases PROVE Late(x, x.term # "none")
    OBVIOUS
  <2>1. Late(exec[r], exec[r].term # "none")
    BY <1>e, <1>3 DEF ExecutionFits, ShapeFits
  <2>2. x.secrets /\ x.owned = "no" => FALSE
    BY <1>1, <1>3, <2>1 DEF Late
  <2>3. exec[r].phase \notin {"unborn", "torn"}
    BY <1>1, <2>1 DEF Late
  <2> QED BY <1>3, <2>1, <2>2, <2>3 DEF Late
<1>7. TakeoverFits(x)
  BY <1>e, <1>1, <1>3 DEF ExecutionFits, ShapeFits, FilesFit, TakeoverFits, HalfCleaned, Wedged
<1>8. ExecutionFits(x)
  BY <1>e, <1>3, <1>4, <1>5, <1>6, <1>7 DEF ExecutionFits, ShapeFits
<1>9. exec[r].phase # "idle"
  BY <1>e, <1>1 DEF ExecutionFits, ShapeFits, UntrackedFits
<1>10. run'[r] # "none"
  BY <1>9 DEF ProcessInv, UnstartedFits, RunsStay
<1>11. \A s \in Runs : exec'[s].stop = "mark" => busy' = NoRun
  BY <1>1, <1>2, <1>3, <1>e DEF Set, x, ProcessInv, BusyFits
<1>12. /\ busy' \in Runs \cup {NoRun} /\ pass' \in Passes
       /\ up = "down" => busy' = NoRun
       /\ x.phase \in BusyPhases <=> busy' = r
  BY <1>1, <1>3 DEF ProcessInv, RunnerTypeOK, BusyFits
<1>13. ListingFits(r)' /\ PassFits
  <2>1. exec'[r] = x /\ ListingFits(r)
    BY <1>2, <1>e DEF Set, x, ProcessInv
  <2> QED BY <1>1, <1>3, <2>1 DEF ListingFits, ProcessInv
<1>14. pass'.at = r => x.phase \in LatePhases
  BY <1>1, <1>3, <1>13, RunnerAssumption DEF PassFits
<1>15. Set(r, x)
  BY <1>2 DEF x
<1>16. /\ \A s \in Runs : pass'.at = s /\ s # r => pass.at = s
       /\ \A s \in Runs : s # r => (busy' = s <=> busy = s)
       /\ \A s \in Runs : s # r => pass'.listed[s] \in {pass.listed[s], NotListed}
       /\ pass'.at # NoRun => pass'.on /\ pass'.listed[pass'.at] = NotListed
  BY <1>1, <1>13 DEF PassFits
<1>17. /\ up' = up /\ restarts' = restarts /\ ListingFits(r)'
       /\ x \in Executions
       /\ x.slot => exec[r].slot
  BY <1>1, <1>3, <1>13
<1> QED BY <1>8, <1>10, <1>11, <1>12, <1>14, <1>15, <1>16, <1>17, SetKeeps

\* A row and a claim is handed to the runner.
LEMMA HandedKeeps ==
  ASSUME ProcessInv, RunsStay, NEW r \in Runs, NEW rev \in Nat, Idle,
         run[r] = "none", run'[r] # "none",
         Go(r, [NoExecution EXCEPT !.phase = "handed", !.rev = rev])
  PROVE  ProcessInv'
<1> DEFINE x == [NoExecution EXCEPT !.phase = "handed", !.rev = rev]
<1>1. x \in Executions /\ x.phase = "handed" /\ ~x.slot /\ x.stop = "no"
  BY DEF NoExecution, Executions
<1>2. ExecutionFits(x)
  BY DEF NoExecution, ExecutionFits, ShapeFits, UntrackedFits, FilesFit, IdentifiedFits, Late,
         LatePhases,
         TakeoverFits, HalfCleaned, Wedged, Vanished, Executions
<1> HIDE DEF x
<1>3. /\ Set(r, x) /\ busy' = r /\ UNCHANGED <<up, restarts, pass>>
      /\ busy = NoRun /\ up # "down" /\ \A s \in Runs : exec[s].stop # "mark"
  BY DEF Go, Idle, x
<1>4. pass.listed[r] = NotListed /\ pass.at # r /\ PassFits /\ pass \in Passes
  BY DEF ProcessInv, UnstartedFits, RunnerTypeOK
<1>5. ListingFits(r)'
  BY <1>3, <1>4 DEF ListingFits, NotListed
<1>6. \A s \in Runs : exec'[s].stop = "mark" => busy' = NoRun
  BY <1>1, <1>3 DEF Set, ProcessInv, RunnerTypeOK
<1>7. \A s \in Runs : s # r => (busy' = s <=> busy = s)
  BY <1>3, RunnerAssumption
<1> QED BY <1>1, <1>2, <1>3, <1>4, <1>5, <1>6, <1>7, SetKeeps DEF PassFits, BusyPhases

LEMMA StartKeeps ==
  ASSUME IInv, ProcessInv, RunsStay, NEW j \in Jobs, NEW k \in 1..MaxOrdinary, Start(j, k)
  PROVE  ProcessInv'
<1> DEFINE r == [job |-> j, ordinal |-> k]
<1>1. r \in Runs
  BY DEF Runs, OrdinaryRuns
<1>2. /\ Idle /\ run[r] = "none" /\ run' = [run EXCEPT ![r] = "running"]
      /\ Go(r, [NoExecution EXCEPT !.phase = "handed", !.rev = job[j].rev])
  BY DEF Start, Serving, StartJobRun
<1>3. run \in [Runs -> {"none", "running"} \cup Outcomes] /\ job[j].rev \in Nat
  BY DEF IInv, TypeOK, JobRows
<1> HIDE DEF r
<1>4. run'[r] # "none"
  BY <1>1, <1>2, <1>3
<1> QED BY <1>1, <1>2, <1>3, <1>4, HandedKeeps

LEMMA ClaimNextKeeps ==
  ASSUME IInv, ProcessInv, RunsStay, NEW d \in Deliveries, ClaimNext(d)
  PROVE  ProcessInv'
<1> DEFINE n == delivery[d].attempt + 1
           r == EventRun(d, n)
<1>1. /\ Idle /\ delivery[d].state \in Waiting /\ run' = [run EXCEPT ![r] = "running"]
      /\ Go(r, [NoExecution EXCEPT !.phase = "handed", !.rev = delivery[d].jobRev])
  BY DEF ClaimNext, Serving, ClaimNextJobEventDelivery, Claim, Claimable
<1>2. delivery[d] \in DeliveryRows /\ RowOK(delivery[d])
  BY DEF IInv, TypeOK, RowLedger
<1>3. n \in Attempts /\ n > delivery[d].attempt
  BY <1>1, <1>2, ConstantsAssumption DEF RowOK, DeliveryRows, Waiting, Attempts
<1>4. r \in Runs /\ run[r] = "none"
  BY <1>3, EventRunType DEF IInv, RunLedger
<1>5. run \in [Runs -> {"none", "running"} \cup Outcomes] /\ delivery[d].jobRev \in Nat
  BY <1>2 DEF IInv, TypeOK, DeliveryRows
<1> HIDE DEF n, r
<1>6. run'[r] # "none"
  BY <1>1, <1>4, <1>5
<1> QED BY <1>1, <1>4, <1>5, <1>6, HandedKeeps

-----------------------------------------------------------------------------
(* The specification. *)

LEMMA InitFits == RunnerInit => ProcessInv
<1> SUFFICES ASSUME RunnerInit PROVE ProcessInv
  OBVIOUS
<1>1. /\ up = "up" /\ restarts = 0 /\ busy = NoRun /\ pass = NoPass
      /\ exec = [r \in Runs |-> NoExecution]
  BY DEF RunnerInit
<1>2. NoExecution \in Executions
  BY DEF NoExecution, Executions
<1>3. ExecutionFits(NoExecution)
  BY DEF NoExecution, ExecutionFits, ShapeFits, UntrackedFits, FilesFit, IdentifiedFits, Late,
         LatePhases,
         TakeoverFits, HalfCleaned, Wedged, Vanished, Executions
<1>4. NoExecution.phase = "idle" /\ ~NoExecution.slot /\ NoExecution.stop = "no"
  BY DEF NoExecution
<1>5. pass \in Passes /\ pass.at = NoRun /\ \A r \in Runs : pass.listed[r] = NotListed
  BY <1>1 DEF NoPass, Passes, NotListed
<1>6. RunnerTypeOK
  BY <1>1, <1>2, <1>3, <1>5, RunnerAssumption
     DEF RunnerTypeOK, ExecutionFits, ShapeFits, TakeoverFits
<1>7. BusyFits /\ PassFits /\ UnstartedFits
  BY <1>1, <1>4, <1>5, RunnerAssumption DEF BusyFits, BusyPhases, PassFits, UnstartedFits
<1>8. Occupied = {}
  BY <1>1, <1>4 DEF Occupied
<1>9. SlotsFit
  BY <1>8, FS_EmptySet, RunnerAssumption DEF SlotsFit
<1>10. \A r \in Runs : ExecutionFits(exec[r]) /\ ListingFits(r)
  BY <1>1, <1>3, <1>5 DEF ListingFits, NotListed
<1> QED BY <1>6, <1>7, <1>9, <1>10 DEF ProcessInv

LEMMA ProcessStep == IInv /\ ProcessInv /\ [RunnerNext]_allVars => ProcessInv'
<1> SUFFICES ASSUME IInv, ProcessInv, [RunnerNext]_allVars PROVE ProcessInv'
  OBVIOUS
<1>s. RunsStay
  BY RunnerStep, RunsStayStep
<1>1. ASSUME NEW r \in Runs, Launch(r) PROVE ProcessInv'
  BY <1>s, <1>1, BeginKeeps, ResolvedKeeps, ResolveFailsKeeps, WriteFilesKeeps,
     WriteFailsKeeps,
     ForkKeeps, SpawnThrowsKeeps, SpawnWithoutPidKeeps, LaunchErrorKeeps, IdentifyKeeps,
     UnidentifiedKeeps DEF Launch
<1>2. ASSUME NEW r \in Runs, PersistIdentity(r) \/ IdentityRefused(r) PROVE ProcessInv'
  BY <1>s, <1>2, PersistIdentityKeeps, IdentityRefusedKeeps
<1>3. ASSUME NEW r \in Runs, Callback(r) PROVE ProcessInv'
  BY <1>s, <1>3, HeartbeatKeeps, TimeoutKeeps, CancelKeeps, CloseKeeps, ForceKillKeeps,
     WaitEndsKeeps, TerminatedKeeps, GroupRecoveryKeeps DEF Callback
<1>4. ASSUME NEW r \in Runs, Recovery(r) PROVE ProcessInv'
  BY <1>s, <1>4, PassStaleKeeps, PassCleansPreparedKeeps, PassConfirmsCleanedKeeps,
     PassTerminatesKeeps, PassLosesTrackKeeps, PassVerifiedKeeps, PassKillsKeeps,
     PassGivesUpKeeps DEF Recovery
<1>5. ASSUME NEW r \in Runs, Kernel(r) \/ StopRun(r) \/ StopCompletes(r) PROVE ProcessInv'
  BY <1>s, <1>5, KernelKeeps, StopRunKeeps, StopCompletesKeeps
<1>6. CASE PassStarts \/ PassEnds \/ BeginStop \/ Crash \/ Exit \/ Boot
  BY <1>s, <1>6, PassStartsKeeps, PassEndsKeeps, BeginStopKeeps, GoDownKeeps, BootKeeps
     DEF Crash, Exit
<1>7. CASE Environment \/ UNCHANGED allVars
  BY <1>s, <1>7, FrameKeeps DEF Environment, allVars
<1>8. CASE \E j \in Jobs, k \in 1..MaxOrdinary : Start(j, k)
  BY <1>s, <1>8, StartKeeps
<1>9. CASE \E d \in Deliveries : ClaimNext(d) \/ RecoverExpired(d)
  BY <1>s, <1>9, ClaimNextKeeps, RecoverExpiredKeeps
<1>10. CASE \E r \in EventRuns : Confirm(r) \/ ResolveRecovered(r)
  BY <1>s, <1>2, <1>10, ResolveRecoveredKeeps DEF Confirm, Runs
<1> QED BY <1>1, <1>3, <1>4, <1>5, <1>6, <1>7, <1>8, <1>9, <1>10 DEF RunnerNext

LEMMA ProcessInvariance == RunnerSpec => []ProcessInv
BY InitFits, ProcessStep, RunnerInvariance, PTL DEF RunnerSpec

\* Every handler, callback and pass keeps the executions in their shape: the
\* trigger of 081 throws in none that is written without a path for it, and a
\* close or a force kill is cut short by it only for a run a pass took over.
THEOREM RunnerTypes == RunnerSpec => []RunnerTypeOK
<1>1. ProcessInv => RunnerTypeOK
  BY DEF ProcessInv
<1> QED BY <1>1, ProcessInvariance, PTL

\* The private directory is there as long as a process of the run's group is.
THEOREM FilesStayForGroup == RunnerSpec => []FilesOutliveGroup
<1>1. ProcessInv => FilesOutliveGroup
  BY DEF ProcessInv, ExecutionFits, ShapeFits, FilesFit, FilesOutliveGroup
<1> QED BY <1>1, ProcessInvariance, PTL

\* A run whose vault row is cleaned has neither processes nor files.
THEOREM CleanedRunsAreQuiet == RunnerSpec => []CleanedIsQuiet
<1>1. ProcessInv => CleanedIsQuiet
  BY DEF ProcessInv, ExecutionFits, ShapeFits, FilesFit, CleanedIsQuiet
<1> QED BY <1>1, ProcessInvariance, PTL

\* activeRunCount neither leaks nor lets go of a live child.
THEOREM SlotsAreAccounted == RunnerSpec => []SlotAccounting
<1>1. ASSUME ProcessInv PROVE SlotAccounting
  <2>1. Cardinality(Occupied) <= MaxConcurrentRuns
    BY <1>1 DEF ProcessInv, SlotsFit
  <2>2. ASSUME NEW r \in Runs
        PROVE  /\ exec[r].phase \in {"resolving", "prepared", "written", "forked",
                                     "identified", "unborn", "live", "torn"} => exec[r].slot
               /\ exec[r].slot => \/ exec[r].phase \notin {"idle", "handed", "closed", "done"}
                                  \/ (exec[r].phase = "closed" /\ exec[r].term # "none")
    BY <1>1, ExecutionIs DEF ExecutionFits, ShapeFits, UntrackedFits, IdentifiedFits, Late,
                             LatePhases
  <2> QED BY <2>1, <2>2 DEF SlotAccounting
<1> QED BY <1>1, ProcessInvariance, PTL
=============================================================================
