---------------------------- MODULE RestoreProofs ----------------------------
(***************************************************************************)
(* Proofs about Restore for any number of steps that throw and of crashes: *)
(* first as long as nothing throws once the row says that the restore is   *)
(* completed (MCRestore_late shows what happens when something does), then *)
(* what holds without this assumption.                                     *)
(***************************************************************************)
EXTENDS Restore, TLAPS

-----------------------------------------------------------------------------
(* The inductive invariant.                                                *)

\* Every component's file is old, in place or set aside.
Old       == InPlace("old")
New       == InPlace("restored")
Kept      == \A c \in Components : "old" \in {file[c]["current"], file[c]["rollback"]}
NoneAside == \A c \in Components : file[c]["rollback"] = None

\* Only the old database is set aside, only the staged one waits beside it.
SiblingsFit ==
  \A c \in Components : /\ file[c]["new"] \in {None, "restored"}
                        /\ file[c]["rollback"] \in {None, "old"}

\* The restore is over, for good.
Committed == New /\ revoked /\ row["restored"] = "completed"

\* The old pair goes when the restore is over and its journal says so.
RetainedUntilCommitted == Kept \/ (Committed /\ journal \in {None, "completed"})

\* What a run can be in the old database while no journal is under way.
PlainStates ==
  {None, "queued", "start_failed", "claimed", "setup_failed", "rolled_back"}

\* What the journal says of the files and the row.
JournalTells ==
  /\ journal = None => (Old /\ row["old"] \in PlainStates) \/ Committed
  /\ journal = "rolled_back" => Old /\ row["old"] = "rolled_back"
  /\ journal = "completed" => Committed
  /\ journal = "rollback_failed" => mode \in {"refused", "down"}

PairServed == users => Old \/ (New /\ revoked)

\* A run that is not claimed yet left no trace among the files.
UnclaimedIsBare == row["old"] \in {None, "queued"} => NoneAside

\* A request needs the API, and a run whose rows were lost keeps it away.
HandoffNeedsUsers ==
  /\ handoff # "none" => users
  /\ unmerged => ~users /\ mode \in {"undo", "idle"}

\* Where an execution is, what it did and what it left alone.
SetupSteps   == {"starting", "locking", "claiming", "claimed", "failing", "release"}
UnswappedRow ==
  [claimed |-> "claimed", quiesce |-> "claimed", stop |-> "quiescing",
   snapshot |-> "quiescing", swap |-> "snapshotting", install |-> "swapping"]
InstalledSteps ==
  {"verify", "rehydrate", "reclaim", "revoke", "restart", "start", "complete", "record"}
RevokedSteps == {"restart", "start", "complete", "record"}
TidySteps    == {"discard", "archive", "unlock"}

ExecuteFits == mode = "execute" =>
  /\ pc \in SetupSteps \cup DOMAIN UnswappedRow \cup InstalledSteps \cup TidySteps
  /\ pc \in SetupSteps \cup {"quiesce", "stop", "complete", "record"} \cup TidySteps => users
  /\ pc \in {"snapshot", "swap", "install"} \cup (InstalledSteps \ {"complete", "record"}) => ~users
  /\ pc \in {"locking", "claiming", "claimed", "unlock"} => journal = None
  /\ pc \in (DOMAIN UnswappedRow \ {"claimed"}) \cup InstalledSteps => journal = "underway"
  /\ pc \in {"discard", "archive"} => journal = "completed"
  /\ pc \in DOMAIN UnswappedRow => row["old"] = UnswappedRow[pc]
  /\ pc \in DOMAIN UnswappedRow \ {"install"} => Old /\ NoneAside
  /\ pc = "install" =>
       \A c \in Components : file[c]["rollback"] # None /\ file[c]["new"] = None
                               => file[c]["current"] = "restored"
  /\ pc \in InstalledSteps => New
  /\ pc \in RevokedSteps => revoked
  /\ pc = "record" => row["restored"] = "completed"

EarlyFits == mode = "early" =>
  /\ pc \in {"abandon", "abandoned", "record", "start", "archive", "unlock"}
  /\ Old
  /\ pc \in {"abandon", "abandoned", "record"} => journal = "underway"
  /\ pc = "record" => row["old"] = "rolled_back"
  /\ pc \in {"start", "archive"} => journal = "rolled_back"
  /\ pc \in {"archive", "unlock"} => users
  /\ pc = "unlock" => journal = None

UndoFits == mode = "undo" =>
  /\ pc \in {"stop", "rollback", "replace", "check", "settle", "record", "start"} \cup TidySteps
  /\ pc \in {"stop", "rollback", "replace", "check", "settle", "record"} => journal = "underway"
  /\ pc \in {"rollback", "replace", "check", "settle", "record", "start"} => ~users
  /\ pc \in {"check", "settle", "record"} => Old
  /\ pc = "record" => row["old"] = "rolled_back"
  /\ pc \in {"start", "discard", "archive"} => journal = "rolled_back"
  /\ pc \in TidySteps => users \/ unmerged
  /\ pc = "unlock" => journal = None /\ Old

RecoverFits == mode = "recover" =>
  /\ pc \in {"rollback", "replace", "check", "settle", "record", "blame", "blamed"} \cup TidySteps
  /\ ~users
  /\ pc \in {"rollback", "replace", "check", "settle", "discard", "record", "blamed"}
       => journal = "underway"
  /\ pc \in {"check", "settle", "discard", "record"} => Old
  /\ pc \in {"discard", "record"} => row["old"] = "rolled_back"
  /\ pc = "archive" => journal = "rolled_back"
  /\ pc = "unlock" => journal = None
  /\ pc = "blame" => journal # "completed"
  /\ journal = None => Old /\ row["old"] = "rolled_back"

FinishFits == mode = "finish" =>
  /\ pc \in TidySteps
  /\ ~users
  /\ pc = "discard" => journal = "completed"
  /\ pc = "archive" => journal \in {"completed", "rolled_back"}
  /\ pc = "unlock" => journal = None

RestFits ==
  /\ mode \in {"idle", "down", "refused"} => pc = "none"
  /\ mode \in {"down", "refused"} => ~users
  /\ StoppedHasEvidence

DiskFits      == SiblingsFit /\ RetainedUntilCommitted /\ JournalTells /\ UnclaimedIsBare
ProgramsFit   == PairServed /\ HandoffNeedsUsers /\ RestFits
PositionFits  == ExecuteFits /\ EarlyFits /\ UndoFits /\ RecoverFits /\ FinishFits

RestoreInv == RestoreTypeOK /\ DiskFits /\ ProgramsFit /\ PositionFits

\* The row says that the restore is completed, the old pair may go.
Late == mode = "execute" /\ pc \in {"record", "discard", "archive", "unlock"}

-----------------------------------------------------------------------------
(* The API and the executor's setup: nothing is stopped or moved yet.      *)

LEMMA QueuePreserves ==
  ASSUME RestoreInv, Queue
  PROVE  RestoreInv'
<1>1. RestoreTypeOK'
  BY DEF Queue, RestoreInv, ProgramsFit, RestoreTypeOK, Old, New, InPlace,
     PairServed, Live, disk, Components, Versions, RowStates
<1>2. DiskFits'
  BY DEF Queue, RestoreInv, DiskFits, SiblingsFit, RetainedUntilCommitted, Kept,
     Committed, Old, New, NoneAside, InPlace, PlainStates, JournalTells,
     UnclaimedIsBare, Found, disk, None
<1>3. ProgramsFit'
  BY DEF Queue, RestoreInv, ProgramsFit, Old, New, InPlace, PairServed,
     HandoffNeedsUsers, RestFits, StoppedHasEvidence, disk
<1>4. PositionFits'
  BY DEF Queue, RestoreInv, PositionFits, Old, New, NoneAside, InPlace,
     UnswappedRow, ExecuteFits, EarlyFits, UndoFits, RecoverFits, FinishFits, Found,
     disk, None
<1> QED BY <1>1, <1>2, <1>3, <1>4 DEF RestoreInv

LEMMA RestartApiPreserves ==
  ASSUME RestoreInv, RestartApi
  PROVE  RestoreInv'
<1>1. RestoreTypeOK'
  BY DEF RestartApi, RestoreInv, RestoreTypeOK, disk, Asked
<1>2. DiskFits'
  BY DEF RestartApi, RestoreInv, DiskFits, SiblingsFit, RetainedUntilCommitted,
     Kept, Committed, Old, New, NoneAside, InPlace, JournalTells, UnclaimedIsBare, disk
<1>3. ProgramsFit'
  BY DEF RestartApi, RestoreInv, ProgramsFit, Old, New, InPlace, PairServed,
     HandoffNeedsUsers, RestFits, StoppedHasEvidence, disk
<1>4. PositionFits'
  BY DEF RestartApi, RestoreInv, PositionFits, Old, New, NoneAside, InPlace,
     ExecuteFits, EarlyFits, UndoFits, RecoverFits, FinishFits, disk
<1> QED BY <1>1, <1>2, <1>3, <1>4 DEF RestoreInv

LEMMA LaunchPreserves ==
  ASSUME RestoreInv, Launch
  PROVE  RestoreInv'
<1>1. RestoreTypeOK'
  BY DEF Launch, RestoreInv, RestoreTypeOK, Go, disk, Modes, Steps
<1>2. DiskFits'
  BY DEF Launch, RestoreInv, DiskFits, SiblingsFit, RetainedUntilCommitted, Kept,
     Committed, Old, New, NoneAside, InPlace, JournalTells, UnclaimedIsBare, disk
<1>3. ProgramsFit'
  BY DEF Launch, RestoreInv, ProgramsFit, Old, New, InPlace, PairServed,
     HandoffNeedsUsers, RestFits, StoppedHasEvidence, Go, disk
<1>4. PositionFits'
  BY DEF Launch, RestoreInv, ProgramsFit, PositionFits, HandoffNeedsUsers,
     SetupSteps, UnswappedRow, InstalledSteps, RevokedSteps, ExecuteFits, EarlyFits,
     UndoFits, RecoverFits, FinishFits, Go
<1> QED BY <1>1, <1>2, <1>3, <1>4 DEF RestoreInv

LEMMA AnsweredPreserves ==
  ASSUME RestoreInv, Answered
  PROVE  RestoreInv'
<1>1. RestoreTypeOK'
  BY DEF Answered, RestoreInv, RestoreTypeOK, disk
<1>2. DiskFits'
  BY DEF Answered, RestoreInv, DiskFits, SiblingsFit, RetainedUntilCommitted, Kept,
     Committed, Old, New, NoneAside, InPlace, JournalTells, UnclaimedIsBare, disk
<1>3. ProgramsFit'
  BY DEF Answered, RestoreInv, ProgramsFit, Old, New, InPlace, PairServed,
     HandoffNeedsUsers, RestFits, StoppedHasEvidence, disk
<1>4. PositionFits'
  BY DEF Answered, RestoreInv, PositionFits, Old, New, NoneAside, InPlace,
     ExecuteFits, EarlyFits, UndoFits, RecoverFits, FinishFits, disk
<1> QED BY <1>1, <1>2, <1>3, <1>4 DEF RestoreInv

LEMMA HandoffFailsPreserves ==
  ASSUME RestoreInv, HandoffFails
  PROVE  RestoreInv'
<1>1. RestoreTypeOK'
  BY DEF HandoffFails, RestoreInv, ProgramsFit, RestoreTypeOK, Old, New, InPlace,
     PairServed, HandoffNeedsUsers, Live, disk, Components, Versions, RowStates
<1>2. DiskFits'
  BY DEF HandoffFails, RestoreInv, DiskFits, SiblingsFit, RetainedUntilCommitted,
     Kept, Committed, Old, New, NoneAside, InPlace, PlainStates, JournalTells,
     UnclaimedIsBare, disk
<1>3. ProgramsFit'
  BY DEF HandoffFails, RestoreInv, ProgramsFit, Old, New, InPlace, PairServed,
     HandoffNeedsUsers, RestFits, StoppedHasEvidence, disk
<1>4. PositionFits'
  BY DEF HandoffFails, RestoreInv, PositionFits, Old, New, NoneAside, InPlace,
     UnswappedRow, ExecuteFits, EarlyFits, UndoFits, RecoverFits, FinishFits, disk
<1> QED BY <1>1, <1>2, <1>3, <1>4 DEF RestoreInv

LEMMA LapsePreserves ==
  ASSUME RestoreInv, Lapse
  PROVE  RestoreInv'
<1>1. RestoreTypeOK'
  BY DEF Lapse, RestoreInv, RestoreTypeOK, disk
<1>2. DiskFits'
  BY DEF Lapse, RestoreInv, DiskFits, SiblingsFit, RetainedUntilCommitted, Kept,
     Committed, Old, New, NoneAside, InPlace, JournalTells, UnclaimedIsBare, disk
<1>3. ProgramsFit'
  BY DEF Lapse, RestoreInv, ProgramsFit, Old, New, InPlace, PairServed,
     HandoffNeedsUsers, RestFits, StoppedHasEvidence, disk
<1>4. PositionFits'
  BY DEF Lapse, RestoreInv, PositionFits, Old, New, NoneAside, InPlace, ExecuteFits,
     EarlyFits, UndoFits, RecoverFits, FinishFits, disk
<1> QED BY <1>1, <1>2, <1>3, <1>4 DEF RestoreInv

LEMMA NothingToStartPreserves ==
  ASSUME RestoreInv, NothingToStart
  PROVE  RestoreInv'
<1>1. RestoreTypeOK'
  BY DEF NothingToStart, RestoreInv, RestoreTypeOK, Go, disk, Modes, Steps
<1>2. DiskFits'
  BY DEF NothingToStart, RestoreInv, DiskFits, SiblingsFit, RetainedUntilCommitted,
     Kept, Committed, Old, New, NoneAside, InPlace, JournalTells, UnclaimedIsBare, At,
     disk
<1>3. ProgramsFit'
  BY DEF NothingToStart, RestoreInv, ProgramsFit, PositionFits, Old, New, InPlace,
     PairServed, HandoffNeedsUsers, SetupSteps, ExecuteFits, RestFits,
     StoppedHasEvidence, Go, At, disk
<1>4. PositionFits'
  BY DEF NothingToStart, PositionFits, ExecuteFits, EarlyFits, UndoFits,
     RecoverFits, FinishFits, Go
<1> QED BY <1>1, <1>2, <1>3, <1>4 DEF RestoreInv

LEMMA CreateLockPreserves ==
  ASSUME RestoreInv, CreateLock
  PROVE  RestoreInv'
<1>1. RestoreTypeOK'
  BY DEF CreateLock, RestoreInv, RestoreTypeOK, Go, Modes, Steps
<1>2. DiskFits'
  BY DEF CreateLock, RestoreInv, DiskFits, SiblingsFit, RetainedUntilCommitted,
     Kept, Committed, Old, New, NoneAside, InPlace, JournalTells, UnclaimedIsBare, None
<1>3. ProgramsFit'
  BY DEF CreateLock, RestoreInv, ProgramsFit, Old, New, InPlace, PairServed,
     HandoffNeedsUsers, RestFits, StoppedHasEvidence, Go, At
<1>4. PositionFits'
  BY DEF CreateLock, RestoreInv, PositionFits, SetupSteps, UnswappedRow,
     InstalledSteps, RevokedSteps, ExecuteFits, EarlyFits, UndoFits, RecoverFits,
     FinishFits, Go, At
<1> QED BY <1>1, <1>2, <1>3, <1>4 DEF RestoreInv

LEMMA WriteLockPreserves ==
  ASSUME RestoreInv, WriteLock
  PROVE  RestoreInv'
<1>1. RestoreTypeOK'
  BY DEF WriteLock, RestoreInv, RestoreTypeOK, Go, Modes, Steps
<1>2. DiskFits'
  BY DEF WriteLock, RestoreInv, DiskFits, SiblingsFit, RetainedUntilCommitted, Kept,
     Committed, Old, New, NoneAside, InPlace, JournalTells, UnclaimedIsBare, At
<1>3. ProgramsFit'
  BY DEF WriteLock, RestoreInv, ProgramsFit, Old, New, InPlace, PairServed,
     HandoffNeedsUsers, RestFits, StoppedHasEvidence, Go, At
<1>4. PositionFits'
  BY DEF WriteLock, RestoreInv, PositionFits, SetupSteps, UnswappedRow,
     InstalledSteps, RevokedSteps, ExecuteFits, EarlyFits, UndoFits, RecoverFits,
     FinishFits, Go, At
<1> QED BY <1>1, <1>2, <1>3, <1>4 DEF RestoreInv

LEMMA ClaimPreserves ==
  ASSUME RestoreInv, Claim
  PROVE  RestoreInv'
<1>1. RestoreTypeOK'
  BY DEF Claim, RestoreInv, ProgramsFit, PositionFits, RestoreTypeOK, Old, New,
     InPlace, PairServed, ExecuteFits, Live, MoveRow, Go, At, Advance, Then, disk,
     Components, Slots, None, RowStates, Steps
<1>2. DiskFits'
  BY DEF Claim, RestoreInv, DiskFits, SiblingsFit, RetainedUntilCommitted, Kept,
     Committed, Old, New, NoneAside, InPlace, PlainStates, JournalTells,
     UnclaimedIsBare, MoveRow, At, disk
<1>3. ProgramsFit'
  BY DEF Claim, RestoreInv, ProgramsFit, Old, New, InPlace, PairServed,
     HandoffNeedsUsers, RestFits, StoppedHasEvidence, Go, At, Advance, disk
<1>4. PositionFits'
  BY DEF Claim, RestoreInv, DiskFits, PositionFits, RestoreTypeOK, Committed, Old,
     New, NoneAside, InPlace, JournalTells, UnclaimedIsBare, UnswappedRow,
     InstalledSteps, RevokedSteps, ExecuteFits, EarlyFits, UndoFits, RecoverFits,
     FinishFits, Live, MoveRow, Go, At, Advance, Then, disk, Components, Versions
<1> QED BY <1>1, <1>2, <1>3, <1>4 DEF RestoreInv

LEMMA NothingClaimedPreserves ==
  ASSUME RestoreInv, NothingClaimed
  PROVE  RestoreInv'
<1>1. RestoreTypeOK'
  BY DEF NothingClaimed, RestoreInv, RestoreTypeOK, Go, disk, Modes, Steps
<1>2. DiskFits'
  BY DEF NothingClaimed, RestoreInv, DiskFits, SiblingsFit, RetainedUntilCommitted,
     Kept, Committed, Old, New, NoneAside, InPlace, JournalTells, UnclaimedIsBare, At,
     disk
<1>3. ProgramsFit'
  BY DEF NothingClaimed, RestoreInv, ProgramsFit, Old, New, InPlace, PairServed,
     HandoffNeedsUsers, RestFits, StoppedHasEvidence, Go, At, disk
<1>4. PositionFits'
  BY DEF NothingClaimed, RestoreInv, PositionFits, SetupSteps, UnswappedRow,
     InstalledSteps, RevokedSteps, ExecuteFits, EarlyFits, UndoFits, RecoverFits,
     FinishFits, Go, At
<1> QED BY <1>1, <1>2, <1>3, <1>4 DEF RestoreInv

LEMMA BeginJournalPreserves ==
  ASSUME RestoreInv, BeginJournal
  PROVE  RestoreInv'
<1>1. RestoreTypeOK'
  BY DEF BeginJournal, RestoreInv, RestoreTypeOK, Go, At, Advance, Then, Phases,
     Steps
<1>2. DiskFits'
  BY DEF BeginJournal, RestoreInv, DiskFits, PositionFits, SiblingsFit,
     RetainedUntilCommitted, Kept, Old, NoneAside, InPlace, PlainStates, JournalTells,
     UnclaimedIsBare, UnswappedRow, ExecuteFits, At
<1>3. ProgramsFit'
  BY DEF BeginJournal, RestoreInv, ProgramsFit, Old, New, InPlace, PairServed,
     HandoffNeedsUsers, RestFits, StoppedHasEvidence, Go, At, Advance
<1>4. PositionFits'
  BY DEF BeginJournal, RestoreInv, PositionFits, Old, NoneAside, InPlace,
     SetupSteps, UnswappedRow, InstalledSteps, RevokedSteps, ExecuteFits, EarlyFits,
     UndoFits, RecoverFits, FinishFits, Go, At, Advance, Then
<1> QED BY <1>1, <1>2, <1>3, <1>4 DEF RestoreInv

LEMMA FailSetupPreserves ==
  ASSUME RestoreInv, FailSetup
  PROVE  RestoreInv'
<1>1. RestoreTypeOK'
  BY DEF FailSetup, RestoreInv, RestoreTypeOK, Live, Found, MoveRow, MayMove, Edges,
     Go, disk, Components, Slots, None, RowStates, Modes, Steps
<1>2. DiskFits'
  BY DEF FailSetup, RestoreInv, DiskFits, SiblingsFit, RetainedUntilCommitted, Kept,
     Committed, Old, New, NoneAside, InPlace, PlainStates, JournalTells,
     UnclaimedIsBare, Found, MoveRow, MayMove, Edges, At, disk, None
<1>3. ProgramsFit'
  BY DEF FailSetup, RestoreInv, ProgramsFit, Old, New, InPlace, PairServed,
     HandoffNeedsUsers, RestFits, StoppedHasEvidence, Go, At, disk
<1>4. PositionFits'
  BY DEF FailSetup, RestoreInv, PositionFits, SetupSteps, UnswappedRow,
     InstalledSteps, RevokedSteps, ExecuteFits, EarlyFits, UndoFits, RecoverFits,
     FinishFits, Go, At
<1> QED BY <1>1, <1>2, <1>3, <1>4 DEF RestoreInv

LEMMA ReleasePreserves ==
  ASSUME RestoreInv, Release
  PROVE  RestoreInv'
<1>1. RestoreTypeOK'
  BY DEF Release, RestoreInv, RestoreTypeOK, Go, Modes, Steps
<1>2. DiskFits'
  BY DEF Release, RestoreInv, DiskFits, SiblingsFit, RetainedUntilCommitted, Kept,
     Committed, Old, New, NoneAside, InPlace, JournalTells, UnclaimedIsBare, At
<1>3. ProgramsFit'
  BY DEF Release, RestoreInv, ProgramsFit, PositionFits, Old, New, InPlace,
     PairServed, HandoffNeedsUsers, SetupSteps, ExecuteFits, RestFits,
     StoppedHasEvidence, Go, At
<1>4. PositionFits'
  BY DEF Release, PositionFits, ExecuteFits, EarlyFits, UndoFits, RecoverFits,
     FinishFits, Go
<1> QED BY <1>1, <1>2, <1>3, <1>4 DEF RestoreInv

-----------------------------------------------------------------------------
(* The exchange.                                                           *)

LEMMA TransitionPreserves ==
  ASSUME RestoreInv, Transition
  PROVE  RestoreInv'
<1>1. RestoreTypeOK'
  BY DEF Transition, RestoreInv, PositionFits, RestoreTypeOK, SetupSteps,
     UnswappedRow, InstalledSteps, TidySteps, ExecuteFits, EarlyFits, Live, Found,
     MoveRow, MayMove, Edges, Go, Advance, Then, disk, Target, Components, Slots, None,
     RowStates, Steps
<1>2. DiskFits'
  BY DEF Transition, RestoreInv, DiskFits, PositionFits, SiblingsFit,
     RetainedUntilCommitted, Kept, NoneAside, JournalTells, UnclaimedIsBare,
     SetupSteps, TidySteps, ExecuteFits, EarlyFits, MoveRow, disk, Target, None
<1>3. ProgramsFit'
  BY DEF Transition, RestoreInv, ProgramsFit, Old, New, InPlace, PairServed,
     HandoffNeedsUsers, RestFits, StoppedHasEvidence, Go, Advance, disk
<1>4. PositionFits'
  BY SMTT(30) DEF Transition, RestoreInv, PositionFits, RestoreTypeOK, Old, New, NoneAside,
     InPlace, SetupSteps, UnswappedRow, InstalledSteps, RevokedSteps, TidySteps,
     ExecuteFits, EarlyFits, UndoFits, RecoverFits, FinishFits, Live, MoveRow, Go,
     Advance, Then, disk, Target, Components, Versions
<1> QED BY <1>1, <1>2, <1>3, <1>4 DEF RestoreInv

LEMMA OverduePreserves ==
  ASSUME RestoreInv, Overdue
  PROVE  RestoreInv'
<1>1. RestoreTypeOK'
  BY DEF Overdue, RestoreInv, RestoreTypeOK, Go, Caught, disk, Modes, Steps
<1>2. DiskFits'
  BY DEF Overdue, RestoreInv, DiskFits, SiblingsFit, RetainedUntilCommitted, Kept,
     Committed, Old, New, NoneAside, InPlace, JournalTells, UnclaimedIsBare, disk
<1>3. ProgramsFit'
  BY DEF Overdue, RestoreInv, ProgramsFit, PositionFits, RestoreTypeOK, Old, New,
     InPlace, PairServed, HandoffNeedsUsers, InstalledSteps, ExecuteFits, EarlyFits,
     RestFits, StoppedHasEvidence, Go, At, Caught, disk, None
<1>4. PositionFits'
  BY DEF Overdue, RestoreInv, PositionFits, Old, InPlace, SetupSteps, UnswappedRow,
     InstalledSteps, RevokedSteps, TidySteps, ExecuteFits, EarlyFits, UndoFits,
     RecoverFits, FinishFits, Go, At, Caught, disk, Target
<1> QED BY <1>1, <1>2, <1>3, <1>4 DEF RestoreInv

LEMMA StopUsersPreserves ==
  ASSUME RestoreInv, StopUsers
  PROVE  RestoreInv'
<1>0. \/ mode = "execute" /\ pc' = "snapshot" /\ mode' = mode
      \/ mode = "undo" /\ pc' = "rollback" /\ mode' = mode
  BY DEF StopUsers, Advance, Go, Then
<1>1. RestoreTypeOK'
  BY <1>0 DEF StopUsers, RestoreInv, RestoreTypeOK, Modes, Steps, disk
<1>2. DiskFits'
  BY DEF StopUsers, RestoreInv, DiskFits, SiblingsFit, RetainedUntilCommitted, Kept,
     Committed, Old, New, NoneAside, InPlace, JournalTells, UnclaimedIsBare, disk
<1>3. ProgramsFit'
  BY DEF StopUsers, RestoreInv, ProgramsFit, PairServed, HandoffNeedsUsers,
     RestFits, StoppedHasEvidence, Go, Advance
<1>4. PositionFits'
  BY SMTT(30) DEF StopUsers, RestoreInv, PositionFits, Old, NoneAside, InPlace, SetupSteps,
     UnswappedRow, InstalledSteps, RevokedSteps, TidySteps, ExecuteFits, EarlyFits,
     UndoFits, RecoverFits, FinishFits, Go, Advance, Then, disk
<1> QED BY <1>1, <1>2, <1>3, <1>4 DEF RestoreInv

LEMMA CopyPreserves ==
  ASSUME RestoreInv, NEW c \in Components, Copy(c)
  PROVE  RestoreInv'
<1>1. RestoreTypeOK'
  BY DEF Copy, RestoreInv, RestoreTypeOK, Versions, Slots
<1>2. DiskFits'
  BY DEF Copy, RestoreInv, DiskFits, SiblingsFit, RetainedUntilCommitted, Kept,
     Committed, Old, New, NoneAside, InPlace, JournalTells, UnclaimedIsBare
<1>3. ProgramsFit'
  BY DEF Copy, RestoreInv, ProgramsFit, Old, New, InPlace, PairServed,
     HandoffNeedsUsers, RestFits, StoppedHasEvidence
<1>4. PositionFits'
  BY DEF Copy, RestoreInv, PositionFits, Old, New, NoneAside, InPlace, ExecuteFits,
     EarlyFits, UndoFits, RecoverFits, FinishFits
<1> QED BY <1>1, <1>2, <1>3, <1>4 DEF RestoreInv

LEMMA SetAsidePreserves ==
  ASSUME RestoreInv, NEW c \in Components, SetAside(c)
  PROVE  RestoreInv'
<1>1. RestoreTypeOK'
  BY DEF SetAside, RestoreInv, RestoreTypeOK, Slots
<1>2. DiskFits'
  BY DEF SetAside, RestoreInv, DiskFits, RestoreTypeOK, RetainedUntilCommitted,
     Kept, Committed, New, InPlace, Slots, None
<1>3. ProgramsFit'
  BY DEF SetAside, RestoreInv, DiskFits, RestoreTypeOK, RetainedUntilCommitted,
     Kept, Committed, New, InPlace, Slots, None
<1>4. PositionFits'
  BY DEF SetAside, RestoreInv, DiskFits, RestoreTypeOK, RetainedUntilCommitted,
     Kept, Committed, New, InPlace, Slots, None
<1> QED BY <1>1, <1>2, <1>3, <1>4 DEF RestoreInv

LEMMA PutInPlacePreserves ==
  ASSUME RestoreInv, NEW c \in Components, PutInPlace(c)
  PROVE  RestoreInv'
<1>1. RestoreTypeOK'
  BY DEF PutInPlace, RestoreInv, RestoreTypeOK, Slots
<1>2. DiskFits'
  BY DEF PutInPlace, RestoreInv, RestoreTypeOK, Slots
<1>3. ProgramsFit'
  BY DEF PutInPlace, RestoreInv, RestoreTypeOK, Slots
<1>4. PositionFits'
  BY DEF PutInPlace, RestoreInv, RestoreTypeOK, Slots
<1> QED BY <1>1, <1>2, <1>3, <1>4 DEF RestoreInv

LEMMA PairInstalledPreserves ==
  ASSUME RestoreInv, PairInstalled
  PROVE  RestoreInv'
<1>1. RestoreTypeOK'
  BY DEF PairInstalled, RestoreInv, RestoreTypeOK, Go, At, Advance, Then, disk,
     Steps
<1>2. DiskFits'
  BY DEF PairInstalled, RestoreInv, DiskFits, SiblingsFit, RetainedUntilCommitted,
     Kept, Committed, Old, New, NoneAside, InPlace, JournalTells, UnclaimedIsBare, At,
     disk
<1>3. ProgramsFit'
  BY DEF PairInstalled, RestoreInv, ProgramsFit, PositionFits, PairServed,
     HandoffNeedsUsers, ExecuteFits, RestFits, StoppedHasEvidence, Go, At, Advance
<1>4. PositionFits'
  BY DEF PairInstalled, RestoreInv, PositionFits, New, InPlace, SetupSteps,
     UnswappedRow, InstalledSteps, RevokedSteps, TidySteps, ExecuteFits, EarlyFits,
     UndoFits, RecoverFits, FinishFits, Go, At, Advance, Then, disk, Installed
<1> QED BY <1>1, <1>2, <1>3, <1>4 DEF RestoreInv

LEMMA VerifyPreserves ==
  ASSUME RestoreInv, Verify
  PROVE  RestoreInv'
<1>1. RestoreTypeOK'
  BY DEF Verify, RestoreInv, RestoreTypeOK, Go, At, Advance, Then, Phases, Steps
<1>2. DiskFits'
  BY DEF Verify, RestoreInv, DiskFits, PositionFits, SiblingsFit,
     RetainedUntilCommitted, Kept, Committed, Old, New, NoneAside, InPlace,
     JournalTells, UnclaimedIsBare, UndoFits, At
<1>3. ProgramsFit'
  BY DEF Verify, RestoreInv, ProgramsFit, PositionFits, PairServed,
     HandoffNeedsUsers, InstalledSteps, ExecuteFits, UndoFits, RecoverFits, RestFits,
     StoppedHasEvidence, Go, At, Advance
<1>4. PositionFits'
  BY SMTT(30) DEF Verify, RestoreInv, PositionFits, Old, New, InPlace, SetupSteps,
     UnswappedRow, InstalledSteps, RevokedSteps, TidySteps, ExecuteFits, EarlyFits,
     UndoFits, RecoverFits, FinishFits, Go, At, Advance, Then
<1> QED BY <1>1, <1>2, <1>3, <1>4 DEF RestoreInv

LEMMA RehydratePreserves ==
  ASSUME RestoreInv, Rehydrate
  PROVE  RestoreInv'
<1>1. RestoreTypeOK'
  BY DEF Rehydrate, RestoreInv, PositionFits, RestoreTypeOK, New, InPlace,
     InstalledSteps, ExecuteFits, Live, Go, At, Advance, Then, disk, Components,
     Versions, RowStates, Steps
<1>2. DiskFits'
  BY DEF Rehydrate, RestoreInv, DiskFits, PositionFits, SiblingsFit,
     RetainedUntilCommitted, Kept, Committed, Old, New, NoneAside, InPlace,
     PlainStates, JournalTells, UnclaimedIsBare, InstalledSteps, ExecuteFits, At, disk
<1>3. ProgramsFit'
  BY DEF Rehydrate, RestoreInv, ProgramsFit, PositionFits, PairServed,
     HandoffNeedsUsers, InstalledSteps, ExecuteFits, RestFits, StoppedHasEvidence, Go,
     At, Advance
<1>4. PositionFits'
  BY DEF Rehydrate, RestoreInv, PositionFits, New, InPlace, SetupSteps,
     UnswappedRow, InstalledSteps, RevokedSteps, TidySteps, ExecuteFits, EarlyFits,
     UndoFits, RecoverFits, FinishFits, Go, At, Advance, Then, disk
<1> QED BY <1>1, <1>2, <1>3, <1>4 DEF RestoreInv

LEMMA ReclaimPreserves ==
  ASSUME RestoreInv, Reclaim
  PROVE  RestoreInv'
<1>1. RestoreTypeOK'
  BY DEF Reclaim, RestoreInv, PositionFits, RestoreTypeOK, New, InPlace,
     InstalledSteps, ExecuteFits, Live, MoveRow, Go, At, Advance, Then, disk,
     Components, Versions, RowStates, Steps
<1>2. DiskFits'
  BY DEF Reclaim, RestoreInv, DiskFits, PositionFits, SiblingsFit,
     RetainedUntilCommitted, Kept, NoneAside, JournalTells, UnclaimedIsBare,
     InstalledSteps, ExecuteFits, MoveRow, At, disk, None
<1>3. ProgramsFit'
  BY DEF Reclaim, RestoreInv, ProgramsFit, PositionFits, PairServed,
     HandoffNeedsUsers, InstalledSteps, ExecuteFits, RestFits, StoppedHasEvidence, Go,
     At, Advance
<1>4. PositionFits'
  BY DEF Reclaim, RestoreInv, PositionFits, New, InPlace, SetupSteps, UnswappedRow,
     InstalledSteps, RevokedSteps, TidySteps, ExecuteFits, EarlyFits, UndoFits,
     RecoverFits, FinishFits, Go, At, Advance, Then, disk
<1> QED BY <1>1, <1>2, <1>3, <1>4 DEF RestoreInv

LEMMA RevokePreserves ==
  ASSUME RestoreInv, Revoke
  PROVE  RestoreInv'
<1>1. RestoreTypeOK'
  BY DEF Revoke, RestoreInv, RestoreTypeOK, Go, At, Advance, Then, disk, Steps
<1>2. DiskFits'
  BY DEF Revoke, RestoreInv, DiskFits, SiblingsFit, RetainedUntilCommitted, Kept,
     Committed, Old, New, NoneAside, InPlace, JournalTells, UnclaimedIsBare, At, disk
<1>3. ProgramsFit'
  BY DEF Revoke, RestoreInv, ProgramsFit, PositionFits, PairServed,
     HandoffNeedsUsers, InstalledSteps, ExecuteFits, RestFits, StoppedHasEvidence, Go,
     At, Advance
<1>4. PositionFits'
  BY DEF Revoke, RestoreInv, PositionFits, New, InPlace, SetupSteps, UnswappedRow,
     InstalledSteps, TidySteps, ExecuteFits, EarlyFits, UndoFits, RecoverFits,
     FinishFits, Go, At, Advance, Then, disk
<1> QED BY <1>1, <1>2, <1>3, <1>4 DEF RestoreInv

LEMMA StartUsersPreserves ==
  ASSUME RestoreInv, StartUsers
  PROVE  RestoreInv'
<1>0. /\ mode' = mode
      /\ \/ mode = "execute" /\ pc' = "complete"
         \/ mode = "early" /\ pc' = "archive"
         \/ mode = "undo" /\ pc' = "discard"
  BY DEF StartUsers, Advance, Go, Then
<1>a. mode \in {"execute", "early"} => ~unmerged
  BY DEF RestoreInv, ProgramsFit, HandoffNeedsUsers
<1>b. mode \in {"execute", "early"} => users'
  BY Zenon, <1>a DEF StartUsers
<1>c. users' \/ unmerged'
  BY Zenon DEF StartUsers
<1>1. RestoreTypeOK'
  BY DEF StartUsers, RestoreInv, RestoreTypeOK, Go, Advance, Then, disk, Steps
<1>2. DiskFits'
  BY DEF StartUsers, RestoreInv, DiskFits, SiblingsFit, RetainedUntilCommitted,
     Kept, Committed, Old, New, NoneAside, InPlace, JournalTells, UnclaimedIsBare, disk
<1>3. ProgramsFit'
  BY DEF StartUsers, RestoreInv, DiskFits, ProgramsFit, PositionFits, RestoreTypeOK,
     Old, New, InPlace, JournalTells, PairServed, HandoffNeedsUsers, RevokedSteps,
     ExecuteFits, EarlyFits, UndoFits, RestFits, StoppedHasEvidence, Go, Advance, disk
<1>4. PositionFits'
  BY <1>0, <1>a, <1>b, <1>c DEF StartUsers, RestoreInv, PositionFits, ExecuteFits,
     EarlyFits, UndoFits, RecoverFits, FinishFits, UnswappedRow, InstalledSteps,
     RevokedSteps, TidySteps, Old, New, InPlace, disk
<1> QED BY <1>1, <1>2, <1>3, <1>4 DEF RestoreInv

LEMMA RecordPreserves ==
  ASSUME RestoreInv, Record
  PROVE  RestoreInv'
<1>1. RestoreTypeOK'
  BY DEF Record, RestoreInv, ProgramsFit, PositionFits, RestoreTypeOK, TidySteps,
     FinishFits, RestFits, Go, Advance, Then, Phases, Modes, Steps
<1>2. DiskFits'
  BY DEF Record, RestoreInv, DiskFits, ProgramsFit, PositionFits, RestoreTypeOK,
     SiblingsFit, RetainedUntilCommitted, Kept, Committed, Old, New, NoneAside,
     InPlace, PlainStates, JournalTells, UnclaimedIsBare, InstalledSteps, RevokedSteps,
     TidySteps, ExecuteFits, EarlyFits, UndoFits, RecoverFits, FinishFits, RestFits,
     Modes
<1>3. ProgramsFit'
  BY DEF Record, RestoreInv, ProgramsFit, Old, New, InPlace, PairServed,
     HandoffNeedsUsers, RestFits, StoppedHasEvidence, Go, Advance
<1>4. PositionFits'
  BY SMTT(30) DEF Record, RestoreInv, PositionFits, Old, InPlace, UnswappedRow,
     InstalledSteps, RevokedSteps, TidySteps, ExecuteFits, EarlyFits, UndoFits,
     RecoverFits, FinishFits, Go, Advance, Then
<1> QED BY <1>1, <1>2, <1>3, <1>4 DEF RestoreInv

-----------------------------------------------------------------------------
(* The way back.                                                           *)

LEMMA AbandonPreserves ==
  ASSUME RestoreInv, Abandon
  PROVE  RestoreInv'
<1>1. RestoreTypeOK'
  BY DEF Abandon, RestoreInv, RestoreTypeOK, Live, Found, MoveRow, MayMove, Edges,
     Go, At, Advance, Then, disk, Components, Slots, None, RowStates, Steps
<1>2. DiskFits'
  BY DEF Abandon, RestoreInv, DiskFits, PositionFits, SiblingsFit,
     RetainedUntilCommitted, Kept, NoneAside, JournalTells, UnclaimedIsBare, EarlyFits,
     MoveRow, At, disk, None
<1>3. ProgramsFit'
  BY DEF Abandon, RestoreInv, ProgramsFit, Old, New, InPlace, PairServed,
     HandoffNeedsUsers, RestFits, StoppedHasEvidence, Go, At, Advance, disk
<1>4. PositionFits'
  BY DEF Abandon, RestoreInv, PositionFits, Old, InPlace, ExecuteFits, EarlyFits,
     UndoFits, RecoverFits, FinishFits, Go, At, Advance, Then, disk
<1> QED BY <1>1, <1>2, <1>3, <1>4 DEF RestoreInv

LEMMA MoveFailedAsidePreserves ==
  ASSUME RestoreInv, NEW c \in Components, MoveFailedAside(c)
  PROVE  RestoreInv'
<1>1. RestoreTypeOK'
  BY DEF MoveFailedAside, RestoreInv, RestoreTypeOK, Go, Slots, Steps
<1>2. DiskFits'
  BY DEF MoveFailedAside, RestoreInv, DiskFits, RestoreTypeOK, SiblingsFit,
     RetainedUntilCommitted, Kept, Committed, Old, New, NoneAside, InPlace,
     JournalTells, UnclaimedIsBare, Slots, MayPutBack
<1>3. ProgramsFit'
  BY DEF MoveFailedAside, RestoreInv, ProgramsFit, PositionFits, PairServed,
     HandoffNeedsUsers, UndoFits, RecoverFits, RestFits, StoppedHasEvidence, Go,
     MayPutBack
<1>4. PositionFits'
  BY DEF MoveFailedAside, RestoreInv, PositionFits, TidySteps, ExecuteFits,
     EarlyFits, UndoFits, RecoverFits, FinishFits, Go, MayPutBack, None
<1> QED BY <1>1, <1>2, <1>3, <1>4 DEF RestoreInv

LEMMA PutBackPreserves ==
  ASSUME RestoreInv, NEW c \in Components, PutBack(c)
  PROVE  RestoreInv'
<1>1. RestoreTypeOK'
  BY DEF PutBack, RestoreInv, RestoreTypeOK, Slots
<1>2. DiskFits'
  BY DEF PutBack, RestoreInv, RestoreTypeOK, Slots
<1>3. ProgramsFit'
  BY DEF PutBack, RestoreInv, RestoreTypeOK, Slots
<1>4. PositionFits'
  BY DEF PutBack, RestoreInv, RestoreTypeOK, Slots
<1> QED BY <1>1, <1>2, <1>3, <1>4 DEF RestoreInv

LEMMA RefusePutBackPreserves ==
  ASSUME RestoreInv, NEW c \in Components, RefusePutBack(c)
  PROVE  RestoreInv'
<1>1. RestoreTypeOK'
  BY DEF RefusePutBack, RestoreInv, RestoreTypeOK, Go, Caught, disk, Modes, Steps
<1>2. DiskFits'
  BY DEF RefusePutBack, RestoreInv, DiskFits, SiblingsFit, RetainedUntilCommitted,
     Kept, Committed, Old, New, NoneAside, InPlace, JournalTells, UnclaimedIsBare, At,
     Caught, disk
<1>3. ProgramsFit'
  BY DEF RefusePutBack, RestoreInv, ProgramsFit, PositionFits, PairServed,
     HandoffNeedsUsers, UndoFits, RecoverFits, RestFits, StoppedHasEvidence, Go, At,
     Caught, disk, MayPutBack, None
<1>4. PositionFits'
  BY DEF RefusePutBack, RestoreInv, PositionFits, ExecuteFits, EarlyFits, UndoFits,
     RecoverFits, FinishFits, Go, At, Caught, disk, MayPutBack, None
<1> QED BY <1>1, <1>2, <1>3, <1>4 DEF RestoreInv

LEMMA AllPutBackPreserves ==
  ASSUME RestoreInv, AllPutBack
  PROVE  RestoreInv'
<1>1. RestoreTypeOK'
  BY DEF AllPutBack, RestoreInv, RestoreTypeOK, Go, Advance, Then, disk, Steps
<1>2. DiskFits'
  BY DEF AllPutBack, RestoreInv, DiskFits, SiblingsFit, RetainedUntilCommitted,
     Kept, Committed, Old, New, NoneAside, InPlace, JournalTells, UnclaimedIsBare, disk
<1>3. ProgramsFit'
  BY DEF AllPutBack, RestoreInv, ProgramsFit, PositionFits, PairServed,
     HandoffNeedsUsers, UndoFits, RecoverFits, RestFits, StoppedHasEvidence, Go,
     Advance
<1>4. PositionFits'
  BY SMTT(30) DEF AllPutBack, RestoreInv, DiskFits, PositionFits, RetainedUntilCommitted,
     Kept, Old, InPlace, TidySteps, ExecuteFits, EarlyFits, UndoFits, RecoverFits,
     FinishFits, Go, Advance, Then, disk, None
<1> QED BY <1>1, <1>2, <1>3, <1>4 DEF RestoreInv

LEMMA SettlePreserves ==
  ASSUME RestoreInv, Settle
  PROVE  RestoreInv'
<1>1. RestoreTypeOK'
  BY DEF Settle, RestoreInv, RestoreTypeOK, Live, Found, MoveRow, Go, Advance, Then,
     disk, MayEnd, Components, Versions, Slots, RowStates, Steps
<1>2. DiskFits'
  BY DEF Settle, RestoreInv, DiskFits, SiblingsFit, RetainedUntilCommitted, Kept,
     Committed, Old, New, NoneAside, InPlace, PlainStates, JournalTells,
     UnclaimedIsBare, Found, MoveRow, disk, MayEnd, Ended, None
<1>3. ProgramsFit'
  BY DEF Settle, RestoreInv, ProgramsFit, PositionFits, PairServed,
     HandoffNeedsUsers, UndoFits, RecoverFits, RestFits, StoppedHasEvidence, Go,
     Advance
<1>4. PositionFits'
  BY SMTT(30) DEF Settle, RestoreInv, PositionFits, RestoreTypeOK, Old, InPlace, TidySteps,
     ExecuteFits, EarlyFits, UndoFits, RecoverFits, FinishFits, Live, MoveRow, Go,
     Advance, Then, disk, Components, Versions
<1> QED BY <1>1, <1>2, <1>3, <1>4 DEF RestoreInv

LEMMA RefuseToSettlePreserves ==
  ASSUME RestoreInv, RefuseToSettle
  PROVE  RestoreInv'
<1>1. RestoreTypeOK'
  BY DEF RefuseToSettle, RestoreInv, RestoreTypeOK, Go, Caught, disk, Modes, Steps
<1>2. DiskFits'
  BY DEF RefuseToSettle, RestoreInv, DiskFits, SiblingsFit, RetainedUntilCommitted,
     Kept, Committed, Old, New, NoneAside, InPlace, JournalTells, UnclaimedIsBare, disk
<1>3. ProgramsFit'
  BY DEF RefuseToSettle, RestoreInv, ProgramsFit, PositionFits, PairServed,
     HandoffNeedsUsers, UndoFits, RecoverFits, RestFits, StoppedHasEvidence, Go, At,
     Caught, disk, None
<1>4. PositionFits'
  BY DEF RefuseToSettle, RestoreInv, PositionFits, Old, InPlace, ExecuteFits,
     EarlyFits, UndoFits, RecoverFits, FinishFits, Go, At, Caught, disk
<1> QED BY <1>1, <1>2, <1>3, <1>4 DEF RestoreInv

LEMMA BlamePreserves ==
  ASSUME RestoreInv, Blame
  PROVE  RestoreInv'
<1>1. RestoreTypeOK'
  BY DEF Blame, RestoreInv, RestoreTypeOK, MoveRow, Go, disk, RowStates, Modes,
     Steps
<1>2. DiskFits'
  BY DEF Blame, RestoreInv, DiskFits, PositionFits, RestoreTypeOK, SiblingsFit,
     RetainedUntilCommitted, Kept, Old, NoneAside, InPlace, PlainStates, JournalTells,
     UnclaimedIsBare, RecoverFits, Found, MoveRow, At, disk, MayEnd, Ended, Versions,
     None
<1>3. ProgramsFit'
  BY DEF Blame, RestoreInv, ProgramsFit, PositionFits, PairServed,
     HandoffNeedsUsers, RecoverFits, RestFits, StoppedHasEvidence, Go, At
<1>4. PositionFits'
  BY DEF Blame, RestoreInv, DiskFits, PositionFits, RestoreTypeOK, Old, InPlace,
     JournalTells, ExecuteFits, EarlyFits, UndoFits, RecoverFits, FinishFits, Live,
     Found, Go, At, disk, MayEnd, Ended, Components, Phases
<1> QED BY <1>1, <1>2, <1>3, <1>4 DEF RestoreInv

LEMMA BlamedPreserves ==
  ASSUME RestoreInv, Blamed
  PROVE  RestoreInv'
<1>1. RestoreTypeOK'
  BY DEF Blamed, RestoreInv, RestoreTypeOK, Go, Phases, Modes, Steps
<1>2. DiskFits'
  BY DEF Blamed, RestoreInv, DiskFits, PositionFits, SiblingsFit,
     RetainedUntilCommitted, Kept, NoneAside, JournalTells, UnclaimedIsBare,
     RecoverFits, Go, At, None
<1>3. ProgramsFit'
  BY DEF Blamed, RestoreInv, ProgramsFit, PositionFits, PairServed,
     HandoffNeedsUsers, RecoverFits, RestFits, StoppedHasEvidence, Go, At
<1>4. PositionFits'
  BY DEF Blamed, PositionFits, ExecuteFits, EarlyFits, UndoFits, RecoverFits,
     FinishFits, Go
<1> QED BY <1>1, <1>2, <1>3, <1>4 DEF RestoreInv

-----------------------------------------------------------------------------
(* The tidying, and a starting container.                                  *)

LEMMA DiscardPreserves ==
  ASSUME RestoreInv, NEW c \in Components, Discard(c)
  PROVE  RestoreInv'
<1>1. RestoreTypeOK'
  BY DEF Discard, RestoreInv, RestoreTypeOK
<1>2. DiskFits'
  BY DEF Discard, RestoreInv, DiskFits, ProgramsFit, PositionFits, RestoreTypeOK,
     SiblingsFit, RetainedUntilCommitted, Kept, Committed, Old, New, NoneAside,
     InPlace, JournalTells, UnclaimedIsBare, ExecuteFits, EarlyFits, UndoFits,
     RecoverFits, FinishFits, RestFits, Slots, Siblings, Modes
<1>3. ProgramsFit'
  BY DEF Discard, RestoreInv, ProgramsFit, Old, New, InPlace, PairServed,
     HandoffNeedsUsers, RestFits, StoppedHasEvidence, Slots, Siblings
<1>4. PositionFits'
  BY DEF Discard, RestoreInv, PositionFits, Old, InPlace, ExecuteFits, EarlyFits,
     UndoFits, RecoverFits, FinishFits, Slots, Siblings
<1> QED BY <1>1, <1>2, <1>3, <1>4 DEF RestoreInv

LEMMA DiscardedPreserves ==
  ASSUME RestoreInv, Discarded
  PROVE  RestoreInv'
<1>1. RestoreTypeOK'
  BY DEF Discarded, RestoreInv, ProgramsFit, PositionFits, RestoreTypeOK, EarlyFits,
     RestFits, Go, Advance, Then, disk, Modes, Steps
<1>2. DiskFits'
  BY DEF Discarded, RestoreInv, DiskFits, SiblingsFit, RetainedUntilCommitted, Kept,
     Committed, Old, New, NoneAside, InPlace, JournalTells, UnclaimedIsBare, Go,
     Advance, disk
<1>3. ProgramsFit'
  BY DEF Discarded, RestoreInv, ProgramsFit, Old, New, InPlace, PairServed,
     HandoffNeedsUsers, RestFits, StoppedHasEvidence, Go, Advance, disk
<1>4. PositionFits'
  BY SMTT(30) DEF Discarded, RestoreInv, PositionFits, Old, InPlace, UnswappedRow,
     InstalledSteps, RevokedSteps, TidySteps, ExecuteFits, EarlyFits, UndoFits,
     RecoverFits, FinishFits, Go, Advance, Then, disk
<1> QED BY <1>1, <1>2, <1>3, <1>4 DEF RestoreInv

LEMMA ArchivePreserves ==
  ASSUME RestoreInv, Archive
  PROVE  RestoreInv'
<1>1. RestoreTypeOK'
  BY DEF Archive, RestoreInv, ProgramsFit, RestoreTypeOK, RestFits, Go, Caught,
     Advance, Then, Modes, Steps
<1>2. DiskFits'
  BY DEF Archive, RestoreInv, DiskFits, ProgramsFit, PositionFits, RestoreTypeOK,
     SiblingsFit, RetainedUntilCommitted, Kept, Committed, Old, New, NoneAside,
     InPlace, PlainStates, JournalTells, UnclaimedIsBare, ExecuteFits, EarlyFits,
     UndoFits, RecoverFits, FinishFits, RestFits, None, Modes
<1>3. ProgramsFit'
  BY DEF Archive, RestoreInv, ProgramsFit, PositionFits, Old, New, InPlace,
     PairServed, HandoffNeedsUsers, FinishFits, RestFits, StoppedHasEvidence, Go,
     Caught, Advance
<1>4. PositionFits'
  BY DEF Archive, RestoreInv, DiskFits, PositionFits, Old, InPlace, JournalTells,
     UnswappedRow, InstalledSteps, RevokedSteps, TidySteps, ExecuteFits, EarlyFits,
     UndoFits, RecoverFits, FinishFits, Go, At, Caught, Advance, Then
<1> QED BY <1>1, <1>2, <1>3, <1>4 DEF RestoreInv

LEMMA UnlockPreserves ==
  ASSUME RestoreInv, Unlock
  PROVE  RestoreInv'
<1>0. mode' = "idle" /\ pc' = "none" /\ users' \in {users, TRUE} /\ handoff' \in {handoff, "asked", "none"}
  BY DEF Unlock, Serve, Go, Asked
<1>1. RestoreTypeOK'
  BY <1>0 DEF Unlock, RestoreInv, RestoreTypeOK, Modes, Steps
<1>2. DiskFits'
  BY DEF Unlock, RestoreInv, DiskFits, ProgramsFit, SiblingsFit,
     RetainedUntilCommitted, Kept, Committed, Old, New, NoneAside, InPlace,
     JournalTells, UnclaimedIsBare, RestFits
<1>3. ProgramsFit'
  BY DEF Unlock, RestoreInv, DiskFits, ProgramsFit, PositionFits, RestoreTypeOK,
     Committed, Old, New, InPlace, JournalTells, PairServed, HandoffNeedsUsers,
     ExecuteFits, EarlyFits, UndoFits, RecoverFits, FinishFits, RestFits,
     StoppedHasEvidence, Go, Serve, None, Modes
<1>4. PositionFits'
  BY DEF Unlock, PositionFits, ExecuteFits, EarlyFits, UndoFits, RecoverFits,
     FinishFits, Go, Serve
<1> QED BY <1>1, <1>2, <1>3, <1>4 DEF RestoreInv

LEMMA StartCleanPreserves ==
  ASSUME RestoreInv, StartClean
  PROVE  RestoreInv'
<1>1. RestoreTypeOK'
  BY DEF StartClean, RestoreInv, RestoreTypeOK, Go, Entry, Components, Versions,
     Slots, Modes, Steps
<1>2. DiskFits'
  BY DEF StartClean, RestoreInv, DiskFits, SiblingsFit, RetainedUntilCommitted,
     Kept, Committed, Old, New, NoneAside, InPlace, JournalTells, UnclaimedIsBare,
     Entry, None
<1>3. ProgramsFit'
  BY DEF StartClean, RestoreInv, DiskFits, ProgramsFit, Committed, Old, New,
     InPlace, JournalTells, PairServed, HandoffNeedsUsers, RestFits,
     StoppedHasEvidence, Go, Entry, None
<1>4. PositionFits'
  BY DEF StartClean, PositionFits, ExecuteFits, EarlyFits, UndoFits, RecoverFits,
     FinishFits, Go
<1> QED BY <1>1, <1>2, <1>3, <1>4 DEF RestoreInv

LEMMA StartUnclaimedPreserves ==
  ASSUME RestoreInv, StartUnclaimed
  PROVE  RestoreInv'
<1>1. RestoreTypeOK'
  BY DEF StartUnclaimed, RestoreInv, RestoreTypeOK, Live, Found, Go, Entry,
     Components, Versions, Slots, None, RowStates, Modes, Steps
<1>2. DiskFits'
  BY DEF StartUnclaimed, RestoreInv, DiskFits, SiblingsFit, RetainedUntilCommitted,
     Kept, Committed, Old, New, NoneAside, InPlace, PlainStates, JournalTells,
     UnclaimedIsBare, Found, Entry, None
<1>3. ProgramsFit'
  BY DEF StartUnclaimed, RestoreInv, ProgramsFit, PairServed, HandoffNeedsUsers,
     RestFits, StoppedHasEvidence, Go
<1>4. PositionFits'
  BY DEF StartUnclaimed, RestoreInv, ProgramsFit, PositionFits, TidySteps,
     ExecuteFits, EarlyFits, UndoFits, RecoverFits, FinishFits, RestFits, Go
<1> QED BY <1>1, <1>2, <1>3, <1>4 DEF RestoreInv

LEMMA StartFinishPreserves ==
  ASSUME RestoreInv, StartFinish
  PROVE  RestoreInv'
<1>1. RestoreTypeOK'
  BY DEF StartFinish, RestoreInv, RestoreTypeOK, Go, Entry, Components, Versions,
     Slots, Modes, Steps
<1>2. DiskFits'
  BY DEF StartFinish, RestoreInv, DiskFits, SiblingsFit, RetainedUntilCommitted,
     Kept, Committed, Old, New, NoneAside, InPlace, JournalTells, UnclaimedIsBare,
     Entry, None
<1>3. ProgramsFit'
  BY DEF StartFinish, RestoreInv, ProgramsFit, PairServed, HandoffNeedsUsers,
     RestFits, StoppedHasEvidence, Go
<1>4. PositionFits'
  BY DEF StartFinish, RestoreInv, ProgramsFit, PositionFits, TidySteps, ExecuteFits,
     EarlyFits, UndoFits, RecoverFits, FinishFits, RestFits, Go
<1> QED BY <1>1, <1>2, <1>3, <1>4 DEF RestoreInv

LEMMA StartRecoveryPreserves ==
  ASSUME RestoreInv, StartRecovery
  PROVE  RestoreInv'
<1>1. RestoreTypeOK'
  BY DEF StartRecovery, RestoreInv, RestoreTypeOK, Go, Entry, Components, Versions,
     Slots, Modes, Steps
<1>2. DiskFits'
  BY DEF StartRecovery, RestoreInv, DiskFits, SiblingsFit, RetainedUntilCommitted,
     Kept, Committed, Old, New, NoneAside, InPlace, JournalTells, UnclaimedIsBare,
     Entry
<1>3. ProgramsFit'
  BY DEF StartRecovery, RestoreInv, ProgramsFit, PairServed, HandoffNeedsUsers,
     RestFits, StoppedHasEvidence, Go
<1>4. PositionFits'
  BY DEF StartRecovery, RestoreInv, ProgramsFit, PositionFits, ExecuteFits,
     EarlyFits, UndoFits, RecoverFits, FinishFits, RestFits, Go, None
<1> QED BY <1>1, <1>2, <1>3, <1>4 DEF RestoreInv

LEMMA StartRefusedPreserves ==
  ASSUME RestoreInv, StartRefused
  PROVE  RestoreInv'
<1>1. RestoreTypeOK'
  BY DEF StartRefused, RestoreInv, RestoreTypeOK, Go, Entry, Components, Versions,
     Slots, Modes, Steps
<1>2. DiskFits'
  BY DEF StartRefused, RestoreInv, DiskFits, SiblingsFit, RetainedUntilCommitted,
     Kept, Committed, Old, New, NoneAside, InPlace, JournalTells, UnclaimedIsBare, Go,
     Entry, None
<1>3. ProgramsFit'
  BY DEF StartRefused, RestoreInv, ProgramsFit, PairServed, HandoffNeedsUsers,
     RestFits, StoppedHasEvidence, Go
<1>4. PositionFits'
  BY DEF StartRefused, PositionFits, ExecuteFits, EarlyFits, UndoFits, RecoverFits,
     FinishFits, Go
<1> QED BY <1>1, <1>2, <1>3, <1>4 DEF RestoreInv

LEMMA StartAgainPreserves ==
  ASSUME RestoreInv, StartAgain
  PROVE  RestoreInv'
<1>1. RestoreTypeOK'
  BY DEF StartAgain, RestoreInv, RestoreTypeOK, Go, disk, Modes, Steps
<1>2. DiskFits'
  BY DEF StartAgain, RestoreInv, DiskFits, SiblingsFit, RetainedUntilCommitted,
     Kept, Committed, Old, New, NoneAside, InPlace, JournalTells, UnclaimedIsBare, Go,
     disk
<1>3. ProgramsFit'
  BY DEF StartAgain, RestoreInv, ProgramsFit, PairServed, HandoffNeedsUsers,
     RestFits, StoppedHasEvidence, Go
<1>4. PositionFits'
  BY DEF StartAgain, PositionFits, ExecuteFits, EarlyFits, UndoFits, RecoverFits,
     FinishFits, Go
<1> QED BY <1>1, <1>2, <1>3, <1>4 DEF RestoreInv

-----------------------------------------------------------------------------
(* A step that throws, and the container's death.                          *)

LEMMA ThrowPreserves ==
  ASSUME RestoreInv, ~(LateFaults /\ Late), Throw
  PROVE  RestoreInv'
<1>1. faults' \in 0..MaxFaults
  BY RestoreConstants DEF Throw, RestoreInv, RestoreTypeOK
<1>2. users' \in {users, FALSE} \/ (pc = "start" /\ ~unmerged /\ users' \in {users, TRUE})
  BY DEF Throw
<1>a. users' => users \/ (pc = "start" /\ ~unmerged)
  BY <1>2
<1>d. pc \notin {"stop", "start"} => users' = users
  BY DEF Throw
<1>b. handoff' # "none" => users' /\ handoff' = handoff
  BY DEF Throw
<1>c. unmerged' \in BOOLEAN /\ users' \in BOOLEAN
  BY <1>2, Zenon DEF Throw, RestoreInv, RestoreTypeOK
<1>3. \/ journal' = journal
      \/ pc = "claimed" /\ journal' = "underway"
  BY DEF Throw
<1>4. unmerged' => unmerged \/ At("execute", "rehydrate")
  BY Zenon DEF Throw
<1>5. /\ Caught
      /\ mode \in {"execute", "early", "undo", "recover", "finish"}
      /\ mode = "execute" => pc \notin {"record", "discard", "archive", "unlock"}
      /\ UNCHANGED <<file, lock, row, lapsed, revoked, crashes>>
  BY DEF Throw, Late
<1>6. CASE mode = "execute" /\ pc \in SetupSteps
  <2>1. RestoreTypeOK'
    BY <1>1, <1>3, <1>5, <1>a, <1>b, <1>c, <1>6 DEF RestoreInv, RestoreTypeOK,
       Caught, Go, Modes, Steps, Phases
  <2>2. DiskFits'
    BY <1>3, <1>5, <1>6 DEF RestoreInv, DiskFits, PositionFits, SiblingsFit,
       RetainedUntilCommitted, Kept, Committed, Old, New, NoneAside, InPlace,
       JournalTells, UnclaimedIsBare, UnswappedRow, ExecuteFits
  <2>3. ProgramsFit'
    BY <1>a, <1>b, <1>c, <1>d, <1>3, <1>4, <1>5, <1>6 DEF RestoreInv, ProgramsFit,
       PositionFits, Old, New, InPlace, PairServed, HandoffNeedsUsers, SetupSteps,
       ExecuteFits, RestFits, StoppedHasEvidence, Caught, Go, At
  <2>4. PositionFits'
    BY <1>a, <1>c, <1>d, <1>3, <1>4, <1>5, <1>6 DEF RestoreInv, PositionFits,
       SetupSteps, UnswappedRow, InstalledSteps, RevokedSteps, ExecuteFits, EarlyFits,
       UndoFits, RecoverFits, FinishFits, Caught, Go
  <2> QED BY <2>1, <2>2, <2>3, <2>4 DEF RestoreInv
<1>7. CASE mode = "execute" /\ pc \in {"quiesce", "stop"}
  <2>1. RestoreTypeOK'
    BY <1>1, <1>3, <1>5, <1>a, <1>b, <1>c, <1>7 DEF RestoreInv, RestoreTypeOK,
       Caught, Go, Modes, Steps
  <2>2. DiskFits'
    BY <1>3, <1>5, <1>7 DEF RestoreInv, DiskFits, SiblingsFit,
       RetainedUntilCommitted, Kept, Committed, Old, New, NoneAside, InPlace,
       JournalTells, UnclaimedIsBare
  <2>3. ProgramsFit'
    BY <1>a, <1>b, <1>c, <1>d, <1>3, <1>4, <1>5, <1>7 DEF RestoreInv, ProgramsFit,
       Old, New, InPlace, PairServed, HandoffNeedsUsers, RestFits, StoppedHasEvidence,
       Caught, Go, At
  <2>4. PositionFits'
    BY <1>a, <1>c, <1>d, <1>3, <1>4, <1>5, <1>7 DEF RestoreInv, PositionFits, Old,
       InPlace, UnswappedRow, ExecuteFits, EarlyFits, UndoFits, RecoverFits,
       FinishFits, Caught, Go, At
  <2> QED BY <2>1, <2>2, <2>3, <2>4 DEF RestoreInv
<1>8. CASE mode = "execute" /\ pc \in {"snapshot", "swap", "install"} \cup InstalledSteps
  <2>1. RestoreTypeOK'
    BY <1>1, <1>3, <1>5, <1>a, <1>b, <1>c, <1>8 DEF RestoreInv, RestoreTypeOK,
       InstalledSteps, Caught, Go, Modes, Steps
  <2>2. DiskFits'
    BY <1>3, <1>5, <1>8 DEF RestoreInv, DiskFits, PositionFits, SiblingsFit,
       RetainedUntilCommitted, Kept, Committed, Old, New, NoneAside, InPlace,
       JournalTells, UnclaimedIsBare, ExecuteFits
  <2>3. ProgramsFit'
    BY <1>a, <1>b, <1>c, <1>d, <1>3, <1>4, <1>5, <1>8 DEF RestoreInv, ProgramsFit,
       PositionFits, New, InPlace, PairServed, HandoffNeedsUsers, SetupSteps,
       RevokedSteps, ExecuteFits, RestFits, StoppedHasEvidence, Caught, Go, At
  <2>4. PositionFits'
    BY <1>a, <1>c, <1>d, <1>3, <1>4, <1>5, <1>8 DEF RestoreInv, PositionFits,
       InstalledSteps, TidySteps, ExecuteFits, EarlyFits, UndoFits, RecoverFits,
       FinishFits, Caught, Go, At
  <2> QED BY <2>1, <2>2, <2>3, <2>4 DEF RestoreInv
<1>9. CASE mode \in {"early", "undo"}
  <2>0. mode' = "idle" /\ pc' = "none" /\ journal' = journal
    BY <1>3, <1>5, <1>9 DEF Caught, Go, At, RestoreInv, PositionFits, EarlyFits,
       UndoFits, TidySteps
  <2>a. unmerged' => unmerged
    BY <1>4, <1>9 DEF At
  <2>b. unmerged => unmerged'
    BY Zenon DEF Throw
  <2>1. PairServed'
    <3>1. pc = "start" => Old
      BY <1>9 DEF RestoreInv, DiskFits, JournalTells, PositionFits, EarlyFits,
         UndoFits
    <3> QED
      BY <3>1, <1>a, <1>5 DEF RestoreInv, ProgramsFit, PairServed, Old, New, InPlace
  <2>2. HandoffNeedsUsers'
    BY <1>a, <1>b, <2>0, <2>a DEF RestoreInv, ProgramsFit, HandoffNeedsUsers
  <2>3. StoppedHasEvidence'
    <3>1. CASE journal # None
      BY <3>1, <2>0 DEF StoppedHasEvidence
    <3>2. CASE journal = None
      <4>1. pc = "unlock"
        BY <3>2, <1>9 DEF None, RestoreInv, PositionFits, EarlyFits, UndoFits,
           TidySteps
      <4>2. users \/ unmerged
        BY <4>1, <1>9 DEF RestoreInv, PositionFits, EarlyFits, UndoFits
      <4> QED
        BY <4>1, <4>2, <1>d, <2>b DEF StoppedHasEvidence
    <3> QED BY <3>1, <3>2
  <2>4. RestFits'
    BY <2>0, <2>3 DEF RestFits
  <2>5. RestoreTypeOK'
    BY <1>1, <1>3, <1>5, <1>a, <1>b, <1>c, <1>9 DEF RestoreInv, RestoreTypeOK,
       PositionFits, TidySteps, EarlyFits, UndoFits, Caught, Go, Modes, Steps
  <2>6. DiskFits'
    BY <1>3, <1>5, <1>9 DEF RestoreInv, DiskFits, PositionFits, SiblingsFit,
       RetainedUntilCommitted, Kept, Committed, Old, New, NoneAside, InPlace,
       JournalTells, UnclaimedIsBare, TidySteps, EarlyFits, UndoFits
  <2>7. PositionFits'
    BY <2>0 DEF PositionFits, ExecuteFits, EarlyFits, UndoFits, RecoverFits,
       FinishFits
  <2> QED BY <2>1, <2>2, <2>4, <2>5, <2>6, <2>7 DEF RestoreInv, ProgramsFit
<1>10. CASE mode = "recover"
  <2>1. /\ journal' = journal
        /\ \/ mode' = "recover" /\ pc' = "blame" /\ pc \notin {"blame", "blamed"}
           \/ mode' = "refused" /\ pc' = "none"
    BY <1>3, <1>5, <1>10 DEF Caught, Go, At, RestoreInv, PositionFits, RecoverFits,
       TidySteps
  <2>2. ~users'
    BY <1>a, <1>10 DEF RestoreInv, PositionFits, RecoverFits, TidySteps
  <2>3. journal = None => Old /\ row["old"] = "rolled_back"
    BY <1>10 DEF RestoreInv, PositionFits, RecoverFits
  <2>4. pc \notin {"blame", "blamed"} => journal # "completed"
    BY <1>10 DEF RestoreInv, PositionFits, RecoverFits, TidySteps, None
  <2>5. RecoverFits'
    <3>1. Old => Old'
      BY <1>5 DEF Old, InPlace
    <3> QED
      BY <2>1, <2>2, <2>3, <2>4, <3>1, <1>5 DEF RecoverFits, TidySteps
  <2>6. PositionFits'
    BY <2>1, <2>5 DEF PositionFits, ExecuteFits, EarlyFits, UndoFits, FinishFits
  <2>7. RestoreTypeOK'
    BY <1>1, <1>3, <1>5, <1>a, <1>b, <1>c, <1>10 DEF RestoreInv, RestoreTypeOK,
       PositionFits, TidySteps, RecoverFits, Caught, Go, Modes, Steps
  <2>8. DiskFits'
    BY <1>3, <1>5, <1>10 DEF RestoreInv, DiskFits, PositionFits, SiblingsFit,
       RetainedUntilCommitted, Kept, Committed, Old, New, NoneAside, InPlace,
       JournalTells, UnclaimedIsBare, TidySteps, RecoverFits
  <2>9. ProgramsFit'
    BY <1>a, <1>b, <1>c, <1>d, <1>3, <1>4, <1>5, <1>10 DEF RestoreInv, ProgramsFit,
       PositionFits, PairServed, HandoffNeedsUsers, TidySteps, RecoverFits, RestFits,
       StoppedHasEvidence, Caught, Go, At
  <2> QED BY <2>6, <2>7, <2>8, <2>9 DEF RestoreInv
<1>11. CASE mode = "finish"
  <2>1. RestoreTypeOK'
    BY <1>1, <1>3, <1>5, <1>a, <1>b, <1>c, <1>11 DEF RestoreInv, RestoreTypeOK,
       PositionFits, TidySteps, FinishFits, Caught, Go, Modes, Steps
  <2>2. DiskFits'
    BY <1>3, <1>5, <1>11 DEF RestoreInv, DiskFits, PositionFits, SiblingsFit,
       RetainedUntilCommitted, Kept, Committed, Old, New, NoneAside, InPlace,
       JournalTells, UnclaimedIsBare, TidySteps, FinishFits
  <2>3. ProgramsFit'
    BY <1>a, <1>b, <1>c, <1>d, <1>3, <1>4, <1>5, <1>11 DEF RestoreInv, ProgramsFit,
       PositionFits, PairServed, HandoffNeedsUsers, TidySteps, FinishFits, RestFits,
       StoppedHasEvidence, Caught, Go, At
  <2>4. PositionFits'
    BY <1>a, <1>c, <1>d, <1>3, <1>4, <1>5, <1>11 DEF PositionFits, ExecuteFits,
       EarlyFits, UndoFits, RecoverFits, FinishFits, Caught, Go, At
  <2> QED BY <2>1, <2>2, <2>3, <2>4 DEF RestoreInv
<1> QED
  BY <1>5, <1>6, <1>7, <1>8, <1>9, <1>10, <1>11 DEF RestoreInv, PositionFits,
     ExecuteFits, UnswappedRow, TidySteps, SetupSteps

LEMMA CrashPreserves ==
  ASSUME RestoreInv, Crash
  PROVE  RestoreInv'
<1>0. mode' = "down" /\ pc' = "none"
  BY DEF Crash, Go
<1>a. crashes' \in 0..MaxCrashes
  BY RestoreConstants DEF Crash, RestoreInv, RestoreTypeOK
<1>1. RestoreTypeOK'
  BY <1>0, <1>a DEF Crash, RestoreInv, RestoreTypeOK, Modes, Steps, disk
<1>2. DiskFits'
  BY DEF Crash, RestoreInv, DiskFits, SiblingsFit, RetainedUntilCommitted, Kept,
     Committed, Old, New, NoneAside, InPlace, JournalTells, UnclaimedIsBare, disk
<1>3. ProgramsFit'
  BY DEF Crash, ProgramsFit, PairServed, HandoffNeedsUsers, RestFits,
     StoppedHasEvidence, Go
<1>4. PositionFits'
  BY DEF Crash, PositionFits, ExecuteFits, EarlyFits, UndoFits, RecoverFits,
     FinishFits, Go
<1> QED BY <1>1, <1>2, <1>3, <1>4 DEF RestoreInv

-----------------------------------------------------------------------------
(* The specification.                                                      *)

LEMMA InitHolds ==
  Init => RestoreInv
<1> SUFFICES ASSUME Init PROVE RestoreInv
  OBVIOUS
<1>a. file \in [Components -> [Slots -> Versions \cup {None}]]
  <2>1. [s \in Slots |-> IF s = "current" THEN "old" ELSE None] \in [Slots -> Versions \cup {None}]
    BY DEF Versions
  <2> QED BY <2>1, Zenon DEF Init
<1>b. row \in [Versions -> RowStates \cup {None}]
  BY DEF Init
<1>c. mode \in Modes /\ pc \in Steps
  BY DEF Init, Modes, Steps
<1>d. 0 \in 0..MaxFaults /\ 0 \in 0..MaxCrashes
  BY RestoreConstants
<1>1. RestoreTypeOK
  BY Zenon, <1>d, <1>a, <1>b, <1>c DEF Init, RestoreTypeOK
<1>2. DiskFits
  BY DEF Init, DiskFits, SiblingsFit, RetainedUntilCommitted, Kept, JournalTells,
     UnclaimedIsBare, NoneAside, Old, InPlace, PlainStates, Slots, None, Versions
<1>3. ProgramsFit
  BY DEF Init, ProgramsFit, PairServed, HandoffNeedsUsers, RestFits,
     StoppedHasEvidence, Old, InPlace, Slots
<1>4. PositionFits
  BY DEF Init, PositionFits, ExecuteFits, EarlyFits, UndoFits, RecoverFits,
     FinishFits
<1> QED BY <1>1, <1>2, <1>3, <1>4 DEF RestoreInv

LEMMA StepPreserves ==
  ASSUME RestoreInv, ~(LateFaults /\ Late), [Next]_vars
  PROVE  RestoreInv'
<1>1. CASE ApiStep
  BY <1>1, QueuePreserves, RestartApiPreserves, LaunchPreserves, AnsweredPreserves,
     HandoffFailsPreserves DEF ApiStep
<1>2. CASE SetupStep
  BY <1>2, NothingToStartPreserves, CreateLockPreserves, WriteLockPreserves,
     ClaimPreserves, NothingClaimedPreserves, BeginJournalPreserves, FailSetupPreserves,
     ReleasePreserves DEF SetupStep
<1>3. CASE ExchangeStep
  BY <1>3, TransitionPreserves, OverduePreserves, StopUsersPreserves,
     PairInstalledPreserves, VerifyPreserves, RehydratePreserves, ReclaimPreserves,
     RevokePreserves, StartUsersPreserves, RecordPreserves, CopyPreserves,
     SetAsidePreserves, PutInPlacePreserves DEF ExchangeStep
<1>4. CASE UndoStep
  BY <1>4, AbandonPreserves, AllPutBackPreserves, SettlePreserves,
     RefuseToSettlePreserves, BlamePreserves, BlamedPreserves, MoveFailedAsidePreserves,
     PutBackPreserves, RefusePutBackPreserves DEF UndoStep
<1>5. CASE TidyStep
  BY <1>5, DiscardedPreserves, ArchivePreserves, UnlockPreserves, DiscardPreserves DEF TidyStep
<1>6. CASE StartStep
  BY <1>6, StartCleanPreserves, StartUnclaimedPreserves, StartFinishPreserves,
     StartRecoveryPreserves, StartRefusedPreserves, StartAgainPreserves DEF StartStep
<1>7. CASE Lapse \/ Throw \/ Crash
  BY <1>7, LapsePreserves, ThrowPreserves, CrashPreserves
<1>8. CASE UNCHANGED vars
  BY <1>8 DEF vars, RestoreInv, DiskFits, ProgramsFit, PositionFits, RestoreTypeOK,
     SiblingsFit, RetainedUntilCommitted, Kept, Committed, Old, New, NoneAside, InPlace,
     PlainStates, JournalTells, PairServed, UnclaimedIsBare, HandoffNeedsUsers,
     SetupSteps, UnswappedRow, InstalledSteps, RevokedSteps, TidySteps, ExecuteFits,
     EarlyFits, UndoFits, RecoverFits, FinishFits, RestFits, StoppedHasEvidence, Live,
     Found, MoveRow, MayMove, Edges, Go, At, Caught, Advance, Then, disk, Target,
     MayEnd, Ended, Asked, Serve, Entry, Components, Versions, Slots, Siblings, Bare,
     Installed, MayInstall, MayPutBack, AllInPlace, None, RowStates, Phases, Modes,
     Steps
<1> QED BY <1>1, <1>2, <1>3, <1>4, <1>5, <1>6, <1>7, <1>8 DEF Next

LEMMA InvariantHolds ==
  ASSUME ~LateFaults
  PROVE  RestoreSpec => []RestoreInv
<1>1. RestoreInv /\ [Next]_vars => RestoreInv'
  BY StepPreserves
<1> QED BY InitHolds, <1>1, PTL DEF RestoreSpec

\* Whatever throws and whenever the container dies, whoever uses the databases
\* finds both old or both restored.
THEOREM PairIsServed ==
  ASSUME ~LateFaults
  PROVE  RestoreSpec => []ServedPairMatches
<1>1. RestoreInv => ServedPairMatches
  BY DEF RestoreInv, ProgramsFit, PairServed, ServedPairMatches, Old, New
<1> QED BY <1>1, InvariantHolds, PTL

\* At rest the row of the run says which pair is in place.
THEOREM OutcomeIsTold ==
  ASSUME ~LateFaults
  PROVE  RestoreSpec => []OutcomeTellsPair
<1>1. RestoreInv => OutcomeTellsPair
  BY DEF RestoreInv, DiskFits, JournalTells, Committed, OutcomeTellsPair, PlainStates,
     Live, Old, New, InPlace, Components
<1> QED BY <1>1, InvariantHolds, PTL

\* Programs left stopped leave a journal for the next start, or the rows of a
\* run that could not be carried over.
THEOREM EvidenceRemains ==
  ASSUME ~LateFaults
  PROVE  RestoreSpec => []StoppedHasEvidence
<1>1. RestoreInv => StoppedHasEvidence
  BY DEF RestoreInv, ProgramsFit, RestFits
<1> QED BY <1>1, InvariantHolds, PTL

-----------------------------------------------------------------------------
(* The contract: one exchange, and an outcome that stands.                 *)

\* The ends of a run that leave the old pair.
Dropping == {"start_failed", "setup_failed", "rolled_back", "rollback_failed"}

\* The old rows tell of an exchange as long as the old database is away, the
\* restored ones begin with it, and giving up early comes before it.
AwayIsSwapping ==
  /\ file["ingenium"]["rollback"] # None => Live # "old"
  /\ Live # "old" => row["old"] = "swapping"
CarriedOver ==
  /\ row["restored"] # None => row["old"] \in {"swapping", "rolled_back", "rollback_failed"}
  /\ mode = "early" => row["restored"] = None

ExchangeInv == RestoreInv /\ AwayIsSwapping /\ CarriedOver

\* The restore is done, unless the row in the old database says otherwise.
Over == journal = "completed" \/ (journal = None /\ row["restored"] = "completed")

\* What one step does to the rows of the old and of the restored database.
RowMoves ==
  /\ Live # "restored" => row'["restored"] = row["restored"]
  /\ row["restored"] = "completed" => row'["restored"] = "completed"
  /\ row'["restored"] = "completed" => row["restored"] = "completed" \/ journal' = "underway"
  /\ \/ row'["old"] = row["old"]
     \/ /\ Live = "old" /\ Live' = "old" /\ users' = users
        /\ row["old"] \notin Dropping
        /\ row["old"] = "swapping" =>
             mode = "early" \/ row'["old"] \in {"rolled_back", "rollback_failed"}

RowStep ==
  \/ Queue \/ HandoffFails \/ Claim \/ FailSetup \/ Transition \/ Rehydrate
  \/ Reclaim \/ Abandon \/ Settle \/ Blame \/ StartUnclaimed

LEMMA OnlyRowSteps ==
  ASSUME [Next]_vars
  PROVE  RowStep \/ UNCHANGED row
<1>1. CASE ApiStep \/ Lapse \/ SetupStep
  BY <1>1 DEF RowStep, ApiStep, SetupStep, Lapse, RestartApi, Launch, Answered,
     NothingToStart, CreateLock, WriteLock, NothingClaimed, BeginJournal, Release
<1>2. CASE ExchangeStep
  BY <1>2 DEF RowStep, ExchangeStep, Overdue, StopUsers, PairInstalled, Verify, Revoke,
     StartUsers, Record, Copy, SetAside, PutInPlace
<1>3. CASE UndoStep
  BY <1>3 DEF RowStep, UndoStep, AllPutBack, RefuseToSettle, Blamed, MoveFailedAside,
     PutBack, RefusePutBack
<1>4. CASE TidyStep
  BY <1>4 DEF TidyStep, Discarded, Archive, Unlock, Discard
<1>5. CASE StartStep
  BY <1>5 DEF RowStep, StartStep, StartClean, StartFinish, StartRecovery, StartRefused, StartAgain
<1>6. CASE Throw \/ Crash \/ UNCHANGED vars
  BY <1>6 DEF Throw, Crash, vars
<1> QED BY <1>1, <1>2, <1>3, <1>4, <1>5, <1>6 DEF Next

\* A row is moved in the database that is in place, and in no other.
Admits(s) ==
  \/ s = Found
  \/ /\ Found \notin Dropping \cup {"completed"}
     /\ s = "completed" => journal' = "underway"
     /\ Found = "swapping" => mode = "early" \/ s \in {"rolled_back", "rollback_failed"}

LEMMA RowAt ==
  ASSUME RestoreTypeOK, NEW s, row' = [row EXCEPT ![Live] = s],
         Live = "old" => Live' = "old", users' = users, Admits(s)
  PROVE  RowMoves
<1>1. /\ Live = "old" => row'["old"] = s /\ Found = row["old"]
      /\ Live # "old" => row'["old"] = row["old"]
      /\ Live = "restored" => row'["restored"] = s /\ Found = row["restored"]
      /\ Live # "restored" => row'["restored"] = row["restored"]
  BY DEF RestoreTypeOK, Versions, Found, None
<1> QED BY <1>1 DEF RowMoves, Admits, Dropping

LEMMA RowStepMoves ==
  ASSUME RestoreInv, RowStep
  PROVE  RowMoves
<1>1. RestoreTypeOK
  BY DEF RestoreInv
<1>2. UNCHANGED row => RowMoves
  BY DEF RowMoves
<1>3. file' = file => (Live = "old" => Live' = "old")
  BY DEF Live
<1>4. CASE Queue
  <2>1. Found = None => Admits("queued")
    BY DEF Admits, Dropping, None
  <2> QED BY <1>1, <1>2, <1>3, <1>4, <2>1, RowAt DEF Queue, disk
<1>5. CASE HandoffFails
  <2> DEFINE s == IF row[Live] = "queued" THEN "start_failed" ELSE row[Live]
  <2>1. row' = [row EXCEPT ![Live] = s] /\ UNCHANGED <<file, users, journal>>
    BY <1>5 DEF HandoffFails, disk
  <2>2. CASE Live = None
    <3>1. row' = row
      BY <1>1, <2>1, <2>2 DEF RestoreTypeOK, Versions, None
    <3> QED BY <1>2, <3>1
  <2>3. CASE Live # None
    <3>1. Admits(s)
      BY <2>3 DEF Admits, Dropping, Found
    <3> QED BY <1>1, <1>3, <2>1, <3>1, RowAt
  <2> QED BY <2>2, <2>3
<1>6. CASE Claim \/ Reclaim
  <2>1. Live # None
    BY <1>6 DEF RestoreInv, ProgramsFit, PositionFits, ExecuteFits, PairServed, Claim,
       Reclaim, At, Old, New, InPlace, Live, Components, InstalledSteps, SetupSteps, None
  <2>2. Admits("claimed") /\ Admits("verifying")
    BY <1>6, <2>1 DEF Claim, Reclaim, Admits, Dropping, Found
  <2> QED BY <1>1, <1>3, <1>6, <2>2, RowAt DEF Claim, Reclaim, MoveRow, disk
<1>7. CASE FailSetup \/ Abandon
  <2>1. FailSetup => Admits("setup_failed")
    BY DEF FailSetup, MayMove, Edges, Admits, Dropping
  <2>2. Abandon => Admits("rolling_back")
    BY DEF Abandon, At, MayMove, Edges, Admits, Dropping
  <2> QED BY <1>1, <1>3, <1>7, <2>1, <2>2, RowAt DEF FailSetup, Abandon, MoveRow, disk
<1>8. CASE Transition
  <2>1. pc = "complete" => journal' = "underway"
    BY <1>8 DEF Transition, RestoreInv, PositionFits, ExecuteFits, EarlyFits,
       InstalledSteps, disk
  <2>2. Target[pc] = "completed" => pc = "complete"
    BY <1>8 DEF Transition, Target
  <2>3. Target[pc] \in {"quiescing", "snapshotting", "swapping", "restarting", "completed",
                        "rolled_back"}
    BY <1>8 DEF Transition, Target
  <2>4. Admits(Target[pc])
    BY <1>8, <2>1, <2>2, <2>3 DEF Transition, MayMove, Edges, Admits, Dropping
  <2> QED BY <1>1, <1>3, <1>8, <2>4, RowAt DEF Transition, MoveRow, disk
<1>9. CASE Rehydrate
  <2>1. Live # None
    BY <1>9 DEF RestoreInv, PositionFits, ExecuteFits, Rehydrate, At, New, InPlace, Live,
       Components, InstalledSteps, None
  <2> DEFINE s == IF row[Live] = None THEN "queued" ELSE row[Live]
  <2>2. row' = [row EXCEPT ![Live] = s] /\ UNCHANGED <<file, users, journal>>
    BY <1>9 DEF Rehydrate, disk
  <2>3. Admits(s)
    BY <2>1 DEF Admits, Dropping, Found, None
  <2> QED BY <1>1, <1>3, <2>2, <2>3, RowAt
<1>10. CASE Settle
  <2>1. Admits("rolled_back")
    BY <1>10 DEF Settle, MayEnd, MayMove, Ended, Edges, Admits, Dropping, None
  <2> QED BY <1>1, <1>3, <1>10, <2>1, RowAt DEF Settle, MoveRow, disk
<1>11. CASE Blame
  <2>1. CASE UNCHANGED row
    BY <1>2, <2>1
  <2>2. CASE MayEnd("rollback_failed") /\ MoveRow("rollback_failed")
    <3>1. Admits("rollback_failed")
      BY <2>2 DEF MayEnd, MayMove, Ended, Edges, Admits, Dropping, None
    <3> QED BY <1>1, <1>3, <1>11, <2>2, <3>1, RowAt DEF Blame, MoveRow, disk
  <2> QED BY <1>11, <2>1, <2>2 DEF Blame
<1>12. CASE StartUnclaimed
  <2>1. CASE Found = "claimed"
    <3>1. Live # None /\ Admits("setup_failed")
      BY <2>1 DEF Found, None, Admits, Dropping
    <3>2. Live = "old" => Live' = "old"
      BY <1>12, <3>1 DEF StartUnclaimed, Entry, Live, RestoreInv, RestoreTypeOK, Components,
         Slots, None
    <3> QED BY <1>1, <1>12, <2>1, <3>1, <3>2, RowAt DEF StartUnclaimed
  <2> QED BY <1>2, <1>12, <2>1 DEF StartUnclaimed
<1> QED BY <1>4, <1>5, <1>6, <1>7, <1>8, <1>9, <1>10, <1>11, <1>12 DEF RowStep

\* What one step does to the files in place, and to the old one set aside.
FileMoves ==
  /\ users /\ users' => \A c \in Components : file'[c]["current"] = file[c]["current"]
  /\ file'["ingenium"]["rollback"] # None => Live' # "old"
  /\ Live' # "old" => Live # "old" \/ (row["old"] = "swapping" /\ row' = row)

FileStep ==
  \/ \E c \in Components :
       \/ Copy(c) \/ SetAside(c) \/ PutInPlace(c)
       \/ MoveFailedAside(c) \/ PutBack(c) \/ Discard(c)
  \/ StartClean \/ StartUnclaimed \/ StartFinish \/ StartRecovery \/ StartRefused

LEMMA OnlyFileSteps ==
  ASSUME [Next]_vars
  PROVE  FileStep \/ UNCHANGED file
<1>1. CASE ApiStep \/ Lapse \/ SetupStep
  BY <1>1 DEF ApiStep, SetupStep, Lapse, Queue, RestartApi, Launch, Answered, HandoffFails,
     NothingToStart, CreateLock, WriteLock, Claim, NothingClaimed, BeginJournal, FailSetup,
     Release, disk
<1>2. CASE ExchangeStep
  BY <1>2 DEF FileStep, ExchangeStep, Transition, Overdue, StopUsers, PairInstalled, Verify,
     Rehydrate, Reclaim, Revoke, StartUsers, Record, disk
<1>3. CASE UndoStep
  BY <1>3 DEF FileStep, UndoStep, Abandon, AllPutBack, Settle, RefuseToSettle, Blame, Blamed,
     RefusePutBack, disk
<1>4. CASE TidyStep
  BY <1>4 DEF FileStep, TidyStep, Discarded, Archive, Unlock, disk
<1>5. CASE StartStep
  BY <1>5 DEF FileStep, StartStep, StartAgain, disk
<1>6. CASE Throw \/ Crash \/ UNCHANGED vars
  BY <1>6 DEF Throw, Crash, vars, disk
<1> QED BY <1>1, <1>2, <1>3, <1>4, <1>5, <1>6 DEF Next

LEMMA FileStepMoves ==
  ASSUME RestoreInv, AwayIsSwapping, FileStep
  PROVE  FileMoves
<1> USE DEF FileMoves, AwayIsSwapping, Live
<1>1. /\ file \in [Components -> [Slots -> Versions \cup {None}]]
      /\ "ingenium" \in Components /\ {"current", "new", "rollback", "failed"} \subseteq Slots
      /\ None \notin Versions /\ "old" \in Versions
  BY DEF RestoreInv, RestoreTypeOK, Components, Slots, Versions, None
<1>2. ASSUME NEW c \in Components, Copy(c) PROVE FileMoves
  BY <1>1, <1>2 DEF Copy
<1>3. ASSUME NEW c \in Components, SetAside(c) PROVE FileMoves
  <2>1. ~users /\ row["old"] = "swapping" /\ row' = row
    BY <1>3 DEF SetAside, MayInstall, At, RestoreInv, PositionFits, ExecuteFits, UnswappedRow
  <2>2. file'[c]["current"] = None /\ \A d \in Components \ {c} : file'[d] = file[d]
    BY <1>1, <1>3 DEF SetAside
  <2> QED BY <1>1, <1>3, <2>1, <2>2
<1>4. ASSUME NEW c \in Components, PutInPlace(c) PROVE FileMoves
  <2>1. ~users /\ row["old"] = "swapping" /\ row' = row
    BY <1>4 DEF PutInPlace, MayInstall, At, RestoreInv, PositionFits, ExecuteFits, UnswappedRow
  <2>2. /\ file'[c]["current"] = file[c]["new"] /\ file[c]["new"] # None
        /\ \A d \in Components \ {c} : file'[d] = file[d]
    BY <1>1, <1>4 DEF PutInPlace
  <2>3. file[c]["new"] = "restored"
    BY <2>2 DEF RestoreInv, DiskFits, SiblingsFit
  <2> QED BY <1>1, <2>1, <2>2, <2>3
<1>5. ASSUME NEW c \in Components, MoveFailedAside(c) PROVE FileMoves
  <2>1. ~users /\ row' = row
    BY <1>5 DEF MoveFailedAside, MayPutBack, RestoreInv, PositionFits, UndoFits, RecoverFits
  <2>2. /\ file'[c]["current"] = None /\ file[c]["rollback"] # None
        /\ \A d \in Components \ {c} : file'[d] = file[d]
    BY <1>1, <1>5 DEF MoveFailedAside, MayPutBack
  <2> QED BY <1>1, <2>1, <2>2
<1>6. ASSUME NEW c \in Components, PutBack(c) PROVE FileMoves
  <2>1. ~users /\ row' = row
    BY <1>6 DEF PutBack, RestoreInv, PositionFits, UndoFits, RecoverFits
  <2>2. /\ file'[c]["rollback"] = None /\ file[c]["rollback"] # None
        /\ file'[c]["current"] = file[c]["rollback"]
        /\ \A d \in Components \ {c} : file'[d] = file[d]
    BY <1>1, <1>6 DEF PutBack
  <2>3. file[c]["rollback"] = "old"
    BY <2>2 DEF RestoreInv, DiskFits, SiblingsFit
  <2> QED BY <1>1, <2>1, <2>2, <2>3
<1>7. ASSUME NEW c \in Components, Discard(c) PROVE FileMoves
  <2>1. /\ file'[c]["current"] = file[c]["current"] /\ file'[c]["rollback"] = None
        /\ \A d \in Components \ {c} : file'[d] = file[d]
    BY <1>1, <1>7 DEF Discard, Siblings
  <2> QED BY <1>1, <2>1
<1>8. CASE StartClean \/ StartUnclaimed \/ StartFinish \/ StartRecovery \/ StartRefused
  <2>1. ~users /\ Entry
    BY <1>8 DEF StartClean, StartUnclaimed, StartFinish, StartRecovery, StartRefused, RestoreInv,
       ProgramsFit, RestFits
  <2>2. file'["ingenium"]["current"] =
          IF file["ingenium"]["current"] = None THEN "empty" ELSE file["ingenium"]["current"]
    BY <1>1, <2>1 DEF Entry
  <2>3. file'["ingenium"]["rollback"] = file["ingenium"]["rollback"]
    BY <1>1, <2>1 DEF Entry
  <2> QED BY <1>1, <2>1, <2>2, <2>3
<1> QED BY <1>2, <1>3, <1>4, <1>5, <1>6, <1>7, <1>8 DEF FileStep

\* Giving up early comes before the exchange.
LEMMA EarlyMoves ==
  ASSUME RestoreInv, [Next]_vars, mode' = "early", mode # "early"
  PROVE  row["old"] \in {"claimed", "quiescing"} /\ row' = row
<1>1. Caught /\ row' = row
  <2>1. CASE ApiStep \/ Lapse \/ SetupStep
    BY <2>1 DEF ApiStep, SetupStep, Lapse, Queue, RestartApi, Launch, Answered, HandoffFails,
       NothingToStart, CreateLock, WriteLock, Claim, NothingClaimed, BeginJournal, FailSetup,
       Release, Go, At, Advance
  <2>2. CASE ExchangeStep
    BY <2>2 DEF ExchangeStep, Transition, Overdue, StopUsers, PairInstalled, Verify,
       Rehydrate, Reclaim, Revoke, StartUsers, Record, Copy, SetAside, PutInPlace, Go, At, Advance
  <2>3. CASE UndoStep
    BY <2>3 DEF UndoStep, Abandon, AllPutBack, Settle, RefuseToSettle, Blame, Blamed,
       RefusePutBack, MoveFailedAside, PutBack, Go, At, Advance
  <2>4. CASE TidyStep
    BY <2>4 DEF TidyStep, Discarded, Archive, Unlock, Serve, Discard, Go, Advance
  <2>5. CASE StartStep
    BY <2>5 DEF StartStep, StartAgain, StartClean, StartUnclaimed, StartFinish, StartRecovery,
       StartRefused, Go
  <2>6. CASE Throw \/ Crash \/ UNCHANGED vars
    BY <2>6 DEF Throw, Crash, vars, Go
  <2> QED BY <2>1, <2>2, <2>3, <2>4, <2>5, <2>6 DEF Next
<1>2. mode = "execute" /\ pc \in {"quiesce", "stop"}
  BY <1>1 DEF Caught, Go, At
<1> QED BY <1>1, <1>2 DEF RestoreInv, PositionFits, ExecuteFits, UnswappedRow

LEMMA ExchangePreserves ==
  ASSUME ExchangeInv, ~(LateFaults /\ Late), [Next]_vars
  PROVE  ExchangeInv' /\ RowMoves /\ FileMoves
<1> USE DEF ExchangeInv
<1>1. RestoreInv'
  BY StepPreserves
<1>2. RowMoves
  BY OnlyRowSteps, RowStepMoves DEF RowMoves
<1>3. FileMoves
  <2>1. UNCHANGED file => FileMoves
    BY DEF FileMoves, AwayIsSwapping, Live
  <2> QED BY <2>1, OnlyFileSteps, FileStepMoves
<1>4. AwayIsSwapping'
  BY <1>2, <1>3 DEF AwayIsSwapping, RowMoves, FileMoves
<1>5. mode' = "early" => row'["restored"] = None
  <2>1. CASE mode = "early"
    <3>1. Live = "old"
      BY <2>1 DEF RestoreInv, PositionFits, EarlyFits, Old, InPlace, Live, Components
    <3> QED BY <1>2, <2>1, <3>1 DEF RowMoves, CarriedOver
  <2>2. CASE mode # "early" /\ mode' = "early"
    BY <2>2, EarlyMoves DEF CarriedOver
  <2> QED BY <2>1, <2>2
<1>6. row'["restored"] # None => row'["old"] \in {"swapping", "rolled_back", "rollback_failed"}
  BY <1>2 DEF RowMoves, CarriedOver, AwayIsSwapping, Dropping
<1> QED BY <1>1, <1>2, <1>3, <1>4, <1>5, <1>6 DEF CarriedOver

\* What the journal and the rows call done has the restored pair in place.
LEMMA OverIsCommitted ==
  ASSUME ExchangeInv, Over, row["old"] \notin Dropping
  PROVE  Committed /\ ~Old /\ journal \in {None, "completed"}
<1>1. Committed
  BY DEF ExchangeInv, RestoreInv, DiskFits, JournalTells, Over, CarriedOver, Dropping, PlainStates,
     None
<1> QED BY <1>1 DEF Over, Committed, New, Old, InPlace, Components

JournalStep ==
  BeginJournal \/ Verify \/ Record \/ Blamed \/ Archive \/ Throw

LEMMA OnlyJournalSteps ==
  ASSUME [Next]_vars
  PROVE  JournalStep \/ UNCHANGED journal
<1>1. CASE ApiStep \/ Lapse \/ SetupStep
  BY <1>1 DEF JournalStep, ApiStep, SetupStep, Lapse, Queue, RestartApi, Launch, Answered,
     HandoffFails, NothingToStart, CreateLock, WriteLock, Claim, NothingClaimed, FailSetup,
     Release, disk
<1>2. CASE ExchangeStep
  BY <1>2 DEF JournalStep, ExchangeStep, Transition, Overdue, StopUsers, PairInstalled,
     Rehydrate, Reclaim, Revoke, StartUsers, Copy, SetAside, PutInPlace, disk
<1>3. CASE UndoStep
  BY <1>3 DEF JournalStep, UndoStep, Abandon, AllPutBack, Settle, RefuseToSettle, Blame,
     RefusePutBack, MoveFailedAside, PutBack, disk
<1>4. CASE TidyStep
  BY <1>4 DEF JournalStep, TidyStep, Discarded, Unlock, Discard, disk
<1>5. CASE StartStep
  BY <1>5 DEF StartStep, StartAgain, StartClean, StartUnclaimed, StartFinish,
     StartRecovery, StartRefused, disk
<1>6. CASE Throw \/ Crash \/ UNCHANGED vars
  BY <1>6 DEF JournalStep, Crash, vars, disk
<1> QED BY <1>1, <1>2, <1>3, <1>4, <1>5, <1>6 DEF Next

\* The journal goes on to "completed" in one place, and only tells of an
\* execution underway, or of one undone, where nothing was committed.
LEMMA JournalStepMoves ==
  ASSUME RestoreInv, JournalStep
  PROVE  /\ row' = row
         /\ \/ journal' = journal
            \/ journal' = None /\ journal \in {"completed", "rolled_back"}
            \/ journal' = "completed" /\ users /\ users' /\ New
            \/ /\ journal' \notin {None, "completed"}
               /\ Old \/ journal \notin {None, "completed"}
<1> USE DEF RestoreInv, PositionFits, ExecuteFits, EarlyFits, UndoFits, RecoverFits, FinishFits
<1>1. CASE BeginJournal
  BY <1>1 DEF BeginJournal, At, UnswappedRow, None
<1>2. CASE Verify
  BY <1>2 DEF Verify, At, None
<1>3. CASE Record
  <2>1. row' = row /\ users' = users
    BY <1>3 DEF Record
  <2>2. mode \in {"execute", "early", "undo", "recover"}
    BY <1>3 DEF Record, RestoreTypeOK, Modes, ProgramsFit, RestFits, TidySteps
  <2> QED BY <1>3, <2>1, <2>2 DEF Record, InstalledSteps, None
<1>4. CASE Blamed
  BY <1>4 DEF Blamed, At, None
<1>5. CASE Archive
  <2>1. row' = row
    BY <1>5 DEF Archive
  <2>2. mode \in {"execute", "early", "undo", "recover", "finish"}
    BY <1>5 DEF Archive, RestoreTypeOK, Modes, ProgramsFit, RestFits
  <2>3. journal \in {"completed", "rolled_back"}
    BY <1>5, <2>2 DEF Archive
  <2> QED BY <1>5, <2>1, <2>3 DEF Archive
<1>6. CASE Throw
  <2>1. row' = row /\ (journal' = journal \/ (journal' = "underway" /\ pc = "claimed"))
    BY <1>6 DEF Throw
  <2>2. pc = "claimed" => Old
    BY <1>6 DEF Throw, UnswappedRow, TidySteps
  <2> QED BY <2>1, <2>2 DEF None
<1> QED BY <1>1, <1>2, <1>3, <1>4, <1>5, <1>6 DEF JournalStep

\* What is done stays done.
LEMMA OverStays ==
  ASSUME ExchangeInv, [Next]_vars, RowMoves, Over, row["old"] \notin Dropping
  PROVE  Over'
<1>1. Committed /\ ~Old /\ journal \in {None, "completed"} /\ row'["restored"] = "completed"
  BY OverIsCommitted DEF Committed, RowMoves
<1>2. CASE UNCHANGED journal
  BY <1>1, <1>2 DEF Over
<1>3. CASE JournalStep
  BY <1>1, <1>3, JournalStepMoves DEF Over, ExchangeInv
<1> QED BY <1>2, <1>3, OnlyJournalSteps

\* It becomes done while the programs run on the restored pair.
LEMMA OverBegins ==
  ASSUME ExchangeInv, [Next]_vars, RowMoves, ~Over, Over', row'["old"] \notin Dropping
  PROVE  users /\ users' /\ New
<1>1. CASE UNCHANGED journal
  BY <1>1 DEF Over, RowMoves, None
<1>2. CASE JournalStep
  <2>1. journal = "rolled_back" => row["old"] \in Dropping
    BY DEF ExchangeInv, RestoreInv, DiskFits, JournalTells, Dropping
  <2> QED BY <1>2, <2>1, JournalStepMoves DEF Over, ExchangeInv, None
<1> QED BY <1>1, <1>2, OnlyJournalSteps

\* What the programs run on and what has become of the run, in these terms.
Told ==
  /\ users => (Serving = "old" /\ Old) \/ (Serving = "restored" /\ New)
  /\ ~users => Serving = "nothing"
  /\ row["old"] \in Dropping => Fate = "dropped"
  /\ row["old"] \notin Dropping => Fate = IF Over THEN "done" ELSE "open"
  /\ users => Serving \in Contract!Startable[Fate]

LEMMA InvTells ==
  ASSUME ExchangeInv
  PROVE  Told
<1>1. /\ users => (Serving = "old" /\ Old) \/ (Serving = "restored" /\ New)
      /\ ~users => Serving = "nothing"
  BY DEF ExchangeInv, RestoreInv, ProgramsFit, PairServed, Serving, Old, New, InPlace, Components
<1>2. row["old"] \in Dropping => Fate = "dropped"
  BY DEF Fate, Dropping
<1>3. row["old"] \notin Dropping => Fate = IF Over THEN "done" ELSE "open"
  <2>1. CASE Over
    BY <2>1 DEF Fate, Over, Dropping
  <2>2. CASE ~Over
    BY <2>2 DEF Fate, Over, Dropping
  <2> QED BY <2>1, <2>2
<1>4. ASSUME users PROVE Serving \in Contract!Startable[Fate]
  <2>1. CASE row["old"] \in Dropping
    <3>1. Live = "old"
      BY <2>1 DEF ExchangeInv, AwayIsSwapping, Dropping
    <3>2. ~New
      BY <3>1 DEF Live, New, InPlace, Components
    <3> QED BY <1>1, <1>2, <1>4, <2>1, <3>2 DEF Contract!Startable
  <2>2. CASE row["old"] \notin Dropping /\ Over
    BY <1>1, <1>3, <1>4, <2>2, OverIsCommitted DEF Contract!Startable
  <2>3. CASE row["old"] \notin Dropping /\ ~Over
    BY <1>1, <1>3, <1>4, <2>3 DEF Contract!Startable
  <2> QED BY <2>1, <2>2, <2>3
<1> QED BY <1>1, <1>2, <1>3, <1>4 DEF Told

LEMMA ContractStep ==
  ASSUME ExchangeInv, ~LateFaults, [Next]_vars, Told, Told'
  PROVE  Contract!ContractNext \/ (Serving' = Serving /\ Fate' = Fate)
<1>1. ExchangeInv' /\ RowMoves /\ FileMoves
  BY ExchangePreserves
<1>2. users /\ users' => Serving' = Serving
  <2>1. users /\ users' => (Old' <=> Old) /\ (New' <=> New)
    BY <1>1 DEF FileMoves, Old, New, InPlace
  <2>2. ~(Old /\ New)
    BY DEF Old, New, InPlace, Components
  <2> QED BY <2>1, <2>2 DEF Told
<1>3. \/ Fate' = Fate
      \/ Fate = "open" /\ Fate' = "done" /\ users /\ users' /\ New
      \/ Fate = "open" /\ Fate' = "dropped" /\ users' = users /\ Live = "old"
  <2>1. CASE row["old"] \in Dropping
    BY <1>1, <2>1 DEF RowMoves, Told
  <2>2. CASE row["old"] \notin Dropping /\ row'["old"] \in Dropping
    <3>1. Live = "old" /\ users' = users
      BY <1>1, <2>2 DEF RowMoves
    <3>2. ~Over
      BY <2>2, <3>1, OverIsCommitted DEF Committed, New, InPlace, Live, Components
    <3> QED BY <2>2, <3>1, <3>2 DEF Told
  <2>3. CASE row["old"] \notin Dropping /\ row'["old"] \notin Dropping
    BY <1>1, <2>3, OverStays, OverBegins DEF Told
  <2> QED BY <2>1, <2>2, <2>3
<1>4. /\ New /\ users => Serving = "restored"
      /\ Live = "old" => Serving # "restored"
  BY DEF Told, New, Old, InPlace, Live, Components
<1>5. CASE Fate' = Fate
  <2>1. CASE users /\ ~users'
    BY <1>5, <2>1 DEF Told, Contract!ContractNext, Contract!Stop
  <2>2. CASE ~users /\ users'
    BY <1>5, <2>2 DEF Told, Contract!ContractNext, Contract!Start
  <2> QED BY <1>2, <1>5, <2>1, <2>2 DEF Told
<1>6. CASE Fate = "open" /\ Fate' = "done" /\ users /\ users' /\ New
  BY <1>2, <1>4, <1>6 DEF Contract!ContractNext, Contract!Commit
<1>7. CASE Fate = "open" /\ Fate' = "dropped" /\ users' = users /\ Live = "old"
  BY <1>2, <1>4, <1>7 DEF Told, Contract!ContractNext, Contract!Drop
<1> QED BY <1>3, <1>5, <1>6, <1>7

\* For the programs the restore is one atomic exchange of the pair while they
\* are stopped, or none, and its outcome is never taken back.
THEOREM RestoreImplementsContract ==
  ASSUME ~LateFaults
  PROVE  RestoreSpec => ImplementsContract
<1>1. Init => ExchangeInv
  BY InitHolds DEF Init, ExchangeInv, AwayIsSwapping, CarriedOver, Live, Components, Slots,
     Versions, None
<1>2. ExchangeInv /\ [Next]_vars => ExchangeInv'
  BY ExchangePreserves
<1>3. RestoreSpec => []ExchangeInv
  BY <1>1, <1>2, PTL DEF RestoreSpec
<1>4. ExchangeInv => Told
  BY InvTells
<1>5. Init => Contract!ContractInit
  BY DEF Init, Contract!ContractInit, Serving, Fate, InPlace, Components, Slots, Versions, None
<1>6. ExchangeInv /\ Told /\ Told' /\ [Next]_vars => [Contract!ContractNext]_(Contract!contractVars)
  BY ContractStep DEF Contract!contractVars
<1> QED BY <1>3, <1>4, <1>5, <1>6, PTL DEF RestoreSpec, ImplementsContract, Contract!ContractSpec

-----------------------------------------------------------------------------
(* What holds whatever throws, the tidying after the completion included.  *)

\* The steps of each mode.
KnownPosition ==
  /\ mode \in {"idle", "down", "refused"} => pc = "none"
  /\ mode = "execute" =>
       pc \in SetupSteps \cup DOMAIN UnswappedRow \cup InstalledSteps \cup TidySteps
  /\ mode = "early" => pc \in {"abandon", "abandoned", "record", "start", "archive", "unlock"}
  /\ mode = "undo" =>
       pc \in {"stop", "rollback", "replace", "check", "settle", "record", "start"} \cup TidySteps
  /\ mode = "recover" =>
       pc \in {"rollback", "replace", "check", "settle", "record", "blame", "blamed"} \cup TidySteps
  /\ mode = "finish" => pc \in TidySteps

Shape == RestoreTypeOK /\ KnownPosition

PositionOK == mode \in Modes /\ pc \in Steps /\ KnownPosition

\* A step goes to the next one of its mode, to the handler of an error, or
\* where its action says.
LEMMA AdvanceFits ==
  ASSUME PositionOK, Advance, pc \in DOMAIN Then[mode], mode \in DOMAIN Then
  PROVE  PositionOK'
BY DEF PositionOK, KnownPosition, Advance, Go, Then, Modes, Steps, SetupSteps, UnswappedRow,
   InstalledSteps, TidySteps

LEMMA CaughtFits ==
  ASSUME PositionOK, Caught
  PROVE  PositionOK'
BY DEF PositionOK, KnownPosition, Caught, Go, At, Modes, Steps, SetupSteps, UnswappedRow,
   InstalledSteps, TidySteps

LEMMA PositionStep ==
  ASSUME PositionOK, [Next]_vars
  PROVE  PositionOK'
<1>1. UNCHANGED <<mode, pc>> => PositionOK'
  BY DEF PositionOK, KnownPosition
<1>2. \A m, p : Go(m, p) /\ <<m, p>> \in
          {<<"idle", "none">>, <<"down", "none">>, <<"refused", "none">>,
           <<"execute", "starting">>, <<"execute", "locking">>, <<"execute", "claiming">>,
           <<"execute", "release">>, <<"undo", "replace">>, <<"undo", "rollback">>,
           <<"recover", "replace">>, <<"recover", "rollback">>, <<"recover", "blamed">>,
           <<"finish", "unlock">>, <<"finish", "discard">>, <<"finish", "archive">>}
        => PositionOK'
  BY DEF PositionOK, KnownPosition, Go, Modes, Steps, SetupSteps, TidySteps
<1>3. CASE ApiStep \/ Lapse \/ SetupStep
  <2>1. CASE Queue \/ RestartApi \/ Answered \/ HandoffFails \/ Lapse
    BY <1>1, <2>1 DEF Queue, RestartApi, Answered, HandoffFails, Lapse
  <2>2. CASE Launch \/ NothingToStart \/ CreateLock \/ WriteLock \/ NothingClaimed \/ FailSetup
             \/ Release
    BY <1>2, <2>2 DEF Launch, NothingToStart, CreateLock, WriteLock, NothingClaimed, FailSetup,
       Release
  <2>3. CASE Claim \/ BeginJournal
    BY <2>3, AdvanceFits DEF Claim, BeginJournal, At, Then
  <2> QED BY <1>3, <2>1, <2>2, <2>3 DEF ApiStep, SetupStep
<1>4. CASE ExchangeStep
  <2>1. CASE Transition
    BY <2>1, AdvanceFits DEF Transition, Then, Target, PositionOK, KnownPosition, SetupSteps,
       UnswappedRow, InstalledSteps, TidySteps
  <2>2. CASE Overdue
    BY <2>2, CaughtFits DEF Overdue
  <2>3. CASE StopUsers \/ PairInstalled \/ Verify \/ Rehydrate \/ Reclaim \/ Revoke \/ StartUsers
    BY <2>3, AdvanceFits DEF StopUsers, PairInstalled, Verify, Rehydrate, Reclaim, Revoke,
       StartUsers, At, Then
  <2>4. CASE Record
    BY <2>4, AdvanceFits DEF Record, Then, PositionOK, KnownPosition, Modes, TidySteps
  <2>5. CASE \E c \in Components : Copy(c) \/ SetAside(c) \/ PutInPlace(c)
    BY <1>1, <2>5 DEF Copy, SetAside, PutInPlace
  <2> QED BY <1>4, <2>1, <2>2, <2>3, <2>4, <2>5 DEF ExchangeStep
<1>5. CASE UndoStep
  <2>1. CASE Abandon \/ AllPutBack \/ Settle
    BY <2>1, AdvanceFits DEF Abandon, AllPutBack, Settle, At, Then
  <2>2. CASE RefuseToSettle \/ \E c \in Components : RefusePutBack(c)
    BY <2>2, CaughtFits DEF RefuseToSettle, RefusePutBack
  <2>3. CASE Blame \/ Blamed
    BY <1>2, <2>3 DEF Blame, Blamed
  <2>4. CASE \E c \in Components : MoveFailedAside(c) \/ PutBack(c)
    BY <1>2, <2>4 DEF MoveFailedAside, MayPutBack, PutBack
  <2> QED BY <1>5, <2>1, <2>2, <2>3, <2>4 DEF UndoStep
<1>6. CASE TidyStep
  <2>1. CASE Discarded
    BY <2>1, AdvanceFits DEF Discarded, Then, PositionOK, KnownPosition, Modes
  <2>2. CASE Archive
    BY <2>2, AdvanceFits, CaughtFits DEF Archive, Then, PositionOK, KnownPosition, Modes
  <2>3. CASE Unlock
    BY <1>2, <2>3 DEF Unlock, Serve
  <2>4. CASE \E c \in Components : Discard(c)
    BY <1>1, <2>4 DEF Discard
  <2> QED BY <1>6, <2>1, <2>2, <2>3, <2>4 DEF TidyStep
<1>7. CASE StartStep
  BY <1>2, <1>7 DEF StartStep, StartAgain, StartClean, StartUnclaimed, StartFinish, StartRecovery,
     StartRefused
<1>8. CASE Throw \/ Crash \/ UNCHANGED vars
  BY <1>1, <1>2, <1>8, CaughtFits DEF Throw, Crash, vars
<1> QED BY <1>3, <1>4, <1>5, <1>6, <1>7, <1>8 DEF Next

LEMMA RowShape ==
  ASSUME Shape, [Next]_vars
  PROVE  row' \in [Versions -> RowStates \cup {None}]
<1>1. /\ row \in [Versions -> RowStates \cup {None}]
      /\ \A v : row[v] \in RowStates \cup {None}
           \/ v \notin Versions
  BY DEF Shape, RestoreTypeOK
<1>2. ASSUME NEW s \in RowStates \cup {None}, row' = [row EXCEPT ![Live] = s]
      PROVE  row' \in [Versions -> RowStates \cup {None}]
  BY <1>1, <1>2
<1>3. CASE Queue \/ Claim \/ FailSetup \/ Reclaim \/ Abandon \/ Settle \/ Blame \/ StartUnclaimed
  BY <1>1, <1>2, <1>3 DEF Queue, Claim, FailSetup, Reclaim, Abandon, Settle, Blame, StartUnclaimed,
     MoveRow, RowStates
<1>4. CASE Transition
  <2>1. Target[pc] \in RowStates
    BY <1>4 DEF Transition, Target, RowStates
  <2> QED BY <1>2, <1>4, <2>1 DEF Transition, MoveRow
<1>5. CASE HandoffFails \/ Rehydrate
  <2>1. CASE Live \in Versions
    BY <1>1, <1>2, <1>5, <2>1 DEF HandoffFails, Rehydrate, RowStates
  <2>2. CASE Live \notin Versions
    BY <1>1, <1>5, <2>2 DEF HandoffFails, Rehydrate
  <2> QED BY <2>1, <2>2
<1> QED BY <1>1, <1>3, <1>4, <1>5, OnlyRowSteps DEF RowStep

LEMMA FileShape ==
  ASSUME Shape, [Next]_vars
  PROVE  file' \in [Components -> [Slots -> Versions \cup {None}]]
<1>1. /\ file \in [Components -> [Slots -> Versions \cup {None}]]
      /\ "ingenium" \in Components /\ {"current", "new", "rollback", "failed"} \subseteq Slots
      /\ {None, "restored", "empty"} \subseteq Versions \cup {None}
  BY DEF Shape, RestoreTypeOK, Components, Slots, Versions
<1>2. CASE \E c \in Components :
             Copy(c) \/ SetAside(c) \/ PutInPlace(c) \/ MoveFailedAside(c) \/ PutBack(c)
  BY <1>1, <1>2 DEF Copy, SetAside, PutInPlace, MoveFailedAside, PutBack
<1>3. CASE \E c \in Components : Discard(c)
  BY <1>1, <1>3 DEF Discard
<1>4. CASE StartClean \/ StartUnclaimed \/ StartFinish \/ StartRecovery \/ StartRefused
  BY <1>1, <1>4 DEF StartClean, StartUnclaimed, StartFinish, StartRecovery, StartRefused, Entry
<1> QED BY <1>1, <1>2, <1>3, <1>4, OnlyFileSteps DEF FileStep

\* The journal, the lock and the flags.
FlagsOK ==
  /\ journal \in Phases \cup {None} /\ lock \in {None, "torn", "held"}
  /\ users \in BOOLEAN /\ handoff \in {"none", "asked", "launched"}
  /\ lapsed \in BOOLEAN /\ revoked \in BOOLEAN /\ unmerged \in BOOLEAN
  /\ faults \in 0..MaxFaults /\ crashes \in 0..MaxCrashes

LEMMA FlagsShape ==
  ASSUME FlagsOK, [Next]_vars
  PROVE  FlagsOK'
<1> USE DEF FlagsOK
<1>1. CASE ApiStep \/ Lapse \/ SetupStep
  BY <1>1 DEF ApiStep, SetupStep, Lapse, Queue, RestartApi, Asked, Launch, Answered, HandoffFails,
     NothingToStart, CreateLock, WriteLock, Claim, NothingClaimed, BeginJournal, FailSetup,
     Release, disk, Phases
<1>2. CASE ExchangeStep
  <2>1. CASE Transition \/ PairInstalled \/ Rehydrate \/ Reclaim
    BY <2>1 DEF Transition, PairInstalled, Rehydrate, Reclaim, disk
  <2>6. CASE \E c \in Components : Copy(c) \/ SetAside(c) \/ PutInPlace(c)
    BY <2>6 DEF Copy, SetAside, PutInPlace
  <2>2. CASE Overdue
    BY <2>2, Zenon DEF Overdue, disk
  <2>3. CASE StopUsers \/ Revoke
    BY <2>3 DEF StopUsers, Revoke, disk
  <2>4. CASE StartUsers
    BY <2>4, Zenon DEF StartUsers, disk
  <2>5. CASE Verify \/ Record
    BY <2>5 DEF Verify, Record, Phases
  <2> QED BY <1>2, <2>1, <2>2, <2>3, <2>4, <2>5, <2>6 DEF ExchangeStep
<1>3. CASE UndoStep
  <2>1. CASE Abandon \/ AllPutBack \/ Settle \/ RefuseToSettle \/ Blame
    BY <2>1 DEF Abandon, AllPutBack, Settle, RefuseToSettle, Blame, disk
  <2>2. CASE Blamed
    BY <2>2 DEF Blamed, Phases
  <2>3. CASE \E c \in Components : RefusePutBack(c) \/ MoveFailedAside(c) \/ PutBack(c)
    BY <2>3 DEF RefusePutBack, MoveFailedAside, PutBack, disk
  <2> QED BY <1>3, <2>1, <2>2, <2>3 DEF UndoStep
<1>4. CASE TidyStep
  BY <1>4 DEF TidyStep, Discarded, Archive, Unlock, Serve, Asked, Discard, disk
<1>5. CASE StartStep
  BY <1>5 DEF StartStep, StartAgain, StartClean, StartUnclaimed, StartFinish, StartRecovery,
     StartRefused, disk
<1>6. CASE Throw
  <2>1. faults' \in 0..MaxFaults
    BY <1>6, RestoreConstants DEF Throw
  <2>2. users' \in BOOLEAN /\ handoff' \in {"none", "asked", "launched"} /\ unmerged' \in BOOLEAN
    BY <1>6, Zenon DEF Throw
  <2> QED BY <1>6, <2>1, <2>2 DEF Throw, Phases
<1>7. CASE Crash
  <2>1. crashes' \in 0..MaxCrashes
    BY <1>7, RestoreConstants DEF Crash
  <2> QED BY <1>7, <2>1 DEF Crash, disk
<1>8. CASE UNCHANGED vars
  BY <1>8 DEF vars
<1> QED BY <1>1, <1>2, <1>3, <1>4, <1>5, <1>6, <1>7, <1>8 DEF Next

LEMMA ShapeInvariance == RestoreSpec => []Shape
<1>1. Init => Shape
  BY InitHolds DEF Shape, RestoreInv, Init, KnownPosition
<1>2. Shape /\ [Next]_vars => Shape'
  <2> SUFFICES ASSUME Shape, [Next]_vars PROVE Shape'
    OBVIOUS
  <2>1. PositionOK' /\ FlagsOK'
    BY PositionStep, FlagsShape DEF Shape, RestoreTypeOK, PositionOK, FlagsOK
  <2> QED BY <2>1, RowShape, FileShape DEF Shape, RestoreTypeOK, PositionOK, FlagsOK
<1> QED BY <1>1, <1>2, PTL DEF RestoreSpec

\* Once the row is completed a late error can no longer take it back, nor the
\* revocation: only then does the tidying begin.
Past == revoked /\ row["restored"] = "completed"

LateInv == Shape /\ (Past \/ (RestoreInv /\ ~Late))

\* Nothing is given back to a revoked database, and no edge leaves "completed".
LEMMA PastStays ==
  ASSUME Shape, Past, [Next]_vars
  PROVE  Past'
<1>1. revoked'
  <2>1. CASE ApiStep \/ Lapse \/ SetupStep
    BY <2>1 DEF Past, ApiStep, SetupStep, Lapse, Queue, RestartApi, Launch, Answered, HandoffFails,
       NothingToStart, CreateLock, WriteLock, Claim, NothingClaimed, BeginJournal, FailSetup,
       Release
  <2>2. CASE ExchangeStep
    BY <2>2 DEF Past, ExchangeStep, Transition, Overdue, StopUsers, PairInstalled, Verify,
       Rehydrate, Reclaim, Revoke, StartUsers, Record, Copy, SetAside, PutInPlace
  <2>3. CASE UndoStep
    BY <2>3 DEF Past, UndoStep, Abandon, AllPutBack, Settle, RefuseToSettle, Blame, Blamed,
       RefusePutBack, MoveFailedAside, PutBack
  <2>4. CASE TidyStep
    BY <2>4 DEF Past, TidyStep, Discarded, Archive, Unlock, Discard
  <2>5. CASE StartStep
    BY <2>5 DEF Past, StartStep, StartAgain, StartClean, StartUnclaimed, StartFinish, StartRecovery,
       StartRefused
  <2>6. CASE Throw \/ Crash \/ UNCHANGED vars
    BY <2>6 DEF Past, Throw, Crash, vars
  <2> QED BY <2>1, <2>2, <2>3, <2>4, <2>5, <2>6 DEF Next
<1>2. ASSUME RowStep PROVE row'["restored"] = "completed"
  <2>1. /\ row["restored"] = "completed" /\ "restored" \in Versions
        /\ row \in [Versions -> RowStates \cup {None}]
    BY DEF Past, Shape, RestoreTypeOK, Versions
  <2>2. CASE Queue \/ HandoffFails \/ Claim \/ Reclaim \/ Rehydrate
    BY <2>1, <2>2 DEF Queue, HandoffFails, Claim, Reclaim, Rehydrate, MoveRow, Found, None
  <2>3. CASE FailSetup \/ Transition \/ Abandon
    <3>1. Live # "restored"
      BY <2>1, <2>3 DEF FailSetup, Transition, Abandon, MayMove, Edges, Found, None
    <3> QED BY <2>1, <2>3, <3>1 DEF FailSetup, Transition, Abandon, MoveRow
  <2>4. CASE Settle \/ Blame
    <3>1. Live # "restored" \/ UNCHANGED row
      BY <2>1, <2>4 DEF Settle, Blame, MayEnd, Ended, Found, None
    <3> QED BY <2>1, <2>4, <3>1 DEF Settle, Blame, MoveRow
  <2>5. CASE StartUnclaimed
    BY <2>1, <2>5 DEF StartUnclaimed, Found, None
  <2> QED BY <1>2, <2>2, <2>3, <2>4, <2>5 DEF RowStep
<1>3. row'["restored"] = "completed"
  BY <1>2, OnlyRowSteps DEF Past
<1> QED BY <1>1, <1>3 DEF Past

\* The tidying begins with the completion.
LEMMA LateBegins ==
  ASSUME RestoreInv, ~Late, [Next]_vars, Late'
  PROVE  Past'
<1>1. Transition /\ mode = "execute" /\ pc = "complete"
  <2>1. CASE ApiStep \/ Lapse \/ SetupStep
    BY <2>1 DEF Late, ApiStep, SetupStep, Lapse, Queue, RestartApi, Launch, Answered, HandoffFails,
       NothingToStart, CreateLock, WriteLock, Claim, NothingClaimed, BeginJournal, FailSetup,
       Release, Go, At, Advance, Then
  <2>2. CASE ExchangeStep
    <3>1. CASE Transition
      BY <2>2, <3>1 DEF Late, Transition, Go, Advance, Then, Target, RestoreInv, PositionFits,
         ExecuteFits, SetupSteps, UnswappedRow, InstalledSteps, TidySteps
    <3>2. CASE Overdue
      BY <2>2, <3>2 DEF Late, Overdue, Caught, Go, At
    <3>3. CASE StopUsers \/ PairInstalled \/ Verify \/ Rehydrate \/ Reclaim \/ Revoke
      BY <3>3 DEF Late, StopUsers, PairInstalled, Verify, Rehydrate, Reclaim, Revoke, Go, At,
         Advance, Then
    <3>4. CASE StartUsers \/ Record
      BY <3>4 DEF Late, StartUsers, Record, Go, Advance, Then
    <3>5. CASE \E c \in Components : Copy(c) \/ SetAside(c) \/ PutInPlace(c)
      BY <3>5 DEF Late, Copy, SetAside, PutInPlace
    <3> QED BY <2>2, <3>1, <3>2, <3>3, <3>4, <3>5 DEF ExchangeStep
  <2>3. CASE UndoStep
    BY <2>3 DEF Late, UndoStep, Abandon, AllPutBack, Settle, RefuseToSettle, Blame, Blamed,
       RefusePutBack, MayPutBack, MoveFailedAside, PutBack, Caught, Go, At, Advance
  <2>4. CASE TidyStep
    BY <2>4 DEF Late, TidyStep, Discarded, Archive, Unlock, Serve, Discard, Caught, Go, At, Advance
  <2>5. CASE StartStep
    BY <2>5 DEF Late, StartStep, StartAgain, StartClean, StartUnclaimed, StartFinish, StartRecovery,
       StartRefused, Go
  <2>6. CASE Throw \/ Crash \/ UNCHANGED vars
    BY <2>6 DEF Late, Throw, Crash, vars, Caught, Go, At
  <2> QED BY <2>1, <2>2, <2>3, <2>4, <2>5, <2>6 DEF Next
<1>2. revoked /\ Live = "restored" /\ row \in [Versions -> RowStates \cup {None}]
  BY <1>1 DEF RestoreInv, RestoreTypeOK, PositionFits, ExecuteFits, InstalledSteps, RevokedSteps,
     New, InPlace, Live, Components
<1> QED BY <1>1, <1>2 DEF Transition, MoveRow, Target, Past, Versions

LEMMA LateInvariance == RestoreSpec => []LateInv
<1>1. Init => LateInv \/ ~Shape
  BY InitHolds DEF LateInv, Late, Init
<1>2. LateInv /\ [Next]_vars /\ Shape' => LateInv'
  BY PastStays, LateBegins, StepPreserves DEF LateInv
<1> QED BY <1>1, <1>2, ShapeInvariance, PTL DEF RestoreSpec

\* Every step keeps the files, the rows and the journal in their shape.
THEOREM RestoreTypes == RestoreSpec => []RestoreTypeOK
<1>1. Shape => RestoreTypeOK
  BY DEF Shape
<1> QED BY <1>1, ShapeInvariance, PTL

\* Nobody uses a restored database that still trusts the sessions and
\* credentials it was saved with (invalidateRestoredSecurityState comes before
\* every way to start the users on it).
ServedIsRevoked == users /\ Live = "restored" => revoked

\* Revocation precedes every way to start the users on the restored pair.
THEOREM CapabilitiesAreRevoked == RestoreSpec => []ServedIsRevoked
<1>1. LateInv => ServedIsRevoked
  BY DEF LateInv, Past, RestoreInv, ProgramsFit, PairServed, ServedIsRevoked, Old, New, InPlace,
     Live, Components
<1> QED BY <1>1, LateInvariance, PTL

\* Until the restore is completed the old pair is on disk, in place or aside.
THEOREM OldPairStays == RestoreSpec => []OldPairIsKept
<1>1. LateInv => OldPairIsKept
  BY DEF LateInv, Past, RestoreInv, DiskFits, RetainedUntilCommitted, Committed, Kept,
     OldPairIsKept, Versions
<1> QED BY <1>1, LateInvariance, PTL
=============================================================================
