------------------------------ MODULE Restore ------------------------------
(***************************************************************************)
(* The fixed restore executor (restore-maintenance.ts): it stops the users *)
(* of the two databases, exchanges both files for the staged copies,       *)
(* carries the run's own rows over, revokes what the restored database     *)
(* trusted, restarts the users and cleans up; every error path and the     *)
(* recovery that a starting container runs first put the old pair back.    *)
(*                                                                         *)
(* One run is followed from its queueing on.  A database file is its       *)
(* version; the run has one row in every version of the ingenium database. *)
(* Any step may throw (MaxFaults of them), the container may die between   *)
(* any two steps (MaxCrashes times), the deadline of the run may pass.     *)
(***************************************************************************)
EXTENDS Naturals

CONSTANTS
    MaxFaults,    \* how many steps throw, over the whole behaviour
    MaxCrashes,   \* how often the container dies
    LateFaults    \* TRUE: the tidying after a completed exchange may throw, too

ASSUME RestoreConstants ==
    MaxFaults \in Nat /\ MaxCrashes \in Nat /\ LateFaults \in BOOLEAN

Components == {"ingenium", "opencode"}
None       == "none"

\* A database before the run, the staged copy, and the one a starting
\* container creates where it finds no file.
Versions == {"old", "restored", "empty"}
Slots    == {"current", "new", "rollback", "failed"}

RowStates ==
    {"queued", "start_failed", "claimed", "setup_failed", "quiescing",
     "snapshotting", "swapping", "verifying", "restarting", "completed",
     "rolling_back", "rolled_back", "rollback_failed"}

\* A signed phase is told apart only where the recovery does so.
Phases == {"underway", "completed", "rolled_back", "rollback_failed"}

VARIABLES
    file,         \* component -> slot -> version: the file and its siblings
    row,          \* version -> the run's state in that ingenium database
    journal,      \* the phase of the signed journal
    lock,         \* the lock file: absent, created but not yet written, held
    users,        \* are the programs that use the databases running?
    handoff,      \* the API's request to start the executor
    lapsed,       \* has the run's deadline passed?
    revoked,      \* did the restored database lose its capabilities?
    unmerged,     \* did carrying the rows over fail?
    mode, pc,     \* what the maintenance process does, and the step it is at
    faults, crashes

disk == <<file, journal, lock>>
vars == <<file, row, journal, lock, users, handoff, lapsed, revoked,
          unmerged, mode, pc, faults, crashes>>

-----------------------------------------------------------------------------
(* The order of the steps.                                                 *)

\* execute: the run; early: undoing it before the parents are locked; undo:
\* undoing it afterwards; recover: undoing it in a starting container; finish:
\* tidying up after a run that a starting container finds ended.
Then ==
    [execute |-> [claiming |-> "claimed", claimed |-> "quiesce",
                  quiesce |-> "stop", stop |-> "snapshot",
                  snapshot |-> "swap", swap |-> "install",
                  install |-> "verify", verify |-> "rehydrate",
                  rehydrate |-> "reclaim", reclaim |-> "revoke",
                  revoke |-> "restart", restart |-> "start",
                  start |-> "complete", complete |-> "record",
                  record |-> "discard", discard |-> "archive",
                  archive |-> "unlock"],
     early   |-> [abandon |-> "abandoned", abandoned |-> "record",
                  record |-> "start", start |-> "archive",
                  archive |-> "unlock"],
     undo    |-> [stop |-> "rollback", rollback |-> "check",
                  check |-> "settle", settle |-> "record",
                  record |-> "start", start |-> "discard",
                  discard |-> "archive", archive |-> "unlock"],
     recover |-> [rollback |-> "check", check |-> "settle",
                  settle |-> "discard", discard |-> "record",
                  record |-> "archive", archive |-> "unlock"],
     finish  |-> [discard |-> "archive", archive |-> "unlock"]]

Modes == {"idle", "execute", "early", "undo", "recover", "finish",
          "down", "refused"}
Steps == {"none", "starting", "locking", "failing", "release", "replace",
          "blame", "blamed", "claiming", "claimed", "quiesce", "stop",
          "snapshot", "swap", "install", "verify", "rehydrate", "reclaim",
          "revoke", "restart", "start", "complete", "record", "discard",
          "archive", "unlock", "abandon", "abandoned", "rollback", "check",
          "settle"}

-----------------------------------------------------------------------------
(* The run's row.                                                          *)

\* The edges the update trigger of migration 084 admits.
Edges ==
    {<<"queued", "start_failed">>, <<"queued", "claimed">>,
     <<"claimed", "setup_failed">>, <<"claimed", "quiescing">>,
     <<"quiescing", "snapshotting">>, <<"snapshotting", "swapping">>,
     <<"swapping", "verifying">>, <<"verifying", "restarting">>,
     <<"restarting", "completed">>,
     <<"rolling_back", "rolled_back">>, <<"rolling_back", "rollback_failed">>}
    \cup {<<s, "rolling_back">> : s \in {"claimed", "quiescing",
            "snapshotting", "swapping", "verifying", "restarting"}}

\* The database that is opened is the one in place.
Live == file["ingenium"]["current"]

Found == IF Live = None THEN None ELSE row[Live]

MayMove(to) == <<Found, to>> \in Edges
MoveRow(to) == row' = [row EXCEPT ![Live] = to]

\* The steps that are a single transition of the row under the deadline.
Target ==
    [quiesce   |-> "quiescing",  snapshot |-> "snapshotting",
     swap      |-> "swapping",   restart  |-> "restarting",
     complete  |-> "completed",  abandoned |-> "rolled_back"]

Ended == {"completed", "rolled_back", "rollback_failed"}

\* Ending a run without its owner's tokens: an ended run must have ended so,
\* a run that never left its setup cannot be rolled back, and a database that
\* does not know the run gets its rows while the authorization lasts.
MayEnd(outcome) ==
    CASE Found \in Ended -> Found = outcome
      [] Found = None     -> Live = "restored" /\ ~lapsed
      [] OTHER -> Found \in {"queued", "rolling_back"}
                    \/ MayMove("rolling_back")

-----------------------------------------------------------------------------
(* Where the process goes.                                                 *)

At(m, p) == mode = m /\ pc = p
Go(m, p) == mode' = m /\ pc' = p

\* Defect: what the restored database trusts is not revoked.
AdvanceUnrevoked ==
    Go(mode, IF pc = "reclaim" THEN "restart" ELSE Then[mode][pc])

\* Defect: the siblings are removed before the row is completed.
AdvanceTidyFirst ==
    Go(mode, CASE mode = "execute" /\ pc = "start"   -> "discard"
               [] mode = "execute" /\ pc = "discard" -> "complete"
               [] mode = "execute" /\ pc = "record"  -> "archive"
               [] OTHER -> Then[mode][pc])

\* Defect: an undone run archives its journal before the users run again.
AdvanceArchiveFirst ==
    Go(mode, CASE mode = "undo" /\ pc = "record"  -> "discard"
               [] mode = "undo" /\ pc = "archive" -> "start"
               [] mode = "undo" /\ pc = "start"   -> "unlock"
               [] OTHER -> Then[mode][pc])

Advance == Go(mode, Then[mode][pc])

\* The catch blocks: what an error thrown at the present step leads to.
Caught ==
    \/ /\ mode = "execute" /\ pc \in {"starting", "locking", "release"}
       /\ Go("idle", "none")
    \/ At("execute", "claimed") /\ Go("execute", "failing")
    \/ /\ mode = "execute" /\ pc \in {"claiming", "failing"}
       /\ Go("execute", "release")
    \/ /\ mode = "execute" /\ pc \in {"quiesce", "stop"}
       /\ Go("early", "abandon")
    \/ /\ mode = "execute"
       /\ pc \notin {"starting", "locking", "release", "claimed", "claiming",
                      "failing", "quiesce", "stop"}
       /\ Go("undo", "stop")
    \/ mode \in {"early", "undo"} /\ Go("idle", "none")
    \/ /\ mode = "recover" /\ pc \notin {"blame", "blamed"}
       /\ Go("recover", "blame")
    \/ /\ mode = "finish" \/ (mode = "recover" /\ pc \in {"blame", "blamed"})
       /\ Go("refused", "none")

Init ==
    /\ file = [c \in Components |->
                 [s \in Slots |-> IF s = "current" THEN "old" ELSE None]]
    /\ row = [v \in Versions |-> None]
    /\ journal = None /\ lock = None
    /\ users = TRUE /\ handoff = "none" /\ lapsed = FALSE
    /\ revoked = FALSE /\ unmerged = FALSE
    /\ mode = "idle" /\ pc = "none"
    /\ faults = 0 /\ crashes = 0

-----------------------------------------------------------------------------
(* The API.                                                                *)

\* A request is recorded once; a repetition only asks for the executor again.
Queue ==
    /\ users /\ handoff = "none"
    /\ row' = IF Found = None THEN [row EXCEPT ![Live] = "queued"] ELSE row
    /\ handoff' = "asked"
    /\ UNCHANGED <<disk, users, lapsed, revoked, unmerged, mode, pc, faults, crashes>>

\* The API alone is restarted: it asks again for the executor of a queued run.
Asked == IF Found = "queued" /\ ~lapsed THEN "asked" ELSE "none"
RestartApi ==
    /\ users /\ handoff' = Asked
    /\ UNCHANGED <<disk, row, users, lapsed, revoked, unmerged, mode, pc, faults, crashes>>

\* The handoff starts the program; the answer is still on its way.
Launch ==
    /\ mode = "idle" /\ handoff = "asked"
    /\ handoff' = "launched" /\ Go("execute", "starting")
    /\ UNCHANGED <<disk, row, users, lapsed, revoked, unmerged, faults, crashes>>

\* (A program that runs already is as good as started.)
Answered ==
    /\ handoff = "launched" \/ (handoff = "asked" /\ mode # "idle")
    /\ handoff' = "none"
    /\ UNCHANGED <<disk, row, users, lapsed, revoked, unmerged, mode, pc, faults, crashes>>

\* Defect: a run that was claimed meanwhile is failed as well.
HandoffFailsAny ==
    /\ handoff # "none" /\ handoff' = "none"
    /\ row' = [row EXCEPT ![Live] = "start_failed"]
    /\ UNCHANGED <<disk, users, lapsed, revoked, unmerged, mode, pc, faults, crashes>>

\* The handoff is refused or its answer comes too late: only a run that is
\* still queued is failed.
HandoffFails ==
    /\ handoff # "none" /\ handoff' = "none"
    /\ row' = [row EXCEPT ![Live] = IF @ = "queued" THEN "start_failed" ELSE @]
    /\ UNCHANGED <<disk, users, lapsed, revoked, unmerged, mode, pc, faults, crashes>>

\* Fifteen minutes after it was queued the run's deadline passes.
Lapse ==
    /\ ~lapsed /\ \E v \in Versions : row[v] # None
    /\ lapsed' = TRUE
    /\ UNCHANGED <<disk, row, users, handoff, revoked, unmerged, mode, pc, faults, crashes>>

-----------------------------------------------------------------------------
(* The setup, before the journal exists.                                   *)

\* Leftovers of an earlier run, or nothing to do.
NothingToStart ==
    /\ At("execute", "starting")
    /\ journal # None \/ lock # None \/ row[Live] # "queued" \/ lapsed
    /\ Go("idle", "none")
    /\ UNCHANGED <<disk, row, users, handoff, lapsed, revoked, unmerged, faults, crashes>>

CreateLock ==
    /\ At("execute", "starting")
    /\ journal = None /\ lock = None /\ row[Live] = "queued" /\ ~lapsed
    /\ lock' = "torn" /\ Go("execute", "locking")
    /\ UNCHANGED <<file, journal, row, users, handoff, lapsed, revoked, unmerged, faults, crashes>>

WriteLock ==
    /\ At("execute", "locking")
    /\ lock' = "held" /\ Go("execute", "claiming")
    /\ UNCHANGED <<file, journal, row, users, handoff, lapsed, revoked, unmerged, faults, crashes>>

Claim ==
    /\ At("execute", "claiming")
    /\ row[Live] = "queued" /\ ~lapsed
    /\ MoveRow("claimed") /\ Advance
    /\ UNCHANGED <<disk, users, handoff, lapsed, revoked, unmerged, faults, crashes>>

\* The run was failed by the API meanwhile, or its deadline passed.
NothingClaimed ==
    /\ At("execute", "claiming")
    /\ row[Live] # "queued" \/ lapsed
    /\ Go("execute", "release")
    /\ UNCHANGED <<disk, row, users, handoff, lapsed, revoked, unmerged, faults, crashes>>

\* The staged copies are validated and the journal is written and read back.
BeginJournal ==
    /\ At("execute", "claimed") /\ ~lapsed
    /\ journal' = "underway" /\ Advance
    /\ UNCHANGED <<file, lock, row, users, handoff, lapsed, revoked, unmerged, faults, crashes>>

FailSetup ==
    /\ At("execute", "failing")
    /\ MayMove("setup_failed") /\ MoveRow("setup_failed")
    /\ Go("execute", "release")
    /\ UNCHANGED <<disk, users, handoff, lapsed, revoked, unmerged, faults, crashes>>

Release ==
    /\ At("execute", "release")
    /\ lock' = None /\ Go("idle", "none")
    /\ UNCHANGED <<file, journal, row, users, handoff, lapsed, revoked, unmerged, faults, crashes>>

-----------------------------------------------------------------------------
(* The exchange.                                                           *)

Transition ==
    /\ mode \in {"execute", "early"} /\ pc \in DOMAIN Target
    /\ ~lapsed /\ MayMove(Target[pc])
    /\ MoveRow(Target[pc]) /\ Advance
    /\ UNCHANGED <<disk, users, handoff, lapsed, revoked, unmerged, faults, crashes>>

\* The deadline is checked by every transition, and by the trigger that
\* admits the carried-over run.
Overdue ==
    /\ mode \in {"execute", "early"} /\ lapsed
    /\ pc \in DOMAIN Target \cup {"claimed", "rehydrate", "reclaim"}
    /\ unmerged' = (unmerged \/ pc = "rehydrate")
    /\ Caught
    /\ UNCHANGED <<disk, row, users, handoff, lapsed, revoked, faults, crashes>>

\* Every user is stopped and waited for, and no other process holds a file
\* open; with the API goes its request.
StopUsers ==
    /\ mode \in {"execute", "undo"} /\ pc = "stop"
    /\ users' = FALSE /\ handoff' = "none" /\ Advance
    /\ UNCHANGED <<disk, row, lapsed, revoked, unmerged, faults, crashes>>

AllInPlace == \A c \in Components : file[c]["current"] # None

\* The ingenium file is exchanged first.
Installed(c) == file[c]["rollback"] # None /\ file[c]["new"] = None
MayInstall(c) ==
    At("execute", "install") /\ (c = "opencode" => Installed("ingenium"))

Copy(c) ==
    /\ MayInstall(c)
    /\ file[c]["new"] = None /\ file[c]["rollback"] = None
    /\ file' = [file EXCEPT ![c]["new"] = "restored"]
    /\ UNCHANGED <<journal, lock, row, users, handoff, lapsed, revoked, unmerged, mode, pc, faults, crashes>>

SetAside(c) ==
    /\ MayInstall(c)
    /\ file[c]["new"] # None /\ file[c]["rollback"] = None
    /\ file' = [file EXCEPT ![c]["rollback"] = file[c]["current"],
                            ![c]["current"] = None]
    /\ UNCHANGED <<journal, lock, row, users, handoff, lapsed, revoked, unmerged, mode, pc, faults, crashes>>

PutInPlace(c) ==
    /\ MayInstall(c)
    /\ file[c]["new"] # None /\ file[c]["rollback"] # None
    /\ file' = [file EXCEPT ![c]["current"] = file[c]["new"],
                            ![c]["new"] = None]
    /\ UNCHANGED <<journal, lock, row, users, handoff, lapsed, revoked, unmerged, mode, pc, faults, crashes>>

PairInstalled ==
    /\ At("execute", "install") /\ \A c \in Components : Installed(c)
    /\ Advance
    /\ UNCHANGED <<disk, row, users, handoff, lapsed, revoked, unmerged, faults, crashes>>

\* Hashes and schema of the installed pair (execute), integrity of the pair
\* put back (undo, recover): both files must be there.  The undoing executor
\* then marks its journal as underway, whatever it said.
Verify ==
    /\ At("execute", "verify") \/ (mode \in {"undo", "recover"} /\ pc = "check")
    /\ AllInPlace
    /\ journal' = IF mode = "undo" THEN "underway" ELSE journal
    /\ Advance
    /\ UNCHANGED <<file, lock, row, users, handoff, lapsed, revoked, unmerged, faults, crashes>>

\* The restored database gets the run's rows, as a queued run.
Rehydrate ==
    /\ At("execute", "rehydrate") /\ ~lapsed
    /\ row' = [row EXCEPT ![Live] = IF @ = None THEN "queued" ELSE @]
    /\ Advance
    /\ UNCHANGED <<disk, users, handoff, lapsed, revoked, unmerged, faults, crashes>>

\* The run is claimed again and taken to verifying in the restored database.
Reclaim ==
    /\ At("execute", "reclaim") /\ ~lapsed /\ row[Live] = "queued"
    /\ MoveRow("verifying") /\ Advance
    /\ UNCHANGED <<disk, users, handoff, lapsed, revoked, unmerged, faults, crashes>>

Revoke ==
    /\ At("execute", "revoke") /\ row[Live] = "verifying"
    /\ revoked' = TRUE /\ Advance
    /\ UNCHANGED <<disk, row, users, handoff, lapsed, unmerged, faults, crashes>>

StartUsers ==
    /\ mode \in {"execute", "early", "undo"} /\ pc = "start"
    /\ users' = (users \/ ~unmerged) /\ Advance
    /\ UNCHANGED <<disk, row, handoff, lapsed, revoked, unmerged, faults, crashes>>

\* The journal takes the run's end.
Record ==
    /\ pc = "record"
    /\ journal' = IF mode = "execute" THEN "completed" ELSE "rolled_back"
    /\ Advance
    /\ UNCHANGED <<file, lock, row, users, handoff, lapsed, revoked, unmerged, faults, crashes>>

-----------------------------------------------------------------------------
(* Tidying up.                                                             *)

Siblings == {"new", "rollback", "failed"}
Bare(c)  == \A s \in Siblings : file[c][s] = None

\* The siblings of ingenium are removed before those of opencode.
Discard(c) ==
    /\ pc = "discard" /\ ~Bare(c) /\ (c = "opencode" => Bare("ingenium"))
    /\ file' = [file EXCEPT ![c] =
                  [s \in Slots |-> IF s \in Siblings THEN None ELSE @[s]]]
    /\ UNCHANGED <<journal, lock, row, users, handoff, lapsed, revoked, unmerged, mode, pc, faults, crashes>>

Discarded ==
    /\ pc = "discard" /\ \A c \in Components : Bare(c)
    /\ Advance
    /\ UNCHANGED <<disk, row, users, handoff, lapsed, revoked, unmerged, faults, crashes>>

\* A starting container gives the files back their owners first, and refuses
\* when one is missing.
Archive ==
    /\ pc = "archive"
    /\ IF mode = "finish" => AllInPlace THEN journal' = None /\ Advance
                                        ELSE journal' = journal /\ Caught
    /\ UNCHANGED <<file, lock, row, users, handoff, lapsed, revoked, unmerged, faults, crashes>>

\* The supervisor starts every user, and a starting API asks again for the
\* executor of a queued run.
Serve ==
    /\ users' = TRUE
    /\ handoff' = Asked /\ Go("idle", "none")

Unlock ==
    /\ pc = "unlock" /\ lock' = None
    /\ \/ mode \in {"recover", "finish"} /\ Serve
       \/ mode \notin {"recover", "finish"} /\ Go("idle", "none")
            /\ UNCHANGED <<users, handoff>>
    /\ UNCHANGED <<file, journal, row, lapsed, revoked, unmerged, faults, crashes>>

-----------------------------------------------------------------------------
(* Undoing.                                                                *)

\* Before the parents are locked no file was touched: the row is ended by
\* its owner, without regard to the deadline at first.
Abandon ==
    /\ At("early", "abandon") /\ MayMove("rolling_back")
    /\ MoveRow("rolling_back") /\ Advance
    /\ UNCHANGED <<disk, users, handoff, lapsed, revoked, unmerged, faults, crashes>>

\* The opencode file is put back first; what is in place is kept as failed.
MayPutBack(c) ==
    /\ mode \in {"undo", "recover"} /\ pc = "rollback"
    /\ file[c]["rollback"] # None
    /\ c = "ingenium" => file["opencode"]["rollback"] = None

MoveFailedAside(c) ==
    /\ MayPutBack(c) /\ file[c]["failed"] = None
    /\ file' = [file EXCEPT ![c]["failed"] = file[c]["current"],
                            ![c]["current"] = None]
    /\ Go(mode, "replace")
    /\ UNCHANGED <<journal, lock, row, users, handoff, lapsed, revoked, unmerged, faults, crashes>>

PutBack(c) ==
    /\ mode \in {"undo", "recover"} /\ pc = "replace"
    /\ file[c]["rollback"] # None
    /\ c = "ingenium" => file["opencode"]["rollback"] = None
    /\ file' = [file EXCEPT ![c]["current"] = file[c]["rollback"],
                            ![c]["rollback"] = None]
    /\ Go(mode, "rollback")
    /\ UNCHANGED <<journal, lock, row, users, handoff, lapsed, revoked, unmerged, faults, crashes>>

\* A failed file of an earlier attempt is never overwritten.
RefusePutBack(c) ==
    /\ MayPutBack(c) /\ file[c]["failed"] # None
    /\ Caught
    /\ UNCHANGED <<disk, row, users, handoff, lapsed, revoked, unmerged, faults, crashes>>

\* Defect: one file is put back.
OnePutBack ==
    /\ mode \in {"undo", "recover"} /\ pc = "rollback"
    /\ \E c \in Components : file[c]["rollback"] = None
    /\ Advance
    /\ UNCHANGED <<disk, row, users, handoff, lapsed, revoked, unmerged, faults, crashes>>

AllPutBack ==
    /\ mode \in {"undo", "recover"} /\ pc = "rollback"
    /\ \A c \in Components : file[c]["rollback"] = None
    /\ Advance
    /\ UNCHANGED <<disk, row, users, handoff, lapsed, revoked, unmerged, faults, crashes>>

Settle ==
    /\ mode \in {"undo", "recover"} /\ pc = "settle"
    /\ MayEnd("rolled_back") /\ MoveRow("rolled_back") /\ Advance
    /\ UNCHANGED <<disk, users, handoff, lapsed, revoked, unmerged, faults, crashes>>

RefuseToSettle ==
    /\ mode \in {"undo", "recover"} /\ pc = "settle"
    /\ ~MayEnd("rolled_back") /\ Caught
    /\ UNCHANGED <<disk, row, users, handoff, lapsed, revoked, unmerged, faults, crashes>>

\* A recovery that failed says so in the row and in the journal, where it can.
Blame ==
    /\ At("recover", "blame")
    /\ \/ MayEnd("rollback_failed") /\ MoveRow("rollback_failed") /\ Go("recover", "blamed")
       \/ ~MayEnd("rollback_failed") /\ Go("refused", "none") /\ UNCHANGED row
    /\ UNCHANGED <<disk, users, handoff, lapsed, revoked, unmerged, faults, crashes>>

\* Defect: the journal gets a phase that no recovery knows.
BlamedOtherwise ==
    /\ At("recover", "blamed")
    /\ journal' = "failed" /\ Go("refused", "none")
    /\ UNCHANGED <<file, lock, row, users, handoff, lapsed, revoked, unmerged, faults, crashes>>

Blamed ==
    /\ At("recover", "blamed")
    /\ journal' = "rollback_failed" /\ Go("refused", "none")
    /\ UNCHANGED <<file, lock, row, users, handoff, lapsed, revoked, unmerged, faults, crashes>>

-----------------------------------------------------------------------------
(* Faults.                                                                 *)

\* The step throws.  A stop or a start may have reached some of the users, and
\* the first journal may be written but not read back.
Throw ==
    /\ mode \in {"execute", "early", "undo", "recover", "finish"}
    /\ faults < MaxFaults /\ faults' = faults + 1
    /\ LateFaults \/ ~(mode = "execute" /\ pc \in {"record", "discard", "archive", "unlock"})
    /\ \/ pc = "stop"  /\ users' \in {users, FALSE}
       \/ pc = "start" /\ ~unmerged /\ users' \in {users, TRUE}
       \/ pc \notin {"stop", "start"} /\ users' = users
    /\ handoff' = IF users' THEN handoff ELSE "none"
    /\ journal' \in {journal} \cup {p \in {"underway"} : pc = "claimed"}
    /\ unmerged' = (unmerged \/ At("execute", "rehydrate"))
    /\ Caught
    /\ UNCHANGED <<file, lock, row, lapsed, revoked, crashes>>

Crash ==
    /\ mode \notin {"down", "refused"}
    /\ crashes < MaxCrashes /\ crashes' = crashes + 1
    /\ users' = FALSE /\ handoff' = "none" /\ unmerged' = FALSE
    /\ Go("down", "none")
    /\ UNCHANGED <<disk, row, lapsed, revoked, faults>>

\* A container that refused to start is started again.
StartAgain ==
    /\ mode = "refused" /\ Go("down", "none")
    /\ UNCHANGED <<disk, row, users, handoff, lapsed, revoked, unmerged, faults, crashes>>

-----------------------------------------------------------------------------
(* A starting container.  The start script creates a database where there  *)
(* is none, then lets the maintenance program recover; only its success    *)
(* starts the users.                                                       *)

Entry == file' = [file EXCEPT !["ingenium"]["current"] = IF @ = None THEN "empty" ELSE @]
StartClean ==
    /\ mode = "down" /\ journal = None /\ lock = None
    /\ Entry /\ users' = TRUE
    /\ handoff' = IF Found = "queued" /\ ~lapsed THEN "asked" ELSE "none"
    /\ Go("idle", "none")
    /\ UNCHANGED <<journal, lock, row, lapsed, revoked, unmerged, faults, crashes>>

\* A lock without a journal: the run was at most claimed.
StartUnclaimed ==
    /\ mode = "down"
    /\ journal = None /\ lock = "held" /\ Found \in {None, "queued", "claimed"}
    /\ row' = IF Found = "claimed" THEN [row EXCEPT ![Live] = "setup_failed"] ELSE row
    /\ Entry /\ Go("finish", "unlock")
    /\ UNCHANGED <<journal, lock, users, handoff, lapsed, revoked, unmerged, faults, crashes>>

StartFinish ==
    /\ mode = "down" /\ lock # "torn"
    /\ \/ journal = "completed" /\ Go("finish", "discard")
       \/ journal = "rolled_back" /\ Go("finish", "archive")
    /\ Entry
    /\ UNCHANGED <<journal, lock, row, users, handoff, lapsed, revoked, unmerged, faults, crashes>>

StartRecovery ==
    /\ mode = "down" /\ lock # "torn" /\ journal = "underway"
    /\ Entry /\ Go("recover", "rollback")
    /\ UNCHANGED <<journal, lock, row, users, handoff, lapsed, revoked, unmerged, faults, crashes>>

StartRefused ==
    /\ mode = "down"
    /\ \/ lock = "torn"
       \/ journal = "rollback_failed"
       \/ journal = None /\ lock = "held" /\ Found \notin {None, "queued", "claimed"}
    /\ Entry /\ Go("refused", "none")
    /\ UNCHANGED <<journal, lock, row, users, handoff, lapsed, revoked, unmerged, faults, crashes>>

-----------------------------------------------------------------------------

ApiStep == Queue \/ RestartApi \/ Launch \/ Answered \/ HandoffFails
SetupStep ==
    \/ NothingToStart \/ CreateLock \/ WriteLock \/ Claim \/ NothingClaimed
    \/ BeginJournal \/ FailSetup \/ Release
ExchangeStep ==
    \/ Transition \/ Overdue \/ StopUsers \/ PairInstalled \/ Verify
    \/ Rehydrate \/ Reclaim \/ Revoke \/ StartUsers \/ Record
    \/ \E c \in Components : Copy(c) \/ SetAside(c) \/ PutInPlace(c)
UndoStep ==
    \/ Abandon \/ AllPutBack \/ Settle \/ RefuseToSettle \/ Blame \/ Blamed
    \/ \E c \in Components : MoveFailedAside(c) \/ PutBack(c) \/ RefusePutBack(c)
TidyStep ==
    \/ Discarded \/ Archive \/ Unlock
    \/ \E c \in Components : Discard(c)
StartStep ==
    \/ StartClean \/ StartUnclaimed \/ StartFinish \/ StartRecovery
    \/ StartRefused \/ StartAgain

Next ==
    \/ ApiStep \/ Lapse \/ SetupStep \/ ExchangeStep \/ UndoStep \/ TidyStep
    \/ StartStep \/ Throw \/ Crash

RestoreSpec == Init /\ [][Next]_vars

-----------------------------------------------------------------------------
(* Properties.                                                             *)

\* Type invariant.
RestoreTypeOK ==
    /\ file \in [Components -> [Slots -> Versions \cup {None}]]
    /\ row \in [Versions -> RowStates \cup {None}]
    /\ journal \in Phases \cup {None} /\ lock \in {None, "torn", "held"}
    /\ users \in BOOLEAN /\ handoff \in {"none", "asked", "launched"}
    /\ lapsed \in BOOLEAN /\ revoked \in BOOLEAN /\ unmerged \in BOOLEAN
    /\ mode \in Modes /\ pc \in Steps
    /\ faults \in 0..MaxFaults /\ crashes \in 0..MaxCrashes

InPlace(v) == \A c \in Components : file[c]["current"] = v

\* The databases are exchanged and put back as a pair: wherever a step threw
\* or the container died, whoever uses them finds both old or both restored,
\* never one of each (installComponent, rollbackComponent and the order of
\* the journal's phases around them).
ServedPairMatches == users => InPlace("old") \/ InPlace("restored")

\* Until the row says that the restore is completed, the old pair is on disk,
\* in place or next to it, so that it can be put back (removeTransientPair).
OldPairIsKept ==
    \/ \E v \in Versions : row[v] = "completed"
    \/ \A c \in Components : "old" \in {file[c]["current"], file[c]["rollback"]}

\* Once the programs run and no journal and lock are left, the row tells what
\* they run on: a run that got as far as stopping them has ended, completed
\* with the restored pair in place and in no other way.  (A run may stay
\* claimed for good when failing its setup fails, too.)
OutcomeTellsPair ==
    users /\ mode = "idle" /\ journal = None /\ lock = None =>
      /\ row[Live] \in {None, "queued", "start_failed", "claimed", "setup_failed",
                        "rolled_back", "completed"}
      /\ row[Live] = "completed" <=> InPlace("restored")

\* Programs that an executor left stopped are never without a journal that
\* tells the next start what to do, unless it kept them down on purpose
\* because the rows could not be carried over.
StoppedHasEvidence ==
    mode = "idle" /\ ~users => journal # None \/ unmerged

\* The pair that the programs run on, if they do: a restored pair counts when
\* its database trusts nobody it was saved with.
Serving ==
    CASE ~users -> "nothing"
      [] users /\ InPlace("old") -> "old"
      [] users /\ InPlace("restored") /\ revoked -> "restored"
      [] OTHER -> "mixed"

\* What has become of the run.  The journal decides: a starting container
\* undoes a run whose row is completed when the journal does not say so yet.
Fate ==
    IF row["old"] \in {"start_failed", "setup_failed", "rolled_back", "rollback_failed"}
      THEN "dropped"
      ELSE IF journal = "completed" \/ (journal = None /\ row["restored"] = "completed")
             THEN "done"
             ELSE "open"

\* For the programs, the restore is one atomic exchange of the pair while they
\* are stopped, or none at all, and its outcome is never taken back: neither by
\* a step that throws nor by the recovery of a starting container.
Contract == INSTANCE ExchangeContract WITH serving <- Serving, fate <- Fate

ImplementsContract == Contract!ContractSpec
=============================================================================
