--------------------------- MODULE MaintenanceLocks ---------------------------
(***************************************************************************)
(* The leases of lib/tools/maintenance-locks.ts on one resource ("skills"  *)
(* in every caller but the backups): one row per project, and one for all  *)
(* projects together.  Each function is one transaction.  The module has   *)
(* no next-state relation of its own: its callers take these steps.        *)
(***************************************************************************)
EXTENDS Integers, FiniteSets

CONSTANTS
  Projects,    \* projects.id
  Global,      \* "*"
  Tokens,      \* owner tokens (generateOwnerToken)
  NoToken,     \* no row, or owner_token IS NULL
  LockTicks    \* time-to-live in units of the renewal period (2 in the code)

ASSUME LocksAssumption ==
  /\ Global \notin Projects
  /\ NoToken \notin Tokens
  /\ LockTicks \in Nat \ {0}

VARIABLE lock  \* maintenance_locks, by project_id

Scopes == Projects \cup {Global}

\* expires_at against the clock: -1 is past, 0 is this very instant.
LockRows == [owner : Tokens \cup {NoToken}, ttl : -1..LockTicks]

LocksTypeOK == lock \in [Scopes -> LockRows]

NoLock == [owner |-> NoToken, ttl |-> -1]

LocksInit == lock = [s \in Scopes |-> NoLock]

Held(s) == lock[s].owner # NoToken

\* DELETE ... WHERE expires_at < now.  A row that expires now stays.
Pruned == [s \in Scopes |-> IF lock[s].ttl < 0 THEN NoLock ELSE lock[s]]

\* Defect: a project lock does not look at the global row.
ConflictsWithinScope(s) == IF s = Global THEN Scopes ELSE {s}

\* The rows that keep a caller from taking scope s.
Conflicts(s) == IF s = Global THEN Scopes ELSE {s, Global}

Grantable(s) == \A c \in Conflicts(s) : Pruned[c] = NoLock

AcquireLock(s, t) ==
  /\ Grantable(s)
  /\ lock' = [Pruned EXCEPT ![s] = [owner |-> t, ttl |-> LockTicks]]

\* A refused acquire has pruned nevertheless, and does no more than a cleanup.
CleanupExpiredLocks == Pruned # lock /\ lock' = Pruned

\* Defect: the time-to-live is added to the old expiry.
RenewLockFromExpiry(s, t) ==
  /\ lock[s].owner = t
  /\ lock[s].ttl > 0
  /\ lock' = [lock EXCEPT ![s].ttl = @ + LockTicks]

RenewLock(s, t) ==
  /\ lock[s].owner = t
  /\ lock[s].ttl > 0
  /\ lock' = [lock EXCEPT ![s].ttl = LockTicks]

\* By token alone, expired or not; a row of somebody else is left alone.
ReleaseLock(s, t) ==
  lock' = [lock EXCEPT ![s] = IF lock[s].owner = t THEN NoLock ELSE @]

\* getLockStatus: the row a request for project p would be refused for.
ActiveLock(p) == \E s \in {p, Global} : Held(s) /\ lock[s].ttl > 0

LocksAge ==
  lock' = [s \in Scopes |-> [lock[s] EXCEPT !.ttl = IF @ < 0 THEN -1 ELSE @ - 1]]
-----------------------------------------------------------------------------
\* A project lock and the global lock exclude one another (the conflict rules
\* of maintenance-locks.ts:4-11): no row of a project next to a row of all.
LocksExclusive ==
  \A p \in Projects : ~(Held(p) /\ Held(Global))
=============================================================================
