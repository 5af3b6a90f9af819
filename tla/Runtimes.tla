------------------------------ MODULE Runtimes ------------------------------
(***************************************************************************)
(* Isolated user runtimes: one database row and at most one container per  *)
(* workspace.  Five kinds of actors work on them: the provisioning of a    *)
(* workspace (runtime-provisioner.ts), the stop and revoke routes          *)
(* (routes/runtimes.ts), the passes of the reconciler                      *)
(* (runtime-reconciler.ts), the gateway's browser connections, and the     *)
(* runtime manager, a separate process that owns the containers and goes   *)
(* on with a request after its client has given up.                        *)
(*                                                                         *)
(* Every write of a row raises its revision and every writer compares the  *)
(* revision it read.  Only equality matters, so the model keeps, for each  *)
(* workspace, the holders whose last read of the row is still current.     *)
(***************************************************************************)
EXTENDS Integers, FiniteSets

CONSTANTS
  Workspaces,   \* authorized workspaces of one owner, one runtime row each
  Callers,      \* concurrent stop and revoke requests
  Passes,       \* reconciler passes that may overlap (setInterval)
  Ids,          \* identities of a provisioning: its capability and its container
  None,
  MaxActive,    \* INGENIUM_RUNTIME_MAX_ACTIVE_PER_USER
  MaxConns,     \* bound: browser connections open at once
  MaxFaults     \* bound: crashes, timeouts and manager failures in a behaviour

ASSUME RuntimesAssumption ==
  /\ IsFiniteSet(Workspaces)
  /\ MaxActive \in Nat \ {0}
  /\ MaxConns \in Nat
  /\ MaxFaults \in Nat
  /\ None \notin Workspaces \cup Callers \cup Passes \cup Ids \cup {"ok", "failed"}
  /\ {"ok", "failed"} \cap Ids = {}
  /\ Workspaces \cap Callers = {}
  /\ Workspaces \cap Passes = {}
  /\ Callers \cap Passes = {}

VARIABLES
  row,       \* runtime_instances
  cap,       \* the provisioning whose capability is bound and not revoked
  box,       \* the container the manager keeps under the runtime's name
  session,   \* the owner holds a valid browser session for the runtime
  open,      \* connections the gateway holds open under that session; those
             \* of a session that ended linger there and are reported in vain
  task,      \* what each holder is doing
  pass,      \* the snapshot a reconciler pass works from
  ops,       \* requests the manager has not finished
  current,   \* holders whose last read of the row has its present revision
  faults     \* faults left

vars == <<row, cap, box, session, open, task, pass, ops, current, faults>>

-----------------------------------------------------------------------------
(* A provisioning is held by its workspace: ensureRuntime keeps one promise *)
(* per workspace in flight.                                                *)
Holders == Workspaces \cup Callers \cup Passes

States == {"ABSENT", "PROVISIONING", "STARTING", "READY", "IDLE", "STOPPING",
           "STOPPED", "FAILED", "REVOKED"}
Running == {"READY", "IDLE"}
InTransit == {"PROVISIONING", "STARTING", "STOPPING"}
Active == InTransit \cup Running

TRANSITIONS ==
  [s \in States |->
    CASE s = "ABSENT"       -> {"PROVISIONING", "REVOKED"}
      [] s = "PROVISIONING" -> {"STARTING", "FAILED", "STOPPING", "REVOKED"}
      [] s = "STARTING"     -> {"READY", "FAILED", "STOPPING", "REVOKED"}
      [] s = "READY"        -> {"IDLE", "STOPPING", "FAILED", "REVOKED"}
      [] s = "IDLE"         -> {"READY", "STOPPING", "FAILED", "REVOKED"}
      [] s = "STOPPING"     -> {"STOPPED", "FAILED", "REVOKED"}
      [] s = "STOPPED"      -> {"PROVISIONING", "REVOKED"}
      [] s = "FAILED"       -> {"PROVISIONING", "STOPPING", "REVOKED"}
      [] s = "REVOKED"      -> {}]

NoBox == [id |-> None, state |-> "absent"]
NoTask == [pc |-> "idle", w |-> None, id |-> None, ans |-> None]
NoPass == [todo |-> {}, failed |-> {}, saw |-> NoBox]

Rows == [state : States, lease : {"none", "live", "lapsed"}, lapsed : BOOLEAN,
         backend : Ids \cup {None}, conns : 0..MaxConns]
Boxes == [id : Ids, state : {"created", "running", "exited"}] \cup {NoBox}
Tasks == [pc : {"idle", "waiting", "removing", "stopping", "tearing", "clearing",
                "purging", "visiting", "inspected", "cleaning", "expiring"},
          w : Workspaces \cup {None}, id : Ids \cup {None},
          ans : {None, "ok", "failed"} \cup Ids]
PassStates == [todo : SUBSET Workspaces, failed : SUBSET Workspaces, saw : Boxes]
Ops == [op : {"provision", "stop", "remove"}, w : Workspaces,
        for : Holders \cup {None}, id : Ids \cup {None},
        step : {"begin", "create", "check", "start", "report", "undo"}]

\* Every variable keeps its shape: states, leases and counters of the rows,
\* the containers, the requests under way.
RuntimesTypeOK ==
  /\ row \in [Workspaces -> Rows]
  /\ cap \in [Workspaces -> Ids \cup {None}]
  /\ box \in [Workspaces -> Boxes]
  /\ session \in [Workspaces -> BOOLEAN]
  /\ open \in [Workspaces -> 0..MaxConns]
  /\ task \in [Holders -> Tasks]
  /\ pass \in [Passes -> PassStates]
  /\ ops \subseteq Ops
  /\ current \in [Workspaces -> SUBSET Holders]
  /\ faults \in 0..MaxFaults

Init ==
  /\ row = [w \in Workspaces |-> [state |-> "ABSENT", lease |-> "none",
              lapsed |-> FALSE, backend |-> None, conns |-> 0]]
  /\ cap = [w \in Workspaces |-> None]
  /\ box = [w \in Workspaces |-> NoBox]
  /\ session = [w \in Workspaces |-> FALSE]
  /\ open = [w \in Workspaces |-> 0]
  /\ task = [h \in Holders |-> NoTask]
  /\ pass = [p \in Passes |-> NoPass]
  /\ ops = {}
  /\ current = [w \in Workspaces |-> {}]
  /\ faults = MaxFaults

-----------------------------------------------------------------------------
(* Writes and requests                                                     *)

\* The row after a transition to state `to`: a state that ends the lease also
\* zeroes the activity counters.
Transition(r, to) ==
  IF to \in {"STOPPED", "FAILED", "REVOKED"}
  THEN [r EXCEPT !.state = to, !.lease = "none", !.conns = 0]
  ELSE [r EXCEPT !.state = to]

\* Holder h writes the row of w: every other reader's revision is old.
Write(h, w, r) ==
  /\ row' = [row EXCEPT ![w] = r]
  /\ current' = [current EXCEPT ![w] = {h}]

\* The last write of a holder that ends with it.
WriteAndGo(w, r) ==
  /\ row' = [row EXCEPT ![w] = r]
  /\ current' = [current EXCEPT ![w] = {}]

Leave(h, w) ==
  /\ current' = [current EXCEPT ![w] = @ \ {h}]
  /\ UNCHANGED row

Request(op, h, w, id) ==
  ops' = ops \cup {[op |-> op, w |-> w, for |-> h, id |-> id, step |-> "begin"]}

Await(h, w, id, pc) ==
  task' = [task EXCEPT ![h] = [pc |-> pc, w |-> w, id |-> id, ans |-> None]]

Done(h) == task' = [task EXCEPT ![h] = NoTask]

Advance(o, step) ==
  /\ ops' = (ops \ {o}) \cup {[o EXCEPT !.step = step]}
  /\ UNCHANGED task

\* A provisioning is answered by the container that bears the name by then.
Answer(o, ans) ==
  /\ ops' = ops \ {o}
  /\ task' = IF o.for = None THEN task ELSE [task EXCEPT ![o.for].ans = ans]

\* Identities nothing refers to stand for fresh ones.  A start overwrites the
\* identities its own row and capability hold.
Used(w) == {row[x].backend : x \in Workspaces \ {w}} \cup {cap[x] : x \in Workspaces \ {w}}
             \cup {box[x].id : x \in Workspaces}
             \cup {task[h].id : h \in Holders} \cup {task[h].ans : h \in Holders}
             \cup {o.id : o \in ops} \cup {pass[p].saw.id : p \in Passes}
Fresh(w) == CHOOSE id \in Ids : id \notin Used(w)

-----------------------------------------------------------------------------
(* Starting a runtime                                                      *)

\* Other runtimes of the owner that count against the quota.
OthersActive(w) == {x \in Workspaces \ {w} : row[x].state \in Active}
QuotaLeft(w) == Cardinality(OthersActive(w)) < MaxActive

\* Defect: binding keeps a capability that is already bound.
BindOverPrior(w) == cap' = IF cap[w] = None THEN [cap EXCEPT ![w] = Fresh(w)] ELSE cap

\* bindRuntimeCapability: the new capability replaces a prior one, revoked.
Bind(w) == cap' = [cap EXCEPT ![w] = Fresh(w)]

\* POST /runtimes: create and bind a capability, take the row to
\* PROVISIONING under the quota, claim the lease, call the manager.
Start(w) ==
  /\ task[w].pc = "idle"
  /\ row[w].state \in {"ABSENT", "STOPPED", "FAILED"}
  /\ QuotaLeft(w)
  /\ Ids \ Used(w) # {}
  /\ Bind(w)
  /\ Write(w, w, [row[w] EXCEPT !.state = "PROVISIONING", !.backend = None,
                                !.lapsed = FALSE, !.lease = "live"])
  /\ Await(w, w, Fresh(w), "waiting")
  /\ Request("provision", w, w, Fresh(w))
  /\ UNCHANGED <<box, session, open, pass, faults>>

\* Over quota: the capability just bound is revoked, and binding it had
\* already revoked its predecessor.
StartRefused(w) ==
  /\ task[w].pc = "idle"
  /\ row[w].state \in {"ABSENT", "STOPPED", "FAILED"}
  /\ ~QuotaLeft(w)
  /\ cap' = [cap EXCEPT ![w] = None]
  /\ UNCHANGED <<row, box, session, open, task, pass, ops, current, faults>>

\* provision()'s catch: revoke whatever capability is bound; a row still in
\* PROVISIONING has its resources removed first.
StartFailed(w) ==
  /\ cap' = [cap EXCEPT ![w] = None]
  /\ IF row[w].state = "PROVISIONING"
     THEN /\ Await(w, w, None, "removing")
          /\ Request("remove", w, w, None)
          /\ current' = [current EXCEPT ![w] = @ \cup {w}]
     ELSE /\ Done(w)
          /\ UNCHANGED ops
          /\ current' = [current EXCEPT ![w] = @ \ {w}]
  /\ UNCHANGED <<row, box, session, open, pass, faults>>

\* The manager's answer: STARTING with the container it names, unless the row
\* moved on meanwhile.
StartAnswered(w) ==
  /\ task[w].pc = "waiting"
  /\ task[w].ans # None
  /\ IF task[w].ans # "failed" /\ w \in current[w]
     THEN /\ WriteAndGo(w, [row[w] EXCEPT !.state = "STARTING", !.backend = task[w].ans])
          /\ Done(w)
          /\ UNCHANGED <<cap, box, session, open, pass, ops, faults>>
     ELSE StartFailed(w)

\* After the removal, whatever it answered, the row fails if it is still the
\* revision the catch read.
StartRemoved(w) ==
  /\ task[w].pc = "removing"
  /\ task[w].ans # None
  /\ IF w \in current[w] THEN WriteAndGo(w, Transition(row[w], "FAILED")) ELSE Leave(w, w)
  /\ Done(w)
  /\ UNCHANGED <<cap, box, session, open, pass, ops, faults>>

-----------------------------------------------------------------------------
(* The stop and revoke routes                                              *)

Idle(c) == task[c].pc = "idle"

\* The first half both routes share: take the row to STOPPING unless it is
\* there already, and ask the manager.
BeginStopping(c, w, op, pc) ==
  /\ IF row[w].state = "STOPPING"
     THEN current' = [current EXCEPT ![w] = @ \cup {c}] /\ UNCHANGED row
     ELSE Write(c, w, Transition(row[w], "STOPPING"))
  /\ Await(c, w, None, pc)
  /\ Request(op, c, w, None)

\* POST /runtimes/:id/stop
Stop(c, w) ==
  /\ Idle(c)
  /\ row[w].state \notin {"STOPPED", "ABSENT", "REVOKED"}
  /\ BeginStopping(c, w, "stop", "stopping")
  /\ UNCHANGED <<cap, box, session, open, pass, faults>>

\* Defect: the route writes STOPPED whatever the row's revision is.
StopAnsweredUnchecked(c) ==
  LET w == task[c].w IN
  /\ task[c].pc = "stopping"
  /\ task[c].ans # None
  /\ IF task[c].ans = "ok"
     THEN WriteAndGo(w, Transition(row[w], "STOPPED"))
     ELSE Leave(c, w)
  /\ Done(c)
  /\ UNCHANGED <<cap, box, session, open, pass, ops, faults>>

StopAnswered(c) ==
  LET w == task[c].w IN
  /\ task[c].pc = "stopping"
  /\ task[c].ans # None
  /\ IF task[c].ans = "ok" /\ c \in current[w]
     THEN WriteAndGo(w, Transition(row[w], "STOPPED"))
     ELSE Leave(c, w)
  /\ Done(c)
  /\ UNCHANGED <<cap, box, session, open, pass, ops, faults>>

\* POST /runtimes/:id/revoke of a runtime that may be running.
Revoke(c, w) ==
  /\ Idle(c)
  /\ row[w].state \notin {"STOPPED", "ABSENT", "REVOKED"}
  /\ BeginStopping(c, w, "remove", "tearing")
  /\ UNCHANGED <<cap, box, session, open, pass, faults>>

\* ... of one that is stopped or was never started, or (purging) one that is
\* revoked already.
RevokeStopped(c, w) ==
  /\ Idle(c)
  /\ row[w].state \in {"STOPPED", "ABSENT", "REVOKED"}
  /\ Await(c, w, None, IF row[w].state = "REVOKED" THEN "purging" ELSE "clearing")
  /\ Request("remove", c, w, None)
  /\ current' = [current EXCEPT ![w] = @ \cup {c}]
  /\ UNCHANGED <<row, cap, box, session, open, pass, faults>>

\* Revoking the row ends every browser session.
ToRevoked(w) ==
  /\ WriteAndGo(w, Transition(row[w], "REVOKED"))
  /\ session' = [session EXCEPT ![w] = FALSE]
  /\ open' = [open EXCEPT ![w] = 0]

\* Torn down: STOPPED, capability revoked, REVOKED in one go.  A stopped row
\* loses its capability before its revision is compared.
RevokeAnswered(c) ==
  LET w == task[c].w IN
  /\ task[c].pc \in {"tearing", "clearing", "purging"}
  /\ task[c].ans # None
  /\ LET removed == task[c].ans = "ok"
         strips  == removed /\ \/ task[c].pc = "clearing"
                               \/ task[c].pc = "tearing" /\ c \in current[w]
     IN /\ cap' = IF strips THEN [cap EXCEPT ![w] = None] ELSE cap
        /\ IF strips /\ c \in current[w]
           THEN ToRevoked(w)
           ELSE Leave(c, w) /\ UNCHANGED <<session, open>>
  /\ Done(c)
  /\ UNCHANGED <<box, pass, ops, faults>>

-----------------------------------------------------------------------------
(* The reconciler                                                          *)

\* Defect: a stop that nobody finishes is not an orphan.
OrphanNotStopping(r) == r.state \in {"PROVISIONING", "STARTING"} /\ r.lease = "lapsed"

Orphan(r) == r.state \in InTransit /\ r.lease = "lapsed"

\* Defect: orphans get a state of their own, unknown to the table.
OrphanedApart(r) == IF Orphan(r) THEN [r EXCEPT !.state = "ORPHANED", !.lease = "none"] ELSE r

\* markExpiredRuntimeOrphans: the counters are not part of its UPDATE.
Orphaned(r) == IF Orphan(r) THEN [r EXCEPT !.state = "FAILED", !.lease = "none"] ELSE r

\* Defect: failed rows are skipped like stopped ones.
SkippedWithFailed == {"ABSENT", "STOPPED", "REVOKED", "PROVISIONING", "FAILED"}

\* States a pass has nothing to do for.
Skipped == {"ABSENT", "STOPPED", "REVOKED", "PROVISIONING"}

\* A pass fails the orphans and lists the rows; it will look at each one it
\* does not skip.
PassBegins(p) ==
  LET after == [w \in Workspaces |-> Orphaned(row[w])]
      todo  == {w \in Workspaces : after[w].state \notin Skipped}
  IN /\ Idle(p)
     /\ todo # {}
     /\ row' = after
     /\ current' = [w \in Workspaces |->
          (IF Orphan(row[w]) THEN {} ELSE current[w]) \cup (IF w \in todo THEN {p} ELSE {})]
     /\ pass' = [pass EXCEPT ![p] =
          [todo |-> todo, failed |-> {w \in todo : after[w].state = "FAILED"}, saw |-> NoBox]]
     /\ task' = [task EXCEPT ![p].pc = "visiting"]
     /\ UNCHANGED <<cap, box, session, open, ops, faults>>

\* On to the next row, or the end of the pass.
NextRow(p, w) ==
  LET todo == pass[p].todo \ {w} IN
  /\ pass' = [pass EXCEPT ![p] =
       IF todo = {} THEN NoPass
       ELSE [todo |-> todo, failed |-> pass[p].failed \ {w}, saw |-> NoBox]]
  /\ task' = [task EXCEPT ![p] = [NoTask EXCEPT !.pc = IF todo = {} THEN "idle" ELSE "visiting"]]

\* The manager reports the container; the pass reads the answer later.
PassInspects(p, w) ==
  /\ task[p].pc = "visiting"
  /\ w \in pass[p].todo
  /\ pass' = [pass EXCEPT ![p].saw = box[w]]
  /\ Await(p, w, None, "inspected")
  /\ UNCHANGED <<row, cap, box, session, open, ops, current, faults>>

PassInspectFails(p, w) ==
  /\ task[p].pc = "visiting"
  /\ w \in pass[p].todo
  /\ faults > 0
  /\ faults' = faults - 1
  /\ NextRow(p, w)
  /\ Leave(p, w)
  /\ UNCHANGED <<cap, box, session, open, ops>>

\* What a pass may write in a row it read when the list was made and that
\* nobody has written since: the container is gone or another one, it became
\* healthy, the activity moved it between READY and IDLE, or only its health
\* was recorded.
Gone(r, saw) == saw.state # "running" \/ r.backend \notin {None, saw.id}

Reconciled(r, saw) ==
  IF Gone(r, saw) THEN {Transition(r, "FAILED")}
  ELSE CASE r.state = "STARTING" -> {r, Transition(r, "READY")}
         [] r.state \in Running /\ r.lapsed -> {}
         [] r.state = "READY" /\ r.conns = 0 -> {Transition(r, "IDLE")}
         [] r.state = "IDLE" /\ r.conns > 0 -> {Transition(r, "READY")}
         [] OTHER -> {r}

PassWrites(p) ==
  LET w == task[p].w IN
  /\ task[p].pc = "inspected"
  /\ w \notin pass[p].failed
  /\ IF p \in current[w] /\ row[w].state # "STOPPING"
     THEN \E r \in Reconciled(row[w], pass[p].saw) : WriteAndGo(w, r)
     ELSE Leave(p, w)
  /\ NextRow(p, w)
  /\ UNCHANGED <<cap, box, session, open, ops, faults>>

\* A row of the list that was FAILED is cleaned up without being read again.
PassCleans(p) ==
  LET w == task[p].w IN
  /\ task[p].pc = "inspected"
  /\ w \in pass[p].failed
  /\ IF pass[p].saw.state # "absent"
     THEN /\ Await(p, w, None, "cleaning")
          /\ Request("remove", p, w, None)
          /\ UNCHANGED <<row, current, pass>>
     ELSE NextRow(p, w) /\ Leave(p, w) /\ UNCHANGED ops
  /\ UNCHANGED <<cap, box, session, open, faults>>

\* Defect: only a runtime in READY expires.
MayExpireReady(r) == r.state = "READY" /\ (r.lapsed \/ r.conns = 0)

\* The absolute lifetime is over, or the idle one with nothing counted active.
MayExpire(r) == r.state \in Running /\ (r.lapsed \/ r.conns = 0)

PassExpires(p) ==
  LET w == task[p].w IN
  /\ task[p].pc = "inspected"
  /\ w \notin pass[p].failed
  /\ p \in current[w]
  /\ ~Gone(row[w], pass[p].saw)
  /\ MayExpire(row[w])
  /\ Write(p, w, Transition(row[w], "STOPPING"))
  /\ Await(p, w, None, "expiring")
  /\ Request("stop", p, w, None)
  /\ UNCHANGED <<cap, box, session, open, pass, faults>>

PassAnswered(p) ==
  LET w == task[p].w IN
  /\ task[p].pc \in {"cleaning", "expiring"}
  /\ task[p].ans # None
  /\ IF task[p].pc = "expiring" /\ task[p].ans = "ok" /\ p \in current[w]
     THEN WriteAndGo(w, Transition(row[w], "STOPPED"))
     ELSE Leave(p, w)
  /\ NextRow(p, w)
  /\ UNCHANGED <<cap, box, session, open, ops, faults>>

-----------------------------------------------------------------------------
(* The runtime manager.  It goes by the name of the runtime, not by its    *)
(* row, and never learns that a client has given up.                       *)

\* The container of w becomes b; the gateway reports the close of every
\* connection it loses with the old one while the row still counts them.
Replace(w, b) ==
  LET counted == row[w].state \in Running /\ session[w]
      left    == IF row[w].conns > open[w] THEN row[w].conns - open[w] ELSE 0
  IN /\ box' = [box EXCEPT ![w] = b]
     /\ open' = IF b.state = "running" THEN open ELSE [open EXCEPT ![w] = 0]
     /\ IF b.state # "running" /\ counted /\ open[w] > 0
        THEN WriteAndGo(w, [row[w] EXCEPT !.conns = left])
        ELSE UNCHANGED <<row, current>>

\* Provisioning: a container left under the name is removed, ...
ManagerClears(o) ==
  /\ o.op = "provision" /\ o.step = "begin"
  /\ Replace(o.w, NoBox)
  /\ Advance(o, "create")
  /\ UNCHANGED <<cap, session, pass, faults>>

\* ... one is created, unless the name is taken by then, ...
ManagerCreates(o) ==
  /\ o.op = "provision" /\ o.step = "create"
  /\ IF box[o.w] = NoBox
     THEN Replace(o.w, [id |-> o.id, state |-> "created"]) /\ Advance(o, "check")
     ELSE UNCHANGED <<box, open, row, current>> /\ Advance(o, "undo")
  /\ UNCHANGED <<cap, session, pass, faults>>

\* ... its labels are compared with the request, ...
ManagerChecks(o) ==
  /\ o.op = "provision" /\ o.step = "check"
  /\ Advance(o, IF box[o.w].id = o.id THEN "start" ELSE "undo")
  /\ UNCHANGED <<row, cap, box, session, open, pass, current, faults>>

\* ... and whatever bears the name is started, ...
ManagerStarts(o) ==
  /\ o.op = "provision" /\ o.step = "start"
  /\ IF box[o.w] = NoBox
     THEN UNCHANGED <<box, open, row, current>> /\ Advance(o, "undo")
     ELSE Replace(o.w, [box[o.w] EXCEPT !.state = "running"]) /\ Advance(o, "report")
  /\ UNCHANGED <<cap, session, pass, faults>>

\* ... handed the capability and reported.  Nobody compares its labels again,
\* and who got the capability is recorded nowhere.
ManagerReports(o) ==
  /\ o.op = "provision" /\ o.step = "report"
  /\ IF box[o.w] = NoBox THEN Advance(o, "undo") ELSE Answer(o, box[o.w].id)
  /\ UNCHANGED <<row, cap, box, session, open, pass, current, faults>>

\* The failure path removes whatever bears the name.
ManagerUndoes(o) ==
  /\ o.op = "provision" /\ o.step = "undo"
  /\ Replace(o.w, NoBox)
  /\ Answer(o, "failed")
  /\ UNCHANGED <<cap, session, pass, faults>>

ManagerStops(o) ==
  /\ o.op = "stop"
  /\ IF box[o.w].state = "running"
     THEN Replace(o.w, [box[o.w] EXCEPT !.state = "exited"])
     ELSE UNCHANGED <<box, open, row, current>>
  /\ Answer(o, "ok")
  /\ UNCHANGED <<cap, session, pass, faults>>

ManagerRemoves(o) ==
  /\ o.op = "remove"
  /\ Replace(o.w, NoBox)
  /\ Answer(o, "ok")
  /\ UNCHANGED <<cap, session, pass, faults>>

\* A call of the manager fails: a provisioning that had begun to create takes
\* the failure path, every other request ends and leaves the container as it is.
ManagerFails(o) ==
  /\ faults > 0
  /\ faults' = faults - 1
  /\ IF o.op = "provision" /\ o.step \notin {"begin", "undo"}
     THEN Advance(o, "undo")
     ELSE Answer(o, "failed")
  /\ UNCHANGED <<row, cap, box, session, open, pass, current>>

-----------------------------------------------------------------------------
(* The gateway and the owner's sessions                                    *)

Serving(w) == row[w].state \in Running /\ ~row[w].lapsed

\* A launch ticket is exchanged for a browser session.
OpenSession(w) ==
  /\ Serving(w)
  /\ session' = [session EXCEPT ![w] = TRUE]
  /\ UNCHANGED <<row, cap, box, open, task, pass, ops, current, faults>>

Connect(w) ==
  /\ Serving(w)
  /\ session[w]
  /\ box[w].state = "running"
  /\ open[w] < MaxConns
  /\ row[w].conns < MaxConns
  /\ WriteAndGo(w, [row[w] EXCEPT !.conns = @ + 1])
  /\ open' = [open EXCEPT ![w] = @ + 1]
  /\ UNCHANGED <<cap, box, session, task, pass, ops, faults>>

\* A connection ends; its close is recorded only under a valid session of a
\* serving row.
Disconnect(w) ==
  /\ open[w] > 0
  /\ open' = [open EXCEPT ![w] = @ - 1]
  /\ IF Serving(w) /\ session[w] /\ row[w].conns > 0
     THEN WriteAndGo(w, [row[w] EXCEPT !.conns = @ - 1])
     ELSE UNCHANGED <<row, current>>
  /\ UNCHANGED <<cap, box, session, task, pass, ops, faults>>

\* The owner's sign-in expires: the gateway drops the connections, and the
\* API refuses to record their close.
SessionExpires(w) ==
  /\ session[w]
  /\ session' = [session EXCEPT ![w] = FALSE]
  /\ open' = [open EXCEPT ![w] = 0]
  /\ UNCHANGED <<row, cap, box, task, pass, ops, current, faults>>

\* Defect: signing out zeroes the counters and forgets the sessions.
LogoutKeepingSessions ==
  /\ \E w \in Workspaces : session[w]
  /\ row' = [w \in Workspaces |-> [row[w] EXCEPT !.conns = 0]]
  /\ current' = [w \in Workspaces |-> IF row[w].conns > 0 THEN {} ELSE current[w]]
  /\ UNCHANGED <<cap, box, session, open, task, pass, ops, faults>>

\* The owner signs out everywhere: sessions end and the counters start over.
Logout ==
  /\ \E w \in Workspaces : session[w]
  /\ session' = [w \in Workspaces |-> FALSE]
  /\ open' = [w \in Workspaces |-> 0]
  /\ row' = [w \in Workspaces |-> [row[w] EXCEPT !.conns = 0]]
  /\ current' = [w \in Workspaces |-> IF row[w].conns > 0 THEN {} ELSE current[w]]
  /\ UNCHANGED <<cap, box, task, pass, ops, faults>>

\* Activity of the container under its capability, or an authorization of
\* its automation, renews the idle lifetime: only the revision shows here.
Touch(w) ==
  /\ Serving(w)
  /\ cap[w] # None
  /\ current[w] # {}
  /\ current' = [current EXCEPT ![w] = {}]
  /\ UNCHANGED <<row, cap, box, session, open, task, pass, ops, faults>>

-----------------------------------------------------------------------------
(* Time, failures and restarts                                             *)

\* The minute of the provisioning's lease is over.
LeaseLapses(w) ==
  /\ row[w].lease = "live"
  /\ row' = [row EXCEPT ![w].lease = "lapsed"]
  /\ UNCHANGED <<cap, box, session, open, task, pass, ops, current, faults>>

\* The runtime's absolute lifetime is over, and the browser sessions' with it.
LifetimeLapses(w) ==
  /\ row[w].state \in {"PROVISIONING", "STARTING"} \cup Running
  /\ ~row[w].lapsed
  /\ row' = [row EXCEPT ![w].lapsed = TRUE]
  /\ session' = [session EXCEPT ![w] = FALSE]
  /\ open' = [open EXCEPT ![w] = 0]
  /\ UNCHANGED <<cap, box, task, pass, ops, current, faults>>

BoxExits(w) ==
  /\ faults > 0
  /\ faults' = faults - 1
  /\ box[w].state = "running"
  /\ Replace(w, [box[w] EXCEPT !.state = "exited"])
  /\ UNCHANGED <<cap, session, task, pass, ops>>

\* The client gives up after fifteen seconds; the manager does not.
TimesOut(o) ==
  /\ faults > 0
  /\ faults' = faults - 1
  /\ o.for # None
  /\ ops' = (ops \ {o}) \cup {[o EXCEPT !.for = None]}
  /\ task' = [task EXCEPT ![o.for].ans = "failed"]
  /\ UNCHANGED <<row, cap, box, session, open, pass, current>>

\* The API process dies: its requests stay with the manager.
Restarted ==
  /\ faults > 0
  /\ faults' = faults - 1
  /\ task' = [h \in Holders |-> NoTask]
  /\ pass' = [p \in Passes |-> NoPass]
  /\ ops' = {[o EXCEPT !.for = None] : o \in ops}
  /\ current' = [w \in Workspaces |-> {}]

Crash ==
  /\ Restarted
  /\ UNCHANGED <<row, cap, box, session, open>>

\* ... between two of the transactions of a start: the capability is bound,
\* and the row may be in PROVISIONING with no lease yet.
CrashInStart(w) ==
  /\ task[w].pc = "idle"
  /\ row[w].state \in {"ABSENT", "STOPPED", "FAILED"}
  /\ Restarted
  /\ Ids \ Used(w) # {}
  /\ Bind(w)
  /\ \/ UNCHANGED row
     \/ /\ QuotaLeft(w)
        /\ row' = [row EXCEPT ![w] = [@ EXCEPT !.state = "PROVISIONING",
                                               !.backend = None, !.lapsed = FALSE]]
  /\ UNCHANGED <<box, session, open>>

-----------------------------------------------------------------------------
PassStep(p) ==
  \/ \E w \in Workspaces : PassInspects(p, w) \/ PassInspectFails(p, w)
  \/ PassWrites(p) \/ PassCleans(p) \/ PassExpires(p) \/ PassAnswered(p)

ManagerStep(o) ==
  \/ ManagerClears(o) \/ ManagerCreates(o) \/ ManagerChecks(o) \/ ManagerStarts(o)
  \/ ManagerReports(o) \/ ManagerUndoes(o) \/ ManagerStops(o) \/ ManagerRemoves(o)

StartStep(w) == StartAnswered(w) \/ StartRemoved(w)

RouteStep(c) == StopAnswered(c) \/ RevokeAnswered(c)

Next ==
  \/ \E w \in Workspaces :
       \/ Start(w) \/ StartRefused(w) \/ StartStep(w)
       \/ OpenSession(w) \/ Connect(w) \/ Disconnect(w) \/ SessionExpires(w) \/ Touch(w)
       \/ LeaseLapses(w) \/ LifetimeLapses(w) \/ BoxExits(w) \/ CrashInStart(w)
  \/ \E c \in Callers :
       \/ \E w \in Workspaces : Stop(c, w) \/ Revoke(c, w) \/ RevokeStopped(c, w)
       \/ RouteStep(c)
  \/ \E p \in Passes : PassBegins(p) \/ PassStep(p)
  \/ \E o \in ops : ManagerStep(o) \/ ManagerFails(o) \/ TimesOut(o)
  \/ Logout
  \/ Crash

Spec == Init /\ [][Next]_vars

\* Timers fire, promises settle, the manager works off its requests.  Only a
\* bounded number of faults disturbs them; nothing obliges a user to act.
Fairness ==
  /\ \A w \in Workspaces : WF_vars(StartStep(w)) /\ WF_vars(LeaseLapses(w))
  /\ \A c \in Callers : WF_vars(RouteStep(c))
  /\ \A p \in Passes : WF_vars(PassBegins(p)) /\ WF_vars(PassStep(p))
  /\ \A w \in Workspaces, for \in Holders \cup {None} :
       WF_vars(\E o \in ops : o.w = w /\ o.for = for /\ ManagerStep(o))

FairSpec == Spec /\ Fairness

-----------------------------------------------------------------------------
(* Properties                                                              *)

\* A revoked runtime keeps nothing that authorizes anybody: no capability, no
\* lease, no browser session or counted connection, whatever starts, stops
\* and manager requests were still under way when it was revoked.
RevokedIsBare ==
  \A w \in Workspaces : row[w].state = "REVOKED" =>
    /\ cap[w] = None
    /\ row[w].lease = "none" /\ row[w].conns = 0
    /\ ~session[w] /\ open[w] = 0

Adopted == {"STARTING"} \cup Running

\* A row adopts a container under the capability of the very provisioning it
\* waited for, or under none, and from then on that capability can only be
\* revoked, never exchanged: late answers, retries and restarts of the API do
\* not mix two provisionings.  The manager may: the container that is adopted
\* can be another provisioning's (ManagerReports).
CapabilityKept ==
  [][\A w \in Workspaces : row'[w].state \in Adopted =>
       /\ row'[w].backend # None
       /\ cap'[w] \in {None, IF row[w].state \in Adopted THEN cap[w] ELSE task[w].id}]_vars

\* A serving row counts at least the connections that are open, so the
\* idle lease never stops a runtime under somebody's connection.
ActiveIsCounted ==
  \A w \in Workspaces : row[w].state \in Running => open[w] <= row[w].conns

\* The owner never has more than MaxActive runtimes that are starting or
\* running; a failed one being stopped is not checked against the quota.
QuotaHeld ==
  Cardinality({w \in Workspaces : row[w].state \in Active \ {"STOPPING"}}) <= MaxActive

\* The revisions alone keep every writer to the transition table: whatever the
\* interleaving, the table's own check never has to refuse one.
FollowsTable ==
  [][\A w \in Workspaces :
       row'[w].state # row[w].state => row'[w].state \in TRANSITIONS[row[w].state]]_vars

\* A row waiting for somebody's answer under a lease leaves that state.
LeasedSettles ==
  \A w \in Workspaces :
    (row[w].state \in InTransit /\ row[w].lease # "none") ~> row[w].state \notin InTransit

\* The container of a failed runtime is removed, unless the runtime is
\* started, stopped or revoked instead.
FailedIsCleaned ==
  \A w \in Workspaces :
    (row[w].state = "FAILED" /\ box[w] # NoBox) ~> (row[w].state # "FAILED" \/ box[w] = NoBox)

\* A runtime does not serve for ever past its absolute lifetime.
ExpiredStops ==
  \A w \in Workspaces :
    (row[w].state \in Running /\ row[w].lapsed) ~> ~(row[w].state \in Running /\ row[w].lapsed)
=============================================================================
