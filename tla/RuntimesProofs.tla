--------------------------- MODULE RuntimesProofs ---------------------------
(***************************************************************************)
(* Proofs about Runtimes for every set of workspaces, callers, passes and  *)
(* identities and every bound.                                             *)
(***************************************************************************)
EXTENDS Runtimes, FiniteSetTheorems, TLAPS

-----------------------------------------------------------------------------
(* The inductive invariant.                                                *)

\* Provisionings, routes and passes each go through their own states, and
\* work on a workspace.
TasksFit ==
  /\ \A w \in Workspaces :
       /\ task[w].pc \in {"idle", "waiting", "removing"}
       /\ task[w].pc = "waiting" => task[w].id \in Ids
  /\ \A c \in Callers :
       /\ task[c].pc \in {"idle", "stopping", "tearing", "clearing", "purging"}
       /\ task[c].pc # "idle" => task[c].w \in Workspaces
  /\ \A p \in Passes :
       /\ task[p].pc \in {"idle", "visiting", "inspected", "cleaning", "expiring"}
       /\ task[p].pc \in {"inspected", "cleaning", "expiring"} => task[p].w \in pass[p].todo
       /\ task[p].pc = "cleaning" => task[p].w \in pass[p].failed

\* What holder h may conclude about the row of w while its revision is the
\* one h read.
Sees(h, w) ==
  /\ h = w /\ task[h].pc # "idle" => row[w].state = "PROVISIONING"
  /\ task[h].w = w /\ task[h].pc \in {"stopping", "tearing", "expiring"} =>
       row[w].state = "STOPPING"
  /\ task[h].w = w /\ task[h].pc = "clearing" => row[w].state \in {"STOPPED", "ABSENT"}
  /\ h \in Passes /\ w \in pass[h].todo \ pass[h].failed =>
       row[w].state \in {"STARTING", "STOPPING"} \cup Running

Views == \A w \in Workspaces : \A h \in current[w] : Sees(h, w)

Awaiting == {"waiting", "removing", "stopping", "tearing", "clearing", "purging",
             "cleaning", "expiring"}

\* A request somebody waits for is the only one that somebody waits for.
OpsAreAwaited ==
  \A o \in ops :
    /\ o.op = "provision" => o.id \in Ids
    /\ o.for # None =>
         /\ task[o.for].pc \in Awaiting
         /\ task[o.for].ans = None
         /\ \A q \in ops : q.for = o.for => q = o
         /\ o.op = "provision" <=> task[o.for].pc = "waiting"
         /\ o.op = "provision" => o.for = o.w

\* The manager is past clearing the name for a provisioning a start waits for.
Creating(w) ==
  \E o \in ops : o.w = w /\ o.op = "provision" /\ o.step # "begin" /\ o.for # None

\* The answer of a provisioning that names a container.
Named(ans) == ans \notin {None, "failed"}

\* What row, capability, sessions and connections of w owe one another.  While
\* a start is under way no container is adopted, and the capability it bound
\* is the only one there may be; nothing is connected to a container that is
\* being made or was just made.
Sound(w) ==
  /\ task[w].pc # "idle" => row[w].state \notin {"STARTING"} \cup Running
  /\ task[w].pc = "waiting" => cap[w] \in {None, task[w].id}
  /\ task[w].pc = "waiting" /\ Named(task[w].ans) => open[w] = 0 /\ task[w].ans \in Ids
  /\ Creating(w) => open[w] = 0
  /\ row[w].state = "STARTING" => open[w] = 0
  /\ row[w].state \in Running => open[w] <= row[w].conns
  /\ row[w].state \in {"STARTING"} \cup Running => row[w].backend # None
  /\ row[w].state = "REVOKED" =>
       /\ cap[w] = None
       /\ row[w].lease = "none" /\ row[w].conns = 0
       /\ ~session[w] /\ open[w] = 0

RInv ==
  /\ RuntimesTypeOK
  /\ TasksFit
  /\ OpsAreAwaited
  /\ Views
  /\ \A w \in Workspaces : Sound(w)

-----------------------------------------------------------------------------
(* What the writes do.                                                     *)

Ends == {"STOPPED", "FAILED", "REVOKED"}

LEMMA TransitionFacts ==
  ASSUME NEW r \in Rows, NEW to \in States
  PROVE  /\ Transition(r, to) \in Rows
         /\ Transition(r, to).state = to
         /\ Transition(r, to).backend = r.backend
         /\ to \in Ends => Transition(r, to).lease = "none" /\ Transition(r, to).conns = 0
         /\ to \notin Ends => Transition(r, to).conns = r.conns
<1>1. CASE to \in Ends
  <2>1. Transition(r, to) = [r EXCEPT !.state = to, !.lease = "none", !.conns = 0]
    BY <1>1 DEF Transition, Ends
  <2>2. 0 \in 0..MaxConns
    BY RuntimesAssumption
  <2> QED BY <1>1, <2>1, <2>2 DEF Rows
<1>2. CASE to \notin Ends
  <2>1. Transition(r, to) = [r EXCEPT !.state = to]
    BY <1>2 DEF Transition, Ends
  <2> QED BY <1>2, <2>1 DEF Rows
<1> QED BY <1>1, <1>2

LEMMA OrphanedFacts ==
  ASSUME NEW r \in Rows
  PROVE  /\ Orphaned(r) \in Rows
         /\ ~Orphan(r) => Orphaned(r) = r
         /\ Orphan(r) => Orphaned(r).state = "FAILED"
<1>1. CASE Orphan(r)
  <2>1. Orphaned(r) = [r EXCEPT !.state = "FAILED", !.lease = "none"]
    BY <1>1 DEF Orphaned
  <2> QED BY <1>1, <2>1 DEF Rows, States
<1>2. CASE ~Orphan(r)
  BY <1>2 DEF Orphaned
<1> QED BY <1>1, <1>2

\* A write of row w, by holder h or by one that ends with it.
LEMMA WriteFacts ==
  ASSUME RuntimesTypeOK, NEW w \in Workspaces, NEW h \in Holders, NEW r \in Rows,
         Write(h, w, r) \/ WriteAndGo(w, r)
  PROVE  /\ row' \in [Workspaces -> Rows]
         /\ current' \in [Workspaces -> SUBSET Holders]
         /\ row'[w] = r
         /\ \A x \in Workspaces \ {w} : row'[x] = row[x] /\ current'[x] = current[x]
         /\ current'[w] \subseteq {h}
         /\ WriteAndGo(w, r) => current'[w] = {}
BY DEF RuntimesTypeOK, Write, WriteAndGo

LEMMA LeaveFacts ==
  ASSUME RuntimesTypeOK, NEW w \in Workspaces, NEW h \in Holders, Leave(h, w)
  PROVE  /\ row' = row
         /\ current' \in [Workspaces -> SUBSET Holders]
         /\ \A x \in Workspaces : current'[x] \subseteq current[x]
         /\ h \notin current'[w]
BY DEF RuntimesTypeOK, Leave

LEMMA AwaitFacts ==
  ASSUME RuntimesTypeOK, NEW h \in Holders, NEW w \in Workspaces, NEW id \in Ids \cup {None},
         NEW pc \in Awaiting \cup {"inspected"}, Await(h, w, id, pc)
  PROVE  /\ task' \in [Holders -> Tasks]
         /\ task'[h] = [pc |-> pc, w |-> w, id |-> id, ans |-> None]
         /\ \A g \in Holders \ {h} : task'[g] = task[g]
BY DEF RuntimesTypeOK, Await, Tasks, Awaiting

\* ... for an answer that names nothing.
LEMMA AwaitNothing ==
  ASSUME RuntimesTypeOK, NEW h \in Holders, NEW w \in Workspaces,
         NEW pc \in Awaiting \cup {"inspected"}, Await(h, w, None, pc)
  PROVE  /\ task' \in [Holders -> Tasks]
         /\ task'[h] = [pc |-> pc, w |-> w, id |-> None, ans |-> None]
         /\ \A g \in Holders \ {h} : task'[g] = task[g]
<1>1. None \in Ids \cup {None}
  OBVIOUS
<1> QED BY <1>1, AwaitFacts

LEMMA DoneFacts ==
  ASSUME RuntimesTypeOK, NEW h \in Holders, Done(h)
  PROVE  /\ task' \in [Holders -> Tasks]
         /\ task'[h].pc = "idle" /\ task'[h].w = None
         /\ \A g \in Holders \ {h} : task'[g] = task[g]
BY DEF RuntimesTypeOK, Done, NoTask, Tasks

LEMMA NextRowFacts ==
  ASSUME RuntimesTypeOK, TasksFit, NEW p \in Passes, NEW w \in Workspaces, NextRow(p, w)
  PROVE  /\ task' \in [Holders -> Tasks]
         /\ pass' \in [Passes -> PassStates]
         /\ task'[p].pc \in {"idle", "visiting"} /\ task'[p].w = None
         /\ \A g \in Holders \ {p} : task'[g] = task[g]
         /\ \A q \in Passes \ {p} : pass'[q] = pass[q]
         /\ pass'[p].todo \ pass'[p].failed \subseteq (pass[p].todo \ pass[p].failed) \ {w}
<1> DEFINE todo == pass[p].todo \ {w}
           next == IF todo = {} THEN NoPass
                   ELSE [todo |-> todo, failed |-> pass[p].failed \ {w}, saw |-> NoBox]
           then == [NoTask EXCEPT !.pc = IF todo = {} THEN "idle" ELSE "visiting"]
<1>1. pass[p] \in PassStates /\ p \in Holders
  BY DEF RuntimesTypeOK, Holders
<1>2. /\ next \in PassStates
      /\ next.todo \ next.failed \subseteq (pass[p].todo \ pass[p].failed) \ {w}
  BY <1>1 DEF PassStates, NoPass, Boxes
<1>3. then \in Tasks /\ then.pc \in {"idle", "visiting"} /\ then.w = None
  BY DEF NoTask, Tasks
<1>4. pass' = [pass EXCEPT ![p] = next] /\ task' = [task EXCEPT ![p] = then]
  BY DEF NextRow
<1> HIDE DEF next, then
<1> QED BY <1>1, <1>2, <1>3, <1>4 DEF RuntimesTypeOK

\* The container changes, and connections may close; rows keep everything but
\* the count.
LEMMA ReplaceFacts ==
  ASSUME RuntimesTypeOK, NEW w \in Workspaces, NEW b \in Boxes, Replace(w, b)
  PROVE  /\ row' \in [Workspaces -> Rows]
         /\ current' \in [Workspaces -> SUBSET Holders]
         /\ box' \in [Workspaces -> Boxes]
         /\ open' \in [Workspaces -> 0..MaxConns]
         /\ \A x \in Workspaces :
              /\ row'[x].state = row[x].state
              /\ row'[x].backend = row[x].backend
              /\ row'[x].lease = row[x].lease
              /\ current'[x] \subseteq current[x]
              /\ open'[x] <= open[x]
         /\ \A x \in Workspaces \ {w} : row'[x] = row[x] /\ open'[x] = open[x]
         /\ b.state = "running" => row' = row /\ open' = open
         /\ b.state # "running" => open'[w] = 0
         /\ row[w].state \notin Running => row' = row
<1> DEFINE left == IF row[w].conns > open[w] THEN row[w].conns - open[w] ELSE 0
           r    == [row[w] EXCEPT !.conns = left]
<1> USE RuntimesAssumption DEF RuntimesTypeOK
<1>1. left \in 0..MaxConns
  <2>1. row[w].conns \in 0..MaxConns /\ open[w] \in 0..MaxConns
    BY DEF Rows
  <2> QED BY <2>1
<1> HIDE DEF left
<1>2. r \in Rows /\ r.state = row[w].state /\ r.backend = row[w].backend /\ r.lease = row[w].lease
  <2>1. row[w] \in Rows
    OBVIOUS
  <2> QED BY <1>1, <2>1 DEF Rows
<1>3. /\ open' \in [Workspaces -> 0..MaxConns]
      /\ \A x \in Workspaces : open'[x] <= open[x]
      /\ \A x \in Workspaces \ {w} : open'[x] = open[x]
      /\ b.state # "running" => open'[w] = 0
      /\ b.state = "running" => open' = open
  <2>1. open' = IF b.state = "running" THEN open ELSE [open EXCEPT ![w] = 0]
    BY DEF Replace
  <2>2. \A x \in Workspaces : open[x] \in 0..MaxConns
    OBVIOUS
  <2> QED BY <2>1, <2>2
<1>4. \/ WriteAndGo(w, r) /\ b.state # "running" /\ row[w].state \in Running
      \/ UNCHANGED <<row, current>>
  BY DEF Replace, left
<1>5. box' \in [Workspaces -> Boxes]
  BY DEF Replace
<1> HIDE DEF r
<1> QED BY <1>2, <1>3, <1>4, <1>5 DEF WriteAndGo

-----------------------------------------------------------------------------
(* What a step keeps.                                                      *)

\* Only holder h learns anything, and it sees what is there.
LEMMA ViewsKept ==
  ASSUME RInv, NEW h \in Holders \cup {None},
         current' \in [Workspaces -> SUBSET Holders],
         \A x \in Workspaces : \A g \in current'[x] \ {h} :
           g \in current[x] /\ row'[x].state = row[x].state,
         \A g \in Holders \ {h} : task'[g].pc = task[g].pc /\ task'[g].w = task[g].w,
         \A p \in Passes \ {h} : pass'[p] = pass[p],
         \A x \in Workspaces : h \in current'[x] => Sees(h, x)'
  PROVE  Views'
<1> SUFFICES ASSUME NEW x \in Workspaces, NEW g \in current'[x], g # h PROVE Sees(g, x)'
  BY DEF Views
<1>1. g \in Holders /\ g \in current[x] /\ Sees(g, x)
  BY DEF RInv, Views
<1> QED BY <1>1 DEF Sees

\* A step that leaves the state of row x alone, and takes away rather than
\* gives.
LEMMA SoundKept ==
  ASSUME RInv, NEW x \in Workspaces, open' \in [Workspaces -> 0..MaxConns],
         row'[x].state = row[x].state, row'[x].backend = row[x].backend,
         row[x].lease = "none" => row'[x].lease = "none",
         row'[x].conns \in {row[x].conns, 0} \/ row[x].state \in Running,
         row'[x].state \in Running => open'[x] <= row'[x].conns,
         cap'[x] \in {cap[x], None}, open'[x] <= open[x],
         session'[x] => session[x] \/ row[x].state # "REVOKED",
         task'[x].pc = task[x].pc, task'[x].id = task[x].id,
         task'[x].pc = "waiting" /\ Named(task'[x].ans) =>
           task'[x].ans = task[x].ans \/ (open'[x] = 0 /\ task'[x].ans \in Ids),
         Creating(x)' => Creating(x) \/ open'[x] = 0
  PROVE  Sound(x)'
<1>1. Sound(x)
  BY DEF RInv
<1>2. open[x] \in Nat /\ open'[x] \in Nat
  BY RuntimesAssumption DEF RInv, RuntimesTypeOK
<1>3. open[x] = 0 => open'[x] = 0
  BY <1>2
<1> HIDE DEF Creating
<1> QED BY <1>1, <1>3 DEF Sound, Running

\* Nobody's request is new.
LEMMA OpsKept ==
  ASSUME RInv, ops' \subseteq ops,
         \A o \in ops' : o.for # None =>
           task'[o.for].pc = task[o.for].pc /\ task'[o.for].ans = task[o.for].ans
  PROVE  ops' \subseteq Ops /\ OpsAreAwaited' /\ \A x \in Workspaces : Creating(x)' => Creating(x)
<1>1. OpsAreAwaited'
  BY DEF RInv, OpsAreAwaited
<1>2. \A x \in Workspaces : Creating(x)' => Creating(x)
  BY DEF Creating
<1> QED BY <1>1, <1>2 DEF RInv, RuntimesTypeOK

\* A holder without a request makes one and waits for it.
LEMMA RequestFacts ==
  ASSUME RInv, NEW op \in {"provision", "stop", "remove"}, NEW h \in Holders,
         NEW w \in Workspaces, NEW id \in Ids \cup {None},
         Request(op, h, w, id),
         \A o \in ops : o.for # h,
         task'[h].pc \in Awaiting, task'[h].ans = None,
         op = "provision" <=> task'[h].pc = "waiting",
         op = "provision" => h = w /\ id \in Ids,
         \A g \in Holders \ {h} : task'[g] = task[g]
  PROVE  ops' \subseteq Ops /\ OpsAreAwaited' /\ \A x \in Workspaces : Creating(x)' => Creating(x)
<1> DEFINE n == [op |-> op, w |-> w, for |-> h, id |-> id, step |-> "begin"]
<1>1. ops' = ops \cup {n}
  BY DEF Request
<1>2. n \in Ops /\ n.for = h /\ n.op = op /\ n.id = id /\ n.w = w /\ n.step = "begin"
  BY DEF Ops
<1> HIDE DEF n
<1>3. ops' \subseteq Ops
  BY <1>1, <1>2 DEF RInv, RuntimesTypeOK
<1>4. \A o \in ops : o.for \in Holders \cup {None}
  BY DEF RInv, RuntimesTypeOK, Ops
<1>5. OpsAreAwaited'
  <2> SUFFICES ASSUME NEW o \in ops'
               PROVE  /\ o.op = "provision" => o.id \in Ids
                      /\ o.for # None =>
                           /\ task'[o.for].pc \in Awaiting
                           /\ task'[o.for].ans = None
                           /\ \A q \in ops' : q.for = o.for => q = o
                           /\ o.op = "provision" <=> task'[o.for].pc = "waiting"
                           /\ o.op = "provision" => o.for = o.w
    BY DEF OpsAreAwaited
  <2>1. CASE o = n
    BY <1>1, <1>2, <2>1
  <2>2. CASE o \in ops
    <3>1. o.for # None => o.for \in Holders \ {h}
      BY <1>4, <2>2
    <3> QED BY <1>1, <1>2, <2>2, <3>1 DEF RInv, OpsAreAwaited
  <2> QED BY <1>1, <2>1, <2>2
<1>6. \A x \in Workspaces : Creating(x)' => Creating(x)
  BY <1>1, <1>2 DEF Creating
<1> QED BY <1>3, <1>5, <1>6

\* The manager answers a request, if anybody still waits for it.
LEMMA AnswerFacts ==
  ASSUME RInv, NEW o \in ops, NEW ans \in {"ok", "failed"} \cup Ids, Answer(o, ans), pass' = pass
  PROVE  /\ task' \in [Holders -> Tasks] /\ TasksFit'
         /\ ops' \subseteq Ops /\ OpsAreAwaited'
         /\ \A x \in Workspaces : Creating(x)' => Creating(x)
         /\ \A g \in Holders :
              /\ task'[g].pc = task[g].pc /\ task'[g].w = task[g].w /\ task'[g].id = task[g].id
              /\ task'[g].ans = task[g].ans \/ (g = o.for /\ task'[g].ans = ans)
<1> USE DEF RInv, RuntimesTypeOK
<1>1. o.for \in Holders \cup {None} /\ None \notin Holders
  BY RuntimesAssumption DEF Ops, Holders
<1>2. \A g \in Holders : task[g] \in Tasks
  OBVIOUS
<1>3. /\ task' \in [Holders -> Tasks]
      /\ \A g \in Holders :
           /\ task'[g].pc = task[g].pc /\ task'[g].w = task[g].w /\ task'[g].id = task[g].id
           /\ task'[g].ans = task[g].ans \/ (g = o.for /\ task'[g].ans = ans)
           /\ g # o.for => task'[g] = task[g]
  BY <1>1, <1>2 DEF Answer, Tasks
<1>4. TasksFit'
  BY SMTT(30), <1>3 DEF TasksFit, Holders
<1>5. ops' = ops \ {o}
  BY DEF Answer
<1>6. \A q \in ops' : q.for # None => q.for \in Holders \ {o.for}
  BY <1>5 DEF Ops, OpsAreAwaited
<1>7. /\ ops' \subseteq Ops /\ OpsAreAwaited'
      /\ \A x \in Workspaces : Creating(x)' => Creating(x)
  BY <1>3, <1>5, <1>6, OpsKept
<1> QED BY <1>3, <1>4, <1>7
-----------------------------------------------------------------------------
(* The manager and the containers.                                         *)

\* A container changes or not; rows keep everything but the count.
LEMMA BoxMoves ==
  ASSUME RInv, NEW w \in Workspaces, NEW b \in Boxes,
         Replace(w, b) \/ UNCHANGED <<box, open, row, current>>
  PROVE  /\ row' \in [Workspaces -> Rows]
         /\ current' \in [Workspaces -> SUBSET Holders]
         /\ box' \in [Workspaces -> Boxes]
         /\ open' \in [Workspaces -> 0..MaxConns]
         /\ \A x \in Workspaces :
              /\ row'[x].state = row[x].state /\ row'[x].backend = row[x].backend
              /\ row'[x].lease = row[x].lease
              /\ row'[x] = row[x] \/ row[x].state \in Running
              /\ current'[x] \subseteq current[x]
              /\ open'[x] <= open[x]
              /\ open'[x] = 0 \/ (row'[x] = row[x] /\ open'[x] = open[x])
              /\ row'[x].state \in Running => open'[x] <= row'[x].conns
<1>1. RuntimesTypeOK /\ \A x \in Workspaces : open[x] \in Nat
  BY RuntimesAssumption DEF RInv, RuntimesTypeOK
<1>2. CASE Replace(w, b)
  <2>1. /\ \A x \in Workspaces \ {w} : row'[x] = row[x] /\ open'[x] = open[x]
        /\ row[w].state \notin Running => row' = row
        /\ b.state = "running" => row' = row /\ open' = open
        /\ b.state # "running" => open'[w] = 0
    BY <1>1, <1>2, ReplaceFacts
  <2>2. /\ \A x \in Workspaces :
             /\ row'[x].state = row[x].state /\ row'[x].backend = row[x].backend
             /\ row'[x].lease = row[x].lease
             /\ current'[x] \subseteq current[x]
             /\ open'[x] <= open[x]
        /\ row' \in [Workspaces -> Rows]
        /\ current' \in [Workspaces -> SUBSET Holders]
        /\ box' \in [Workspaces -> Boxes]
        /\ open' \in [Workspaces -> 0..MaxConns]
    BY <1>1, <1>2, ReplaceFacts
  <2>3. ASSUME NEW x \in Workspaces
        PROVE  /\ row'[x] = row[x] \/ row[x].state \in Running
               /\ open'[x] = 0 \/ (row'[x] = row[x] /\ open'[x] = open[x])
    <3>1. CASE x = w
      BY <2>1, <3>1
    <3>2. CASE x # w
      BY <2>1, <3>2
    <3> QED BY <3>1, <3>2
  <2>4. ASSUME NEW x \in Workspaces, row'[x].state \in Running PROVE open'[x] <= row'[x].conns
    <3>1. row'[x].conns \in Nat
      BY <2>2, RuntimesAssumption DEF Rows
    <3>2. Sound(x) /\ row[x].state \in Running
      BY <2>2, <2>4 DEF RInv
    <3>3. open[x] <= row[x].conns
      BY <3>2 DEF Sound
    <3> QED BY <2>3, <3>1, <3>3
  <2> QED BY <2>2, <2>3, <2>4
<1>3. CASE UNCHANGED <<box, open, row, current>>
  <2>1. \A x \in Workspaces : row[x].state \in Running => open[x] <= row[x].conns
    BY DEF RInv, Sound
  <2> QED BY <1>1, <1>3, <2>1 DEF RuntimesTypeOK
<1> QED BY <1>2, <1>3

\* A request is answered; a provisioning past clearing the name is answered
\* by a container.
LEMMA ManagerAnswers ==
  ASSUME RInv, NEW o \in ops, NEW b \in Boxes, NEW ans \in {"ok", "failed"} \cup Ids,
         Replace(o.w, b) \/ UNCHANGED <<box, open, row, current>>,
         Answer(o, ans), UNCHANGED <<cap, session, pass>>, faults' \in 0..MaxFaults,
         o.op = "provision" => ans = "failed" \/ (ans \in Ids /\ o.step # "begin")
  PROVE  RInv'
<1>1. o.w \in Workspaces /\ o.for \in Holders \cup {None} /\ None \notin Holders
  BY RuntimesAssumption DEF RInv, RuntimesTypeOK, Ops, Holders
<1>2. /\ row' \in [Workspaces -> Rows]
      /\ current' \in [Workspaces -> SUBSET Holders]
      /\ box' \in [Workspaces -> Boxes]
      /\ open' \in [Workspaces -> 0..MaxConns]
      /\ \A x \in Workspaces :
           /\ row'[x].state = row[x].state /\ row'[x].backend = row[x].backend
           /\ row'[x].lease = row[x].lease
           /\ row'[x] = row[x] \/ row[x].state \in Running
           /\ current'[x] \subseteq current[x]
           /\ open'[x] <= open[x]
           /\ open'[x] = 0 \/ (row'[x] = row[x] /\ open'[x] = open[x])
           /\ row'[x].state \in Running => open'[x] <= row'[x].conns
  <2> DEFINE w == o.w
  <2>1. w \in Workspaces /\ (Replace(w, b) \/ UNCHANGED <<box, open, row, current>>)
    BY <1>1
  <2> HIDE DEF w
  <2> QED BY <2>1, BoxMoves
<1>3. /\ task' \in [Holders -> Tasks] /\ TasksFit'
      /\ ops' \subseteq Ops /\ OpsAreAwaited'
      /\ \A x \in Workspaces : Creating(x)' => Creating(x)
      /\ \A g \in Holders :
           /\ task'[g].pc = task[g].pc /\ task'[g].w = task[g].w /\ task'[g].id = task[g].id
           /\ task'[g].ans = task[g].ans \/ (g = o.for /\ task'[g].ans = ans)
  BY AnswerFacts
<1>4. RuntimesTypeOK'
  BY <1>2, <1>3 DEF RInv, RuntimesTypeOK
<1>5. Views'
  BY <1>1, <1>2, <1>3, ViewsKept
<1>6. ASSUME NEW x \in Workspaces PROVE Sound(x)'
  <2>1. x \in Holders
    BY DEF Holders
  <2>2. Sound(x) /\ open[x] \in Nat /\ open'[x] \in Nat
    BY <1>2, RuntimesAssumption DEF RInv, RuntimesTypeOK
  <2>3. task'[x].pc = "waiting" /\ Named(task'[x].ans) =>
          task'[x].ans = task[x].ans \/ (open'[x] = 0 /\ task'[x].ans \in Ids)
    <3>1. SUFFICES ASSUME task[x].pc = "waiting", x = o.for, task'[x].ans = ans, ans # "failed"
                   PROVE  open'[x] = 0 /\ ans \in Ids
      BY <1>3, <2>1 DEF Named
    <3>2. o.op = "provision" /\ o.w = x /\ o.for # None
      BY <1>1, <2>1, <3>1 DEF RInv, OpsAreAwaited
    <3>3. Creating(x) /\ ans \in Ids
      BY <3>2, <3>1 DEF Creating
    <3> QED BY <1>2, <2>2, <3>3 DEF Sound
  <2>4. /\ row[x].lease = "none" => row'[x].lease = "none"
        /\ row'[x].conns \in {row[x].conns, 0} \/ row[x].state \in Running
    BY <1>2
  <2> QED BY <1>2, <1>3, <2>1, <2>3, <2>4, SoundKept
<1> QED BY <1>3, <1>4, <1>5, <1>6 DEF RInv

\* A provisioning goes on; its first step leaves no connection.
LEMMA ManagerAdvances ==
  ASSUME RInv, NEW o \in ops, NEW b \in Boxes,
         NEW step \in {"create", "check", "start", "report", "undo"},
         o.op = "provision", Advance(o, step),
         Replace(o.w, b) \/ UNCHANGED <<box, open, row, current>>,
         o.step = "begin" => open'[o.w] = 0,
         UNCHANGED <<cap, session, pass>>, faults' \in 0..MaxFaults
  PROVE  RInv'
<1> USE DEF RInv
<1> DEFINE n == [o EXCEPT !.step = step]
           w == o.w
<1>1. o \in Ops /\ w \in Workspaces /\ (Replace(w, b) \/ UNCHANGED <<box, open, row, current>>)
  BY DEF RuntimesTypeOK, Ops
<1>2. n \in Ops /\ n.for = o.for /\ n.op = o.op /\ n.id = o.id /\ n.w = w
  BY <1>1 DEF Ops
<1>3. ops' = (ops \ {o}) \cup {n} /\ task' = task /\ (o.step = "begin" => open'[w] = 0) /\ w = o.w
  BY DEF Advance
<1> HIDE DEF n, w
<1>4. /\ row' \in [Workspaces -> Rows]
      /\ current' \in [Workspaces -> SUBSET Holders]
      /\ box' \in [Workspaces -> Boxes]
      /\ open' \in [Workspaces -> 0..MaxConns]
      /\ \A x \in Workspaces :
           /\ row'[x].state = row[x].state /\ row'[x].backend = row[x].backend
           /\ row'[x].lease = row[x].lease
           /\ row'[x] = row[x] \/ row[x].state \in Running
           /\ current'[x] \subseteq current[x]
           /\ open'[x] <= open[x]
           /\ row'[x].state \in Running => open'[x] <= row'[x].conns
  BY <1>1, BoxMoves
<1>5. ops' \subseteq Ops
  BY <1>2, <1>3 DEF RuntimesTypeOK
<1>6. OpsAreAwaited'
  <2>1. n.for # None => \A q \in ops : q.for = n.for => q = o
    BY <1>2 DEF OpsAreAwaited
  <2> QED BY <1>2, <1>3, <2>1 DEF OpsAreAwaited
<1>7. \A x \in Workspaces : Creating(x)' => Creating(x) \/ open'[x] = 0
  BY <1>2, <1>3 DEF Creating
<1>8. RuntimesTypeOK' /\ TasksFit'
  BY <1>3, <1>4, <1>5 DEF RuntimesTypeOK, TasksFit
<1>9. Views'
  <2>1. \A x \in Workspaces : None \notin current'[x]
    BY <1>4, RuntimesAssumption DEF Holders
  <2> QED BY <1>3, <1>4, <2>1, ViewsKept
<1>10. ASSUME NEW x \in Workspaces PROVE Sound(x)'
  <2>1. row'[x].conns \in {row[x].conns, 0} \/ row[x].state \in Running
    BY <1>4
  <2> QED BY <1>3, <1>4, <1>7, <2>1, SoundKept
<1> QED BY <1>6, <1>8, <1>9, <1>10

LEMMA ManagerPreserves ==
  ASSUME RInv, NEW o \in ops, ManagerStep(o) \/ ManagerFails(o)
  PROVE  RInv'
<1> USE DEF RInv
<1>1. o \in Ops /\ o.w \in Workspaces /\ box[o.w] \in Boxes
  BY DEF RuntimesTypeOK, Ops
<1>2. /\ faults \in 0..MaxFaults /\ (faults > 0 => faults - 1 \in 0..MaxFaults)
      /\ NoBox \in Boxes /\ NoBox.state # "running"
      /\ box[o.w] # NoBox => box[o.w].id \in Ids
  BY <1>1, RuntimesAssumption DEF RuntimesTypeOK, Boxes, NoBox
<1>3. CASE ManagerClears(o)
  <2>1. /\ o.op = "provision" /\ Advance(o, "create") /\ Replace(o.w, NoBox)
        /\ UNCHANGED <<cap, session, pass, faults>>
    BY <1>3 DEF ManagerClears
  <2>2. open'[o.w] = 0
    <3>1. \A w \in Workspaces : Replace(w, NoBox) => open'[w] = 0
      BY <1>2, ReplaceFacts
    <3> QED BY <1>1, <2>1, <3>1
  <2> QED BY <1>2, <2>1, <2>2, ManagerAdvances
<1>4. CASE ManagerCreates(o)
  <2>1. o.op = "provision" => [id |-> o.id, state |-> "created"] \in Boxes
    BY DEF OpsAreAwaited, Boxes
  <2> QED BY <1>1, <1>2, <1>4, <2>1, ManagerAdvances DEF ManagerCreates
<1>5. CASE ManagerChecks(o)
  BY <1>1, <1>2, <1>5, ManagerAdvances DEF ManagerChecks
<1>6. CASE ManagerStarts(o)
  <2>1. box[o.w] # NoBox => [box[o.w] EXCEPT !.state = "running"] \in Boxes
    BY <1>1 DEF Boxes
  <2> QED BY <1>1, <1>2, <1>6, <2>1, ManagerAdvances DEF ManagerStarts
<1>7. CASE ManagerReports(o)
  <2>1. CASE box[o.w] = NoBox
    BY <1>1, <1>2, <1>7, <2>1, ManagerAdvances DEF ManagerReports
  <2>2. CASE box[o.w] # NoBox
    BY <1>1, <1>2, <1>7, <2>2, ManagerAnswers DEF ManagerReports
  <2> QED BY <2>1, <2>2
<1>8. CASE ManagerUndoes(o)
  BY <1>1, <1>2, <1>8, ManagerAnswers DEF ManagerUndoes
<1>9. CASE ManagerStops(o)
  <2>1. box[o.w].state = "running" => [box[o.w] EXCEPT !.state = "exited"] \in Boxes
    BY <1>1 DEF Boxes, NoBox
  <2> QED BY <1>1, <1>2, <1>9, <2>1, ManagerAnswers DEF ManagerStops
<1>10. CASE ManagerRemoves(o)
  BY <1>1, <1>2, <1>10, ManagerAnswers DEF ManagerRemoves
<1>11. CASE ManagerFails(o)
  <2>1. /\ faults' \in 0..MaxFaults
        /\ UNCHANGED <<row, cap, box, session, open, pass, current>>
        /\ \/ o.op = "provision" /\ o.step # "begin" /\ Advance(o, "undo")
           \/ Answer(o, "failed")
    BY <1>2, <1>11 DEF ManagerFails
  <2> QED BY <1>1, <1>2, <2>1, ManagerAnswers, ManagerAdvances
<1> QED BY <1>3, <1>4, <1>5, <1>6, <1>7, <1>8, <1>9, <1>10, <1>11 DEF ManagerStep

-----------------------------------------------------------------------------
(* The gateway, the sessions and the clocks.                               *)

\* Nobody's task or request moves, and nobody learns anything.
LEMMA QuietStep ==
  ASSUME RInv, RuntimesTypeOK', UNCHANGED <<task, pass, ops>>,
         \A x \in Workspaces : row'[x].state = row[x].state /\ current'[x] \subseteq current[x],
         \A x \in Workspaces : (Creating(x)' <=> Creating(x)) => Sound(x)'
  PROVE  RInv'
<1>1. TasksFit' /\ OpsAreAwaited'
  BY DEF RInv, TasksFit, OpsAreAwaited
<1>2. \A x \in Workspaces : Creating(x)' <=> Creating(x)
  BY DEF Creating
<1>3. Views'
  <2>1. current' \in [Workspaces -> SUBSET Holders]
    BY DEF RuntimesTypeOK
  <2>2. \A x \in Workspaces : None \notin current'[x]
    BY <2>1, RuntimesAssumption DEF Holders
  <2> QED BY <2>1, <2>2, ViewsKept
<1> QED BY <1>1, <1>2, <1>3 DEF RInv

LEMMA SessionPreserves ==
  ASSUME RInv, NEW w \in Workspaces,
         OpenSession(w) \/ SessionExpires(w) \/ Touch(w) \/ LeaseLapses(w) \/ LifetimeLapses(w)
  PROVE  RInv'
<1> USE DEF RInv
<1>1. \A x \in Workspaces : row[x] \in Rows /\ open[x] \in Nat /\ 0 \in 0..MaxConns
  BY RuntimesAssumption DEF RuntimesTypeOK
<1>2. /\ row' \in [Workspaces -> Rows]
      /\ \A x \in Workspaces :
           /\ row'[x].state = row[x].state /\ row'[x].backend = row[x].backend
           /\ row'[x].conns = row[x].conns
           /\ row[x].lease = "none" => row'[x].lease = "none"
  <2>1. CASE UNCHANGED row
    BY <2>1 DEF RuntimesTypeOK
  <2>2. CASE LeaseLapses(w)
    <3>1. [row[w] EXCEPT !.lease = "lapsed"] \in Rows
      BY <1>1 DEF Rows
    <3> QED BY <1>1, <2>2, <3>1 DEF LeaseLapses, RuntimesTypeOK, Rows
  <2>3. CASE LifetimeLapses(w)
    <3>1. [row[w] EXCEPT !.lapsed = TRUE] \in Rows
      BY <1>1 DEF Rows
    <3> QED BY <1>1, <2>3, <3>1 DEF LifetimeLapses, RuntimesTypeOK, Rows
  <2> QED BY <2>1, <2>2, <2>3 DEF OpenSession, SessionExpires, Touch
<1>3. /\ session' \in [Workspaces -> BOOLEAN]
      /\ open' \in [Workspaces -> 0..MaxConns]
      /\ current' \in [Workspaces -> SUBSET Holders]
      /\ \A x \in Workspaces :
           /\ current'[x] \subseteq current[x]
           /\ open'[x] <= open[x]
           /\ session'[x] => session[x] \/ row[x].state # "REVOKED"
  <2> USE <1>1 DEF RuntimesTypeOK
  <2>1. CASE OpenSession(w)
    BY <2>1 DEF OpenSession, Serving, Running
  <2>2. CASE SessionExpires(w)
    BY <2>2 DEF SessionExpires
  <2>3. CASE Touch(w)
    BY <2>3 DEF Touch
  <2>4. CASE LeaseLapses(w)
    BY <2>4 DEF LeaseLapses
  <2>5. CASE LifetimeLapses(w)
    BY <2>5 DEF LifetimeLapses
  <2> QED BY <2>1, <2>2, <2>3, <2>4, <2>5
<1>4. UNCHANGED <<cap, box, task, pass, ops, faults>>
  BY DEF OpenSession, SessionExpires, Touch, LeaseLapses, LifetimeLapses
<1>5. RuntimesTypeOK'
  BY <1>2, <1>3, <1>4 DEF RuntimesTypeOK
<1>6. ASSUME NEW x \in Workspaces, Creating(x)' <=> Creating(x) PROVE Sound(x)'
  <2>1. row'[x].state \in Running => open'[x] <= row'[x].conns
    <3>1. row[x].conns \in Nat /\ open'[x] \in Nat
      BY <1>1, <1>3, RuntimesAssumption DEF Rows
    <3> QED BY <1>1, <1>2, <1>3, <3>1 DEF Sound
  <2> QED BY <1>2, <1>3, <1>4, <1>6, <2>1, SoundKept
<1> QED BY <1>2, <1>3, <1>4, <1>5, <1>6, QuietStep

LEMMA ConnectionPreserves ==
  ASSUME RInv, NEW w \in Workspaces, Connect(w) \/ Disconnect(w)
  PROVE  RInv'
<1> USE DEF RInv
<1>1. /\ row[w] \in Rows /\ row[w].conns \in 0..MaxConns /\ open[w] \in 0..MaxConns
      /\ MaxConns \in Nat
  BY RuntimesAssumption DEF RuntimesTypeOK, Rows
<1>2. UNCHANGED <<cap, box, session, task, pass, ops, faults>>
  BY DEF Connect, Disconnect
<1> DEFINE Counts(n, k) ==
        /\ open' = [open EXCEPT ![w] = k]
        /\ \/ WriteAndGo(w, [row[w] EXCEPT !.conns = n]) /\ row[w].state \in Running
           \/ UNCHANGED <<row, current>> /\ n = row[w].conns
        /\ open[w] <= row[w].conns => k <= n
        /\ row[w].state \in Running \/ k <= open[w]
<1>3. PICK n \in 0..MaxConns, k \in 0..MaxConns : Counts(n, k)
  <2>1. CASE Connect(w)
    <3>1. row[w].conns + 1 \in 0..MaxConns /\ open[w] + 1 \in 0..MaxConns
      BY <1>1, <2>1 DEF Connect
    <3>2. WriteAndGo(w, [row[w] EXCEPT !.conns = row[w].conns + 1]) /\ row[w].state \in Running
      BY <2>1 DEF Connect, Serving
    <3>3. open' = [open EXCEPT ![w] = open[w] + 1]
      BY <2>1 DEF Connect
    <3>4. open[w] <= row[w].conns => open[w] + 1 <= row[w].conns + 1
      BY <1>1
    <3>5. Counts(row[w].conns + 1, open[w] + 1)
      BY <3>2, <3>3, <3>4
    <3> QED BY <3>1, <3>5
  <2>2. CASE Disconnect(w)
    <3>1. open' = [open EXCEPT ![w] = open[w] - 1] /\ open[w] - 1 \in 0..MaxConns
      BY <1>1, <2>2 DEF Disconnect
    <3>2. CASE Serving(w) /\ session[w] /\ row[w].conns > 0
      <4>1. row[w].conns - 1 \in 0..MaxConns
        BY <1>1, <3>2
      <4>2. WriteAndGo(w, [row[w] EXCEPT !.conns = row[w].conns - 1]) /\ row[w].state \in Running
        BY <2>2, <3>2 DEF Disconnect, Serving
      <4>3. open[w] <= row[w].conns => open[w] - 1 <= row[w].conns - 1
        BY <1>1
      <4>4. Counts(row[w].conns - 1, open[w] - 1)
        BY <3>1, <4>2, <4>3
      <4> QED BY <3>1, <4>1, <4>4
    <3>3. CASE ~(Serving(w) /\ session[w] /\ row[w].conns > 0)
      <4>1. UNCHANGED <<row, current>>
        BY <2>2, <3>3 DEF Disconnect
      <4>2. open[w] - 1 <= open[w] /\ (open[w] <= row[w].conns => open[w] - 1 <= row[w].conns)
        BY <1>1
      <4>3. Counts(row[w].conns, open[w] - 1)
        BY <3>1, <4>1, <4>2
      <4> QED BY <1>1, <3>1, <4>3
    <3> QED BY <3>2, <3>3
  <2> QED BY <2>1, <2>2
<1> DEFINE r == [row[w] EXCEPT !.conns = n]
<1>4. /\ r \in Rows /\ r.state = row[w].state /\ r.backend = row[w].backend
      /\ r.lease = row[w].lease /\ r.conns = n
  BY <1>1 DEF Rows
<1> HIDE DEF r
<1>5. /\ row' \in [Workspaces -> Rows]
      /\ current' \in [Workspaces -> SUBSET Holders]
      /\ open' \in [Workspaces -> 0..MaxConns]
      /\ \A x \in Workspaces :
           /\ row'[x].state = row[x].state /\ row'[x].backend = row[x].backend
           /\ row'[x].lease = row[x].lease /\ current'[x] \subseteq current[x]
      /\ \A x \in Workspaces \ {w} : row'[x] = row[x] /\ open'[x] = open[x]
      /\ row'[w].conns = n /\ open'[w] = k
  BY <1>1, <1>3, <1>4 DEF RuntimesTypeOK, WriteAndGo, r
<1> HIDE DEF Counts
<1>6. RuntimesTypeOK'
  BY <1>2, <1>5 DEF RuntimesTypeOK
<1>7. ASSUME NEW x \in Workspaces, Creating(x)' <=> Creating(x) PROVE Sound(x)'
  <2>1. CASE x # w
    BY <1>2, <1>5, <1>7, <2>1 DEF Sound
  <2>2. CASE x = w
    <3>1. k \in Nat /\ open[w] \in Nat
      BY <1>1
    <3>2. open[w] <= row[w].conns \/ row[w].state \notin Running
      BY DEF Sound
    <3>3. row[w].state \notin Running => k <= open[w]
      BY <1>3 DEF Counts
    <3>4. open[w] = 0 /\ row[w].state \notin Running => k = 0
      BY <3>1, <3>3
    <3>5. row[w].state \in Running => k <= n
      BY <1>3, <3>2 DEF Counts
    <3>6. row[w].state \notin Running => row'[w].conns = row[w].conns
      BY <1>3, <1>5 DEF Counts
    <3>7. Creating(w) => task[w].pc = "waiting"
      BY DEF Creating, OpsAreAwaited
    <3>8. row[w].state \in {"STARTING", "REVOKED"} => row[w].state \notin Running
      BY DEF Running
    <3>9. Sound(w)
      OBVIOUS
    <3> HIDE DEF RInv, Counts, Creating
    <3> QED BY <1>2, <1>5, <1>7, <2>2, <3>4, <3>5, <3>6, <3>7, <3>8, <3>9 DEF Sound
  <2> QED BY <2>1, <2>2
<1> QED BY <1>2, <1>5, <1>6, <1>7, QuietStep

LEMMA LogoutPreserves == ASSUME RInv, Logout PROVE RInv'
<1> USE DEF RInv
<1> DEFINE closed(x) == [row[x] EXCEPT !.conns = 0]
<1>1. ASSUME NEW x \in Workspaces
      PROVE  /\ closed(x) \in Rows /\ closed(x).state = row[x].state /\ closed(x).conns = 0
             /\ closed(x).backend = row[x].backend /\ closed(x).lease = row[x].lease
  <2>1. row[x] \in Rows /\ 0 \in 0..MaxConns
    BY RuntimesAssumption DEF RuntimesTypeOK
  <2> QED BY <2>1 DEF Rows
<1>2. row' = [x \in Workspaces |-> closed(x)]
  BY DEF Logout
<1> HIDE DEF closed
<1>3. /\ open' = [x \in Workspaces |-> 0] /\ session' = [x \in Workspaces |-> FALSE]
      /\ current' \in [Workspaces -> SUBSET Holders]
      /\ \A x \in Workspaces : current'[x] \subseteq current[x]
      /\ UNCHANGED <<cap, box, task, pass, ops, faults>>
  BY DEF Logout, RuntimesTypeOK
<1>4. RuntimesTypeOK'
  BY <1>1, <1>2, <1>3, RuntimesAssumption DEF RuntimesTypeOK
<1>5. ASSUME NEW x \in Workspaces, Creating(x)' <=> Creating(x) PROVE Sound(x)'
  <2>1. Sound(x)
    OBVIOUS
  <2> QED BY <1>1, <1>2, <1>3, <1>5, <2>1 DEF Sound
<1>6. \A x \in Workspaces : row'[x].state = row[x].state
  BY <1>1, <1>2
<1> QED BY <1>3, <1>4, <1>5, <1>6, QuietStep

LEMMA BoxExitsPreserves == ASSUME RInv, NEW w \in Workspaces, BoxExits(w) PROVE RInv'
<1> USE DEF RInv
<1> DEFINE b == [box[w] EXCEPT !.state = "exited"]
<1>1. b \in Boxes /\ b.state # "running"
  <2>1. box[w] \in [id : Ids, state : {"created", "running", "exited"}]
    BY DEF BoxExits, RuntimesTypeOK, Boxes, NoBox
  <2> QED BY <2>1 DEF Boxes
<1>2. Replace(w, b) /\ UNCHANGED <<cap, session, task, pass, ops>> /\ faults' \in 0..MaxFaults
  BY RuntimesAssumption DEF BoxExits, RuntimesTypeOK
<1> HIDE DEF b
<1>3. /\ row' \in [Workspaces -> Rows]
      /\ current' \in [Workspaces -> SUBSET Holders]
      /\ box' \in [Workspaces -> Boxes]
      /\ open' \in [Workspaces -> 0..MaxConns]
      /\ \A x \in Workspaces :
           /\ row'[x].state = row[x].state /\ row'[x].backend = row[x].backend
           /\ row'[x].lease = row[x].lease
           /\ current'[x] \subseteq current[x]
           /\ open'[x] <= open[x]
      /\ \A x \in Workspaces \ {w} : row'[x] = row[x] /\ open'[x] = open[x]
      /\ row[w].state \notin Running => row' = row
      /\ open'[w] = 0
  BY <1>1, <1>2, ReplaceFacts
<1>4. RuntimesTypeOK'
  BY <1>2, <1>3 DEF RuntimesTypeOK
<1>5. ASSUME NEW x \in Workspaces, Creating(x)' <=> Creating(x) PROVE Sound(x)'
  <2>1. Sound(x)
    OBVIOUS
  <2>2. CASE x # w
    BY <1>2, <1>3, <1>5, <2>1, <2>2 DEF Sound
  <2>3. CASE x = w
    <3>1. row'[w].conns \in Nat
      BY <1>3, RuntimesAssumption DEF Rows
    <3>2. row[w].state = "REVOKED" => row' = row
      BY <1>3 DEF Running
    <3> QED BY <1>2, <1>3, <1>5, <2>1, <2>3, <3>1, <3>2 DEF Sound
  <2> QED BY <2>2, <2>3
<1> QED BY <1>2, <1>3, <1>4, <1>5, QuietStep

LEMMA TimesOutPreserves == ASSUME RInv, NEW o \in ops, TimesOut(o) PROVE RInv'
<1> USE DEF RInv
<1> DEFINE n == [o EXCEPT !.for = None]
           t == [task[o.for] EXCEPT !.ans = "failed"]
<1>1. o \in Ops /\ o.for \in Holders
  BY DEF TimesOut, RuntimesTypeOK, Ops
<1>2. n \in Ops /\ n.for = None /\ n.op = o.op /\ n.id = o.id
  BY <1>1 DEF Ops
<1>3. /\ t \in Tasks /\ t.pc = task[o.for].pc /\ t.w = task[o.for].w /\ t.id = task[o.for].id
      /\ t.ans = "failed"
  <2>1. task[o.for] \in Tasks
    BY <1>1 DEF RuntimesTypeOK
  <2> QED BY <2>1 DEF Tasks
<1>4. /\ ops' = (ops \ {o}) \cup {n} /\ task' = [task EXCEPT ![o.for] = t]
      /\ UNCHANGED <<row, cap, box, session, open, pass, current>> /\ faults' \in 0..MaxFaults
  BY RuntimesAssumption DEF TimesOut, RuntimesTypeOK
<1> HIDE DEF n, t
<1>5. /\ task' \in [Holders -> Tasks]
      /\ \A g \in Holders : task'[g].pc = task[g].pc /\ task'[g].w = task[g].w /\ task'[g].id = task[g].id
      /\ \A g \in Holders \ {o.for} : task'[g] = task[g]
      /\ task'[o.for].ans = "failed"
  BY <1>1, <1>3, <1>4 DEF RuntimesTypeOK
<1>6. RuntimesTypeOK' /\ TasksFit'
  BY <1>2, <1>4, <1>5 DEF RuntimesTypeOK, TasksFit, Holders
<1>7. OpsAreAwaited'
  <2>1. \A q \in ops' : q.for # None => q \in ops /\ q.for \in Holders \ {o.for}
    BY <1>1, <1>2, <1>4 DEF OpsAreAwaited, RuntimesTypeOK, Ops
  <2> QED BY <1>2, <1>4, <1>5, <2>1 DEF OpsAreAwaited
<1>8. \A x \in Workspaces : Creating(x)' => Creating(x)
  BY <1>2, <1>4 DEF Creating
<1>9. Views'
  <2>1. \A x \in Workspaces : None \notin current'[x]
    BY <1>6, RuntimesAssumption DEF RuntimesTypeOK, Holders
  <2> QED BY <1>4, <1>5, <1>6, <2>1, ViewsKept DEF RuntimesTypeOK
<1>10. ASSUME NEW x \in Workspaces PROVE Sound(x)'
  <2>1. Sound(x) /\ x \in Holders
    BY DEF Holders
  <2>2. task'[x] = task[x] \/ task'[x].ans = "failed"
    BY <1>5, <2>1
  <2> HIDE DEF Creating
  <2> QED BY <1>4, <1>5, <1>8, <2>1, <2>2 DEF Sound, Named
<1> QED BY <1>6, <1>7, <1>9, <1>10

\* After a restart nobody holds anything; the row of w may be the start's.
LEMMA RestartedPreserves ==
  ASSUME RInv, NEW w, Crash \/ (w \in Workspaces /\ CrashInStart(w))
  PROVE  RInv'
<1> USE DEF RInv
<1>1. Restarted /\ UNCHANGED <<box, session, open>>
  BY DEF Crash, CrashInStart
<1>2. /\ row' \in [Workspaces -> Rows] /\ cap' \in [Workspaces -> Ids \cup {None}]
      /\ \A x \in Workspaces \ {w} : row'[x] = row[x] /\ cap'[x] = cap[x]
      /\ \/ row'[w] = row[w] /\ cap'[w] = cap[w]
         \/ row'[w].state \in {"ABSENT", "STOPPED", "FAILED", "PROVISIONING"}
  <2>1. CASE Crash
    BY <2>1 DEF Crash, RuntimesTypeOK
  <2>2. CASE w \in Workspaces /\ CrashInStart(w)
    <3> DEFINE r == [row[w] EXCEPT !.state = "PROVISIONING", !.backend = None, !.lapsed = FALSE]
    <3>1. r \in Rows /\ r.state = "PROVISIONING"
      <4>1. row[w] \in Rows
        BY <2>2 DEF RuntimesTypeOK
      <4> QED BY <4>1 DEF Rows, States
    <3>2. row' = row \/ row' = [row EXCEPT ![w] = r]
      BY <2>2 DEF CrashInStart
    <3> HIDE DEF r
    <3>3. cap' = [cap EXCEPT ![w] = Fresh(w)] /\ Fresh(w) \in Ids
      BY <2>2 DEF CrashInStart, Bind, Fresh
    <3>4. row[w].state \in {"ABSENT", "STOPPED", "FAILED"}
      BY <2>2 DEF CrashInStart
    <3> QED BY <2>2, <3>1, <3>2, <3>3, <3>4 DEF RuntimesTypeOK
  <2> QED BY <2>1, <2>2
<1>3. NoTask \in Tasks /\ NoPass \in PassStates /\ NoTask.pc = "idle"
  BY DEF NoTask, Tasks, NoPass, PassStates, Boxes
<1>4. /\ task' \in [Holders -> Tasks] /\ pass' \in [Passes -> PassStates]
      /\ current' \in [Workspaces -> SUBSET Holders] /\ faults' \in 0..MaxFaults
      /\ \A h \in Holders : task'[h].pc = "idle"
      /\ \A x \in Workspaces : current'[x] = {}
  BY <1>1, <1>3, RuntimesAssumption DEF Restarted, RuntimesTypeOK
<1>5. ASSUME NEW o \in ops
      PROVE  LET n == [o EXCEPT !.for = None]
             IN n \in Ops /\ n.for = None /\ n.op = o.op /\ n.id = o.id
  <2>1. o \in Ops
    BY DEF RuntimesTypeOK
  <2> QED BY <2>1 DEF Ops
<1>6. \A n \in ops' : n \in Ops /\ n.for = None /\ (n.op = "provision" => n.id \in Ids)
  <2>1. \A n \in ops' : \E o \in ops : n = [o EXCEPT !.for = None]
    BY <1>1 DEF Restarted
  <2> SUFFICES ASSUME NEW o \in ops, NEW n, n = [o EXCEPT !.for = None]
               PROVE  n \in Ops /\ n.for = None /\ (n.op = "provision" => n.id \in Ids)
    BY <2>1
  <2>2. o.op = "provision" => o.id \in Ids
    BY DEF OpsAreAwaited
  <2> QED BY <1>5, <2>2
<1>7. RuntimesTypeOK' /\ TasksFit' /\ OpsAreAwaited' /\ Views'
  BY <1>1, <1>2, <1>4, <1>6 DEF RuntimesTypeOK, TasksFit, OpsAreAwaited, Views, Holders
<1>8. ASSUME NEW x \in Workspaces PROVE Sound(x)'
  <2>1. Sound(x) /\ task'[x].pc = "idle"
    BY <1>4 DEF Holders
  <2>2. ~Creating(x)'
    BY <1>6 DEF Creating
  <2> HIDE DEF Creating
  <2> QED BY <1>1, <1>2, <2>1, <2>2 DEF Sound, Running
<1> QED BY <1>7, <1>8

-----------------------------------------------------------------------------
(* Starts. *)

LEMMA HoldersApart ==
  /\ Workspaces \subseteq Holders /\ Callers \subseteq Holders /\ Passes \subseteq Holders
  /\ None \notin Holders
  /\ \A c \in Callers : c \notin Workspaces /\ c \notin Passes
  /\ \A p \in Passes : p \notin Workspaces /\ p \notin Callers
BY RuntimesAssumption DEF Holders

LEMMA SoundElsewhere ==
  ASSUME RInv, NEW x \in Workspaces, row'[x] = row[x], cap'[x] = cap[x], open'[x] = open[x],
         session'[x] = session[x], task'[x] = task[x], Creating(x)' => Creating(x)
  PROVE  Sound(x)'
<1>1. Sound(x)
  BY DEF RInv
<1> HIDE DEF Creating
<1> QED BY <1>1 DEF Sound

\* Nobody answers a holder that waits for nothing, or twice.
LEMMA NoRequest ==
  ASSUME RInv, NEW h \in Holders, task[h].pc \notin Awaiting \/ task[h].ans # None
  PROVE  \A o \in ops : o.for # h
BY HoldersApart DEF RInv, OpsAreAwaited

LEMMA StartPreserves == ASSUME RInv, NEW w \in Workspaces, Start(w) PROVE RInv'
<1> USE DEF RInv
<1> DEFINE r == [row[w] EXCEPT !.state = "PROVISIONING", !.backend = None,
                               !.lapsed = FALSE, !.lease = "live"]
<1>1. w \in Holders /\ Fresh(w) \in Ids
  BY HoldersApart DEF Start, Fresh
<1>2. r \in Rows /\ r.state = "PROVISIONING"
  <2>1. row[w] \in Rows
    BY DEF RuntimesTypeOK
  <2> QED BY <2>1 DEF Rows, States
<1>3. /\ Write(w, w, r) /\ Await(w, w, Fresh(w), "waiting") /\ task[w].pc = "idle"
      /\ Request("provision", w, w, Fresh(w)) /\ cap' = [cap EXCEPT ![w] = Fresh(w)]
      /\ UNCHANGED <<box, session, open, pass, faults>>
  BY DEF Start, Bind
<1> HIDE DEF r
<1>4. /\ row' \in [Workspaces -> Rows] /\ current' \in [Workspaces -> SUBSET Holders]
      /\ row'[w].state = "PROVISIONING" /\ current'[w] \subseteq {w}
      /\ \A x \in Workspaces \ {w} : row'[x] = row[x] /\ current'[x] = current[x]
  BY <1>1, <1>2, <1>3, WriteFacts
<1>5. /\ task' \in [Holders -> Tasks]
      /\ task'[w] = [pc |-> "waiting", w |-> w, id |-> Fresh(w), ans |-> None]
      /\ \A g \in Holders \ {w} : task'[g] = task[g]
  BY <1>1, <1>3, AwaitFacts DEF Awaiting
<1>6. \A o \in ops : o.for # w
  BY <1>1, <1>3, NoRequest DEF Awaiting
<1>7. ops' \subseteq Ops /\ OpsAreAwaited' /\ \A x \in Workspaces : Creating(x)' => Creating(x)
  BY <1>1, <1>3, <1>5, <1>6, RequestFacts DEF Awaiting
<1>8. RuntimesTypeOK' /\ TasksFit'
  <2>1. cap' \in [Workspaces -> Ids \cup {None}]
    BY <1>1, <1>3 DEF RuntimesTypeOK
  <2> QED BY SMTT(30), <1>1, <1>3, <1>4, <1>5, <1>7, <2>1, HoldersApart DEF RuntimesTypeOK, TasksFit
<1>9. Views'
  <2>1. \A x \in Workspaces : w \in current'[x] => Sees(w, x)'
    BY <1>4, <1>5, HoldersApart DEF Sees, Views, TasksFit
  <2> QED BY <1>1, <1>3, <1>4, <1>5, <2>1, ViewsKept
<1>10. ASSUME NEW x \in Workspaces PROVE Sound(x)'
  <2>1. CASE x # w
    BY <1>1, <1>3, <1>4, <1>5, <1>7, <2>1, SoundElsewhere DEF RuntimesTypeOK, Holders
  <2>2. CASE x = w
    <3>1. ~Creating(w)
      BY <1>6 DEF Creating, OpsAreAwaited
    <3>2. cap'[w] = Fresh(w)
      BY <1>3 DEF RuntimesTypeOK
    <3> HIDE DEF Creating
    <3> QED BY <1>4, <1>5, <1>7, <2>2, <3>1, <3>2, RuntimesAssumption DEF Sound, Named, Running
  <2> QED BY <2>1, <2>2
<1> QED BY <1>7, <1>8, <1>9, <1>10

LEMMA StartRefusedPreserves == ASSUME RInv, NEW w \in Workspaces, StartRefused(w) PROVE RInv'
<1>1. RuntimesTypeOK' /\ \A x \in Workspaces : cap'[x] \in {cap[x], None}
  BY DEF RInv, RuntimesTypeOK, StartRefused
<1>2. UNCHANGED <<row, box, session, open, task, pass, ops, current, faults>>
  BY DEF StartRefused
<1>3. ASSUME NEW x \in Workspaces, Creating(x)' <=> Creating(x) PROVE Sound(x)'
  <2>1. Sound(x)
    BY DEF RInv
  <2> HIDE DEF Creating
  <2> QED BY <1>1, <1>2, <1>3, <2>1 DEF Sound
<1> QED BY <1>1, <1>2, <1>3, QuietStep

LEMMA StartAnsweredPreserves == ASSUME RInv, NEW w \in Workspaces, StartAnswered(w) PROVE RInv'
<1> USE DEF RInv
<1>1. w \in Holders /\ task[w].pc = "waiting" /\ task[w].ans # None /\ task[w].id \in Ids
  BY HoldersApart DEF StartAnswered, TasksFit
<1>2. \A o \in ops : o.for # w
  BY <1>1, NoRequest
<1>3. ~Creating(w)
  BY <1>2 DEF Creating, OpsAreAwaited
<1>4. CASE task[w].ans # "failed" /\ w \in current[w]
  <2> DEFINE r == [row[w] EXCEPT !.state = "STARTING", !.backend = task[w].ans]
  <2>0. open[w] = 0 /\ task[w].ans \in Ids
    BY <1>1, <1>4 DEF Sound, Named
  <2>1. r \in Rows /\ r.state = "STARTING" /\ r.backend = task[w].ans
    <3>1. row[w] \in Rows
      BY DEF RuntimesTypeOK
    <3> QED BY <2>0, <3>1 DEF Rows, States
  <2>2. WriteAndGo(w, r) /\ Done(w) /\ UNCHANGED <<cap, box, session, open, pass, ops, faults>>
    BY <1>4 DEF StartAnswered
  <2> HIDE DEF r
  <2>3. /\ row' \in [Workspaces -> Rows] /\ current' \in [Workspaces -> SUBSET Holders]
        /\ row'[w] = r /\ current'[w] = {}
        /\ \A x \in Workspaces \ {w} : row'[x] = row[x] /\ current'[x] = current[x]
    BY <1>1, <2>1, <2>2, WriteFacts
  <2>4. /\ task' \in [Holders -> Tasks] /\ task'[w].pc = "idle" /\ task'[w].w = None
        /\ \A g \in Holders \ {w} : task'[g] = task[g]
    BY <1>1, <2>2, DoneFacts
  <2>5. OpsAreAwaited' /\ \A x \in Workspaces : Creating(x)' => Creating(x)
    BY <1>2, <2>2, <2>4, OpsKept DEF RuntimesTypeOK, Ops
  <2>6. RuntimesTypeOK' /\ TasksFit'
    BY <2>2, <2>3, <2>4, HoldersApart DEF RuntimesTypeOK, TasksFit
  <2>7. Views'
    <3>1. \A x \in Workspaces : w \in current'[x] => Sees(w, x)'
      BY <2>3, <2>4, HoldersApart, RuntimesAssumption DEF Sees
    <3> QED BY <1>1, <2>2, <2>3, <2>4, <3>1, ViewsKept
  <2>8. ASSUME NEW x \in Workspaces PROVE Sound(x)'
    <3>1. CASE x # w
      BY <2>2, <2>3, <2>4, <2>5, <3>1, SoundElsewhere, HoldersApart
    <3>2. CASE x = w
      <4>1. open[w] = 0 /\ task[w].ans # None
        BY <1>1, <2>0
      <4> HIDE DEF Creating
      <4> QED BY <2>1, <2>2, <2>3, <2>4, <3>2, <4>1 DEF Sound, Running
    <3> QED BY <3>1, <3>2
  <2> QED BY <2>5, <2>6, <2>7, <2>8
<1>5. CASE ~(task[w].ans # "failed" /\ w \in current[w])
  <2>1. StartFailed(w)
    BY <1>5 DEF StartAnswered
  <2>2. /\ UNCHANGED <<row, box, session, open, pass, faults>> /\ cap' = [cap EXCEPT ![w] = None]
    BY <2>1 DEF StartFailed
  <2>3. /\ current' \in [Workspaces -> SUBSET Holders]
        /\ \A x \in Workspaces : current'[x] \subseteq current[x] \cup {w}
        /\ \A x \in Workspaces \ {w} : current'[x] = current[x]
        /\ w \in current'[w] => row[w].state = "PROVISIONING"
        /\ row[w].state = "PROVISIONING" => current'[w] = current[w] \cup {w}
    BY <1>1, <2>1 DEF StartFailed, RuntimesTypeOK
  <2>4. /\ task' \in [Holders -> Tasks]
        /\ \A g \in Holders \ {w} : task'[g] = task[g]
        /\ task'[w].pc \in {"idle", "removing"}
        /\ task'[w].w \in {None, w}
    <3>1. CASE row[w].state = "PROVISIONING"
      <4>1. Await(w, w, None, "removing")
        BY <2>1, <3>1 DEF StartFailed
      <4>2. "removing" \in Awaiting
        BY DEF Awaiting
      <4>3. /\ task' \in [Holders -> Tasks]
            /\ task'[w] = [pc |-> "removing", w |-> w, id |-> None, ans |-> None]
            /\ \A g \in Holders \ {w} : task'[g] = task[g]
        BY <1>1, <4>1, <4>2, AwaitNothing
      <4> QED BY <4>3
    <3>2. CASE row[w].state # "PROVISIONING"
      <4>1. Done(w)
        BY <2>1, <3>2 DEF StartFailed
      <4> QED BY <1>1, <4>1, DoneFacts
    <3> QED BY <3>1, <3>2
  <2>5. ops' \subseteq Ops /\ OpsAreAwaited' /\ \A x \in Workspaces : Creating(x)' => Creating(x)
    <3>1. CASE row[w].state = "PROVISIONING"
      <4>1. Await(w, w, None, "removing") /\ Request("remove", w, w, None)
        BY <2>1, <3>1 DEF StartFailed
      <4>2. task'[w] = [pc |-> "removing", w |-> w, id |-> None, ans |-> None]
        BY <1>1, <4>1, AwaitNothing DEF Awaiting
      <4> QED BY <1>1, <1>2, <2>4, <4>1, <4>2, RequestFacts DEF Awaiting
    <3>2. CASE row[w].state # "PROVISIONING"
      <4>1. ops' = ops
        BY <2>1, <3>2 DEF StartFailed
      <4> QED BY <1>2, <2>4, <4>1, OpsKept DEF RuntimesTypeOK, Ops
    <3> QED BY <3>1, <3>2
  <2>6. RuntimesTypeOK' /\ TasksFit'
    <3>1. cap' \in [Workspaces -> Ids \cup {None}]
      BY <2>2 DEF RuntimesTypeOK
    <3>2. TasksFit'
      BY <2>2, <2>4, HoldersApart DEF TasksFit
    <3> QED BY <2>2, <2>3, <2>4, <2>5, <3>1, <3>2 DEF RuntimesTypeOK
  <2>7. Views'
    <3>1. ASSUME NEW x \in Workspaces, w \in current'[x] PROVE Sees(w, x)'
      <4>1. CASE x = w
        BY <2>2, <2>3, <2>4, <3>1, <4>1, HoldersApart DEF Sees
      <4>2. CASE x # w
        BY <2>2, <2>3, <2>4, <3>1, <4>2, HoldersApart DEF Sees, Views
      <4> QED BY <4>1, <4>2
    <3> QED BY <1>1, <2>2, <2>3, <2>4, <3>1, ViewsKept
  <2>8. ASSUME NEW x \in Workspaces PROVE Sound(x)'
    <3>1. CASE x # w
      BY <2>2, <2>4, <2>5, <3>1, SoundElsewhere, HoldersApart DEF RuntimesTypeOK
    <3>2. CASE x = w
      <4>1. Sound(w) /\ cap'[w] = None
        BY <2>2 DEF RuntimesTypeOK
      <4>2. row[w].state \notin {"STARTING"} \cup Running
        BY <1>1 DEF Sound
      <4> HIDE DEF Creating
      <4> QED BY <1>3, <2>2, <2>4, <2>5, <3>2, <4>1, <4>2 DEF Sound
    <3> QED BY <3>1, <3>2
  <2> QED BY <2>5, <2>6, <2>7, <2>8
<1> QED BY <1>4, <1>5

\* A row that has let go of its container, or has one nobody is starting.
SafeRow(w, r) ==
  \/ r.state \in Ends
  \/ /\ r.state \in {"STARTING"} \cup Running
     /\ task[w].pc = "idle"
     /\ r.backend # None
     /\ r.state = "STARTING" => open[w] = 0
     /\ r.state \in Running => open[w] <= r.conns

\* The end of a holder's turn: it ends with row w unchanged, or with a last
\* write of row w that took it to a state that is safe for everybody.
LEMMA LastWrite ==
  ASSUME RInv, NEW h \in Holders, NEW w \in Workspaces, NEW r \in Rows,
         WriteAndGo(w, r) \/ Leave(h, w),
         SafeRow(w, r), r.state = "REVOKED" => r.lease = "none" /\ r.conns = 0,
         UNCHANGED <<box, ops>>, faults' \in 0..MaxFaults,
         open' \in [Workspaces -> 0..MaxConns], session' \in [Workspaces -> BOOLEAN],
         \A x \in Workspaces \ {w} :
           open'[x] = open[x] /\ session'[x] = session[x] /\ cap'[x] = cap[x],
         cap' \in [Workspaces -> Ids \cup {None}], cap'[w] \in {cap[w], None},
         (open'[w] = open[w] /\ session'[w] = session[w]) \/ (open'[w] = 0 /\ ~session'[w]),
         r.state = "REVOKED" /\ WriteAndGo(w, r) => ~session'[w] /\ cap'[w] = None /\ open'[w] = 0,
         task' \in [Holders -> Tasks], pass' \in [Passes -> PassStates],
         task'[h].pc \in {"idle", "visiting"}, task'[h].w = None,
         \A g \in Holders \ {h} : task'[g] = task[g],
         \A p \in Passes \ {h} : pass'[p] = pass[p],
         h \in Passes => pass'[h].todo \ pass'[h].failed
                            \subseteq (pass[h].todo \ pass[h].failed) \ {w},
         h \notin Passes => task'[h].pc = "idle",
         \A o \in ops : o.for # h
  PROVE  RInv'
<1> USE DEF RInv
<1>1. /\ row' \in [Workspaces -> Rows] /\ current' \in [Workspaces -> SUBSET Holders]
      /\ \A x \in Workspaces \ {w} : row'[x] = row[x]
      /\ \A x \in Workspaces : current'[x] \subseteq current[x]
      /\ h \notin current'[w]
      /\ \/ row'[w] = row[w]
         \/ row'[w] = r /\ current'[w] = {} /\ WriteAndGo(w, r)
  <2>1. CASE WriteAndGo(w, r)
    BY <2>1, WriteFacts
  <2>2. CASE Leave(h, w)
    BY <2>2, LeaveFacts DEF RuntimesTypeOK
  <2> QED BY <2>1, <2>2
<1>2. OpsAreAwaited' /\ \A x \in Workspaces : Creating(x)' => Creating(x)
  BY OpsKept DEF RuntimesTypeOK, Ops
<1>3. RuntimesTypeOK'
  BY <1>1 DEF RuntimesTypeOK
<1>4. TasksFit'
  BY HoldersApart DEF TasksFit
<1>5. Views'
  <2>1. ASSUME NEW x \in Workspaces, h \in current'[x] PROVE Sees(h, x)'
    <3>1. x # w /\ row'[x] = row[x] /\ h \in current[x]
      BY <1>1, <2>1
    <3>2. h = x => task'[h].pc = "idle"
      BY HoldersApart
    <3>3. Sees(h, x)
      BY <3>1 DEF Views
    <3> QED BY <3>1, <3>2, <3>3, HoldersApart DEF Sees
  <2>2. \A x \in Workspaces : \A g \in current'[x] \ {h} :
          g \in current[x] /\ row'[x].state = row[x].state
    BY <1>1
  <2> QED BY <1>1, <2>1, <2>2, ViewsKept
<1>6. ASSUME NEW x \in Workspaces PROVE Sound(x)'
  <2>1. task'[x] = task[x] \/ task'[x].pc = "idle"
    BY HoldersApart
  <2>2. Sound(x) /\ open[x] \in Nat
    BY RuntimesAssumption DEF RuntimesTypeOK
  <2> HIDE DEF Creating
  <2>3. CASE row'[x] = row[x]
    <3>1. open'[x] \in {open[x], 0} /\ cap'[x] \in {cap[x], None}
      OBVIOUS
    <3>2. session'[x] => session[x]
      OBVIOUS
    <3>3. row[x].conns \in Nat
      BY RuntimesAssumption DEF RuntimesTypeOK, Rows
    <3> QED BY <1>2, <2>1, <2>2, <2>3, <3>1, <3>2, <3>3 DEF Sound
  <2>4. CASE x = w /\ row'[w] = r /\ WriteAndGo(w, r)
    <3>1. open'[w] \in {open[w], 0} /\ cap'[w] \in {cap[w], None} /\ r.conns \in Nat
      BY RuntimesAssumption DEF Rows
    <3>2. task[w].pc = "idle" => task'[w].pc = "idle"
      BY <2>1, <2>4
    <3>3. CASE r.state \in Ends
      BY <1>2, <2>1, <2>2, <2>4, <3>1, <3>3 DEF Sound, Running, Ends
    <3>4. CASE r.state \notin Ends
      <4>1. /\ r.state \in {"STARTING"} \cup Running /\ r.state # "REVOKED"
            /\ task[w].pc = "idle"
            /\ r.backend # None
            /\ r.state = "STARTING" => open[w] = 0
            /\ r.state \in Running => open[w] <= r.conns
        BY <3>4 DEF SafeRow, Ends
      <4>2. open[w] = 0 => open'[w] = 0
        BY <3>1
      <4> QED BY <1>2, <2>2, <2>4, <3>1, <3>2, <4>1, <4>2 DEF Sound
    <3> QED BY <3>3, <3>4
  <2> QED BY <1>1, <2>3, <2>4
<1> QED BY <1>2, <1>3, <1>4, <1>5, <1>6

LEMMA StartRemovedPreserves == ASSUME RInv, NEW w \in Workspaces, StartRemoved(w) PROVE RInv'
<1>1. w \in Holders /\ row[w] \in Rows /\ w \notin Passes
  BY HoldersApart DEF RInv, RuntimesTypeOK
<1>2. /\ Transition(row[w], "FAILED") \in Rows
      /\ Transition(row[w], "FAILED").state = "FAILED"
  BY <1>1, TransitionFacts DEF States
<1>3. /\ WriteAndGo(w, Transition(row[w], "FAILED")) \/ Leave(w, w)
      /\ Done(w) /\ task[w].ans # None
      /\ UNCHANGED <<cap, box, session, open, pass, ops, faults>>
  BY DEF StartRemoved
<1>4. /\ task' \in [Holders -> Tasks] /\ task'[w].pc = "idle" /\ task'[w].w = None
      /\ \A g \in Holders \ {w} : task'[g] = task[g]
  BY <1>1, <1>3, DoneFacts DEF RInv
<1>5. \A o \in ops : o.for # w
  BY <1>1, <1>3, NoRequest
<1> QED BY <1>1, <1>2, <1>3, <1>4, <1>5, LastWrite DEF RInv, RuntimesTypeOK, Ends, SafeRow

-----------------------------------------------------------------------------
(* The routes. *)

LEMMA StopAnsweredPreserves == ASSUME RInv, NEW c \in Callers, StopAnswered(c) PROVE RInv'
<1> DEFINE w == task[c].w
           r == Transition(row[w], "STOPPED")
<1>1. c \in Holders /\ w \in Workspaces /\ row[w] \in Rows /\ c \notin Passes
  BY HoldersApart DEF RInv, RuntimesTypeOK, TasksFit, StopAnswered
<1>2. r \in Rows /\ r.state = "STOPPED"
  BY <1>1, TransitionFacts DEF States
<1>3. /\ WriteAndGo(w, r) \/ Leave(c, w)
      /\ Done(c) /\ task[c].ans # None
      /\ UNCHANGED <<cap, box, session, open, pass, ops, faults>>
  BY DEF StopAnswered
<1>4. /\ task' \in [Holders -> Tasks] /\ task'[c].pc = "idle" /\ task'[c].w = None
      /\ \A g \in Holders \ {c} : task'[g] = task[g]
  BY <1>1, <1>3, DoneFacts DEF RInv
<1>5. \A o \in ops : o.for # c
  BY <1>1, <1>3, NoRequest
<1> HIDE DEF w, r
<1> QED BY <1>1, <1>2, <1>3, <1>4, <1>5, LastWrite DEF RInv, RuntimesTypeOK, Ends, SafeRow

LEMMA RevokeAnsweredPreserves == ASSUME RInv, NEW c \in Callers, RevokeAnswered(c) PROVE RInv'
<1> DEFINE w == task[c].w
           r == Transition(row[w], "REVOKED")
           strips == /\ task[c].ans = "ok"
                     /\ \/ task[c].pc = "clearing"
                        \/ task[c].pc = "tearing" /\ c \in current[w]
<1>1. c \in Holders /\ w \in Workspaces /\ row[w] \in Rows /\ c \notin Passes
  BY HoldersApart DEF RInv, RuntimesTypeOK, TasksFit, RevokeAnswered
<1>2. r \in Rows /\ r.state = "REVOKED" /\ r.lease = "none" /\ r.conns = 0
  BY <1>1, TransitionFacts DEF States, Ends
<1>3. /\ cap' = IF strips THEN [cap EXCEPT ![w] = None] ELSE cap
      /\ IF strips /\ c \in current[w] THEN ToRevoked(w)
         ELSE Leave(c, w) /\ UNCHANGED <<session, open>>
      /\ Done(c) /\ task[c].ans # None
      /\ UNCHANGED <<box, pass, ops, faults>>
  BY DEF RevokeAnswered
<1>4. /\ task' \in [Holders -> Tasks] /\ task'[c].pc = "idle" /\ task'[c].w = None
      /\ \A g \in Holders \ {c} : task'[g] = task[g]
  BY <1>1, <1>3, DoneFacts DEF RInv
<1>5. \A o \in ops : o.for # c
  BY <1>1, <1>3, NoRequest
<1> HIDE DEF w, r, strips
<1>6. CASE strips /\ c \in current[w]
  <2>1. /\ WriteAndGo(w, r) /\ session' = [session EXCEPT ![w] = FALSE]
        /\ open' = [open EXCEPT ![w] = 0] /\ cap' = [cap EXCEPT ![w] = None]
    BY <1>3, <1>6 DEF ToRevoked, r
  <2>2. /\ open' \in [Workspaces -> 0..MaxConns] /\ session' \in [Workspaces -> BOOLEAN]
        /\ cap' \in [Workspaces -> Ids \cup {None}]
        /\ open'[w] = 0 /\ ~session'[w] /\ cap'[w] = None
        /\ \A x \in Workspaces \ {w} :
             open'[x] = open[x] /\ session'[x] = session[x] /\ cap'[x] = cap[x]
    BY <1>1, <2>1, RuntimesAssumption DEF RInv, RuntimesTypeOK
  <2>3. (open'[w] = open[w] /\ session'[w] = session[w]) \/ (open'[w] = 0 /\ ~session'[w])
    BY <2>2
  <2>4. pass' \in [Passes -> PassStates] /\ \A p \in Passes : pass'[p] = pass[p]
    BY <1>3 DEF RInv, RuntimesTypeOK
  <2>5. SafeRow(w, r) /\ faults' \in 0..MaxFaults
    BY <1>2, <1>3 DEF Ends, SafeRow, RInv, RuntimesTypeOK
  <2> QED BY <1>1, <1>2, <1>3, <1>4, <1>5, <2>1, <2>2, <2>3, <2>4, <2>5, LastWrite
<1>7. CASE ~(strips /\ c \in current[w])
  <2>1. Leave(c, w) /\ UNCHANGED <<session, open>>
    BY <1>3, <1>7
  <2>2. /\ cap' \in [Workspaces -> Ids \cup {None}]
        /\ cap'[w] \in {cap[w], None}
        /\ \A x \in Workspaces \ {w} : cap'[x] = cap[x]
    BY <1>1, <1>3 DEF RInv, RuntimesTypeOK
  <2>3. Transition(row[w], "STOPPED") \in Rows /\ Transition(row[w], "STOPPED").state = "STOPPED"
    BY <1>1, TransitionFacts DEF States
  <2> QED BY <1>1, <1>3, <1>4, <1>5, <2>1, <2>2, <2>3, LastWrite DEF RInv, RuntimesTypeOK, Ends, SafeRow
<1> QED BY <1>6, <1>7

\* The first half of a stop or a revocation, and a request about a row at rest.
LEMMA RouteBeginsPreserves ==
  ASSUME RInv, NEW c \in Callers, NEW w \in Workspaces,
         Stop(c, w) \/ Revoke(c, w) \/ RevokeStopped(c, w)
  PROVE  RInv'
<1> USE DEF RInv
<1> DEFINE r == Transition(row[w], "STOPPING")
<1>1. /\ c \in Holders /\ row[w] \in Rows /\ c \notin Passes /\ c \notin Workspaces
      /\ c # None
  BY HoldersApart DEF RuntimesTypeOK
<1>2. r \in Rows /\ r.state = "STOPPING" /\ r.backend = row[w].backend /\ r.conns = row[w].conns
  BY <1>1, TransitionFacts DEF States, Ends
<1> HIDE DEF r
<1>3. PICK op \in {"stop", "remove"}, pc \in {"stopping", "tearing", "clearing", "purging"} :
        /\ Await(c, w, None, pc) /\ Request(op, c, w, None)
        /\ UNCHANGED <<cap, box, session, open, pass, faults>>
        /\ \/ Write(c, w, r) /\ pc \in {"stopping", "tearing"} /\ row[w].state # "REVOKED"
           \/ /\ row' = row /\ current' = [current EXCEPT ![w] = current[w] \cup {c}]
              /\ \/ pc \in {"stopping", "tearing"} /\ row[w].state = "STOPPING"
                 \/ pc = "clearing" /\ row[w].state \in {"STOPPED", "ABSENT"}
                 \/ pc = "purging"
  <2>1. CASE Stop(c, w)
    BY <2>1 DEF Stop, BeginStopping, r
  <2>2. CASE Revoke(c, w)
    BY <2>2 DEF Revoke, BeginStopping, r
  <2>3. CASE RevokeStopped(c, w)
    <3>1. CASE row[w].state = "REVOKED"
      BY <2>3, <3>1 DEF RevokeStopped
    <3>2. CASE row[w].state # "REVOKED"
      BY <2>3, <3>2 DEF RevokeStopped
    <3> QED BY <3>1, <3>2
  <2> QED BY <2>1, <2>2, <2>3
<1>4. /\ row' \in [Workspaces -> Rows] /\ current' \in [Workspaces -> SUBSET Holders]
      /\ \A x \in Workspaces \ {w} : row'[x] = row[x] /\ current'[x] = current[x]
      /\ \/ row'[w] = r /\ current'[w] \subseteq {c} /\ row[w].state # "REVOKED"
            /\ pc \in {"stopping", "tearing"}
         \/ row'[w] = row[w] /\ current'[w] = current[w] \cup {c}
  <2>1. CASE Write(c, w, r) /\ pc \in {"stopping", "tearing"} /\ row[w].state # "REVOKED"
    BY <1>1, <1>2, <2>1, WriteFacts
  <2>2. CASE row' = row /\ current' = [current EXCEPT ![w] = current[w] \cup {c}]
    BY <1>1, <2>2 DEF RuntimesTypeOK
  <2> QED BY <1>3, <2>1, <2>2
<1>5. /\ task' \in [Holders -> Tasks]
      /\ task'[c] = [pc |-> pc, w |-> w, id |-> None, ans |-> None]
      /\ \A g \in Holders \ {c} : task'[g] = task[g]
  BY <1>1, <1>3, AwaitNothing DEF Awaiting
<1>6. \A o \in ops : o.for # c
  <2>1. task[c].pc = "idle"
    BY DEF Stop, Revoke, RevokeStopped, Idle
  <2> QED BY <1>1, <2>1, NoRequest DEF Awaiting
<1>7. ops' \subseteq Ops /\ OpsAreAwaited' /\ \A x \in Workspaces : Creating(x)' => Creating(x)
  BY <1>1, <1>3, <1>5, <1>6, RequestFacts DEF Awaiting
<1>8. RuntimesTypeOK' /\ TasksFit'
  <2>1. TasksFit'
    BY <1>3, <1>5, HoldersApart DEF TasksFit
  <2> QED BY <1>3, <1>4, <1>5, <1>7, <2>1 DEF RuntimesTypeOK
<1>9. Views'
  <2>1. ASSUME NEW x \in Workspaces, c \in current'[x] PROVE Sees(c, x)'
    <3>1. CASE x = w
      <4>1. \/ row'[w].state = "STOPPING" /\ pc \in {"stopping", "tearing"}
            \/ row'[w].state \in {"STOPPED", "ABSENT"} /\ pc = "clearing"
            \/ pc = "purging"
        <5>1. CASE Write(c, w, r)
          BY <1>1, <1>2, <1>3, <5>1 DEF Write, RuntimesTypeOK
        <5>2. CASE ~Write(c, w, r)
          BY <1>3, <5>2
        <5> QED BY <5>1, <5>2
      <4> QED BY <1>1, <1>5, <3>1, <4>1 DEF Sees
    <3>2. CASE x # w
      BY <1>1, <1>5, <3>2 DEF Sees
    <3> QED BY <3>1, <3>2
  <2>2. \A x \in Workspaces : \A g \in current'[x] \ {c} :
          g \in current[x] /\ row'[x].state = row[x].state
    BY <1>4
  <2> QED BY <1>1, <1>3, <1>4, <1>5, <2>1, <2>2, ViewsKept
<1>10. ASSUME NEW x \in Workspaces PROVE Sound(x)'
  <2>1. x \in Holders \ {c} /\ Sound(x)
    BY <1>1, HoldersApart
  <2>2. CASE row'[x] = row[x]
    BY <1>3, <1>5, <1>7, <2>1, <2>2, SoundElsewhere
  <2>3. CASE x = w /\ row'[w] = r
    <3> HIDE DEF Creating
    <3> QED BY <1>2, <1>3, <1>5, <1>7, <2>1, <2>3 DEF Sound, Running
  <2> QED BY <1>4, <2>2, <2>3
<1> QED BY <1>7, <1>8, <1>9, <1>10

-----------------------------------------------------------------------------
(* The passes. *)

LEMMA PassBeginsPreserves == ASSUME RInv, NEW p \in Passes, PassBegins(p) PROVE RInv'
<1> USE DEF RInv
<1> DEFINE after == [w \in Workspaces |-> Orphaned(row[w])]
           todo  == {w \in Workspaces : after[w].state \notin Skipped}
           list  == [todo |-> todo, failed |-> {w \in todo : after[w].state = "FAILED"}, saw |-> NoBox]
           next  == [task[p] EXCEPT !.pc = "visiting"]
<1>1. p \in Holders /\ p \notin Workspaces /\ task[p] \in Tasks /\ task[p].pc = "idle"
  BY HoldersApart DEF RuntimesTypeOK, PassBegins, Idle
<1>2. /\ row' = after /\ pass' = [pass EXCEPT ![p] = list] /\ task' = [task EXCEPT ![p] = next]
      /\ current' = [w \in Workspaces |->
           (IF Orphan(row[w]) THEN {} ELSE current[w]) \cup (IF w \in todo THEN {p} ELSE {})]
      /\ UNCHANGED <<cap, box, session, open, ops, faults>>
  BY DEF PassBegins
<1>3. \A w \in Workspaces :
        /\ after[w] \in Rows
        /\ ~Orphan(row[w]) => after[w] = row[w]
        /\ Orphan(row[w]) => after[w].state = "FAILED"
  BY OrphanedFacts DEF RuntimesTypeOK
<1>4. list \in PassStates /\ list.todo = todo
      /\ list.failed = {w \in todo : after[w].state = "FAILED"}
  BY DEF PassStates, NoBox, Boxes
<1>5. next \in Tasks /\ next.pc = "visiting"
  BY <1>1 DEF Tasks
<1>6. \A w \in todo \ list.failed : after[w].state \in {"STARTING", "STOPPING"} \cup Running
  <2> SUFFICES ASSUME NEW w \in todo, after[w].state # "FAILED"
               PROVE  after[w].state \in {"STARTING", "STOPPING"} \cup Running
    BY <1>4
  <2>1. after[w].state \in States \ Skipped
    BY <1>3 DEF Rows
  <2> QED BY <2>1 DEF States, Skipped, Running
<1>7. /\ task' \in [Holders -> Tasks] /\ task'[p].pc = "visiting"
      /\ \A g \in Holders \ {p} : task'[g] = task[g]
  BY <1>1, <1>2, <1>5 DEF RuntimesTypeOK
<1>8. /\ pass' \in [Passes -> PassStates] /\ pass'[p] = list
      /\ \A q \in Passes \ {p} : pass'[q] = pass[q]
  BY <1>2, <1>4 DEF RuntimesTypeOK
<1> HIDE DEF list, next
<1>9. /\ current' \in [Workspaces -> SUBSET Holders]
      /\ \A x \in Workspaces : \A g \in current'[x] \ {p} : g \in current[x] /\ ~Orphan(row[x])
  BY <1>1, <1>2 DEF RuntimesTypeOK
<1>10. \A x \in Workspaces : row'[x] = after[x] /\ row'[x] \in Rows
  BY <1>2, <1>3
<1>11. RuntimesTypeOK'
  <2>1. row' \in [Workspaces -> Rows]
    BY <1>2, <1>3
  <2> QED BY <1>2, <1>7, <1>8, <1>9, <2>1 DEF RuntimesTypeOK
<1>12. TasksFit'
  BY <1>1, <1>7, <1>8, HoldersApart DEF TasksFit
<1>13. OpsAreAwaited' /\ \A x \in Workspaces : Creating(x)' => Creating(x)
  <2>1. \A o \in ops : o.for # p
    BY <1>1, NoRequest DEF Awaiting
  <2> QED BY <1>2, <1>7, <2>1, OpsKept DEF RuntimesTypeOK, Ops
<1>14. Views'
  <2>1. ASSUME NEW x \in Workspaces PROVE Sees(p, x)'
    BY <1>1, <1>4, <1>6, <1>7, <1>8, <1>10 DEF Sees
  <2>2. \A x \in Workspaces : \A g \in current'[x] \ {p} :
          g \in current[x] /\ row'[x].state = row[x].state
    BY <1>3, <1>9, <1>10
  <2> HIDE DEF after
  <2> QED BY <1>1, <1>7, <1>8, <1>9, <2>1, <2>2, ViewsKept
<1>15. ASSUME NEW x \in Workspaces PROVE Sound(x)'
  <2>1. x \in Holders \ {p} /\ Sound(x)
    BY <1>1, HoldersApart
  <2>2. CASE row'[x] = row[x]
    BY <1>2, <1>7, <1>13, <2>1, <2>2, SoundElsewhere
  <2>3. CASE row'[x].state = "FAILED"
    <3> HIDE DEF Creating
    <3> QED BY <1>2, <1>7, <1>13, <2>1, <2>3 DEF Sound, Running
  <2> QED BY <1>3, <1>10, <2>2, <2>3
<1> QED BY <1>11, <1>12, <1>13, <1>14, <1>15

LEMMA PassInspectPreserves ==
  ASSUME RInv, NEW p \in Passes, NEW w \in Workspaces, PassInspects(p, w)
  PROVE  RInv'
<1> USE DEF RInv
<1> DEFINE list == [pass[p] EXCEPT !.saw = box[w]]
<1>1. p \in Holders /\ p \notin Workspaces /\ task[p].pc = "visiting" /\ w \in pass[p].todo
  BY HoldersApart DEF PassInspects
<1>2. list \in PassStates /\ list.todo = pass[p].todo /\ list.failed = pass[p].failed
  <2>1. pass[p] \in PassStates /\ box[w] \in Boxes
    BY DEF RuntimesTypeOK
  <2> QED BY <2>1 DEF PassStates
<1>3. /\ pass' = [pass EXCEPT ![p] = list] /\ Await(p, w, None, "inspected")
      /\ UNCHANGED <<row, cap, box, session, open, ops, current, faults>>
  BY DEF PassInspects
<1> HIDE DEF list
<1>4. /\ task' \in [Holders -> Tasks]
      /\ task'[p] = [pc |-> "inspected", w |-> w, id |-> None, ans |-> None]
      /\ \A g \in Holders \ {p} : task'[g] = task[g]
  BY <1>1, <1>3, AwaitNothing
<1>5. /\ pass' \in [Passes -> PassStates] /\ pass'[p] = list
      /\ \A q \in Passes \ {p} : pass'[q] = pass[q]
  BY <1>2, <1>3 DEF RuntimesTypeOK
<1>6. RuntimesTypeOK'
  BY <1>3, <1>4, <1>5 DEF RuntimesTypeOK
<1>7. TasksFit'
  BY <1>1, <1>2, <1>4, <1>5, HoldersApart DEF TasksFit
<1>8. OpsAreAwaited' /\ \A x \in Workspaces : Creating(x)' => Creating(x)
  <2>1. \A o \in ops : o.for # p
    BY <1>1, NoRequest DEF Awaiting
  <2> QED BY <1>3, <1>4, <2>1, OpsKept DEF RuntimesTypeOK, Ops
<1>9. Views'
  <2>1. ASSUME NEW x \in Workspaces, p \in current'[x] PROVE Sees(p, x)'
    <3>1. Sees(p, x)
      BY <1>3, <2>1 DEF Views
    <3> QED BY <1>1, <1>2, <1>3, <1>4, <1>5, <3>1 DEF Sees
  <2> QED BY <1>1, <1>3, <1>4, <1>5, <1>6, <2>1, ViewsKept DEF RuntimesTypeOK
<1>10. \A x \in Workspaces : Sound(x)'
  BY <1>1, <1>3, <1>4, <1>8, SoundElsewhere, HoldersApart
<1> QED BY <1>6, <1>7, <1>8, <1>9, <1>10

LEMMA ReconciledFacts ==
  ASSUME NEW r \in Rows, NEW saw \in Boxes, NEW n \in Reconciled(r, saw),
         r.state \in {"STARTING"} \cup Running
  PROVE  /\ n \in Rows
         /\ \/ n.state = "FAILED"
            \/ /\ n.state \in Running \/ (n.state = "STARTING" /\ r.state = "STARTING")
               /\ n.backend = r.backend /\ n.conns = r.conns
         /\ n.state # r.state => n.state \in TRANSITIONS[r.state]
<1> USE DEF States, Running
<1>1. /\ Transition(r, "FAILED") \in Rows /\ Transition(r, "FAILED").state = "FAILED"
      /\ \A to \in Running : /\ Transition(r, to) \in Rows /\ Transition(r, to).state = to
                             /\ Transition(r, to).backend = r.backend
                             /\ Transition(r, to).conns = r.conns
  BY TransitionFacts DEF Ends
<1>2. CASE Gone(r, saw)
  <2>1. n = Transition(r, "FAILED")
    BY <1>2 DEF Reconciled
  <2> QED BY <1>1, <2>1 DEF TRANSITIONS
<1>3. CASE ~Gone(r, saw) /\ r.state = "STARTING"
  <2>1. n \in {r, Transition(r, "READY")}
    BY <1>3 DEF Reconciled
  <2> QED BY <1>1, <1>3, <2>1 DEF TRANSITIONS
<1>4. CASE ~Gone(r, saw) /\ r.state # "STARTING"
  <2>1. \/ n = r
        \/ n = Transition(r, "IDLE") /\ r.state = "READY"
        \/ n = Transition(r, "READY") /\ r.state = "IDLE"
    BY <1>4 DEF Reconciled
  <2> QED BY <1>1, <1>4, <2>1 DEF TRANSITIONS
<1> QED BY <1>2, <1>3, <1>4

\* A pass goes on to the next row without writing this one.
LEMMA PassGoesOn ==
  ASSUME RInv, NEW p \in Passes, NEW w \in Workspaces,
         NextRow(p, w), Leave(p, w), UNCHANGED <<cap, box, session, open, ops>>,
         faults' \in 0..MaxFaults, \A o \in ops : o.for # p
  PROVE  RInv'
<1>1. p \in Holders /\ row[w] \in Rows
  BY HoldersApart DEF RInv, RuntimesTypeOK
<1>2. Transition(row[w], "FAILED") \in Rows /\ Transition(row[w], "FAILED").state = "FAILED"
  BY <1>1, TransitionFacts DEF States
<1>3. /\ task' \in [Holders -> Tasks] /\ pass' \in [Passes -> PassStates]
      /\ task'[p].pc \in {"idle", "visiting"} /\ task'[p].w = None
      /\ \A g \in Holders \ {p} : task'[g] = task[g]
      /\ \A q \in Passes \ {p} : pass'[q] = pass[q]
      /\ pass'[p].todo \ pass'[p].failed \subseteq (pass[p].todo \ pass[p].failed) \ {w}
  BY NextRowFacts DEF RInv
<1> QED BY <1>1, <1>2, <1>3, LastWrite DEF RInv, RuntimesTypeOK, Ends, SafeRow

LEMMA PassInspectFailsPreserves ==
  ASSUME RInv, NEW p \in Passes, NEW w \in Workspaces, PassInspectFails(p, w)
  PROVE  RInv'
<1>1. \A o \in ops : o.for # p
  BY NoRequest, HoldersApart DEF PassInspectFails, Awaiting
<1>2. faults' \in 0..MaxFaults
  BY RuntimesAssumption DEF PassInspectFails, RInv, RuntimesTypeOK
<1> QED BY <1>1, <1>2, PassGoesOn DEF PassInspectFails

\* A pass writes this row for the last time and goes on.
LEMMA PassLastWrite ==
  ASSUME RInv, NEW p \in Passes, NEW w \in Workspaces, NEW r \in Rows,
         WriteAndGo(w, r), SafeRow(w, r), r.state # "REVOKED",
         NextRow(p, w), UNCHANGED <<cap, box, session, open, ops, faults>>,
         \A o \in ops : o.for # p
  PROVE  RInv'
<1>1. p \in Holders
  BY HoldersApart
<1>2. /\ task' \in [Holders -> Tasks] /\ pass' \in [Passes -> PassStates]
      /\ task'[p].pc \in {"idle", "visiting"} /\ task'[p].w = None
      /\ \A g \in Holders \ {p} : task'[g] = task[g]
      /\ \A q \in Passes \ {p} : pass'[q] = pass[q]
      /\ pass'[p].todo \ pass'[p].failed \subseteq (pass[p].todo \ pass[p].failed) \ {w}
  BY NextRowFacts DEF RInv
<1> QED BY <1>1, <1>2, LastWrite DEF RInv, RuntimesTypeOK

LEMMA PassWritesPreserves == ASSUME RInv, NEW p \in Passes, PassWrites(p) PROVE RInv'
<1> USE DEF RInv
<1> DEFINE w == task[p].w
<1>1. /\ w \in pass[p].todo \ pass[p].failed /\ w \in Workspaces /\ row[w] \in Rows
      /\ pass[p].saw \in Boxes /\ p \in Holders
  <2>1. pass[p] \in PassStates /\ p \in Holders
    BY HoldersApart DEF RuntimesTypeOK
  <2>2. w \in pass[p].todo \ pass[p].failed
    BY DEF PassWrites, TasksFit
  <2> QED BY <2>1, <2>2 DEF RuntimesTypeOK, PassStates
<1>2. /\ task[p].pc = "inspected" /\ NextRow(p, w)
      /\ IF p \in current[w] /\ row[w].state # "STOPPING"
         THEN \E r \in Reconciled(row[w], pass[p].saw) : WriteAndGo(w, r)
         ELSE Leave(p, w)
      /\ UNCHANGED <<cap, box, session, open, ops, faults>>
  BY DEF PassWrites
<1> HIDE DEF w
<1>3. \A o \in ops : o.for # p
  BY <1>1, <1>2, NoRequest DEF Awaiting
<1>4. CASE ~(p \in current[w] /\ row[w].state # "STOPPING")
  BY <1>1, <1>2, <1>3, <1>4, PassGoesOn DEF RuntimesTypeOK
<1>5. CASE p \in current[w] /\ row[w].state # "STOPPING"
  <2>1. PICK r \in Reconciled(row[w], pass[p].saw) : WriteAndGo(w, r)
    BY <1>2, <1>5
  <2>2. row[w].state \in {"STARTING"} \cup Running
    BY <1>1, <1>5 DEF Views, Sees
  <2>3. /\ r \in Rows
        /\ \/ r.state = "FAILED"
           \/ /\ r.state \in Running \/ (r.state = "STARTING" /\ row[w].state = "STARTING")
              /\ r.backend = row[w].backend /\ r.conns = row[w].conns
    BY <1>1, <2>2, ReconciledFacts
  <2>4. /\ Sound(w) /\ open[w] \in Nat /\ row[w].conns \in Nat
    BY <1>1, RuntimesAssumption DEF RuntimesTypeOK, Rows
  <2>5. CASE r.state = "FAILED"
    BY <1>1, <1>2, <1>3, <2>1, <2>3, <2>5, PassLastWrite DEF SafeRow, Ends
  <2>6. CASE r.state # "FAILED"
    <3>1. task[w].pc = "idle" /\ row[w].backend # None
      BY <2>2, <2>4 DEF Sound
    <3>2. open[w] = 0 \/ (row[w].state \in Running /\ open[w] <= row[w].conns)
      BY <2>2, <2>4 DEF Sound
    <3>3. r.state = "STARTING" => open[w] = 0
      BY <2>3, <2>6, <3>2 DEF Running
    <3>4. open[w] <= r.conns
      BY <2>3, <2>4, <2>6, <3>2
    <3>5. SafeRow(w, r) /\ r.state # "REVOKED"
      BY <2>3, <2>6, <3>1, <3>3, <3>4 DEF SafeRow, Running
    <3> QED BY <1>1, <1>2, <1>3, <2>1, <2>3, <3>5, PassLastWrite
  <2> QED BY <2>5, <2>6
<1> QED BY <1>4, <1>5

LEMMA PassCleansPreserves == ASSUME RInv, NEW p \in Passes, PassCleans(p) PROVE RInv'
<1> USE DEF RInv
<1> DEFINE w == task[p].w
<1>1. w \in Workspaces /\ p \in Holders /\ p \notin Workspaces /\ p \notin Callers
      /\ w \in pass[p].todo /\ w \in pass[p].failed
  <2>1. pass[p] \in PassStates /\ p \in Holders /\ p \notin Workspaces /\ p \notin Callers
    BY HoldersApart DEF RuntimesTypeOK
  <2>2. w \in pass[p].todo /\ w \in pass[p].failed
    BY DEF PassCleans, TasksFit
  <2> QED BY <2>1, <2>2 DEF PassStates
<1>2. /\ task[p].pc = "inspected"
      /\ UNCHANGED <<cap, box, session, open, faults>>
      /\ IF pass[p].saw.state # "absent"
         THEN /\ Await(p, w, None, "cleaning") /\ Request("remove", p, w, None)
              /\ UNCHANGED <<row, current, pass>>
         ELSE NextRow(p, w) /\ Leave(p, w) /\ UNCHANGED ops
  BY DEF PassCleans
<1> HIDE DEF w
<1>3. \A o \in ops : o.for # p
  BY <1>1, <1>2, NoRequest DEF Awaiting
<1>4. CASE pass[p].saw.state = "absent"
  BY <1>1, <1>2, <1>3, <1>4, PassGoesOn DEF RuntimesTypeOK
<1>5. CASE pass[p].saw.state # "absent"
  <2>1. Await(p, w, None, "cleaning") /\ Request("remove", p, w, None)
        /\ UNCHANGED <<row, current, pass, cap, box, session, open, faults>>
    BY <1>2, <1>5
  <2>2. /\ task' \in [Holders -> Tasks]
        /\ task'[p] = [pc |-> "cleaning", w |-> w, id |-> None, ans |-> None]
        /\ \A g \in Holders \ {p} : task'[g] = task[g]
    BY <1>1, <2>1, AwaitNothing DEF Awaiting
  <2>3. ops' \subseteq Ops /\ OpsAreAwaited' /\ \A x \in Workspaces : Creating(x)' => Creating(x)
    BY <1>1, <1>3, <2>1, <2>2, RequestFacts DEF Awaiting
  <2>4. RuntimesTypeOK' /\ TasksFit'
    <3>1. TasksFit'
      BY <1>1, <2>1, <2>2, HoldersApart DEF TasksFit
    <3> QED BY <2>1, <2>2, <2>3, <3>1 DEF RuntimesTypeOK
  <2>5. Views'
    <3>1. ASSUME NEW x \in Workspaces, p \in current'[x] PROVE Sees(p, x)'
      <4>1. Sees(p, x)
        BY <2>1, <3>1 DEF Views
      <4> QED BY <1>1, <2>1, <2>2, <4>1 DEF Sees
    <3> QED BY <1>1, <2>1, <2>2, <2>4, <3>1, ViewsKept DEF RuntimesTypeOK
  <2>6. \A x \in Workspaces : Sound(x)'
    BY <1>1, <2>1, <2>2, <2>3, SoundElsewhere, HoldersApart
  <2> QED BY <2>3, <2>4, <2>5, <2>6
<1> QED BY <1>4, <1>5

LEMMA PassExpiresPreserves == ASSUME RInv, NEW p \in Passes, PassExpires(p) PROVE RInv'
<1> USE DEF RInv
<1> DEFINE w == task[p].w
           r == Transition(row[w], "STOPPING")
<1>1. w \in Workspaces /\ p \in Holders /\ p \notin Workspaces /\ p \notin Callers
      /\ w \in pass[p].todo /\ w \notin pass[p].failed /\ row[w] \in Rows
  <2>1. pass[p] \in PassStates /\ p \in Holders /\ p \notin Workspaces /\ p \notin Callers
    BY HoldersApart DEF RuntimesTypeOK
  <2>2. w \in pass[p].todo /\ w \notin pass[p].failed
    BY DEF PassExpires, TasksFit
  <2> QED BY <2>1, <2>2 DEF PassStates, RuntimesTypeOK
<1>2. r \in Rows /\ r.state = "STOPPING"
  BY <1>1, TransitionFacts DEF States
<1>3. /\ task[p].pc = "inspected"
      /\ Write(p, w, r) /\ Await(p, w, None, "expiring") /\ Request("stop", p, w, None)
      /\ UNCHANGED <<cap, box, session, open, pass, faults>>
  BY DEF PassExpires
<1> HIDE DEF w, r
<1>4. /\ row' \in [Workspaces -> Rows] /\ current' \in [Workspaces -> SUBSET Holders]
      /\ row'[w] = r /\ current'[w] \subseteq {p}
      /\ \A x \in Workspaces \ {w} : row'[x] = row[x] /\ current'[x] = current[x]
  BY <1>1, <1>2, <1>3, WriteFacts
<1>5. /\ task' \in [Holders -> Tasks]
      /\ task'[p] = [pc |-> "expiring", w |-> w, id |-> None, ans |-> None]
      /\ \A g \in Holders \ {p} : task'[g] = task[g]
  BY <1>1, <1>3, AwaitNothing DEF Awaiting
<1>6. \A o \in ops : o.for # p
  BY <1>1, <1>3, NoRequest DEF Awaiting
<1>7. ops' \subseteq Ops /\ OpsAreAwaited' /\ \A x \in Workspaces : Creating(x)' => Creating(x)
  BY <1>1, <1>3, <1>5, <1>6, RequestFacts DEF Awaiting
<1>8. RuntimesTypeOK' /\ TasksFit'
  <2>1. TasksFit'
    BY <1>1, <1>3, <1>5, HoldersApart DEF TasksFit
  <2> QED BY <1>3, <1>4, <1>5, <1>7, <2>1 DEF RuntimesTypeOK
<1>9. Views'
  <2>1. ASSUME NEW x \in Workspaces, p \in current'[x] PROVE Sees(p, x)'
    <3>1. CASE x = w
      BY <1>1, <1>2, <1>3, <1>4, <1>5, <3>1 DEF Sees
    <3>2. CASE x # w
      <4>1. Sees(p, x) /\ row'[x] = row[x]
        BY <1>4, <2>1, <3>2 DEF Views
      <4> QED BY <1>1, <1>3, <1>5, <3>2, <4>1 DEF Sees
    <3> QED BY <3>1, <3>2
  <2>2. \A x \in Workspaces : \A g \in current'[x] \ {p} :
          g \in current[x] /\ row'[x].state = row[x].state
    BY <1>4
  <2> QED BY <1>1, <1>3, <1>4, <1>5, <2>1, <2>2, ViewsKept
<1>10. ASSUME NEW x \in Workspaces PROVE Sound(x)'
  <2>1. x \in Holders \ {p} /\ Sound(x)
    BY <1>1, HoldersApart
  <2>2. CASE x # w
    BY <1>3, <1>4, <1>5, <1>7, <2>1, <2>2, SoundElsewhere
  <2>3. CASE x = w
    <3> HIDE DEF Creating
    <3> QED BY <1>2, <1>3, <1>4, <1>5, <1>7, <2>1, <2>3 DEF Sound, Running
  <2> QED BY <2>2, <2>3
<1> QED BY <1>7, <1>8, <1>9, <1>10

LEMMA PassAnsweredPreserves == ASSUME RInv, NEW p \in Passes, PassAnswered(p) PROVE RInv'
<1> USE DEF RInv
<1> DEFINE w == task[p].w
           r == Transition(row[w], "STOPPED")
<1>1. w \in Workspaces /\ p \in Holders /\ row[w] \in Rows
  <2>1. pass[p] \in PassStates /\ p \in Holders
    BY HoldersApart DEF RuntimesTypeOK
  <2>2. w \in pass[p].todo
    BY DEF PassAnswered, TasksFit
  <2> QED BY <2>1, <2>2 DEF PassStates, RuntimesTypeOK
<1>2. r \in Rows /\ r.state = "STOPPED"
  BY <1>1, TransitionFacts DEF States
<1>3. /\ WriteAndGo(w, r) \/ Leave(p, w)
      /\ NextRow(p, w) /\ task[p].ans # None
      /\ UNCHANGED <<cap, box, session, open, ops, faults>>
  BY DEF PassAnswered
<1> HIDE DEF w, r
<1>4. \A o \in ops : o.for # p
  BY <1>1, <1>3, NoRequest
<1>5. CASE WriteAndGo(w, r)
  BY <1>1, <1>2, <1>3, <1>4, <1>5, PassLastWrite DEF SafeRow, Ends
<1>6. CASE Leave(p, w)
  BY <1>1, <1>3, <1>4, <1>6, PassGoesOn DEF RuntimesTypeOK
<1> QED BY <1>3, <1>5, <1>6

-----------------------------------------------------------------------------
LEMMA InitRInv == Init => RInv
<1> SUFFICES ASSUME Init PROVE RInv
  OBVIOUS
<1> USE RuntimesAssumption DEF Init
<1>1. \A h \in Holders : task[h] = NoTask
  OBVIOUS
<1>2. NoTask \in Tasks /\ NoTask.pc = "idle" /\ NoPass \in PassStates /\ NoBox \in Boxes
  BY DEF NoTask, Tasks, NoPass, PassStates, Boxes
<1>3. \A w \in Workspaces : row[w] \in Rows /\ row[w].state = "ABSENT"
  BY DEF Rows, States
<1>4. row \in [Workspaces -> Rows]
  BY <1>3
<1>5. RuntimesTypeOK
  <2>1. /\ task \in [Holders -> Tasks] /\ pass \in [Passes -> PassStates]
        /\ box \in [Workspaces -> Boxes] /\ cap \in [Workspaces -> Ids \cup {None}]
    BY <1>2
  <2>2. /\ session \in [Workspaces -> BOOLEAN] /\ open \in [Workspaces -> 0..MaxConns]
        /\ faults \in 0..MaxFaults /\ ops \subseteq Ops
        /\ current \in [Workspaces -> SUBSET Holders]
    OBVIOUS
  <2> QED BY <1>4, <2>1, <2>2 DEF RuntimesTypeOK
<1>6. TasksFit /\ OpsAreAwaited /\ Views
  BY <1>1, <1>2, HoldersApart DEF TasksFit, OpsAreAwaited, Views
<1>7. \A w \in Workspaces : Sound(w)
  BY <1>1, <1>2, <1>3, HoldersApart DEF Sound, Creating, Running
<1> QED BY <1>5, <1>6, <1>7 DEF RInv

LEMMA NextRInv == RInv /\ [Next]_vars => RInv'
<1> SUFFICES ASSUME RInv, [Next]_vars PROVE RInv'
  OBVIOUS
<1>1. CASE UNCHANGED vars
  BY <1>1 DEF vars, RInv, RuntimesTypeOK, TasksFit, OpsAreAwaited, Views, Sees, Sound, Creating
<1>2. ASSUME NEW w \in Workspaces,
             \/ Start(w) \/ StartRefused(w) \/ StartStep(w)
             \/ OpenSession(w) \/ Connect(w) \/ Disconnect(w) \/ SessionExpires(w) \/ Touch(w)
             \/ LeaseLapses(w) \/ LifetimeLapses(w) \/ BoxExits(w) \/ CrashInStart(w)
      PROVE  RInv'
  BY <1>2, StartPreserves, StartRefusedPreserves, StartAnsweredPreserves, StartRemovedPreserves,
     SessionPreserves, ConnectionPreserves, BoxExitsPreserves, RestartedPreserves DEF StartStep
<1>3. ASSUME NEW c \in Callers, NEW w \in Workspaces,
             Stop(c, w) \/ Revoke(c, w) \/ RevokeStopped(c, w)
      PROVE  RInv'
  BY <1>3, RouteBeginsPreserves
<1>4. ASSUME NEW c \in Callers, RouteStep(c) PROVE RInv'
  BY <1>4, StopAnsweredPreserves, RevokeAnsweredPreserves DEF RouteStep
<1>5. ASSUME NEW p \in Passes, PassBegins(p) \/ PassStep(p) PROVE RInv'
  BY <1>5, PassBeginsPreserves, PassInspectPreserves, PassInspectFailsPreserves,
     PassWritesPreserves, PassCleansPreserves, PassExpiresPreserves, PassAnsweredPreserves
     DEF PassStep
<1>6. ASSUME NEW o \in ops, ManagerStep(o) \/ ManagerFails(o) \/ TimesOut(o) PROVE RInv'
  BY <1>6, ManagerPreserves, TimesOutPreserves
<1>7. CASE Logout
  BY <1>7, LogoutPreserves
<1>8. CASE Crash
  BY <1>8, RestartedPreserves
<1> QED BY <1>1, <1>2, <1>3, <1>4, <1>5, <1>6, <1>7, <1>8 DEF Next

LEMMA RuntimesInvariance == Spec => []RInv
<1>1. RInv /\ [Next]_vars => RInv'
  BY NextRInv
<1> QED BY InitRInv, <1>1, PTL DEF Spec

-----------------------------------------------------------------------------
(* Theorems. *)

\* Every variable keeps its shape, for every number of workspaces, routes,
\* passes, connections and faults.
THEOREM RuntimesTypes == Spec => []RuntimesTypeOK
<1>1. RInv => RuntimesTypeOK
  BY DEF RInv
<1> QED BY <1>1, RuntimesInvariance, PTL

\* A revoked runtime keeps no capability, lease, session or counted
\* connection, whatever was under way when it was revoked.
THEOREM RevokedStaysBare == Spec => []RevokedIsBare
<1>1. RInv => RevokedIsBare
  BY DEF RInv, Sound, RevokedIsBare
<1> QED BY <1>1, RuntimesInvariance, PTL

\* A serving row counts at least the connections that are open.
THEOREM OpenIsCounted == Spec => []ActiveIsCounted
<1>1. RInv => ActiveIsCounted
  BY DEF RInv, Sound, ActiveIsCounted
<1> QED BY <1>1, RuntimesInvariance, PTL

-----------------------------------------------------------------------------
(* The transition table and the quota. *)

\* A row that changes its state takes an edge of the table, and not one to
\* PROVISIONING or STARTING.
Settles(x) == row'[x].state # row[x].state =>
                row'[x].state \in TRANSITIONS[row[x].state] \ {"PROVISIONING", "STARTING"}

LEMMA OneRowSettles ==
  ASSUME RInv, NEW w \in Workspaces, NEW h \in Holders, NEW to \in States,
         \/ Write(h, w, Transition(row[w], to)) \/ WriteAndGo(w, Transition(row[w], to))
         \/ row' = row,
         to # row[w].state => to \in TRANSITIONS[row[w].state] \ {"PROVISIONING", "STARTING"}
  PROVE  \A x \in Workspaces : Settles(x)
<1>1. RuntimesTypeOK /\ row[w] \in Rows
  BY DEF RInv, RuntimesTypeOK
<1>2. Transition(row[w], to) \in Rows /\ Transition(row[w], to).state = to
  BY <1>1, TransitionFacts
<1>3. CASE row' = row
  BY <1>3 DEF Settles
<1>4. CASE Write(h, w, Transition(row[w], to)) \/ WriteAndGo(w, Transition(row[w], to))
  <2>1. /\ row'[w] = Transition(row[w], to)
        /\ \A x \in Workspaces \ {w} : row'[x] = row[x]
    BY <1>1, <1>2, <1>4, WriteFacts
  <2> QED BY <1>2, <2>1 DEF Settles
<1> QED BY <1>3, <1>4

LEMMA ReplaceSettles ==
  ASSUME RInv, NEW w \in Workspaces, NEW b, Replace(w, b) \/ row' = row
  PROVE  \A x \in Workspaces : Settles(x)
<1> DEFINE n == IF row[w].conns > open[w] THEN row[w].conns - open[w] ELSE 0
<1>1. row \in [Workspaces -> Rows] /\ row[w] \in Rows
  BY DEF RInv, RuntimesTypeOK
<1>2. row' = row \/ row' = [row EXCEPT ![w] = [row[w] EXCEPT !.conns = n]]
  BY DEF Replace, WriteAndGo
<1> HIDE DEF n
<1>3. [row[w] EXCEPT !.conns = n].state = row[w].state
  BY <1>1 DEF Rows
<1> QED BY <1>1, <1>2, <1>3 DEF Settles

\* A start adopts the container it was answered with.
Adopts(w) ==
  /\ row[w].state = "PROVISIONING" /\ row'[w].state = "STARTING"
  /\ task[w].pc = "waiting"
  /\ cap' = cap
  /\ \A x \in Workspaces \ {w} : row'[x] = row[x]

LEMMA StartStepSettles ==
  ASSUME RInv, NEW w \in Workspaces, StartRefused(w) \/ StartStep(w)
  PROVE  (\A x \in Workspaces : Settles(x)) \/ Adopts(w)
<1>1. w \in Holders /\ row[w] \in Rows
  BY HoldersApart DEF RInv, RuntimesTypeOK
<1>2. row[w].state = "PROVISIONING" =>
        "FAILED" \in TRANSITIONS[row[w].state] \ {"PROVISIONING", "STARTING"}
  BY DEF TRANSITIONS, States
<1>3. task[w].pc # "idle" /\ w \in current[w] => row[w].state = "PROVISIONING"
  BY DEF RInv, Views, Sees
<1>4. CASE StartRefused(w)
  BY <1>4 DEF StartRefused, Settles
<1>5. CASE StartAnswered(w)
  <2> DEFINE r == [row[w] EXCEPT !.state = "STARTING", !.backend = task[w].ans]
  <2>1. \/ row' = row
        \/ row' = [row EXCEPT ![w] = r] /\ w \in current[w] /\ task[w].pc = "waiting" /\ cap' = cap
    BY <1>5 DEF StartAnswered, StartFailed, WriteAndGo
  <2>2. r.state = "STARTING"
    BY <1>1 DEF Rows
  <2> HIDE DEF r
  <2> QED BY <1>3, <2>1, <2>2 DEF Settles, Adopts, RInv, RuntimesTypeOK
<1>6. CASE StartRemoved(w)
  <2>1. \/ WriteAndGo(w, Transition(row[w], "FAILED")) /\ w \in current[w] /\ task[w].pc # "idle"
        \/ row' = row
    BY <1>6 DEF StartRemoved, Leave
  <2>2. CASE row' = row
    BY <2>2 DEF Settles
  <2>3. CASE row' # row
    BY <1>1, <1>2, <1>3, <2>1, <2>3, OneRowSettles DEF States
  <2> QED BY <2>2, <2>3
<1> QED BY <1>4, <1>5, <1>6 DEF StartStep

LEMMA RouteSettles ==
  ASSUME RInv, NEW c \in Callers
  PROVE  /\ RouteStep(c) => \A x \in Workspaces : Settles(x)
         /\ \A w \in Workspaces : Stop(c, w) \/ Revoke(c, w) \/ RevokeStopped(c, w) =>
              \A x \in Workspaces : Settles(x)
<1>1. c \in Holders
  BY HoldersApart
<1>2. ASSUME NEW w \in Workspaces, Stop(c, w) \/ Revoke(c, w) \/ RevokeStopped(c, w)
      PROVE  \A x \in Workspaces : Settles(x)
  <2>1. row[w].state \in States
    BY DEF RInv, RuntimesTypeOK, Rows
  <2>2. \/ row' = row
        \/ /\ Write(c, w, Transition(row[w], "STOPPING"))
           /\ row[w].state \notin {"STOPPED", "ABSENT", "REVOKED"}
    BY <1>2 DEF Stop, Revoke, RevokeStopped, BeginStopping
  <2>3. CASE row' = row
    BY <2>3 DEF Settles
  <2>4. CASE row' # row
    <3>1. "STOPPING" # row[w].state =>
            "STOPPING" \in TRANSITIONS[row[w].state] \ {"PROVISIONING", "STARTING"}
      BY <2>1, <2>2, <2>4 DEF States, TRANSITIONS
    <3> QED BY <1>1, <2>2, <2>4, <3>1, OneRowSettles DEF States
  <2> QED BY <2>3, <2>4
<1>3. ASSUME StopAnswered(c) PROVE \A x \in Workspaces : Settles(x)
  <2> DEFINE w == task[c].w
  <2>1. w \in Workspaces
    BY <1>3 DEF RInv, TasksFit, StopAnswered
  <2>2. \/ row' = row
        \/ WriteAndGo(w, Transition(row[w], "STOPPED")) /\ c \in current[w] /\ task[c].pc = "stopping"
    BY <1>3 DEF StopAnswered, Leave
  <2>3. c \in current[w] /\ task[c].pc = "stopping" => row[w].state = "STOPPING"
    BY <2>1 DEF RInv, Views, Sees
  <2>4. row[w].state = "STOPPING" =>
          "STOPPED" \in TRANSITIONS[row[w].state] \ {"PROVISIONING", "STARTING"}
    BY DEF States, TRANSITIONS
  <2> HIDE DEF w
  <2>5. CASE row' = row
    BY <2>5 DEF Settles
  <2>6. CASE row' # row
    BY <1>1, <2>1, <2>2, <2>3, <2>4, <2>6, OneRowSettles DEF States
  <2> QED BY <2>5, <2>6
<1>4. ASSUME RevokeAnswered(c) PROVE \A x \in Workspaces : Settles(x)
  <2> DEFINE w == task[c].w
  <2>1. w \in Workspaces
    BY <1>4 DEF RInv, TasksFit, RevokeAnswered
  <2>2. \/ row' = row
        \/ /\ WriteAndGo(w, Transition(row[w], "REVOKED")) /\ c \in current[w]
           /\ task[c].pc \in {"tearing", "clearing"}
    BY <1>4 DEF RevokeAnswered, ToRevoked, Leave
  <2>3. c \in current[w] /\ task[c].pc \in {"tearing", "clearing"} =>
          row[w].state \in {"STOPPING", "STOPPED", "ABSENT"}
    BY <2>1 DEF RInv, Views, Sees
  <2>4. row[w].state \in {"STOPPING", "STOPPED", "ABSENT"} =>
          "REVOKED" \in TRANSITIONS[row[w].state] \ {"PROVISIONING", "STARTING"}
    BY DEF States, TRANSITIONS
  <2> HIDE DEF w
  <2>5. CASE row' = row
    BY <2>5 DEF Settles
  <2>6. CASE row' # row
    BY <1>1, <2>1, <2>2, <2>3, <2>4, <2>6, OneRowSettles DEF States
  <2> QED BY <2>5, <2>6
<1> QED BY <1>2, <1>3, <1>4 DEF RouteStep

LEMMA PassSettles ==
  ASSUME RInv, NEW p \in Passes, PassBegins(p) \/ PassStep(p)
  PROVE  \A x \in Workspaces : Settles(x)
<1> DEFINE w == task[p].w
<1>1. p \in Holders /\ \A x \in Workspaces : row[x] \in Rows
  BY HoldersApart DEF RInv, RuntimesTypeOK
<1>2. ASSUME PassBegins(p), NEW x \in Workspaces PROVE Settles(x)
  <2>1. row'[x] = Orphaned(row[x])
    BY <1>2 DEF PassBegins
  <2>2. CASE ~Orphan(row[x])
    BY <1>1, <2>1, <2>2, OrphanedFacts DEF Settles
  <2>3. CASE Orphan(row[x])
    <3>1. Orphaned(row[x]).state = "FAILED"
      BY <1>1, <2>3, OrphanedFacts
    <3> QED BY <2>1, <2>3, <3>1 DEF Settles, Orphan, InTransit, TRANSITIONS, States
  <2> QED BY <2>2, <2>3
<1>3. ASSUME row' = row PROVE \A x \in Workspaces : Settles(x)
  BY <1>3 DEF Settles
<1>4. task[p].pc \in {"inspected", "cleaning", "expiring"} =>
        w \in Workspaces /\ w \in pass[p].todo /\ pass[p].saw \in Boxes
  BY DEF RInv, RuntimesTypeOK, PassStates, TasksFit
<1>5. CASE PassWrites(p)
  <2>1. /\ task[p].pc = "inspected" /\ w \notin pass[p].failed
        /\ \/ row' = row
           \/ /\ p \in current[w] /\ row[w].state # "STOPPING"
              /\ \E r \in Reconciled(row[w], pass[p].saw) : WriteAndGo(w, r)
    BY <1>5 DEF PassWrites, Leave
  <2>2. CASE row' # row
    <3>1. PICK r \in Reconciled(row[w], pass[p].saw) : WriteAndGo(w, r)
      BY <2>1, <2>2
    <3>2. row[w].state \in {"STARTING"} \cup Running
      BY <1>4, <2>1, <2>2 DEF RInv, Views, Sees
    <3>3. /\ r \in Rows /\ (r.state # row[w].state => r.state \in TRANSITIONS[row[w].state])
          /\ (r.state # row[w].state => r.state \notin {"PROVISIONING", "STARTING"})
      BY <1>1, <1>4, <2>1, <3>2, ReconciledFacts DEF Running
    <3>4. row'[w] = r /\ \A x \in Workspaces \ {w} : row'[x] = row[x]
      BY <1>1, <1>4, <2>1, <3>1, <3>3, WriteFacts DEF RInv
    <3> QED BY <3>3, <3>4 DEF Settles
  <2> QED BY <1>3, <2>2
<1>6. CASE PassExpires(p)
  <2>1. /\ task[p].pc = "inspected" /\ row[w].state \in Running
        /\ Write(p, w, Transition(row[w], "STOPPING"))
    BY <1>6 DEF PassExpires, MayExpire
  <2>2. "STOPPING" \in TRANSITIONS[row[w].state] \ {"PROVISIONING", "STARTING"}
    BY <2>1 DEF Running, States, TRANSITIONS
  <2> HIDE DEF w
  <2> QED BY <1>1, <1>4, <2>1, <2>2, OneRowSettles DEF States
<1>7. CASE PassAnswered(p)
  <2>1. \/ row' = row
        \/ /\ WriteAndGo(w, Transition(row[w], "STOPPED")) /\ p \in current[w]
           /\ task[p].pc = "expiring"
    BY <1>7 DEF PassAnswered, Leave
  <2>2. p \in current[w] /\ task[p].pc = "expiring" => row[w].state = "STOPPING"
    BY <1>4 DEF RInv, Views, Sees
  <2>3. row[w].state = "STOPPING" =>
          "STOPPED" \in TRANSITIONS[row[w].state] \ {"PROVISIONING", "STARTING"}
    BY DEF States, TRANSITIONS
  <2> HIDE DEF w
  <2>4. CASE row' # row
    BY <1>1, <1>4, <2>1, <2>2, <2>3, <2>4, OneRowSettles DEF States
  <2> QED BY <1>3, <2>4
<1>8. CASE PassCleans(p) \/ \E x \in Workspaces : PassInspects(p, x) \/ PassInspectFails(p, x)
  BY <1>3, <1>8 DEF PassCleans, PassInspects, PassInspectFails, Leave
<1> QED BY <1>2, <1>5, <1>6, <1>7, <1>8 DEF PassStep

\* Only a start takes a row to PROVISIONING, under the quota.
Provisions(w) ==
  /\ QuotaLeft(w)
  /\ row[w].state \in {"ABSENT", "STOPPED", "FAILED"}
  /\ row'[w].state = "PROVISIONING"
  /\ \A x \in Workspaces \ {w} : row'[x] = row[x]

LEMMA StepSettles ==
  ASSUME RInv, [Next]_vars
  PROVE  \/ \A x \in Workspaces : Settles(x)
         \/ \E w \in Workspaces : Provisions(w) \/ Adopts(w)
<1>1. row \in [Workspaces -> Rows]
  BY DEF RInv, RuntimesTypeOK
<1>2. ASSUME row' = row PROVE \A x \in Workspaces : Settles(x)
  BY <1>2 DEF Settles
<1>3. ASSUME NEW w \in Workspaces, Start(w) \/ CrashInStart(w)
      PROVE  row' = row \/ Provisions(w)
  <2>1. \/ row' = row
        \/ /\ QuotaLeft(w) /\ row[w].state \in {"ABSENT", "STOPPED", "FAILED"}
           /\ \/ row' = [row EXCEPT ![w] = [row[w] EXCEPT !.state = "PROVISIONING",
                    !.backend = None, !.lapsed = FALSE, !.lease = "live"]]
              \/ row' = [row EXCEPT ![w] = [row[w] EXCEPT !.state = "PROVISIONING",
                    !.backend = None, !.lapsed = FALSE]]
    BY <1>3 DEF Start, CrashInStart, Write
  <2>2. row[w] \in Rows
    BY <1>1
  <2>3. /\ [row[w] EXCEPT !.state = "PROVISIONING",
                !.backend = None, !.lapsed = FALSE, !.lease = "live"].state = "PROVISIONING"
        /\ [row[w] EXCEPT !.state = "PROVISIONING",
                !.backend = None, !.lapsed = FALSE].state = "PROVISIONING"
    BY <2>2 DEF Rows
  <2> QED BY <1>1, <2>1, <2>3 DEF Provisions
<1>4. ASSUME NEW w \in Workspaces,
             \/ OpenSession(w) \/ SessionExpires(w) \/ Touch(w)
             \/ LeaseLapses(w) \/ LifetimeLapses(w)
      PROVE  \A x \in Workspaces : Settles(x)
  <2>1. row[w] \in Rows
    BY <1>1
  <2>2. /\ [row[w] EXCEPT !.lease = "lapsed"].state = row[w].state
        /\ [row[w] EXCEPT !.lapsed = TRUE].state = row[w].state
    BY <2>1 DEF Rows
  <2>3. \/ row' = row
        \/ row' = [row EXCEPT ![w] = [row[w] EXCEPT !.lease = "lapsed"]]
        \/ row' = [row EXCEPT ![w] = [row[w] EXCEPT !.lapsed = TRUE]]
    BY <1>4 DEF OpenSession, SessionExpires, Touch, LeaseLapses, LifetimeLapses
  <2> QED BY <1>1, <2>2, <2>3 DEF Settles
<1>5. ASSUME NEW w \in Workspaces, Connect(w) \/ Disconnect(w)
      PROVE  \A x \in Workspaces : Settles(x)
  <2>1. row[w] \in Rows
    BY <1>1
  <2>2. /\ [row[w] EXCEPT !.conns = row[w].conns + 1].state = row[w].state
        /\ [row[w] EXCEPT !.conns = row[w].conns - 1].state = row[w].state
    BY <2>1 DEF Rows
  <2>3. \/ row' = row
        \/ row' = [row EXCEPT ![w] = [row[w] EXCEPT !.conns = row[w].conns + 1]]
        \/ row' = [row EXCEPT ![w] = [row[w] EXCEPT !.conns = row[w].conns - 1]]
    BY <1>5 DEF Connect, Disconnect, WriteAndGo
  <2> QED BY <1>1, <2>2, <2>3 DEF Settles
<1>6. ASSUME Logout PROVE \A x \in Workspaces : Settles(x)
  <2>1. \A x \in Workspaces : row[x] \in Rows
    BY <1>1
  <2>2. \A x \in Workspaces : [row[x] EXCEPT !.conns = 0].state = row[x].state
    BY <2>1 DEF Rows
  <2> QED BY <1>6, <2>2 DEF Logout, Settles
<1>7. ASSUME NEW o \in ops, ManagerStep(o) \/ ManagerFails(o) \/ TimesOut(o)
      PROVE  \A x \in Workspaces : Settles(x)
  <2>1. o.w \in Workspaces
    BY DEF RInv, RuntimesTypeOK, Ops
  <2>2. (\E b : Replace(o.w, b)) \/ row' = row
    BY <1>7 DEF ManagerStep, ManagerClears, ManagerCreates, ManagerChecks, ManagerStarts,
                ManagerReports, ManagerUndoes, ManagerStops, ManagerRemoves, ManagerFails, TimesOut
  <2> QED BY <2>1, <2>2, ReplaceSettles
<1>8. ASSUME NEW w \in Workspaces, BoxExits(w) PROVE \A x \in Workspaces : Settles(x)
  BY <1>8, ReplaceSettles DEF BoxExits
<1>9. CASE UNCHANGED vars
  BY <1>2, <1>9 DEF vars
<1>10. CASE Crash
  BY <1>2, <1>10 DEF Crash
<1>11. CASE Next
  BY <1>2, <1>3, <1>4, <1>5, <1>6, <1>7, <1>8, <1>10, <1>11,
     StartStepSettles, RouteSettles, PassSettles DEF Next
<1> QED BY <1>9, <1>11

\* No writer, however it interleaves, needs the transition table's own check.
THEOREM WritersFollowTable == Spec => FollowsTable
<1>1. ASSUME RInv, [Next]_vars
      PROVE  [\A w \in Workspaces : row'[w].state # row[w].state =>
                row'[w].state \in TRANSITIONS[row[w].state]]_vars
  <2>1. ASSUME NEW w \in Workspaces, Provisions(w) \/ Adopts(w), NEW x \in Workspaces,
               row'[x].state # row[x].state
        PROVE  row'[x].state \in TRANSITIONS[row[x].state]
    BY <2>1 DEF Provisions, Adopts, TRANSITIONS, States
  <2> QED BY <1>1, <2>1, StepSettles DEF Settles
<1> QED BY <1>1, RuntimesInvariance, PTL DEF Spec, FollowsTable

\* A capability is exchanged only where the row lets go of its container.
LEMMA CapabilityStep ==
  ASSUME RInv, [Next]_vars, NEW x \in Workspaces
  PROVE  cap'[x] \in {cap[x], None} \/ row'[x].state \notin Adopted
<1>1. RuntimesTypeOK /\ \A w \in Workspaces : row[w] \in Rows
  BY DEF RInv, RuntimesTypeOK
<1>2. CASE cap' = cap
  BY <1>2
<1>3. CASE \E w : cap' = [cap EXCEPT ![w] = None]
  BY <1>1, <1>3 DEF RuntimesTypeOK
<1>4. ASSUME NEW w \in Workspaces, Start(w) \/ CrashInStart(w)
      PROVE  cap'[x] = cap[x] \/ row'[x].state \notin Adopted
  <2>1. /\ row[w].state \in {"ABSENT", "STOPPED", "FAILED"}
        /\ cap' = [cap EXCEPT ![w] = Fresh(w)]
        /\ \/ row' = row
           \/ row' = [row EXCEPT ![w] = [row[w] EXCEPT !.state = "PROVISIONING",
                    !.backend = None, !.lapsed = FALSE, !.lease = "live"]]
           \/ row' = [row EXCEPT ![w] = [row[w] EXCEPT !.state = "PROVISIONING",
                    !.backend = None, !.lapsed = FALSE]]
    BY <1>4 DEF Start, CrashInStart, Bind, Write
  <2>2. row[w] \in Rows
    BY <1>1
  <2>3. /\ [row[w] EXCEPT !.state = "PROVISIONING",
                !.backend = None, !.lapsed = FALSE, !.lease = "live"].state = "PROVISIONING"
        /\ [row[w] EXCEPT !.state = "PROVISIONING",
                !.backend = None, !.lapsed = FALSE].state = "PROVISIONING"
    BY <2>2 DEF Rows
  <2> QED BY <1>1, <2>1, <2>3 DEF RuntimesTypeOK, Adopted, Running
<1>5. ASSUME NEW w \in Workspaces,
             \/ StartRefused(w) \/ StartStep(w)
             \/ OpenSession(w) \/ Connect(w) \/ Disconnect(w) \/ SessionExpires(w) \/ Touch(w)
             \/ LeaseLapses(w) \/ LifetimeLapses(w) \/ BoxExits(w)
      PROVE  cap' = cap \/ \E y : cap' = [cap EXCEPT ![y] = None]
  BY <1>5 DEF StartRefused, StartStep, StartAnswered, StartFailed, StartRemoved, OpenSession,
              Connect, Disconnect, SessionExpires, Touch, LeaseLapses, LifetimeLapses, BoxExits
<1>6. ASSUME NEW c \in Callers,
             RouteStep(c) \/ \E w \in Workspaces : Stop(c, w) \/ Revoke(c, w) \/ RevokeStopped(c, w)
      PROVE  cap' = cap \/ \E y : cap' = [cap EXCEPT ![y] = None]
  BY <1>6 DEF RouteStep, StopAnswered, RevokeAnswered, ToRevoked, Stop, Revoke, RevokeStopped
<1>7. ASSUME NEW p \in Passes, PassBegins(p) \/ PassStep(p)
      PROVE  cap' = cap
  BY <1>7 DEF PassBegins, PassStep, PassInspects, PassInspectFails, PassWrites, PassCleans,
              PassExpires, PassAnswered
<1>8. ASSUME NEW o \in ops, ManagerStep(o) \/ ManagerFails(o) \/ TimesOut(o)
      PROVE  cap' = cap
  BY <1>8 DEF ManagerStep, ManagerClears, ManagerCreates, ManagerChecks, ManagerStarts,
              ManagerReports, ManagerUndoes, ManagerStops, ManagerRemoves, ManagerFails, TimesOut
<1>9. CASE Logout \/ Crash \/ UNCHANGED vars
  BY <1>2, <1>9 DEF Logout, Crash, vars
<1>10. CASE Next
  BY <1>2, <1>3, <1>4, <1>5, <1>6, <1>7, <1>8, <1>9, <1>10 DEF Next
<1> QED BY <1>9, <1>10

\* A container is adopted under its provisioning's own capability or none, and
\* that capability is never exchanged while the container is kept.
THEOREM CapabilityIsKept == Spec => CapabilityKept
<1>1. ASSUME RInv, RInv', [Next]_vars
      PROVE  [\A w \in Workspaces : row'[w].state \in Adopted =>
                /\ row'[w].backend # None
                /\ cap'[w] \in {None, IF row[w].state \in Adopted
                                     THEN cap[w] ELSE task[w].id}]_vars
  <2>1. SUFFICES ASSUME NEW w \in Workspaces, row'[w].state \in Adopted
                 PROVE  /\ row'[w].backend # None
                        /\ cap'[w] \in {None, IF row[w].state \in Adopted
                                             THEN cap[w] ELSE task[w].id}
    OBVIOUS
  <2>2. row'[w].backend # None
    BY <1>1, <2>1 DEF RInv, Sound, Adopted
  <2>3. cap'[w] \in {cap[w], None}
    BY <1>1, <2>1, CapabilityStep
  <2>4. CASE row[w].state \notin Adopted
    <3>1. row[w].state \in States
      BY <1>1 DEF RInv, RuntimesTypeOK, Rows
    <3>2. ~Settles(w)
      BY <2>1, <2>4, <3>1 DEF Settles, Adopted, Running, TRANSITIONS, States
    <3>3. ASSUME NEW v \in Workspaces, Provisions(v) \/ Adopts(v) PROVE v = w /\ Adopts(v)
      BY <2>1, <2>4, <3>3 DEF Provisions, Adopts, Adopted, Running
    <3>4. Adopts(w)
      BY <1>1, <3>2, <3>3, StepSettles
    <3>5. cap'[w] = cap[w] /\ cap[w] \in {None, task[w].id}
      BY <1>1, <3>4 DEF Adopts, RInv, Sound
    <3> QED BY <2>2, <2>4, <3>5
  <2> QED BY <2>2, <2>3, <2>4
<1>2. RInv /\ RInv' /\ [Next]_vars =>
        [\A w \in Workspaces : row'[w].state \in Adopted =>
                /\ row'[w].backend # None
                /\ cap'[w] \in {None, IF row[w].state \in Adopted
                                     THEN cap[w] ELSE task[w].id}]_vars
  BY <1>1
<1> QED BY <1>2, RuntimesInvariance, PTL DEF Spec, CapabilityKept

\* The owner never has more than MaxActive runtimes starting or running.
THEOREM QuotaIsHeld == Spec => []QuotaHeld
<1> DEFINE Up == {w \in Workspaces : row[w].state \in Active \ {"STOPPING"}}
<1>1. ASSUME Init PROVE QuotaHeld
  <2>1. Up = {}
    BY <1>1 DEF Init, Active, InTransit, Running
  <2>2. Cardinality(Up) = 0
    BY <2>1, FS_EmptySet
  <2> QED BY <2>2, RuntimesAssumption DEF QuotaHeld
<1>2. ASSUME RInv, QuotaHeld, [Next]_vars PROVE QuotaHeld'
  <2>1. IsFiniteSet(Up) /\ Cardinality(Up) <= MaxActive /\ MaxActive \in Nat
    <3>1. IsFiniteSet(Up)
      BY RuntimesAssumption, FS_Subset
    <3> QED BY <1>2, <3>1, RuntimesAssumption DEF QuotaHeld
  <2>2. ASSUME Up' \subseteq Up PROVE QuotaHeld'
    <3>1. Cardinality(Up') <= Cardinality(Up)
      BY <2>1, <2>2, FS_Subset
    <3>2. Cardinality(Up') \in Nat /\ Cardinality(Up) \in Nat
      BY <2>1, <2>2, FS_Subset, FS_CardinalityType
    <3>3. Cardinality(Up') <= MaxActive
      BY <2>1, <3>1, <3>2
    <3> QED BY <3>3 DEF QuotaHeld
  <2>3. CASE \A x \in Workspaces : Settles(x)
    <3>1. Up' \subseteq Up
      <4>1. \A x \in Workspaces : row[x].state \in States
        BY <1>2 DEF RInv, RuntimesTypeOK, Rows
      <4>2. \A s \in States : s \notin Active \ {"STOPPING"} =>
              TRANSITIONS[s] \cap (Active \ {"STOPPING"}) \subseteq {"PROVISIONING"}
        BY DEF TRANSITIONS, States, Active, InTransit, Running
      <4> QED BY <2>3, <4>1, <4>2 DEF Settles
    <3> HIDE DEF Up
    <3> QED BY <2>2, <3>1
  <2>4. ASSUME NEW w \in Workspaces, Adopts(w) PROVE QuotaHeld'
    <3>1. Up' \subseteq Up
      BY <2>4 DEF Adopts, Active, InTransit
    <3> HIDE DEF Up
    <3> QED BY <2>2, <3>1
  <2>5. ASSUME NEW w \in Workspaces, Provisions(w) PROVE QuotaHeld'
    <3> DEFINE O == OthersActive(w)
    <3>1. IsFiniteSet(O) /\ Cardinality(O) \in Nat /\ Cardinality(O) < MaxActive
      <4>1. IsFiniteSet(O)
        BY RuntimesAssumption, FS_Subset DEF OthersActive
      <4> QED BY <2>5, <4>1, FS_CardinalityType DEF Provisions, QuotaLeft
    <3>2. Up' \subseteq O \cup {w}
      BY <2>5 DEF Provisions, OthersActive
    <3> HIDE DEF O
    <3>3. IsFiniteSet(O \cup {w}) /\ Cardinality(O \cup {w}) <= Cardinality(O) + 1
      <4>1. /\ IsFiniteSet(O \cup {w})
            /\ Cardinality(O \cup {w}) = IF w \in O THEN Cardinality(O) ELSE Cardinality(O) + 1
        BY <3>1, FS_AddElement
      <4> QED BY <3>1, <4>1
    <3>4. /\ Cardinality(Up') <= Cardinality(O \cup {w})
          /\ Cardinality(Up') \in Nat /\ Cardinality(O \cup {w}) \in Nat
      BY <3>2, <3>3, FS_Subset, FS_CardinalityType
    <3>5. Cardinality(Up') <= MaxActive
      BY <2>1, <3>1, <3>3, <3>4
    <3> QED BY <3>5 DEF QuotaHeld
  <2> QED BY <1>2, <2>3, <2>4, <2>5, StepSettles
<1>3. RInv /\ QuotaHeld /\ [Next]_vars => QuotaHeld'
  BY <1>2
<1> QED BY <1>1, <1>3, RuntimesInvariance, PTL DEF Spec
=============================================================================
