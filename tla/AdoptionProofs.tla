--------------------------- MODULE AdoptionProofs ---------------------------
(***************************************************************************)
(* Theorems about Adoption, for any number of operations, routes, daemons, *)
(* rows and faults.  AdoptInv is inductive, with one lemma per action; the *)
(* properties follow from it.                                              *)
(***************************************************************************)
EXTENDS Adoption, TLAPS

-----------------------------------------------------------------------------
(* Operators.                                                               *)

\* instance_id: a daemon's name is its own, or it has none.
LEMMA NameOfType ==
    ASSUME NEW d \in Daemons
    PROVE  NameOf(d) \in Daemons \cup {None} /\ (NameOf(d) # None => NameOf(d) = d)
BY DEF NameOf

\* An operation that has not begun is well formed and knows nothing.
LEMMA IdleType == Idle \in TaskState /\ Knows(Idle) /\ Idle.pc = "idle" /\ Idle.home = None
BY DEF Idle, TaskState, Knows, Pcs, Asking, OnRow, OnHost

\* request_seen: whoever answers is admitted by the fence, and a connection leads
\* to a daemon or nowhere.
LEMMA AnswersType ==
    ASSUME TypeOK, NEW r \in Routes, NEW fence, NEW d \in Daemons \cup {None},
           Answers(r, fence, d)
    PROVE  /\ conn' \in [Routes -> Daemons \cup {None}]
           /\ d # None => d = Peer(r, fence)
BY DEF TypeOK, Answers

\* request_seen: the daemon a request goes to is one the fence admits.
LEMMA PeerAdmitted ==
    ASSUME TypeOK, NEW r \in Routes, NEW fence, Peer(r, fence) # None
    PROVE  /\ Peer(r, fence) \in Daemons
           /\ fence = None \/ NameOf(Peer(r, fence)) = fence
BY DEF TypeOK, Peer, Admits

\* daemon_workspace_id names a record.
LEMMA WireIdType ==
    ASSUME NEW i \in Ids, NEW row \in RowType
    PROVE  WireId(i, row) \in Ids
BY DEF WireId, RowType

\* list_workspaces returns rows.
LEMMA UsedType ==
    ASSUME NEW rs \in Table, NEW i \in Used(rs)
    PROVE  i \in Ids /\ rs[i] \in RowType
BY DEF Used, Table

-----------------------------------------------------------------------------
(* What one operation's step leaves alone.                                  *)

\* The locks an operation holds suit a state it goes on to.
Fits(t, s) ==
    /\ \A r \in Routes : lock[r] = t => s.pc \in HasRoute
    /\ \A d \in Daemons : lock[d] = t => s.pc \in HasInstance
    /\ s.pc = "list" /\ s.want # None => lock[s.want] = t
    /\ \A d \in CreatesOn(s) : lock[d] = t /\ opened[d] = {}

\* A step of one operation to a state that knows what it must keeps the others' states.
LEMMA Stepped ==
    ASSUME AdoptInv, NEW t \in Tasks, NEW s \in TaskState, Knows(s),
           task' = [task EXCEPT ![t] = s]
    PROVE  /\ task' \in [Tasks -> TaskState]
           /\ \A u \in Tasks : Knows(task'[u])
           /\ task'[t] = s
           /\ \A u \in Tasks \ {t} : task'[u] = task[u]
<1>1. task' \in [Tasks -> TaskState] /\ task'[t] = s /\ \A u \in Tasks \ {t} : task'[u] = task[u]
  BY DEF AdoptInv, TypeOK
<1>2. \A u \in Tasks : Knows(task'[u])
  BY <1>1 DEF AdoptInv
<1> QED
  BY <1>1, <1>2

\* Records are made only on a daemon the operation has locked, or on one that has
\* no name, by an operation that then is not about to create.
Apart(t, s) ==
    \A d \in Daemons : \/ opened'[d] \subseteq opened[d]
                       \/ CreatesOn(s) = {} /\ (d \in Nameless \/ lock[d] = t)

\* An operation goes on with the locks it has.
LEMMA Onward ==
    ASSUME AdoptInv, NEW t \in Tasks, NEW s \in TaskState, Knows(s), Fits(t, s),
           task' = [task EXCEPT ![t] = s], lock' = lock,
           Apart(t, s)
    PROVE  /\ LocksHeld'
           /\ \A u \in Tasks : \A d \in CreatesOn(task'[u]) : lock'[d] = u /\ opened'[d] = {}
<1>1. task'[t] = s /\ \A u \in Tasks \ {t} : task'[u] = task[u]
  BY Stepped
<1>2. LocksHeld'
  BY <1>1 DEF AdoptInv, LocksHeld, Fits, TypeOK
<1>3. ASSUME NEW u \in Tasks, NEW d \in CreatesOn(task'[u])
      PROVE  lock'[d] = u /\ opened'[d] = {}
  <2>1. d \in Daemons
    BY <1>1, <1>3 DEF CreatesOn, TaskState, AdoptInv, TypeOK
  <2>2. lock[d] = u /\ opened[d] = {}
    BY <1>1, <1>3 DEF AdoptInv, Claims, Fits
  <2>3. d \notin Nameless /\ (u = t => CreatesOn(s) # {})
    BY <1>1, <1>3 DEF CreatesOn
  <2> QED
    BY <2>1, <2>2, <2>3, AdoptionAssumption DEF Apart
<1> QED
  BY <1>2, <1>3

\* An operation lets its locks go.
LEMMA Released ==
    ASSUME AdoptInv, NEW t \in Tasks, NEW s \in TaskState, Knows(s),
           s.pc \in {"idle", "hosts", "route", "sessions"},
           task' = [task EXCEPT ![t] = s], lock' = Unlocked(t),
           \A d \in Daemons : opened'[d] \subseteq opened[d] \/ d \in Nameless \/ lock[d] = t
    PROVE  /\ lock' \in [Routes \cup Daemons -> Tasks \cup {None}]
           /\ LocksHeld'
           /\ \A u \in Tasks : \A d \in CreatesOn(task'[u]) : lock'[d] = u /\ opened'[d] = {}
<1>1. task'[t] = s /\ \A u \in Tasks \ {t} : task'[u] = task[u]
  BY Stepped
<1>2. /\ lock' \in [Routes \cup Daemons -> Tasks \cup {None}]
      /\ \A k \in Routes \cup Daemons : lock'[k] = IF lock[k] = t THEN None ELSE lock[k]
  BY DEF Unlocked, AdoptInv, TypeOK
<1>3. LocksHeld'
  <2>1. \A r \in Routes : lock'[r] # None => task'[lock'[r]].pc \in HasRoute
    BY <1>1, <1>2 DEF AdoptInv, LocksHeld, TypeOK
  <2>2. \A d \in Daemons : lock'[d] # None => task'[lock'[d]].pc \in HasInstance
    BY <1>1, <1>2 DEF AdoptInv, LocksHeld, TypeOK
  <2>3. ASSUME NEW u \in Tasks, task'[u].pc = "list", task'[u].want # None
        PROVE  lock'[task'[u].want] = u
    <3>1. u # t /\ task[u].want \in Daemons /\ lock[task[u].want] = u
      BY <1>1, <2>3 DEF AdoptInv, LocksHeld, TypeOK, TaskState
    <3> QED
      BY <1>1, <1>2, <3>1
  <2> QED
    BY <2>1, <2>2, <2>3 DEF LocksHeld
<1>4. ASSUME NEW u \in Tasks, NEW d \in CreatesOn(task'[u])
      PROVE  lock'[d] = u /\ opened'[d] = {}
  <2>1. d \in Daemons /\ u # t /\ d \notin Nameless
    BY <1>1, <1>4 DEF CreatesOn, TaskState, AdoptInv, TypeOK
  <2>2. lock[d] = u /\ opened[d] = {}
    BY <1>1, <1>4, <2>1 DEF AdoptInv, Claims
  <2> QED
    BY <1>2, <2>1, <2>2
<1> QED
  BY <1>2, <1>3, <1>4

\* A pass that leaves a host behind is well formed and forgets the host.
LEMMA OffHostType ==
    ASSUME NEW s \in TaskState, Knows(s), s.op = "pass"
    PROVE  /\ OffHost(s) \in TaskState /\ Knows(OffHost(s)) /\ OffHost(s).pc = "hosts"
           /\ OffHost(s).told = s.told
<1>1. OffHost(s) \in TaskState
  BY DEF OffHost, TaskState, Pcs
<1>2. /\ OffHost(s).pc = "hosts" /\ OffHost(s).op = "pass" /\ OffHost(s).told = s.told
      /\ OffHost(s).snap = s.snap /\ OffHost(s).left = s.left
  BY DEF OffHost, TaskState
<1>3. Knows(OffHost(s))
  BY <1>2 DEF Knows, Asking, OnRow, OnHost
<1> QED
  BY <1>1, <1>2, <1>3

\* Where an operation stands: the part of the invariant that its own steps may
\* disturb, apart from the daemons and the registry.
Standing ==
    /\ task \in [Tasks -> TaskState]
    /\ lock \in [Routes \cup Daemons -> Tasks \cup {None}]
    /\ \A t \in Tasks : Knows(task[t])
    /\ LocksHeld
    /\ \A t \in Tasks : \A d \in CreatesOn(task[t]) : lock[d] = t /\ opened[d] = {}

\* An operation that goes on with fitting locks and makes no record keeps Standing.
LEMMA GoesOn ==
    ASSUME AdoptInv, NEW t \in Tasks, NEW s \in TaskState, Knows(s), Fits(t, s),
           task' = [task EXCEPT ![t] = s], lock' = lock,
           \A d \in Daemons : opened'[d] \subseteq opened[d]
    PROVE  Standing'
<1>1. /\ LocksHeld'
      /\ \A u \in Tasks : \A d \in CreatesOn(task'[u]) : lock'[d] = u /\ opened'[d] = {}
  <2>1. Apart(t, s)
    BY DEF Apart
  <2> QED
    BY <2>1, Onward
<1> QED
  BY <1>1, Stepped DEF Standing, AdoptInv, TypeOK

\* So does one that drops its guards at the end of a function or round a loop.
LEMMA LetsGo ==
    ASSUME AdoptInv, NEW t \in Tasks, NEW s \in TaskState, Knows(s),
           s.pc \in {"idle", "hosts", "route", "sessions"},
           task' = [task EXCEPT ![t] = s], lock' = Unlocked(t),
           \A d \in Daemons : opened'[d] \subseteq opened[d] \/ d \in Nameless \/ lock[d] = t
    PROVE  Standing'
BY Stepped, Released DEF Standing

\* So does one that ends, well or with an error.
LEMMA EndsStanding ==
    ASSUME AdoptInv, NEW t \in Tasks, Ends(t),
           \A d \in Daemons : opened'[d] \subseteq opened[d] \/ d \in Nameless \/ lock[d] = t
    PROVE  Standing' /\ task'[t].pc \in {"idle", "hosts"}
<1> DEFINE s == IF task[t].op = "pass" THEN OffHost(task[t]) ELSE Idle
<1>1. task[t] \in TaskState /\ Knows(task[t])
  BY DEF AdoptInv, TypeOK
<1>2. s \in TaskState /\ Knows(s) /\ s.pc \in {"idle", "hosts"}
  BY <1>1, OffHostType, IdleType
<1>3. task' = [task EXCEPT ![t] = s] /\ lock' = Unlocked(t)
  BY DEF Ends
<1>4. task'[t] = s
  BY <1>2, <1>3, Stepped
<1> HIDE DEF s
<1> QED
  BY <1>2, <1>3, <1>4, LetsGo

\* The daemons' half and the registry's put together.
LEMMA Together ==
    ASSUME Standing', rows' \in Table,
           held' \in [Daemons -> SUBSET Ids], alive' \in [Daemons -> SUBSET Ids],
           opened' \in [Daemons -> SUBSET Ids],
           adrift' \subseteq [op : {"create", "kill"}, at : Daemons, id : Ids],
           at' \in [Routes -> Daemons \cup {None}], conn' \in [Routes -> Daemons \cup {None}],
           met' \in [Routes -> SUBSET Daemons],
           \A d \in Daemons : opened'[d] \subseteq held'[d],
           \A d \in Daemons \ Nameless : \A x, y \in opened'[d] : x = y
    PROVE  AdoptInv'
BY DEF Standing, AdoptInv, TypeOK, Claims, OneWorkspacePerCheckout

\* A step that changes nothing a daemon holds.
LEMMA AtHome ==
    ASSUME AdoptInv, Standing', rows' \in Table, UNCHANGED daemons,
           UNCHANGED net, conn' \in [Routes -> Daemons \cup {None}]
    PROVE  AdoptInv'
<1>1. /\ held' \in [Daemons -> SUBSET Ids] /\ alive' \in [Daemons -> SUBSET Ids]
      /\ opened' \in [Daemons -> SUBSET Ids]
      /\ adrift' \subseteq [op : {"create", "kill"}, at : Daemons, id : Ids]
      /\ at' \in [Routes -> Daemons \cup {None}] /\ met' \in [Routes -> SUBSET Daemons]
  BY DEF AdoptInv, TypeOK, daemons, net
<1>2. /\ \A d \in Daemons : opened'[d] \subseteq held'[d]
      /\ \A d \in Daemons \ Nameless : \A x, y \in opened'[d] : x = y
  BY DEF AdoptInv, Claims, OneWorkspacePerCheckout, daemons
<1> QED
  BY <1>1, <1>2, Together

\* A request that fails on its way changes nothing a daemon holds yet.
LEMMA Underway ==
    ASSUME AdoptInv, Standing', rows' \in Table, UNCHANGED <<held, alive, opened>>,
           adrift' \subseteq [op : {"create", "kill"}, at : Daemons, id : Ids],
           at' \in [Routes -> Daemons \cup {None}], conn' \in [Routes -> Daemons \cup {None}],
           met' \in [Routes -> SUBSET Daemons]
    PROVE  AdoptInv'
<1>1. /\ held' \in [Daemons -> SUBSET Ids] /\ alive' \in [Daemons -> SUBSET Ids]
      /\ opened' \in [Daemons -> SUBSET Ids]
  BY DEF AdoptInv, TypeOK
<1>2. /\ \A d \in Daemons : opened'[d] \subseteq held'[d]
      /\ \A d \in Daemons \ Nameless : \A x, y \in opened'[d] : x = y
  BY DEF AdoptInv, Claims, OneWorkspacePerCheckout
<1> QED
  BY <1>1, <1>2, Together

-----------------------------------------------------------------------------
(* Operations begin.                                                        *)

\* An operation that begins holds no lock.
LEMMA BeginKeeps ==
    ASSUME AdoptInv, NEW t \in Tasks, NEW s \in TaskState, Knows(s),
           s.pc \in {"route", "exists", "hosts"}, Begin(t, s)
    PROVE  AdoptInv'
<1>0. task[t].pc = "idle"
  BY DEF Begin
<1>1. Fits(t, s)
  <2>1. \A k \in Routes \cup Daemons : lock[k] # t
    BY <1>0, AdoptionAssumption DEF AdoptInv, LocksHeld, HasRoute, HasInstance
  <2> QED
    BY <2>1 DEF Fits, CreatesOn
<1>2. Standing'
  BY <1>1, GoesOn DEF Begin, daemons
<1> QED
  BY <1>2, AtHome DEF Begin, registry, AdoptInv, TypeOK

\* Each way to begin knows what its first step needs.
LEMMA BeginsKeeps ==
    ASSUME AdoptInv, NEW t \in Tasks, Begins(t)
    PROVE  AdoptInv'
<1> USE DEF TaskState, Knows, Pcs, Asking, OnRow, OnHost
<1>0. Idle \in TaskState
  BY IdleType
<1>1. ASSUME NEW r \in Routes, Open(t, r) PROVE AdoptInv'
  <2> DEFINE s == [Idle EXCEPT !.pc = "route", !.op = "open", !.route = r, !.tries = 3]
  <2>1. s \in TaskState /\ Knows(s) /\ s.pc = "route"
    BY DEF Idle
  <2> QED
    BY <1>1, <2>1, BeginKeeps DEF Open
<1>2. ASSUME NEW r \in Routes, ConfirmDiscovered(t, r, Theirs) PROVE AdoptInv'
  <2> DEFINE s == [Idle EXCEPT !.pc = "route", !.op = "confirm", !.route = r, !.row = Theirs,
                               !.tries = 3]
  <2>1. s \in TaskState /\ Knows(s) /\ s.pc = "route"
    BY DEF Idle, Ids
  <2> QED
    BY <1>2, <2>1, BeginKeeps DEF ConfirmDiscovered
<1>3. ASSUME NEW i \in Ids, KillWorkspace(t, i) PROVE AdoptInv'
  <2> DEFINE s == [Idle EXCEPT !.pc = "route", !.op = "kill", !.route = rows[i].host,
                               !.row = i, !.base = rows[i], !.tries = 1]
  <2>1. rows[i] \in RowType
    BY <1>3, UsedType DEF KillWorkspace, AdoptInv, TypeOK
  <2>2. s \in TaskState /\ Knows(s) /\ s.pc = "route"
    BY <2>1 DEF Idle, RowType
  <2> QED
    BY <1>3, <2>2, BeginKeeps DEF KillWorkspace
<1>4. ASSUME NEW i \in Ids, RecreateSession(t, i) PROVE AdoptInv'
  <2> DEFINE s == [Idle EXCEPT !.pc = "exists", !.op = "recreate", !.route = rows[i].host,
                               !.row = i, !.base = rows[i]]
  <2>1. rows[i] \in RowType
    BY <1>4, UsedType DEF RecreateSession, AdoptInv, TypeOK
  <2>2. s \in TaskState /\ Knows(s) /\ s.pc = "exists"
    BY <2>1 DEF Idle, RowType
  <2> QED
    BY <1>4, <2>2, BeginKeeps DEF RecreateSession
<1>5. ASSUME Reconcile(t) PROVE AdoptInv'
  <2> DEFINE snap == [i \in Ids |-> IF i \in Used(rows) THEN rows[i] ELSE None]
             s == [Idle EXCEPT !.pc = "hosts", !.op = "pass", !.todo = Routes,
                               !.left = Used(rows), !.snap = snap]
  <2>1. rows \in Table /\ Used(rows) \subseteq Ids /\ \A i \in Used(rows) : rows[i] \in RowType
    BY UsedType DEF AdoptInv, TypeOK
  <2>2. snap \in Table /\ \A i \in Used(rows) : snap[i] \in RowType
    BY <2>1 DEF Table
  <2> HIDE DEF snap
  <2>3. s \in TaskState /\ Knows(s) /\ s.pc = "hosts"
    BY <2>1, <2>2 DEF Idle
  <2>4. Begin(t, s)
    BY <1>5 DEF Reconcile, snap
  <2> QED
    BY <2>3, <2>4, BeginKeeps
<1> QED
  BY <1>1, <1>2, <1>3, <1>4, <1>5 DEF Begins
-----------------------------------------------------------------------------
(* The listing under the locks.                                             *)

\* An operation takes a lock that is free.
LEMMA Takes ==
    ASSUME AdoptInv, NEW t \in Tasks, NEW s \in TaskState, Knows(s),
           NEW k \in Routes \cup Daemons, lock[k] = None,
           task' = [task EXCEPT ![t] = s], lock' = [lock EXCEPT ![k] = t],
           opened' = opened,
           s.pc \in HasRoute, CreatesOn(s) = {},
           \A d \in Daemons : d = k \/ lock[d] = t => s.pc \in HasInstance,
           s.pc = "list" /\ s.want # None => s.want = k
    PROVE  Standing'
<1>1. /\ task' \in [Tasks -> TaskState] /\ \A u \in Tasks : Knows(task'[u])
      /\ task'[t] = s /\ \A u \in Tasks \ {t} : task'[u] = task[u]
  BY Stepped
<1>2. /\ lock' \in [Routes \cup Daemons -> Tasks \cup {None}]
      /\ lock'[k] = t /\ \A j \in Routes \cup Daemons : j # k => lock'[j] = lock[j]
  BY DEF AdoptInv, TypeOK
<1>3. ASSUME NEW r \in Routes, lock'[r] # None PROVE task'[lock'[r]].pc \in HasRoute
  BY <1>1, <1>2, <1>3 DEF AdoptInv, LocksHeld, TypeOK
<1>4. ASSUME NEW d \in Daemons, lock'[d] # None PROVE task'[lock'[d]].pc \in HasInstance
  BY <1>1, <1>2, <1>4 DEF AdoptInv, LocksHeld, TypeOK
<1>5. ASSUME NEW u \in Tasks, task'[u].pc = "list", task'[u].want # None
      PROVE  lock'[task'[u].want] = u
  <2>1. CASE u = t
    BY <1>1, <1>2, <1>5, <2>1
  <2>2. CASE u # t
    <3>1. task[u].want \in Daemons /\ lock[task[u].want] = u
      BY <1>1, <1>5, <2>2 DEF AdoptInv, LocksHeld, TypeOK, TaskState
    <3>2. task[u].want # k
      BY <3>1, AdoptionAssumption
    <3> QED
      BY <1>1, <1>2, <2>2, <3>1, <3>2
  <2> QED
    BY <2>1, <2>2
<1>6. ASSUME NEW u \in Tasks, NEW d \in CreatesOn(task'[u])
      PROVE  lock'[d] = u /\ opened'[d] = {}
  <2>1. u # t /\ d \in CreatesOn(task[u]) /\ d \in Daemons
    BY <1>1, <1>6 DEF CreatesOn, TaskState, AdoptInv, TypeOK
  <2>2. lock[d] = u /\ opened[d] = {}
    BY <2>1 DEF AdoptInv, Claims
  <2>3. d # k
    BY <2>2, AdoptionAssumption
  <2> QED
    BY <1>2, <2>1, <2>2, <2>3
<1> QED
  BY <1>1, <1>2, <1>3, <1>4, <1>5, <1>6 DEF Standing, LocksHeld

\* What is known of an operation before its step.
LEMMA Before ==
    ASSUME AdoptInv, NEW t \in Tasks
    PROVE  task[t] \in TaskState /\ Knows(task[t]) /\ TypeOK
BY DEF AdoptInv, TypeOK

\* The route's decision lock is taken when it is free.
LEMMA LockRouteKeeps ==
    ASSUME AdoptInv, NEW t \in Tasks, LockRoute(t)
    PROVE  AdoptInv'
<1> DEFINE s == [task[t] EXCEPT !.pc = "name"]
<1> USE Before
<1>1. task[t].pc = "route" /\ task[t].route \in Routes
  BY DEF LockRoute, Knows, Asking
<1>2. s \in TaskState /\ s.pc = "name"
  BY DEF TaskState, Pcs, Asking
<1>3. Knows(s)
  BY <1>1 DEF Knows, Asking, OnRow, OnHost, TaskState
<1>4. task' = [task EXCEPT ![t] = s] /\ lock' = [lock EXCEPT ![task[t].route] = t]
  BY DEF LockRoute, Goto
<1>5. \A d \in Daemons : d # task[t].route /\ lock[d] # t
  BY <1>1, AdoptionAssumption DEF AdoptInv, LocksHeld, HasInstance
<1>6. CreatesOn(s) = {} /\ s.pc \in HasRoute
  BY <1>2 DEF CreatesOn, HasRoute
<1>7. lock[task[t].route] = None /\ opened' = opened
  BY DEF LockRoute, daemons
<1>8. Standing'
  <2> HIDE DEF s
  <2>1. \A d \in Daemons : d = task[t].route \/ lock[d] = t => s.pc \in HasInstance
    BY <1>5
  <2> QED
    BY <1>1, <1>2, <1>3, <1>4, <1>6, <1>7, <2>1, Takes
<1> QED
  BY <1>8, AtHome DEF LockRoute, registry, TypeOK

\* The daemon to lock is settled; one that has no name needs no lock.
LEMMA NamedKeeps ==
    ASSUME AdoptInv, NEW t \in Tasks, task[t].pc = "name", NEW name \in Daemons \cup {None},
           task[t].op = "kill" => task[t].base.daemon \in {None, name},
           Named(t, name), lock' = lock, opened' = opened
    PROVE  Standing'
<1> DEFINE pc == IF name = None THEN "list" ELSE "instance"
           s == [task[t] EXCEPT !.want = name, !.pc = pc]
<1> USE Before
<1>1. s \in TaskState
  <2>1. pc \in Pcs
    BY DEF Pcs, Asking
  <2>2. task[t] \in TaskState
    BY DEF AdoptInv, TypeOK
  <2> HIDE DEF pc
  <2> QED
    BY <2>1, <2>2 DEF TaskState
<1>2. /\ s.want = name /\ s.pc = pc
      /\ s.op = task[t].op /\ s.route = task[t].route /\ s.row = task[t].row
      /\ s.base = task[t].base /\ s.snap = task[t].snap /\ s.left = task[t].left
      /\ s.told = task[t].told
  BY DEF TaskState
<1>3. Knows(s)
  BY <1>2 DEF Knows, Asking, OnRow, OnHost
<1>4. Fits(t, s)
  <2>1. \A d \in Daemons : lock[d] # t
    BY AdoptionAssumption DEF AdoptInv, LocksHeld, HasInstance
  <2> QED
    BY <1>2, <2>1 DEF Fits, HasRoute, HasInstance, CreatesOn
<1>5. task' = [task EXCEPT ![t] = s]
  BY DEF Named, TypeOK
<1> HIDE DEF s, pc
<1> QED
  BY <1>1, <1>3, <1>4, <1>5, GoesOn

\* It is settled by an earlier handshake, by the row, or by asking the route.
LEMMA NameKeeps ==
    ASSUME AdoptInv, NEW t \in Tasks, Name(t)
    PROVE  AdoptInv'
<1> USE Before
<1>1. /\ task[t].pc = "name" /\ task[t].route \in Routes
      /\ task[t].op \in {"open", "confirm", "kill", "pass"}
  BY DEF Name, Knows, Asking
<1>2. \A name \in Expected(t) : /\ name \in Daemons \cup {None}
                                /\ task[t].op = "kill" => name = task[t].base.daemon
  <2>1. task[t].op = "kill" => task[t].base.daemon \in Daemons \cup {None}
    BY DEF Knows, RowType
  <2>2. \A d \in met[task[t].route] : NameOf(d) \in Daemons \cup {None}
    BY <1>1, NameOfType DEF TypeOK
  <2> QED
    BY <1>1, <2>1, <2>2 DEF Expected
<1>3. Standing' /\ conn' \in [Routes -> Daemons \cup {None}]
  <2>1. CASE \E name \in Expected(t) \ {None} : Named(t, name) /\ UNCHANGED <<conn, lock, spent>>
    <3>1. PICK name \in Expected(t) \ {None} : Named(t, name) /\ UNCHANGED <<conn, lock, spent>>
      BY <2>1
    <3> QED
      BY <1>1, <1>2, <3>1, NamedKeeps DEF Name, daemons, TypeOK
  <2>2. CASE /\ None \in Expected(t)
             /\ \E d \in Daemons \cup {None} :
                   /\ Answers(task[t].route, None, d)
                   /\ IF d = None THEN Ends(t) ELSE Named(t, NameOf(d)) /\ UNCHANGED lock
    <3>1. PICK d \in Daemons \cup {None} :
                   /\ Answers(task[t].route, None, d)
                   /\ IF d = None THEN Ends(t) ELSE Named(t, NameOf(d)) /\ UNCHANGED lock
      BY <2>2
    <3>2. conn' \in [Routes -> Daemons \cup {None}]
      BY <1>1, <3>1, AnswersType
    <3>3. opened' = opened
      BY DEF Name, daemons
    <3>4. CASE d = None
      BY <3>1, <3>2, <3>3, <3>4, EndsStanding
    <3>5. CASE d # None
      <4>1. NameOf(d) \in Daemons \cup {None}
        BY <3>5, NameOfType
      <4>2. task[t].op = "kill" => task[t].base.daemon = None
        BY <1>2, <2>2
      <4> QED
        BY <1>1, <3>1, <3>2, <3>3, <3>5, <4>1, <4>2, NamedKeeps
    <3> QED
      BY <3>4, <3>5
  <2> QED
    BY <2>1, <2>2 DEF Name
<1> QED
  BY <1>3, AtHome DEF Name, registry, TypeOK

\* The daemon's decision lock is taken when it is free.
LEMMA LockInstanceKeeps ==
    ASSUME AdoptInv, NEW t \in Tasks, LockInstance(t)
    PROVE  AdoptInv'
<1> DEFINE pc == IF task[t].op = "kill" /\ task[t].base.daemon # None THEN "kill" ELSE "list"
           s == [task[t] EXCEPT !.pc = pc]
<1> USE Before
<1>1. task[t].pc = "instance" /\ task[t].want \in Daemons
  BY DEF LockInstance, Knows
<1>2. s \in TaskState
  BY DEF TaskState, Pcs, Asking, OnRow
<1>3. /\ s.pc = pc /\ s.want = task[t].want
      /\ s.op = task[t].op /\ s.route = task[t].route /\ s.row = task[t].row
      /\ s.base = task[t].base /\ s.snap = task[t].snap /\ s.left = task[t].left
      /\ s.told = task[t].told
  BY DEF TaskState
<1>4. Knows(s)
  BY <1>1, <1>3 DEF Knows, Asking, OnRow, OnHost
<1>5. task' = [task EXCEPT ![t] = s] /\ lock' = [lock EXCEPT ![task[t].want] = t]
  BY DEF LockInstance, Goto
<1>6. CreatesOn(s) = {} /\ s.pc \in HasRoute /\ s.pc \in HasInstance
  BY <1>3 DEF CreatesOn, HasRoute, HasInstance
<1>7. Standing'
  <2> HIDE DEF s, pc
  <2> QED
    BY <1>1, <1>2, <1>3, <1>4, <1>5, <1>6, Takes DEF LockInstance, daemons
<1> QED
  BY <1>7, AtHome DEF LockInstance, registry, TypeOK
\* The steps an operation goes to are steps.
LEMMA PcType ==
    /\ "idle" \in Pcs /\ "route" \in Pcs /\ "confirm" \in Pcs /\ "insert" \in Pcs
    /\ "spawn" \in Pcs /\ "create" \in Pcs /\ "bind" \in Pcs /\ "adopt" \in Pcs /\ "killed" \in Pcs
    /\ "rebind" \in Pcs /\ "sessions" \in Pcs /\ "probe" \in Pcs
BY DEF Pcs, Asking, OnRow, OnHost

\* An operation goes on where it may hold any lock.
LEMMA KeepsLocks ==
    ASSUME AdoptInv, NEW t \in Tasks, NEW s \in TaskState, Knows(s),
           s.pc \in HasInstance \ {"list", "insert", "spawn", "create"},
           task' = [task EXCEPT ![t] = s], lock' = lock,
           \A d \in Daemons : opened'[d] \subseteq opened[d] \/ d \in Nameless \/ lock[d] = t
    PROVE  Standing'
<1>1. Fits(t, s) /\ CreatesOn(s) = {}
  BY DEF Fits, HasRoute, CreatesOn
<1>2. /\ LocksHeld'
      /\ \A u \in Tasks : \A d \in CreatesOn(task'[u]) : lock'[d] = u /\ opened'[d] = {}
  <2>1. Apart(t, s)
    BY <1>1 DEF Apart
  <2> QED
    BY <1>1, <2>1, Onward
<1> QED
  BY <1>2, Stepped DEF Standing, AdoptInv, TypeOK

\* adopt_or_create_workspace: a new record is decided on only where the daemon that
\* is locked listed none.
LEMMA DecidesKeeps ==
    ASSUME AdoptInv, NEW t \in Tasks, task[t].pc = "list", task[t].op = "open",
           NEW d \in Daemons, NameOf(d) = task[t].want, Decides(t, d), opened' = opened
    PROVE  Standing'
<1> USE Before
<1> DEFINE mine == {i \in Used(rows) : RowIsOn(rows[i], task[t].want, task[t].route)}
           wires == {WireId(i, rows[i]) : i \in mine}
<1>0. task[t].route \in Routes
  BY DEF Knows, Asking
<1>1. CASE Ends(t)
  BY <1>1, EndsStanding
<1>2. ASSUME NEW x \in held[d] \ wires, task' = [task EXCEPT ![t].pc = "confirm", ![t].row = x, ![t].tries = 0],
             lock' = lock
      PROVE  Standing'
  <2> DEFINE s == [task[t] EXCEPT !.pc = "confirm", !.row = x, !.tries = 0]
  <2>0. x \in Ids
    BY DEF TypeOK
  <2> HIDE DEF wires
  <2>1. s \in TaskState
    <3> HIDE DEF mine
    <3>1. task[t] \in TaskState
      OBVIOUS
    <3> QED
      BY <2>0, <3>1, PcType DEF TaskState
  <2>2. /\ s.pc = "confirm" /\ s.row = x /\ s.op = "open" /\ s.route = task[t].route
        /\ s.told = task[t].told
    BY DEF TaskState
  <2>3. Knows(s)
    BY <1>0, <2>0, <2>2 DEF Knows, Asking, OnRow, OnHost
  <2>4. task' = [task EXCEPT ![t] = s]
    BY <1>2 DEF TypeOK
  <2>5. s.pc \in HasInstance \ {"list", "insert", "spawn", "create"}
    BY <2>2 DEF HasInstance
  <2> HIDE DEF s
  <2> QED
    BY <1>2, <2>1, <2>3, <2>4, <2>5, KeepsLocks
<1>3. ASSUME held[d] \ wires = {}, wires \cap held[d] = {},
             task' = [task EXCEPT ![t].pc = "insert", ![t].home = d, ![t].tries = 0], lock' = lock
      PROVE  Standing'
  <2> DEFINE s == [task[t] EXCEPT !.pc = "insert", !.home = d, !.tries = 0]
  <2>1. s \in TaskState
    <3> HIDE DEF mine, wires
    <3>1. task[t] \in TaskState
      OBVIOUS
    <3> QED
      BY <3>1, PcType DEF TaskState
  <2>2. /\ s.pc = "insert" /\ s.home = d /\ s.op = "open" /\ s.route = task[t].route
        /\ s.told = task[t].told
    BY DEF TaskState
  <2>3. Knows(s)
    BY <1>0, <2>2 DEF Knows, Asking, OnRow, OnHost
  <2>4. task' = [task EXCEPT ![t] = s]
    BY <1>3 DEF TypeOK
  <2>5. held[d] = {}
    <3> HIDE DEF wires
    <3> QED
      BY <1>3
  <2>6. opened[d] = {}
    BY <2>5 DEF AdoptInv, Claims
  <2>7. d \notin Nameless => lock[d] = t
    BY AdoptionAssumption DEF AdoptInv, LocksHeld, NameOf
  <2>8. Fits(t, s)
    BY <2>2, <2>6, <2>7 DEF Fits, HasRoute, HasInstance, CreatesOn
  <2> HIDE DEF s
  <2> QED
    BY <1>3, <2>1, <2>3, <2>4, <2>8, GoesOn
<1> QED
  BY <1>1, <1>2, <1>3 DEF Decides

\* listing_under_daemon_lock: a listing is acted on only if the locked daemon gave it.
LEMMA ListKeeps ==
    ASSUME AdoptInv, NEW t \in Tasks, List(t)
    PROVE  AdoptInv'
<1> USE Before
<1>1. /\ task[t].pc = "list" /\ task[t].route \in Routes
      /\ task[t].op \in {"open", "confirm", "kill", "pass"}
      /\ opened' = opened
  BY DEF List, Knows, Asking, daemons
<1>2. PICK d \in Daemons \cup {None} :
          /\ Answers(task[t].route, None, d)
          /\ \/ d = None /\ Ends(t)
             \/ /\ d # None /\ NameOf(d) # task[t].want
                /\ IF task[t].tries > 1
                   THEN /\ task' = [task EXCEPT ![t].pc = "route", ![t].tries = @ - 1]
                        /\ lock' = Unlocked(t)
                   ELSE Ends(t)
             \/ /\ d # None /\ NameOf(d) = task[t].want
                /\ CASE task[t].op = "open" -> Decides(t, d)
                     [] task[t].op = "confirm" ->
                          IF task[t].row \in held[d] THEN Goto(t, "confirm") /\ UNCHANGED lock
                          ELSE Ends(t)
                     [] task[t].op = "kill" -> Goto(t, "kill") /\ UNCHANGED lock
                     [] task[t].op = "pass" ->
                          /\ task' = [task EXCEPT ![t].pc = "rebind", ![t].tries = 0,
                                 ![t].list = held[d], ![t].known = rows, ![t].changed = FALSE]
                          /\ UNCHANGED lock
  BY DEF List
<1>3. conn' \in [Routes -> Daemons \cup {None}]
  BY <1>1, <1>2, AnswersType
<1>4. ASSUME Ends(t)
      PROVE  Standing'
  BY <1>1, <1>4, EndsStanding
<1>5. ASSUME task[t].tries > 1, lock' = Unlocked(t),
             task' = [task EXCEPT ![t].pc = "route", ![t].tries = @ - 1]
      PROVE  Standing'
  <2> DEFINE s == [task[t] EXCEPT !.pc = "route", !.tries = @ - 1]
  <2>1. s \in TaskState
    <3>1. task[t].tries - 1 \in Nat
      BY <1>5 DEF TaskState
    <3> QED
      BY <3>1, PcType DEF TaskState
  <2>2. /\ s.pc = "route" /\ s.op = task[t].op /\ s.route = task[t].route /\ s.row = task[t].row
        /\ s.base = task[t].base /\ s.snap = task[t].snap /\ s.left = task[t].left
        /\ s.told = task[t].told
    BY DEF TaskState
  <2>3. Knows(s)
    BY <1>1, <2>2 DEF Knows, Asking, OnRow, OnHost
  <2>4. task' = [task EXCEPT ![t] = s]
    BY <1>5 DEF TypeOK
  <2> HIDE DEF s
  <2> QED
    BY <1>1, <1>5, <2>1, <2>2, <2>3, <2>4, LetsGo
<1>6. ASSUME d # None, NameOf(d) = task[t].want, task[t].op = "open", Decides(t, d)
      PROVE  Standing'
  BY <1>1, <1>6, DecidesKeeps
<1>7. ASSUME NEW pc \in {"confirm", "kill"}, task[t].op = pc, Goto(t, pc), lock' = lock
      PROVE  Standing'
  <2> DEFINE s == [task[t] EXCEPT !.pc = pc]
  <2>1. s \in TaskState
    BY DEF TaskState, Pcs, OnRow
  <2>2. /\ s.pc = pc /\ s.op = task[t].op /\ s.route = task[t].route /\ s.row = task[t].row
        /\ s.base = task[t].base /\ s.want = task[t].want /\ s.told = task[t].told
    BY DEF TaskState
  <2>3. Knows(s)
    BY <1>1, <1>7, <2>2 DEF Knows, Asking, OnRow, OnHost
  <2>4. task' = [task EXCEPT ![t] = s]
    BY <1>7 DEF Goto
  <2>5. s.pc \in HasInstance \ {"list", "insert", "spawn", "create"}
    BY <2>2 DEF HasInstance
  <2> HIDE DEF s
  <2> QED
    BY <1>1, <1>7, <2>1, <2>3, <2>4, <2>5, KeepsLocks
<1>8. ASSUME d # None, task[t].op = "pass", lock' = lock,
             task' = [task EXCEPT ![t].pc = "rebind", ![t].tries = 0, ![t].list = held[d],
                                  ![t].known = rows, ![t].changed = FALSE]
      PROVE  Standing'
  <2> DEFINE s == [task[t] EXCEPT !.pc = "rebind", !.tries = 0, !.list = held[d],
                                  !.known = rows, !.changed = FALSE]
  <2>1. s \in TaskState
    <3>1. task[t] \in TaskState /\ held[d] \in SUBSET Ids /\ rows \in Table
      BY <1>8 DEF TypeOK
    <3> DEFINE listed == [task[t] EXCEPT !.pc = "rebind", !.list = held[d], !.known = rows,
                                         !.changed = FALSE]
    <3>2. listed \in TaskState
      BY <3>1, PcType DEF TaskState
    <3>3. s = [listed EXCEPT !.tries = 0]
      BY <3>1 DEF TaskState
    <3> HIDE DEF listed, s
    <3> QED
      BY <3>2, <3>3 DEF TaskState
  <2>2. /\ s.pc = "rebind" /\ s.op = task[t].op /\ s.route = task[t].route
        /\ s.known = rows /\ s.snap = task[t].snap /\ s.left = task[t].left
        /\ s.told = task[t].told
    BY DEF TaskState
  <2>3. Knows(s)
    BY <1>1, <1>8, <2>2 DEF Knows, Asking, OnRow, OnHost, TypeOK
  <2>4. task' = [task EXCEPT ![t] = s]
    BY <1>8 DEF TypeOK
  <2>5. s.pc \in HasInstance \ {"list", "insert", "spawn", "create"}
    BY <2>2 DEF HasInstance
  <2> HIDE DEF s
  <2> QED
    BY <1>1, <1>8, <2>1, <2>3, <2>4, <2>5, KeepsLocks
<1>9. Standing'
  BY <1>1, <1>2, <1>4, <1>5, <1>6, <1>7, <1>8
<1> QED
  BY <1>3, <1>9, AtHome DEF List, registry, TypeOK
-----------------------------------------------------------------------------
(* Rows are written and records made.                                       *)

\* confirm_record writes rows, refused or not, and ends.
LEMMA ConfirmRecordKeeps ==
    ASSUME AdoptInv, NEW t \in Tasks, ConfirmRecord(t)
    PROVE  AdoptInv'
<1> DEFINE x == task[t].row
           r == task[t].route
           name == task[t].want
<1>1. /\ task[t] \in TaskState /\ rows \in Table /\ conn \in [Routes -> Daemons \cup {None}]
      /\ x \in Ids /\ r \in Routes /\ name \in Daemons \cup {None}
  BY DEF ConfirmRecord, AdoptInv, TypeOK, Knows, TaskState
<1>2. Standing'
  BY EndsStanding DEF ConfirmRecord, daemons
<1>3. ASSUME NEW i \in Ids, NEW row \in RowType, NEW rs,
             rs = IF Unique([rows EXCEPT ![i] = row]) THEN [rows EXCEPT ![i] = row] ELSE rows
      PROVE  rs \in Table
  BY <1>1, <1>3 DEF Table
<1>4. rows' \in Table
  <2>1. CASE UNCHANGED registry
    BY <1>1, <2>1 DEF registry
  <2>2. ASSUME NEW i \in Ids, rows[i] # None, NEW row,
               row = [rows[i] EXCEPT !.used = TRUE, !.host = r, !.daemon = name]
        PROVE  row \in RowType
    <3>1. rows[i] \in RowType
      BY <1>1, <2>2 DEF Table
    <3> HIDE DEF r, name, x
    <3> QED
      BY <1>1, <2>2, <3>1 DEF RowType
  <2>3. ASSUME NEW i \in New
        PROVE  i \in Ids /\ Row(r, name, x, "disconnected") \in RowType
    BY <1>1 DEF Row, RowType, Statuses, Ids
  <2> HIDE DEF r, name, x
  <2> QED
    BY <1>3, <2>1, <2>2, <2>3 DEF ConfirmRecord, r, name, x
<1> QED
  BY <1>1, <1>2, <1>4, AtHome DEF ConfirmRecord

\* create_workspace_scoped's row: the open keeps the lock it will create under.
LEMMA InsertKeeps ==
    ASSUME AdoptInv, NEW t \in Tasks, Insert(t)
    PROVE  AdoptInv'
<1> DEFINE row == Row(task[t].route, None, None, "creating")
<1>1. /\ task[t] \in TaskState /\ rows \in Table /\ conn \in [Routes -> Daemons \cup {None}]
      /\ task[t].pc = "insert" /\ task[t].route \in Routes /\ Knows(task[t])
  BY DEF Insert, AdoptInv, TypeOK, Knows
<1>2. PICK i \in New \ minted :
          /\ rows' = [rows EXCEPT ![i] = row]
          /\ task' = [task EXCEPT ![t].pc = "spawn", ![t].row = i, ![t].base = row]
  BY DEF Insert
<1>3. i \in Ids /\ row \in RowType /\ row.daemon = None
  BY <1>1 DEF Row, RowType, Statuses, Ids
<1> HIDE DEF row
<1>4. rows' \in Table
  BY <1>1, <1>2, <1>3 DEF Table
<1> DEFINE s == [task[t] EXCEPT !.pc = "spawn", !.row = i, !.base = row]
<1>5. s \in TaskState
  BY <1>1, <1>3, PcType DEF TaskState
<1>6. /\ s.pc = "spawn" /\ s.row = i /\ s.base = row /\ s.route = task[t].route
      /\ s.op = task[t].op /\ s.home = task[t].home /\ s.told = task[t].told
      /\ s.snap = task[t].snap /\ s.left = task[t].left
  BY <1>1 DEF TaskState
<1>7. Knows(s)
  BY <1>1, <1>3, <1>6 DEF Knows, Asking, OnRow, OnHost
<1>8. task' = [task EXCEPT ![t] = s]
  BY <1>2 DEF AdoptInv, TypeOK
<1>9. Fits(t, s)
  BY <1>1, <1>6 DEF AdoptInv, Claims, Fits, CreatesOn, HasRoute, HasInstance
<1> HIDE DEF s
<1>10. Standing'
  BY <1>5, <1>7, <1>8, <1>9, GoesOn DEF Insert, daemons
<1> QED
  BY <1>1, <1>4, <1>10, AtHome DEF Insert

\* set_status writes rows.
LEMMA StatusType ==
    ASSUME AdoptInv, NEW t \in Tasks, task[t].row \in Ids, NEW rs \in Table,
           NEW status \in Statuses
    PROVE  Status(t, rs, status) \in Table
BY DEF Status, Table, RowType

\* recreate_session works without the decision locks, and creates for no open.
LEMMA ExistsKeeps ==
    ASSUME AdoptInv, NEW t \in Tasks, Exists(t)
    PROVE  AdoptInv'
<1> DEFINE b == task[t].base
<1>1. /\ task[t] \in TaskState /\ Knows(task[t]) /\ TypeOK /\ task[t].pc = "exists"
      /\ task[t].route \in Routes /\ opened' = opened /\ task[t].home = None
  BY DEF Exists, AdoptInv, TypeOK, Knows, OnRow, daemons
<1>2. PICK d \in Daemons \cup {None} :
          /\ Answers(task[t].route, b.daemon, d)
          /\ IF d = None THEN Ends(t)
             ELSE /\ Goto(t, IF WireId(task[t].row, b) \in alive[d] THEN "adopt" ELSE "spawn")
                  /\ UNCHANGED lock
  BY DEF Exists
<1>3. conn' \in [Routes -> Daemons \cup {None}]
  BY <1>1, <1>2, AnswersType
<1>4. CASE d = None
  BY <1>1, <1>2, <1>3, <1>4, EndsStanding, AtHome DEF Exists, registry, TypeOK
<1>5. CASE d # None
  <2> DEFINE pc == IF WireId(task[t].row, b) \in alive[d] THEN "adopt" ELSE "spawn"
             s == [task[t] EXCEPT !.pc = pc]
  <2>1. pc \in {"adopt", "spawn"} /\ Goto(t, pc) /\ lock' = lock
    BY <1>2, <1>5
  <2> HIDE DEF pc
  <2>2. s \in TaskState
    BY <1>1, <2>1, PcType DEF TaskState
  <2>3. /\ s.pc = pc /\ s.row = task[t].row /\ s.base = b /\ s.route = task[t].route
        /\ s.op = task[t].op /\ s.home = None /\ s.told = task[t].told
        /\ s.snap = task[t].snap /\ s.left = task[t].left
    BY <1>1 DEF TaskState
  <2>4. Knows(s)
    BY <1>1, <2>1, <2>3 DEF Knows, Asking, OnRow, OnHost
  <2>5. Fits(t, s)
    BY <2>1, <2>3 DEF Fits, CreatesOn, HasRoute, HasInstance
  <2>6. task' = [task EXCEPT ![t] = s]
    BY <2>1 DEF Goto
  <2> HIDE DEF s
  <2>7. Standing'
    BY <1>1, <2>1, <2>2, <2>4, <2>5, <2>6, GoesOn
  <2> QED
    BY <1>1, <1>3, <2>7, AtHome DEF Exists, registry, TypeOK
<1> QED
  BY <1>4, <1>5
\* start_session's create: only the open that holds the daemon's lock, on a daemon
\* where no open made a record, makes one there.
LEMMA Made ==
    ASSUME AdoptInv, NEW t \in Tasks, task[t].pc = "create", NEW d \in Daemons, NEW x \in Ids,
           Makes(d, x),
           opened' = IF task[t].home = d THEN [opened EXCEPT ![d] = @ \cup {x}] ELSE opened
    PROVE  /\ \A e \in Daemons : opened'[e] \subseteq opened[e] \/ e \in Nameless \/ lock[e] = t
           /\ held' \in [Daemons -> SUBSET Ids] /\ alive' \in [Daemons -> SUBSET Ids]
           /\ opened' \in [Daemons -> SUBSET Ids]
           /\ \A e \in Daemons : opened'[e] \subseteq held'[e]
           /\ \A e \in Daemons \ Nameless : \A y, z \in opened'[e] : y = z
<1>1. task[t].home = d /\ d \notin Nameless => lock[d] = t /\ opened[d] = {}
  BY AdoptionAssumption DEF AdoptInv, Claims, CreatesOn
<1>2. /\ held' \in [Daemons -> SUBSET Ids] /\ alive' \in [Daemons -> SUBSET Ids]
      /\ opened' \in [Daemons -> SUBSET Ids]
  BY DEF AdoptInv, TypeOK, Makes
<1>3. \A e \in Daemons : e # d => opened'[e] = opened[e] /\ held'[e] = held[e]
  BY DEF AdoptInv, TypeOK, Makes
<1>4. /\ held'[d] = held[d] \cup {x}
      /\ opened'[d] = IF task[t].home = d THEN opened[d] \cup {x} ELSE opened[d]
  BY DEF AdoptInv, TypeOK, Makes
<1>5. /\ \A e \in Daemons : opened[e] \subseteq held[e]
      /\ \A e \in Daemons \ Nameless : \A y, z \in opened[e] : y = z
  BY DEF AdoptInv, Claims, OneWorkspacePerCheckout
<1>6. \A e \in Daemons : opened'[e] \subseteq opened[e] \/ e \in Nameless \/ lock[e] = t
  BY <1>1, <1>3, <1>4
<1>7. \A e \in Daemons : opened'[e] \subseteq held'[e]
  BY <1>3, <1>4, <1>5
<1>8. \A e \in Daemons \ Nameless : \A y, z \in opened'[e] : y = z
  BY <1>1, <1>3, <1>4, <1>5
<1> QED
  BY <1>2, <1>6, <1>7, <1>8

\* What start_session does of an error keeps the registry's shape and lets go of
\* every lock.
LEMMA ErrsStanding ==
    ASSUME AdoptInv, NEW t \in Tasks, task[t].row \in Ids, Errs(t),
           \A d \in Daemons : opened'[d] \subseteq opened[d] \/ d \in Nameless \/ lock[d] = t
    PROVE  Standing' /\ rows' \in Table
<1>1. Ends(t) /\ rows' = Status(t, rows, "error")
  BY DEF Errs
<1>2. rows' \in Table
  BY <1>1, StatusType DEF AdoptInv, TypeOK, Statuses
<1> QED
  BY <1>1, <1>2, EndsStanding

\* create_session's listing, answered or refused.
LEMMA LookUpKeeps ==
    ASSUME AdoptInv, NEW t \in Tasks, LookUp(t)
    PROVE  AdoptInv'
<1> DEFINE b == task[t].base
           s == [task[t] EXCEPT !.pc = "create"]
<1>1. /\ task[t] \in TaskState /\ Knows(task[t]) /\ TypeOK /\ task[t].pc = "spawn"
      /\ task[t].route \in Routes /\ task[t].row \in Ids
      /\ UNCHANGED daemons /\ UNCHANGED net /\ opened' = opened
  BY DEF LookUp, AdoptInv, TypeOK, Knows, OnRow, daemons
<1>2. PICK d \in Daemons \cup {None} :
          /\ Answers(task[t].route, b.daemon, d)
          /\ \/ Errs(t)
             \/ Goto(t, "create") /\ UNCHANGED <<rows, lock>>
  BY DEF LookUp
<1>3. conn' \in [Routes -> Daemons \cup {None}]
  BY <1>1, <1>2, AnswersType
<1>4. CASE Errs(t)
  BY <1>1, <1>3, <1>4, ErrsStanding, AtHome
<1>5. CASE Goto(t, "create") /\ UNCHANGED <<rows, lock>>
  <2>1. s \in TaskState
    BY <1>1, PcType DEF TaskState
  <2>2. /\ s.pc = "create" /\ s.row = task[t].row /\ s.base = b /\ s.route = task[t].route
        /\ s.op = task[t].op /\ s.home = task[t].home /\ s.told = task[t].told
        /\ s.snap = task[t].snap /\ s.left = task[t].left
    BY <1>1 DEF TaskState
  <2>3. Knows(s)
    BY <1>1, <2>2 DEF Knows, Asking, OnRow, OnHost
  <2>4. \A e \in CreatesOn(s) : lock[e] = t /\ opened[e] = {}
    BY <1>1, <2>2 DEF CreatesOn, AdoptInv, Claims
  <2>5. Fits(t, s)
    BY <2>2, <2>4 DEF Fits, HasRoute, HasInstance
  <2>6. task' = [task EXCEPT ![t] = s]
    BY <1>5 DEF Goto
  <2> HIDE DEF s
  <2>7. Standing'
    BY <1>1, <1>5, <2>1, <2>3, <2>5, <2>6, GoesOn
  <2> QED
    BY <1>1, <1>3, <1>5, <2>7, AtHome DEF TypeOK
<1> QED
  BY <1>2, <1>4, <1>5

\* Its CreateSession: answered, refused, or made with its reply lost, at once or late.
LEMMA CreateKeeps ==
    ASSUME AdoptInv, NEW t \in Tasks, Create(t)
    PROVE  AdoptInv'
<1> DEFINE b == task[t].base
           x == WireId(task[t].row, b)
           r == task[t].route
           peer == Peer(r, b.daemon)
           Opens(d) == /\ Makes(d, x)
                       /\ opened' = IF task[t].home = d
                                    THEN [opened EXCEPT ![d] = @ \cup {x}] ELSE opened
                       /\ UNCHANGED adrift
<1>1. /\ task[t] \in TaskState /\ Knows(task[t]) /\ TypeOK /\ task[t].pc = "create"
      /\ r \in Routes /\ task[t].row \in Ids /\ b \in RowType /\ UNCHANGED net
  BY DEF Create, AdoptInv, TypeOK, Knows, OnRow
<1>2. x \in Ids
  BY <1>1, WireIdType
<1>3. PICK d \in Daemons \cup {None} :
              /\ Answers(r, b.daemon, d)
              /\ \/ d = None /\ Errs(t) /\ UNCHANGED daemons
                 \/ d = None /\ peer # None /\ Errs(t) /\ Opens(peer)
                 \/ /\ d = None /\ peer # None
                    /\ Errs(t) /\ Strays("create", peer, x) /\ UNCHANGED <<held, alive, opened>>
                 \/ /\ d # None /\ Opens(d)
                    /\ task' = [task EXCEPT ![t].pc = "bind", ![t].want = NameOf(d)]
                    /\ UNCHANGED <<rows, lock>>
  BY DEF Create
<1>4. /\ conn' \in [Routes -> Daemons \cup {None}]
      /\ at' \in [Routes -> Daemons \cup {None}] /\ met' \in [Routes -> SUBSET Daemons]
  BY <1>1, <1>3, AnswersType DEF net, TypeOK
<1>5. peer # None => peer \in Daemons
  BY <1>1, PeerAdmitted
<1>6. ASSUME Errs(t), UNCHANGED daemons
      PROVE  AdoptInv'
  <2>1. Standing' /\ rows' \in Table
    BY <1>1, <1>6, ErrsStanding DEF daemons
  <2> QED
    BY <1>1, <1>4, <1>6, <2>1, AtHome
<1> HIDE DEF x, peer
<1>7. ASSUME NEW e \in Daemons, Opens(e)
      PROVE  /\ \A f \in Daemons : opened'[f] \subseteq opened[f] \/ f \in Nameless \/ lock[f] = t
             /\ held' \in [Daemons -> SUBSET Ids] /\ alive' \in [Daemons -> SUBSET Ids]
             /\ opened' \in [Daemons -> SUBSET Ids]
             /\ adrift' \subseteq [op : {"create", "kill"}, at : Daemons, id : Ids]
             /\ \A f \in Daemons : opened'[f] \subseteq held'[f]
             /\ \A f \in Daemons \ Nameless : \A y, z \in opened'[f] : y = z
  <2>1. adrift' \subseteq [op : {"create", "kill"}, at : Daemons, id : Ids]
    BY <1>1, <1>7 DEF TypeOK
  <2> QED
    BY <1>1, <1>2, <1>7, <2>1, Made
<1> HIDE DEF Opens
<1>8. ASSUME NEW e \in Daemons, Opens(e), Errs(t)
      PROVE  AdoptInv'
  <2>1. Standing' /\ rows' \in Table
    BY <1>1, <1>7, <1>8, ErrsStanding
  <2> QED
    BY <1>4, <1>7, <1>8, <2>1, Together
<1>9. ASSUME peer \in Daemons, Errs(t), Strays("create", peer, x), UNCHANGED <<held, alive, opened>>
      PROVE  AdoptInv'
  <2>1. Standing' /\ rows' \in Table
    BY <1>1, <1>9, ErrsStanding
  <2>2. adrift' \subseteq [op : {"create", "kill"}, at : Daemons, id : Ids]
    BY <1>1, <1>2, <1>9 DEF Strays, TypeOK
  <2> QED
    BY <1>4, <1>9, <2>1, <2>2, Underway
<1>10. ASSUME d \in Daemons, Opens(d), UNCHANGED <<rows, lock>>,
              task' = [task EXCEPT ![t].pc = "bind", ![t].want = NameOf(d)]
       PROVE  AdoptInv'
  <2> DEFINE name == NameOf(d)
             s == [task[t] EXCEPT !.pc = "bind", !.want = name]
  <2>1. name \in Daemons \cup {None}
    BY <1>10, NameOfType
  <2>2. task' = [task EXCEPT ![t] = s]
    BY <1>1, <1>10 DEF TypeOK
  <2> HIDE DEF name
  <2>3. s \in TaskState
    BY <1>1, <2>1, PcType DEF TaskState
  <2>4. /\ s.pc = "bind" /\ s.row = task[t].row /\ s.base = b /\ s.route = r
        /\ s.op = task[t].op /\ s.told = task[t].told
        /\ s.snap = task[t].snap /\ s.left = task[t].left
    BY <1>1 DEF TaskState
  <2>5. Knows(s)
    BY <1>1, <2>4 DEF Knows, Asking, OnRow, OnHost
  <2>6. s.pc \in HasInstance \ {"list", "insert", "spawn", "create"}
    BY <2>4 DEF HasInstance
  <2> HIDE DEF s
  <2>7. Standing'
    BY <1>7, <1>10, <2>2, <2>3, <2>5, <2>6, KeepsLocks
  <2>8. rows' \in Table
    BY <1>1, <1>10 DEF TypeOK
  <2> QED
    BY <1>4, <1>7, <1>10, <2>7, <2>8, Together
<1> QED
  BY <1>3, <1>5, <1>6, <1>8, <1>9, <1>10

\* start_session's write of the daemon, which the index may refuse.
LEMMA BindKeeps ==
    ASSUME AdoptInv, NEW t \in Tasks, Bind(t)
    PROVE  AdoptInv'
<1> DEFINE i == task[t].row
           b == task[t].base
           name == IF b.daemon = None THEN task[t].want ELSE b.daemon
           bound == [b EXCEPT !.daemon = name]
           written == IF rows[i] = None THEN rows
                      ELSE [rows EXCEPT ![i].host = bound.host, ![i].daemon = bound.daemon]
<1>1. /\ task[t] \in TaskState /\ Knows(task[t]) /\ TypeOK /\ task[t].pc = "bind"
      /\ task[t].route \in Routes /\ i \in Ids /\ b \in RowType
      /\ task[t].want \in Daemons \cup {None} /\ UNCHANGED <<daemons, net, conn>>
  BY DEF Bind, AdoptInv, TypeOK, Knows, OnRow, TaskState
<1>2. name \in Daemons \cup {None}
  BY <1>1 DEF RowType
<1>3. bound \in RowType
  <2> HIDE DEF name, b
  <2> QED
    BY <1>1, <1>2 DEF RowType
<1>4. written \in Table
  <2> HIDE DEF bound
  <2>1. bound.host \in Routes /\ bound.daemon \in Daemons \cup {None}
    BY <1>3 DEF RowType
  <2>2. rows[i] # None => rows[i] \in RowType
    BY <1>1 DEF TypeOK, Table
  <2>3. rows[i] # None => [rows[i] EXCEPT !.host = bound.host, !.daemon = bound.daemon] \in RowType
    BY <2>1, <2>2 DEF RowType
  <2> HIDE DEF i
  <2> QED
    BY <1>1, <2>3 DEF TypeOK, Table
<1>5. ASSUME rows' = rows, Ends(t)
      PROVE  AdoptInv'
  <2>1. Standing'
    BY <1>1, <1>5, EndsStanding DEF daemons
  <2> QED
    BY <1>1, <1>5, <2>1, AtHome DEF TypeOK
<1>6. ASSUME rows' = written, lock' = lock,
             task' = [task EXCEPT ![t].pc = "adopt", ![t].base = bound]
      PROVE  AdoptInv'
  <2> HIDE DEF written, bound
  <2> DEFINE s == [task[t] EXCEPT !.pc = "adopt", !.base = bound]
  <2>1. s \in TaskState
    BY <1>1, <1>3, PcType DEF TaskState
  <2>2. /\ s.pc = "adopt" /\ s.row = i /\ s.base = bound /\ s.route = task[t].route
        /\ s.op = task[t].op /\ s.told = task[t].told
        /\ s.snap = task[t].snap /\ s.left = task[t].left
    BY <1>1 DEF TaskState
  <2>3. Knows(s)
    BY <1>1, <1>3, <2>2 DEF Knows, Asking, OnRow, OnHost
  <2>4. task' = [task EXCEPT ![t] = s]
    BY <1>1, <1>6 DEF TypeOK
  <2>5. s.pc \in HasInstance \ {"list", "insert", "spawn", "create"}
    BY <2>2 DEF HasInstance
  <2> HIDE DEF s
  <2>6. Standing'
    BY <1>1, <1>6, <2>1, <2>3, <2>4, <2>5, KeepsLocks DEF daemons
  <2> QED
    BY <1>1, <1>4, <1>6, <2>6, AtHome DEF TypeOK
<1> QED
  BY <1>5, <1>6 DEF Bind

\* adopt_session writes the session and ends.
LEMMA AdoptSessionKeeps ==
    ASSUME AdoptInv, NEW t \in Tasks, AdoptSession(t)
    PROVE  AdoptInv'
<1> DEFINE i == task[t].row
           written == IF rows[i] = None \/ task[t].base.session # None THEN rows
                      ELSE [rows EXCEPT ![i].session = i]
<1>1. TypeOK /\ i \in Ids /\ UNCHANGED <<daemons, net, conn>>
  BY DEF AdoptSession, AdoptInv, TypeOK, Knows, OnRow
<1>2. written \in Table
  <2> HIDE DEF i
  <2> QED
    BY <1>1 DEF TypeOK, Table, RowType
<1>3. rows' \in Table
  <2>1. rows' = IF Unique(written) THEN Status(t, written, "running") ELSE rows
    BY DEF AdoptSession
  <2> HIDE DEF written
  <2> QED
    BY <1>1, <1>2, <2>1, StatusType DEF TypeOK, Statuses
<1>4. Standing'
  BY <1>1, EndsStanding DEF AdoptSession, daemons
<1> QED
  BY <1>1, <1>3, <1>4, AtHome DEF TypeOK

-----------------------------------------------------------------------------
(* kill_workspace.                                                          *)

\* A record that is taken away takes no other with it.
LEMMA Removed ==
    ASSUME AdoptInv, NEW d \in Daemons, NEW x, Removes(d, x)
    PROVE  /\ \A e \in Daemons : opened'[e] \subseteq opened[e]
           /\ held' \in [Daemons -> SUBSET Ids] /\ alive' \in [Daemons -> SUBSET Ids]
           /\ opened' \in [Daemons -> SUBSET Ids]
           /\ \A e \in Daemons : opened'[e] \subseteq held'[e]
           /\ \A e \in Daemons \ Nameless : \A y, z \in opened'[e] : y = z
<1>1. /\ held' \in [Daemons -> SUBSET Ids] /\ alive' \in [Daemons -> SUBSET Ids]
      /\ opened' \in [Daemons -> SUBSET Ids]
      /\ \A e \in Daemons : e # d => opened'[e] = opened[e] /\ held'[e] = held[e]
      /\ held'[d] = held[d] \ {x} /\ opened'[d] = opened[d] \ {x}
  BY DEF AdoptInv, TypeOK, Removes
<1>2. /\ \A e \in Daemons : opened[e] \subseteq held[e]
      /\ \A e \in Daemons \ Nameless : \A y, z \in opened[e] : y = z
  BY DEF AdoptInv, Claims, OneWorkspacePerCheckout
<1>3. \A e \in Daemons : opened'[e] \subseteq opened[e] /\ opened'[e] \subseteq held'[e]
  BY <1>1, <1>2
<1> QED
  BY <1>1, <1>2, <1>3

\* kill_workspace's request, answered, refused, or done with its reply lost, at once
\* or late.
LEMMA KillRecordKeeps ==
    ASSUME AdoptInv, NEW t \in Tasks, KillRecord(t)
    PROVE  AdoptInv'
<1> DEFINE x == WireId(task[t].row, task[t].base)
           r == task[t].route
           peer == Peer(r, task[t].want)
<1>1. /\ task[t] \in TaskState /\ Knows(task[t]) /\ TypeOK /\ task[t].pc = "kill"
      /\ r \in Routes /\ task[t].row \in Ids /\ task[t].base \in RowType
      /\ UNCHANGED <<registry, net>>
  BY DEF KillRecord, AdoptInv, TypeOK, Knows, OnRow
<1>2. PICK d \in Daemons \cup {None} :
              /\ Answers(r, task[t].want, d)
              /\ \/ d = None /\ Ends(t) /\ UNCHANGED daemons
                 \/ d = None /\ peer # None /\ Ends(t) /\ Removes(peer, x) /\ UNCHANGED adrift
                 \/ /\ d = None /\ peer # None
                    /\ Ends(t) /\ Strays("kill", peer, x) /\ UNCHANGED <<held, alive, opened>>
                 \/ d # None /\ x \notin held[d] /\ Ends(t) /\ UNCHANGED daemons
                 \/ /\ d # None /\ x \in held[d] /\ Goto(t, "killed")
                    /\ Removes(d, x) /\ UNCHANGED <<lock, adrift>>
  BY DEF KillRecord
<1>3. /\ conn' \in [Routes -> Daemons \cup {None}] /\ rows' \in Table
      /\ at' \in [Routes -> Daemons \cup {None}] /\ met' \in [Routes -> SUBSET Daemons]
  BY <1>1, <1>2, AnswersType DEF net, registry, TypeOK
<1>4. ASSUME NEW e \in Daemons, Removes(e, x), UNCHANGED adrift
      PROVE  /\ \A f \in Daemons : opened'[f] \subseteq opened[f]
             /\ held' \in [Daemons -> SUBSET Ids] /\ alive' \in [Daemons -> SUBSET Ids]
             /\ opened' \in [Daemons -> SUBSET Ids]
             /\ adrift' \subseteq [op : {"create", "kill"}, at : Daemons, id : Ids]
             /\ \A f \in Daemons : opened'[f] \subseteq held'[f]
             /\ \A f \in Daemons \ Nameless : \A y, z \in opened'[f] : y = z
  <2> HIDE DEF x
  <2>1. adrift' \subseteq [op : {"create", "kill"}, at : Daemons, id : Ids]
    BY <1>1, <1>4 DEF TypeOK
  <2> QED
    BY <1>4, <2>1, Removed
<1>5. ASSUME Ends(t), UNCHANGED daemons
      PROVE  AdoptInv'
  <2>1. Standing'
    BY <1>5, EndsStanding DEF daemons
  <2> QED
    BY <1>1, <1>3, <1>5, <2>1, AtHome
<1>6. ASSUME NEW e \in Daemons, Ends(t), Removes(e, x), UNCHANGED adrift
      PROVE  AdoptInv'
  <2>1. Standing'
    BY <1>4, <1>6, EndsStanding
  <2> QED
    BY <1>3, <1>4, <1>6, <2>1, Together
<1>8. peer # None => peer \in Daemons
  BY <1>1, PeerAdmitted
<1>10. x \in Ids
  BY <1>1, WireIdType
<1> HIDE DEF x, peer
<1>9. ASSUME peer \in Daemons, Ends(t), Strays("kill", peer, x), UNCHANGED <<held, alive, opened>>
      PROVE  AdoptInv'
  <2>1. Standing'
    BY <1>9, EndsStanding
  <2>2. adrift' \subseteq [op : {"create", "kill"}, at : Daemons, id : Ids]
    BY <1>1, <1>9, <1>10 DEF Strays, TypeOK
  <2> QED
    BY <1>3, <1>9, <2>1, <2>2, Underway
<1>7. ASSUME d \in Daemons, Goto(t, "killed"), Removes(d, x), UNCHANGED <<lock, adrift>>
      PROVE  AdoptInv'
  <2> DEFINE s == [task[t] EXCEPT !.pc = "killed"]
  <2>1. s \in TaskState
    BY <1>1, PcType DEF TaskState
  <2>2. /\ s.pc = "killed" /\ s.row = task[t].row /\ s.base = task[t].base /\ s.route = r
        /\ s.op = task[t].op /\ s.told = task[t].told
        /\ s.snap = task[t].snap /\ s.left = task[t].left
    BY <1>1 DEF TaskState
  <2>3. Knows(s)
    BY <1>1, <2>2 DEF Knows, Asking, OnRow, OnHost
  <2>4. task' = [task EXCEPT ![t] = s]
    BY <1>7 DEF Goto
  <2>5. s.pc \in HasInstance \ {"list", "insert", "spawn", "create"}
    BY <2>2 DEF HasInstance
  <2> HIDE DEF s
  <2>6. Standing'
    BY <1>4, <1>7, <2>1, <2>3, <2>4, <2>5, KeepsLocks
  <2> QED
    BY <1>3, <1>4, <1>7, <2>6, Together
<1> QED
  BY <1>2, <1>5, <1>6, <1>7, <1>8, <1>9

\* record_workspace_killed frees the row and ends.
LEMMA RecordKilledKeeps ==
    ASSUME AdoptInv, NEW t \in Tasks, RecordKilled(t)
    PROVE  AdoptInv'
<1> DEFINE i == task[t].row
           owned == task[t].base.session # None \/ task[t].base.daemon # None
           freed == IF rows[i] # None /\ owned
                    THEN [rows EXCEPT ![i].session = None, ![i].daemon = None] ELSE rows
<1>1. TypeOK /\ i \in Ids /\ UNCHANGED <<daemons, net, conn>>
  BY DEF RecordKilled, AdoptInv, TypeOK, Knows, OnRow
<1>2. freed \in Table
  <2>0. rows[i] # None => rows[i] \in RowType
    BY <1>1 DEF TypeOK, Table
  <2>1. rows[i] # None => [rows[i] EXCEPT !.session = None, !.daemon = None] \in RowType
    BY <2>0 DEF RowType
  <2> HIDE DEF i
  <2> QED
    BY <1>1, <2>1 DEF TypeOK, Table
<1>3. rows' \in Table
  <2>1. rows' = Status(t, freed, "stopped")
    BY DEF RecordKilled
  <2> HIDE DEF freed
  <2> QED
    BY <1>1, <1>2, <2>1, StatusType DEF TypeOK, Statuses
<1>4. Standing'
  BY <1>1, EndsStanding DEF RecordKilled, daemons
<1> QED
  BY <1>1, <1>3, <1>4, AtHome DEF TypeOK
-----------------------------------------------------------------------------
(* reconcile.                                                               *)

\* A pass goes to its next host without a lock in hand.
LEMMA NextHostKeeps ==
    ASSUME AdoptInv, NEW t \in Tasks, NextHost(t)
    PROVE  AdoptInv'
<1>1. /\ task[t] \in TaskState /\ Knows(task[t]) /\ TypeOK /\ task[t].pc = "hosts"
      /\ task[t].op = "pass" /\ UNCHANGED <<registry, daemons, net, conn, lock>>
  BY DEF NextHost, AdoptInv, TypeOK, Knows
<1>2. \A k \in Routes \cup Daemons : lock[k] # t
  BY <1>1, AdoptionAssumption DEF AdoptInv, LocksHeld, HasRoute, HasInstance
<1>3. ASSUME Goto(t, "probe") PROVE Standing'
  <2> DEFINE s == [task[t] EXCEPT !.pc = "probe"]
  <2>1. s \in TaskState
    BY <1>1, PcType DEF TaskState
  <2>2. /\ s.pc = "probe" /\ s.op = task[t].op /\ s.told = task[t].told
        /\ s.snap = task[t].snap /\ s.left = task[t].left
    BY <1>1 DEF TaskState
  <2>3. Knows(s)
    BY <1>1, <2>2 DEF Knows, Asking, OnRow, OnHost
  <2>4. Fits(t, s)
    BY <1>2, <2>2 DEF Fits, CreatesOn
  <2>5. task' = [task EXCEPT ![t] = s]
    BY <1>3 DEF Goto
  <2> HIDE DEF s
  <2> QED
    BY <1>1, <2>1, <2>3, <2>4, <2>5, GoesOn DEF daemons
<1>4. ASSUME NEW r \in task[t].todo,
             task' = [task EXCEPT ![t].pc = "route", ![t].route = r, ![t].tries = 3,
                                  ![t].todo = @ \ {r}]
      PROVE  Standing'
  <2> DEFINE todo == task[t].todo \ {r}
             s == [task[t] EXCEPT !.pc = "route", !.route = r, !.tries = 3, !.todo = todo]
  <2>1. r \in Routes /\ todo \in SUBSET Routes
    BY <1>1 DEF TaskState
  <2>2. task' = [task EXCEPT ![t] = s]
    BY <1>1, <1>4 DEF TypeOK
  <2> HIDE DEF todo
  <2>3. s \in TaskState
    BY <1>1, <2>1, PcType DEF TaskState
  <2>4. /\ s.pc = "route" /\ s.route = r /\ s.op = task[t].op /\ s.told = task[t].told
        /\ s.snap = task[t].snap /\ s.left = task[t].left
    BY <1>1 DEF TaskState
  <2>5. Knows(s)
    BY <1>1, <2>1, <2>4 DEF Knows, Asking, OnRow, OnHost
  <2>6. Fits(t, s)
    BY <1>2, <2>4 DEF Fits, CreatesOn
  <2> HIDE DEF s
  <2> QED
    BY <1>1, <2>2, <2>3, <2>5, <2>6, GoesOn DEF daemons
<1>5. Standing'
  BY <1>3, <1>4 DEF NextHost
<1> QED
  BY <1>1, <1>5, AtHome DEF registry, TypeOK

\* A row bound to a route and a daemon is a row.
LEMMA BoundType ==
    ASSUME NEW rs \in Table, NEW i \in Ids, rs[i] # None,
           NEW r \in Routes, NEW name \in Daemons \cup {None}
    PROVE  [rs EXCEPT ![i].host = r, ![i].daemon = name] \in Table
<1>1. rs[i] \in RowType
  BY DEF Table
<1>2. [rs[i] EXCEPT !.host = r, !.daemon = name] \in RowType
  BY <1>1 DEF RowType
<1> QED
  BY <1>2 DEF Table

\* A pass goes on with a record of its listing done.
LEMMA RecordDone ==
    ASSUME AdoptInv, NEW t \in Tasks, task[t].pc = "rebind", NEW list \in SUBSET Ids,
           NEW changed \in BOOLEAN,
           task' = [task EXCEPT ![t] = [task[t] EXCEPT !.list = list, !.changed = changed]],
           lock' = lock, opened' = opened
    PROVE  Standing'
<1> DEFINE s == [task[t] EXCEPT !.list = list, !.changed = changed]
<1>1. task[t] \in TaskState /\ Knows(task[t])
  BY Before
<1>2. s \in TaskState
  BY <1>1 DEF TaskState
<1>3. /\ s.pc = "rebind" /\ s.route = task[t].route /\ s.op = task[t].op
      /\ s.told = task[t].told /\ s.known = task[t].known
      /\ s.snap = task[t].snap /\ s.left = task[t].left
  BY <1>1 DEF TaskState
<1>4. Knows(s)
  BY <1>1, <1>3 DEF Knows, Asking, OnRow, OnHost
<1>5. s.pc \in HasInstance \ {"list", "insert", "spawn", "create"}
  BY <1>3 DEF HasInstance
<1> HIDE DEF s
<1>6. task' = [task EXCEPT ![t] = s]
  BY DEF s
<1> QED
  BY <1>2, <1>4, <1>5, <1>6, KeepsLocks

\* list_host_workspaces: each write of a pass, accepted, refused or resolved.
LEMMA RebindKeeps ==
    ASSUME AdoptInv, NEW t \in Tasks, Rebind(t)
    PROVE  AdoptInv'
<1> DEFINE r == task[t].route
           name == task[t].want
           known == task[t].known
           Same(x) == {i \in Used(known) : IsTheSameDaemonsRow(known[i], name, r, x)}
           Best(x) == IF \E i \in Same(x) : known[i].daemon # None
                      THEN {i \in Same(x) : known[i].daemon # None} ELSE Same(x)
           Bound(rs, i) == [rs EXCEPT ![i].host = r, ![i].daemon = name]
           Stands(i) == rows[i] # None /\ rows[i].host = known[i].host
                        /\ rows[i].daemon = known[i].daemon
           Owners(x) == {i \in Used(rows) : rows[i].daemon = name /\ rows[i].session = x}
           Done(x) == /\ task' = [task EXCEPT ![t].list = @ \ {x}, ![t].changed = TRUE]
                      /\ UNCHANGED lock
<1>1. /\ task[t] \in TaskState /\ Knows(task[t]) /\ TypeOK /\ task[t].pc = "rebind"
      /\ r \in Routes /\ name \in Daemons \cup {None} /\ known \in Table
      /\ UNCHANGED <<daemons, net, conn>>
  BY DEF Rebind, AdoptInv, TypeOK, Knows, OnHost, TaskState
<1>2. PICK x \in task[t].list :
              \/ /\ \A i \in Best(x) : known[i].host = r /\ known[i].daemon = name
                 /\ task' = [task EXCEPT ![t].list = @ \ {x}]
                 /\ UNCHANGED <<rows, lock>>
              \/ \E i \in Best(x) :
                    /\ known[i].host # r \/ known[i].daemon # name
                    /\ IF ~ Stands(i) \/ Unique(Bound(rows, i))
                       THEN /\ rows' = IF Stands(i) THEN Bound(rows, i) ELSE rows
                            /\ Done(x)
                       ELSE IF name = None THEN UNCHANGED rows /\ Ends(t)
                       ELSE /\ \E o \in Owners(x), kept \in {i} \cup Owners(x) :
                                  rows' = Bound([j \in Ids |-> IF j \in {i, o} \ {kept} THEN None
                                                               ELSE rows[j]], kept)
                            /\ Done(x)
  BY DEF Rebind
<1>3. ASSUME NEW i \in Best(x) PROVE i \in Ids
  BY <1>1, <1>3 DEF Used
<1>4. ASSUME NEW i \in Owners(x) PROVE i \in Ids /\ rows[i] # None
  BY <1>1, <1>4 DEF Used
<1>5. ASSUME NEW rs \in Table, NEW i \in Ids, rs[i] # None PROVE Bound(rs, i) \in Table
  <2> HIDE DEF r, name
  <2> QED
    BY <1>1, <1>5, BoundType
<1>6. ASSUME NEW i \in Ids, rows[i] # None, NEW o \in Owners(x), NEW kept \in {i} \cup Owners(x)
      PROVE  Bound([j \in Ids |-> IF j \in {i, o} \ {kept} THEN None ELSE rows[j]], kept) \in Table
  <2> DEFINE rs == [j \in Ids |-> IF j \in {i, o} \ {kept} THEN None ELSE rows[j]]
  <2>1. kept \in Ids /\ rows[kept] # None
    BY <1>4, <1>6
  <2>2. rs \in Table /\ rs[kept] = rows[kept]
    <3> HIDE DEF Owners
    <3> QED
      BY <1>1, <2>1 DEF TypeOK, Table
  <2> HIDE DEF rs, Bound
  <2>3. Bound(rs, kept) \in Table
    BY <1>5, <2>1, <2>2
  <2> QED
    BY <2>3 DEF rs
<1>7. task[t].list \ {x} \in SUBSET Ids /\ task[t].changed \in BOOLEAN /\ opened' = opened
  BY <1>1 DEF TaskState, daemons
<1>8. ASSUME NEW changed \in BOOLEAN, lock' = lock,
             task' = [task EXCEPT ![t] = [task[t] EXCEPT !.list = task[t].list \ {x},
                                                         !.changed = changed]]
      PROVE  Standing'
  BY <1>1, <1>7, <1>8, RecordDone
<1>9. Done(x) => Standing'
  BY <1>1, <1>8 DEF TypeOK
<1>10. task' = [task EXCEPT ![t].list = @ \ {x}] /\ lock' = lock => Standing'
  <2>1. [task[t] EXCEPT !.list = task[t].list \ {x}]
           = [task[t] EXCEPT !.list = task[t].list \ {x}, !.changed = task[t].changed]
    BY <1>1 DEF TaskState
  <2> QED
    BY <1>1, <1>7, <1>8, <2>1 DEF TypeOK
<1>11. Ends(t) => Standing'
  BY <1>7, EndsStanding
<1> HIDE DEF Done, Best, Bound, Owners, Same
<1>12. Standing' /\ rows' \in Table
  <2>1. rows \in Table
    BY <1>1 DEF TypeOK
  <2>2. ASSUME NEW i \in Best(x), 
               IF ~ Stands(i) \/ Unique(Bound(rows, i))
                       THEN /\ rows' = IF Stands(i) THEN Bound(rows, i) ELSE rows
                            /\ Done(x)
                       ELSE IF name = None THEN UNCHANGED rows /\ Ends(t)
                       ELSE /\ \E o \in Owners(x), kept \in {i} \cup Owners(x) :
                                  rows' = Bound([j \in Ids |-> IF j \in {i, o} \ {kept} THEN None
                                                               ELSE rows[j]], kept)
                            /\ Done(x)
        PROVE  Standing' /\ rows' \in Table
    <3>1. Standing'
      BY <2>2, <1>9, <1>11
    <3>2. rows' \in Table
      BY <2>1, <2>2, <1>3, <1>5, <1>6
    <3> QED
      BY <3>1, <3>2
  <2> QED
    BY <1>2, <1>10, <2>1, <2>2
<1> QED
  BY <1>1, <1>12, AtHome DEF TypeOK
\* A pass drops its guards with every row it has left still known.
LEMMA HostListedKeeps ==
    ASSUME AdoptInv, NEW t \in Tasks, HostListed(t)
    PROVE  AdoptInv'
<1> DEFINE fresh == IF task[t].changed THEN rows ELSE task[t].known
           old == task[t].snap
           snap == [i \in Ids |-> IF i \in task[t].left \cap Used(fresh) THEN fresh[i] ELSE old[i]]
           s == [task[t] EXCEPT !.pc = "sessions", !.known = None, !.snap = snap]
<1>1. /\ task[t] \in TaskState /\ Knows(task[t]) /\ TypeOK /\ task[t].pc = "rebind"
      /\ task[t].route \in Routes /\ task[t].op = "pass" /\ fresh \in Table
      /\ old \in Table /\ task[t].left \in SUBSET Ids
      /\ \A i \in task[t].left : old[i] \in RowType
  BY DEF HostListed, AdoptInv, TypeOK, Knows, OnHost, TaskState
<1>2. /\ task' = [task EXCEPT ![t] = s] /\ lock' = Unlocked(t)
      /\ UNCHANGED <<registry, daemons, net, conn>>
  BY <1>1 DEF HostListed, TypeOK
<1> HIDE DEF fresh, old
<1>3. snap \in Table
  BY <1>1 DEF Table
<1>4. \A i \in task[t].left : snap[i] \in RowType
  BY <1>1, UsedType
<1> HIDE DEF snap
<1>5. s \in TaskState
  BY <1>1, <1>3, PcType DEF TaskState
<1>6. /\ s.pc = "sessions" /\ s.route = task[t].route /\ s.op = task[t].op
      /\ s.told = task[t].told /\ s.snap = snap /\ s.left = task[t].left
  BY <1>1 DEF TaskState
<1>7. Knows(s)
  BY <1>1, <1>3, <1>4, <1>6 DEF Knows, Asking, OnRow, OnHost
<1> HIDE DEF s
<1>8. Standing'
  BY <1>2, <1>5, <1>6, <1>7, LetsGo DEF daemons
<1> QED
  BY <1>1, <1>2, <1>8, AtHome DEF registry, TypeOK

\* list_identified: an answer is kept with the name of the daemon it came from.
LEMMA SessionsKeeps ==
    ASSUME AdoptInv, NEW t \in Tasks, Sessions(t)
    PROVE  AdoptInv'
<1> DEFINE r == task[t].route
<1>1. /\ task[t] \in TaskState /\ Knows(task[t]) /\ TypeOK /\ task[t].pc = "sessions"
      /\ r \in Routes /\ task[t].op = "pass" /\ UNCHANGED <<registry, daemons, net, lock>>
  BY DEF Sessions, AdoptInv, TypeOK, Knows, OnHost
<1>2. PICK d \in Daemons \cup {None} :
          /\ Answers(r, None, d)
          /\ task' = [task EXCEPT ![t] = [OffHost(@) EXCEPT !.told[r] =
                        IF task[t].left # {} /\ d # None /\ NameOf(d) = task[t].want
                        THEN [name |-> NameOf(d), live |-> alive[d], from |-> d] ELSE None]]
  BY DEF Sessions
<1>3. conn' \in [Routes -> Daemons \cup {None}]
  BY <1>1, <1>2, AnswersType
<1> DEFINE answer == IF task[t].left # {} /\ d # None /\ NameOf(d) = task[t].want
                     THEN [name |-> NameOf(d), live |-> alive[d], from |-> d] ELSE None
           off == OffHost(task[t])
           s == [off EXCEPT !.told[r] = answer]
<1>4. answer \in Answer \cup {None} /\ (answer # None => answer.name = NameOf(answer.from))
  BY <1>1, NameOfType DEF Answer, TypeOK
<1>5. /\ off \in TaskState /\ Knows(off) /\ off.pc = "hosts" /\ off.op = "pass"
  BY <1>1, OffHostType DEF OffHost, TaskState
<1>6. task' = [task EXCEPT ![t] = s]
  BY <1>1, <1>2 DEF TypeOK
<1> HIDE DEF answer, off, r
<1>7. off.told \in [Routes -> Answer \cup {None}]
  BY <1>5 DEF TaskState
<1>8. [off.told EXCEPT ![r] = answer] \in [Routes -> Answer \cup {None}]
  BY <1>1, <1>4, <1>7
<1>9. s \in TaskState
  BY <1>5, <1>8 DEF TaskState
<1>10. /\ s.pc = "hosts" /\ s.op = "pass" /\ s.snap = off.snap /\ s.left = off.left
       /\ s.told = [off.told EXCEPT ![r] = answer]
  BY <1>5 DEF TaskState
<1>11. \A q \in Routes : s.told[q] # None => s.told[q].name = NameOf(s.told[q].from)
  <2>1. \A q \in Routes : off.told[q] # None => off.told[q].name = NameOf(off.told[q].from)
    BY <1>5 DEF Knows
  <2>2. \A q \in Routes : s.told[q] = IF q = r THEN answer ELSE off.told[q]
    BY <1>7, <1>10
  <2> QED
    BY <1>4, <2>1, <2>2
<1>12. Knows(s)
  BY <1>5, <1>10, <1>11 DEF Knows, Asking, OnRow, OnHost
<1>13. Fits(t, s)
  <2>1. \A k \in Routes \cup Daemons : lock[k] # t
    BY <1>1, AdoptionAssumption DEF AdoptInv, LocksHeld, HasRoute, HasInstance
  <2> QED
    BY <1>10, <2>1 DEF Fits, CreatesOn
<1> HIDE DEF s
<1>14. Standing'
  BY <1>1, <1>6, <1>9, <1>12, <1>13, GoesOn DEF daemons
<1> QED
  BY <1>1, <1>3, <1>14, AtHome DEF registry, TypeOK

\* record_probe changes a status and nothing else.
LEMMA ProbeKeeps ==
    ASSUME AdoptInv, NEW t \in Tasks, Probe(t)
    PROVE  AdoptInv'
<1>1. /\ task[t] \in TaskState /\ Knows(task[t]) /\ TypeOK /\ task[t].pc = "probe"
      /\ task[t].op = "pass" /\ UNCHANGED <<daemons, net, conn, lock>>
  BY DEF Probe, AdoptInv, TypeOK, Knows
<1>2. PICK i \in task[t].left, status \in {"running", "disconnected"} :
         /\ rows' \in {rows} \cup (IF rows[i] # None THEN {[rows EXCEPT ![i].status = status]}
                                   ELSE {})
         /\ task' = [task EXCEPT ![t].left = @ \ {i}, ![t].snap[i] = None]
  BY DEF Probe
<1>3. i \in Ids
  BY <1>1 DEF TaskState
<1>4. rows' \in Table
  <2>1. rows[i] # None => [rows[i] EXCEPT !.status = status] \in RowType
    BY <1>1, <1>3 DEF TypeOK, Table, RowType, Statuses
  <2> QED
    BY <1>1, <1>2, <1>3, <2>1 DEF TypeOK, Table
<1> DEFINE left == task[t].left \ {i}
           snap == [task[t].snap EXCEPT ![i] = None]
           s == [task[t] EXCEPT !.left = left, !.snap = snap]
<1>5. left \in SUBSET Ids /\ snap \in Table
  BY <1>1 DEF TaskState, Knows, Table
<1>6. task' = [task EXCEPT ![t] = s]
  BY <1>1, <1>2 DEF TypeOK
<1>7. \A j \in left : snap[j] \in RowType
  BY <1>1 DEF Knows, Table, TaskState
<1> HIDE DEF left, snap
<1>8. s \in TaskState
  BY <1>1, <1>5 DEF TaskState
<1>9. /\ s.pc = "probe" /\ s.op = "pass" /\ s.told = task[t].told
      /\ s.snap = snap /\ s.left = left
  BY <1>1 DEF TaskState
<1>10. Knows(s)
  BY <1>1, <1>5, <1>7, <1>9 DEF Knows, Asking, OnRow, OnHost
<1>11. Fits(t, s)
  <2>1. \A k \in Routes \cup Daemons : lock[k] # t
    BY <1>1, AdoptionAssumption DEF AdoptInv, LocksHeld, HasRoute, HasInstance
  <2> QED
    BY <1>9, <2>1 DEF Fits, CreatesOn
<1> HIDE DEF s
<1>12. Standing'
  BY <1>1, <1>6, <1>8, <1>10, <1>11, GoesOn DEF daemons
<1> QED
  BY <1>1, <1>4, <1>12, AtHome DEF TypeOK

\* A pass ends without a lock in hand.
LEMMA PassEndsKeeps ==
    ASSUME AdoptInv, NEW t \in Tasks, PassEnds(t)
    PROVE  AdoptInv'
<1>1. TypeOK /\ task[t].pc = "probe" /\ UNCHANGED <<registry, daemons, net, conn, lock>>
  BY DEF PassEnds, AdoptInv
<1>2. Fits(t, Idle)
  <2>1. \A k \in Routes \cup Daemons : lock[k] # t
    BY <1>1, AdoptionAssumption DEF AdoptInv, LocksHeld, HasRoute, HasInstance
  <2> QED
    BY <2>1, IdleType DEF Fits, CreatesOn
<1>3. Standing'
  BY <1>1, <1>2, IdleType, GoesOn DEF PassEnds, daemons
<1> QED
  BY <1>1, <1>3, AtHome DEF registry, TypeOK
-----------------------------------------------------------------------------
(* Everything else.                                                         *)

\* A route that moves changes nothing an operation holds.
LEMMA MoveKeeps ==
    ASSUME AdoptInv, NEW r \in Routes, NEW d \in Daemons \cup {None}, Move(r, d)
    PROVE  AdoptInv'
<1>1. /\ at' \in [Routes -> Daemons \cup {None}] /\ met' \in [Routes -> SUBSET Daemons]
      /\ conn' \in [Routes -> Daemons \cup {None}]
  BY DEF Move, AdoptInv, TypeOK
<1>2. UNCHANGED <<rows, held, alive, opened, adrift, lock, task>>
  BY DEF Move, registry, daemons
<1>3. Standing' /\ TypeOK
  BY <1>2 DEF AdoptInv, TypeOK, Claims, LocksHeld, Standing
<1>4. /\ \A e \in Daemons : opened'[e] \subseteq held'[e]
      /\ \A e \in Daemons \ Nameless : \A x, y \in opened'[e] : x = y
  BY <1>2 DEF AdoptInv, Claims, OneWorkspacePerCheckout
<1> QED
  BY <1>1, <1>2, <1>3, <1>4, Together DEF TypeOK

\* A session that ends leaves its record.
LEMMA SessionEndsKeeps ==
    ASSUME AdoptInv, NEW d \in Daemons, NEW x \in Ids, SessionEnds(d, x)
    PROVE  AdoptInv'
<1>1. alive' \in [Daemons -> SUBSET Ids]
  BY DEF SessionEnds, AdoptInv, TypeOK
<1>2. UNCHANGED <<rows, held, opened, adrift, at, met, conn, lock, task>>
  BY DEF SessionEnds, registry, net
<1>3. Standing' /\ TypeOK
  BY <1>2 DEF AdoptInv, TypeOK, Claims, LocksHeld, Standing
<1>4. /\ \A e \in Daemons : opened'[e] \subseteq held'[e]
      /\ \A e \in Daemons \ Nameless : \A y, z \in opened'[e] : y = z
  BY <1>2 DEF AdoptInv, Claims, OneWorkspacePerCheckout
<1> QED
  BY <1>1, <1>2, <1>3, <1>4, Together DEF TypeOK

\* A request that lands late is not one an open still waits for.
LEMMA LandsKeeps ==
    ASSUME AdoptInv, Lands
    PROVE  AdoptInv'
<1>1. PICK q \in adrift :
         /\ adrift' = adrift \ {q}
         /\ IF q.op = "create" THEN Makes(q.at, q.id) /\ UNCHANGED opened
            ELSE Removes(q.at, q.id)
  BY DEF Lands
<1>2. /\ UNCHANGED <<rows, at, met, conn, lock, task>> /\ TypeOK
      /\ q.at \in Daemons /\ q.id \in Ids
      /\ adrift' \subseteq [op : {"create", "kill"}, at : Daemons, id : Ids]
  BY <1>1 DEF Lands, registry, net, AdoptInv, TypeOK
<1>3. /\ \A e \in Daemons : opened'[e] \subseteq opened[e]
      /\ held' \in [Daemons -> SUBSET Ids] /\ alive' \in [Daemons -> SUBSET Ids]
      /\ opened' \in [Daemons -> SUBSET Ids]
      /\ \A e \in Daemons : opened'[e] \subseteq held'[e]
      /\ \A e \in Daemons \ Nameless : \A y, z \in opened'[e] : y = z
  <2>1. CASE q.op = "create"
    <3>1. Makes(q.at, q.id) /\ opened' = opened
      BY <1>1, <2>1
    <3>2. /\ held' \in [Daemons -> SUBSET Ids] /\ alive' \in [Daemons -> SUBSET Ids]
          /\ \A e \in Daemons : held[e] \subseteq held'[e]
      BY <1>2, <3>1 DEF Makes, TypeOK
    <3> QED
      BY <1>2, <3>1, <3>2 DEF TypeOK, AdoptInv, Claims, OneWorkspacePerCheckout
  <2>2. CASE q.op # "create"
    BY <1>1, <1>2, <2>2, Removed
  <2> QED
    BY <2>1, <2>2
<1>4. Standing'
  <2>1. \A u \in Tasks : \A d \in CreatesOn(task'[u]) : lock'[d] = u /\ opened'[d] = {}
    <3> SUFFICES ASSUME NEW u \in Tasks, NEW d \in CreatesOn(task[u])
                 PROVE  lock[d] = u /\ opened'[d] = {}
      BY <1>2
    <3>1. task[u].home \in Daemons \cup {None}
      BY <1>2 DEF TypeOK, TaskState
    <3>2. d \in Daemons
      BY <3>1 DEF CreatesOn
    <3>3. lock[d] = u /\ opened[d] = {}
      BY DEF AdoptInv, Claims
    <3> QED
      BY <1>3, <3>2, <3>3
  <2>2. LocksHeld' /\ \A u \in Tasks : Knows(task'[u])
    BY <1>2 DEF AdoptInv, LocksHeld
  <2> QED
    BY <1>2, <2>1, <2>2 DEF Standing, TypeOK
<1> QED
  BY <1>2, <1>3, <1>4, Together DEF TypeOK

\* A client that starts again holds no lock and has nothing under way.
LEMMA ClientExitsKeeps ==
    ASSUME AdoptInv, ClientExits
    PROVE  AdoptInv'
<1>1. /\ task' = [t \in Tasks |-> Idle] /\ lock' = [k \in Routes \cup Daemons |-> None]
      /\ conn' = [r \in Routes |-> None] /\ met' = [r \in Routes |-> {at[r]} \ {None}]
      /\ UNCHANGED <<rows, held, alive, opened, adrift, at>> /\ TypeOK
  BY DEF ClientExits, registry, daemons, AdoptInv
<1>2. conn' \in [Routes -> Daemons \cup {None}] /\ met' \in [Routes -> SUBSET Daemons]
  BY <1>1 DEF TypeOK
<1>3. Standing'
  BY <1>1, IdleType DEF Standing, LocksHeld, CreatesOn
<1>4. /\ \A e \in Daemons : opened'[e] \subseteq held'[e]
      /\ \A e \in Daemons \ Nameless : \A x, y \in opened'[e] : x = y
  BY <1>1 DEF AdoptInv, Claims, OneWorkspacePerCheckout
<1> QED
  BY <1>1, <1>2, <1>3, <1>4, Together DEF TypeOK

\* What earlier versions left in a registry is a registry.
LEMMA InitHolds == Init => AdoptInv
<1> SUFFICES ASSUME Init PROVE AdoptInv
  OBVIOUS
<1>1. rows \in Table
  <2>1. PICK used \in BOOLEAN :
           \E old \in [Old -> {None} \cup [host : Routes, daemon : {None}, session : {Theirs},
                                           status : {"running"}, used : {used}]] :
              rows = [i \in Ids |-> IF i \in Old THEN old[i] ELSE None]
    BY DEF Init
  <2>2. PICK old \in [Old -> {None} \cup [host : Routes, daemon : {None}, session : {Theirs},
                                          status : {"running"}, used : {used}]] :
              rows = [i \in Ids |-> IF i \in Old THEN old[i] ELSE None]
    BY <2>1
  <2>3. [host : Routes, daemon : {None}, session : {Theirs}, status : {"running"}, used : {used}]
           \subseteq RowType
    BY DEF RowType, Statuses, Ids
  <2>4. \A i \in Old : old[i] \in RowType \cup {None}
    BY <2>2, <2>3
  <2> QED
    BY <2>2, <2>4 DEF Table
<1>2. /\ held \in [Daemons -> SUBSET Ids] /\ alive \in [Daemons -> SUBSET Ids]
      /\ opened \in [Daemons -> SUBSET Ids] /\ adrift = {}
      /\ at \in [Routes -> Daemons \cup {None}] /\ conn \in [Routes -> Daemons \cup {None}]
      /\ met \in [Routes -> SUBSET Daemons]
      /\ lock \in [Routes \cup Daemons -> Tasks \cup {None}]
  BY DEF Init, Ids
<1>3. task \in [Tasks -> TaskState] /\ \A t \in Tasks : task[t] = Idle
  BY IdleType DEF Init
<1>4. (\A t \in Tasks : Knows(task[t])) /\ LocksHeld
  BY <1>3, IdleType DEF Init, LocksHeld
<1>5. Claims
  BY <1>3, IdleType DEF Init, Claims, OneWorkspacePerCheckout, CreatesOn
<1> QED
  BY <1>1, <1>2, <1>3, <1>4, <1>5 DEF AdoptInv, TypeOK

\* Every step of an operation under way.
LEMMA StepsKeep ==
    ASSUME AdoptInv, NEW t \in Tasks, Steps(t)
    PROVE  AdoptInv'
<1>1. CASE LockRoute(t) \/ Name(t) \/ LockInstance(t) \/ List(t)
  BY <1>1, LockRouteKeeps, NameKeeps, LockInstanceKeeps, ListKeeps
<1>2. CASE ConfirmRecord(t) \/ Insert(t) \/ Exists(t) \/ LookUp(t) \/ Create(t) \/ Bind(t)
         \/ AdoptSession(t)
  BY <1>2, ConfirmRecordKeeps, InsertKeeps, ExistsKeeps, LookUpKeeps, CreateKeeps, BindKeeps,
     AdoptSessionKeeps
<1>3. CASE KillRecord(t) \/ RecordKilled(t)
  BY <1>3, KillRecordKeeps, RecordKilledKeeps
<1>4. CASE NextHost(t) \/ Rebind(t) \/ HostListed(t) \/ Sessions(t) \/ Probe(t) \/ PassEnds(t)
  BY <1>4, NextHostKeeps, RebindKeeps, HostListedKeeps, SessionsKeeps, ProbeKeeps, PassEndsKeeps
<1> QED
  BY <1>1, <1>2, <1>3, <1>4 DEF Steps

\* Every step.
LEMMA NextKeeps == AdoptInv /\ [Next]_vars => AdoptInv'
<1> SUFFICES ASSUME AdoptInv, [Next]_vars PROVE AdoptInv'
  OBVIOUS
<1>1. ASSUME NEW t \in Tasks, Begins(t) \/ Steps(t) PROVE AdoptInv'
  BY <1>1, BeginsKeeps, StepsKeep
<1>2. CASE \E r \in Routes, d \in Daemons \cup {None} : Move(r, d)
  BY <1>2, MoveKeeps
<1>3. CASE \E d \in Daemons, x \in Ids : SessionEnds(d, x)
  BY <1>3, SessionEndsKeeps
<1>4. CASE ClientExits
  BY <1>4, ClientExitsKeeps
<1>5. CASE Lands
  BY <1>5, LandsKeeps
<1>6. CASE UNCHANGED vars
  BY <1>6 DEF vars, AdoptInv, TypeOK, Claims, OneWorkspacePerCheckout, LocksHeld
<1> QED
  BY <1>1, <1>2, <1>3, <1>4, <1>5, <1>6 DEF Next

-----------------------------------------------------------------------------
(* Theorems.                                                                *)

\* Every operation of lifecycle.rs, interleaved at its requests and its writes,
\* with connections lost, routes moved and the client exiting, keeps AdoptInv.
THEOREM AdoptInvariant == Spec => []AdoptInv
<1>1. Init => AdoptInv
  BY InitHolds
<1>2. AdoptInv /\ [Next]_vars => AdoptInv'
  BY NextKeeps
<1> QED
  BY <1>1, <1>2, PTL DEF Spec

\* adopt_or_create_workspace under the decision locks: however many opens run, and
\* under whatever spellings of a host, they never leave a daemon that has a name
\* with two workspaces for one checkout.
THEOREM OpensMakeOne == Spec => []OneWorkspacePerCheckout
<1>1. AdoptInv => OneWorkspacePerCheckout
  BY DEF AdoptInv, Claims
<1> QED
  BY <1>1, AdoptInvariant, PTL
\* daemon_decision_locks: whoever waits for a decision lock waits for an operation
\* that can go on, for any number of operations, routes and daemons.
THEOREM LocksAreLetGo == Spec => []NobodyWaitsInVain
<1> DEFINE Waits(t) == \/ task[t].pc = "route" /\ lock[task[t].route] # None
                       \/ task[t].pc = "instance" /\ lock[task[t].want] # None
<1>1. ASSUME AdoptInv, NEW t \in Tasks, Waits(t)
      PROVE  \E u \in Tasks : task[u].pc # "idle" /\ ~ Waits(u)
  <2>1. ASSUME NEW d \in Daemons, lock[d] # None
        PROVE  \E u \in Tasks : task[u].pc # "idle" /\ ~ Waits(u)
    <3>1. lock[d] \in Tasks /\ task[lock[d]].pc \in HasInstance
      BY <1>1, <2>1 DEF AdoptInv, TypeOK, LocksHeld
    <3> QED
      BY <3>1 DEF HasInstance
  <2>2. ASSUME NEW u \in Tasks, task[u].pc = "instance"
        PROVE  \E v \in Tasks : task[v].pc # "idle" /\ ~ Waits(v)
    <3>1. task[u].want \in Daemons
      BY <1>1, <2>2 DEF AdoptInv, Knows
    <3> QED
      BY <2>1, <2>2, <3>1
  <2>3. CASE task[t].pc = "route" /\ lock[task[t].route] # None
    <3>1. task[t].route \in Routes
      BY <1>1, <2>3 DEF AdoptInv, Knows, Asking
    <3>2. lock[task[t].route] \in Tasks /\ task[lock[task[t].route]].pc \in HasRoute
      BY <1>1, <2>3, <3>1 DEF AdoptInv, TypeOK, LocksHeld
    <3> QED
      BY <2>2, <3>2 DEF HasRoute, HasInstance
  <2> QED
    BY <1>1, <2>2, <2>3
<1>2. AdoptInv => NobodyWaitsInVain
  BY <1>1 DEF NobodyWaitsInVain
<1> QED
  BY <1>2, AdoptInvariant, PTL

\* A step is one operation's, and leaves the others where they are.
LEMMA Alone ==
    ASSUME AdoptInv, NEW u \in Tasks, Begins(u) \/ Steps(u), NEW t \in Tasks, t # u
    PROVE  task'[t] = task[t]
<1> USE DEF TypeOK, Ends, Goto
<1>0. TypeOK
  BY DEF AdoptInv
<1>1. CASE Begins(u)
  BY <1>0, <1>1 DEF Begins, Begin, Open, ConfirmDiscovered, KillWorkspace, RecreateSession,
                    Reconcile
<1>2. CASE LockRoute(u) \/ Name(u) \/ LockInstance(u)
  BY <1>0, <1>2 DEF LockRoute, Name, Named, LockInstance
<1>3. CASE List(u)
  <2>1. ASSUME NEW d, Decides(u, d) PROVE task'[t] = task[t]
    BY <1>0, <2>1 DEF Decides
  <2>2. task[u].op \in {"open", "confirm", "kill", "pass"}
    BY <1>3 DEF List, AdoptInv, Knows, Asking
  <2> QED
    BY <1>0, <1>3, <2>1, <2>2 DEF List
<1>4. CASE ConfirmRecord(u) \/ Insert(u) \/ Exists(u)
  BY <1>0, <1>4 DEF ConfirmRecord, Insert, Exists
<1>5. CASE LookUp(u) \/ Create(u) \/ Bind(u) \/ AdoptSession(u)
  BY <1>0, <1>5 DEF LookUp, Create, Errs, Bind, AdoptSession
<1>6. CASE KillRecord(u) \/ RecordKilled(u)
  BY <1>0, <1>6 DEF KillRecord, RecordKilled
<1>7. CASE NextHost(u) \/ HostListed(u) \/ Sessions(u) \/ Probe(u) \/ PassEnds(u)
  BY <1>0, <1>7 DEF NextHost, HostListed, Sessions, Probe, PassEnds
<1>8. CASE Rebind(u)
  BY <1>0, <1>8 DEF Rebind
<1> QED
  BY <1>1, <1>2, <1>3, <1>4, <1>5, <1>6, <1>7, <1>8 DEF Steps
\* kill_workspace, fenced by the row's daemon or by the one that was listed: a kill
\* takes a record from no other daemon that has a name.
THEOREM KillsStayHome == Spec => KillStaysHome
<1>1. ASSUME AdoptInv, [Next]_vars, NEW t \in Tasks, NEW d \in Daemons,
             task[t].pc = "kill", task'[t].pc # "kill",
             held'[d] # held[d] \/ \E q \in adrift' \ adrift : q.at = d
      PROVE  task[t].want \in {None, NameOf(d)} /\ task[t].base.daemon \in {None, NameOf(d)}
  <2>1. PICK u \in Tasks : Begins(u) \/ Steps(u)
    BY <1>1 DEF Next, vars, Move, SessionEnds, Lands, ClientExits, daemons
  <2>2. u = t
    BY <1>1, <2>1, Alone
  <2>3. KillRecord(t)
    BY <1>1, <2>1, <2>2 DEF Begins, Begin, Open, ConfirmDiscovered, KillWorkspace,
          RecreateSession, Reconcile, Steps, LockRoute, Name, LockInstance, List, ConfirmRecord,
          Insert, Exists, LookUp, Create, Bind, AdoptSession, RecordKilled, NextHost, Rebind, HostListed,
          Sessions, Probe, PassEnds
  <2>4. TypeOK /\ task[t].route \in Routes /\ task[t].base.daemon \in {None, task[t].want}
    BY <1>1 DEF AdoptInv, Knows, OnRow
  <2>5. d = Peer(task[t].route, task[t].want) /\ d # None
    <3> DEFINE peer == Peer(task[t].route, task[t].want)
               x == WireId(task[t].row, task[t].base)
    <3>1. PICK e \in Daemons \cup {None} :
             /\ Answers(task[t].route, task[t].want, e)
             /\ \E p \in {e, peer} :
                   /\ p # None
                   /\ \/ Removes(p, x) /\ UNCHANGED adrift
                      \/ Strays("kill", p, x) /\ UNCHANGED held
      BY <1>1, <2>3 DEF KillRecord, daemons
    <3>2. e # None => e = peer
      BY <2>4, <3>1, AnswersType
    <3>3. peer # None /\ \/ Removes(peer, x) /\ UNCHANGED adrift
                         \/ Strays("kill", peer, x) /\ UNCHANGED held
      BY <3>1, <3>2
    <3> HIDE DEF peer, x
    <3> QED
      BY <1>1, <2>4, <3>3, AdoptionAssumption DEF Removes, Strays, TypeOK, peer
  <2> QED
    BY <2>4, <2>5, PeerAdmitted
<1>2. AdoptInv /\ [Next]_vars
         => [\A t \in Tasks, d \in Daemons :
                /\ task[t].pc = "kill" /\ task'[t].pc # "kill"
                /\ held'[d] # held[d] \/ \E q \in adrift' \ adrift : q.at = d
                => /\ task[t].want \in {None, NameOf(d)}
                   /\ task[t].base.daemon \in {None, NameOf(d)}]_vars
  BY <1>1
<1> QED
  BY <1>2, AdoptInvariant, PTL DEF Spec, KillStaysHome

\* reconcile_all and record_probe: a pass changes the status of a row that names its
\* daemon only to what that daemon answered in this pass.
THEOREM PassesBelieveOnlyOwners == Spec => OnlyItsDaemonSpeaks
<1> DEFINE Speaks(t, i) ==
              \E r \in Routes :
                /\ task[t].told[r] # None /\ task[t].told[r].from = task[t].snap[i].daemon
                /\ (rows'[i].status = "running")
                      <=> (task[t].snap[i].session \in task[t].told[r].live)
<1>1. ASSUME AdoptInv, [Next]_vars, NEW t \in Tasks, NEW i \in Ids,
             task[t].pc = "probe", i \in task[t].left \ task'[t].left,
             rows'[i] # rows[i], task[t].snap[i].daemon # None
      PROVE  Speaks(t, i)
  <2>1. PICK u \in Tasks : Begins(u) \/ Steps(u)
    BY <1>1 DEF Next, vars, Move, SessionEnds, Lands, ClientExits, registry
  <2>2. u = t
    BY <1>1, <2>1, Alone
  <2>3. Probe(t)
    BY <1>1, <2>1, <2>2 DEF Begins, Begin, Open, ConfirmDiscovered, KillWorkspace,
          RecreateSession, Reconcile, Steps, LockRoute, Name, LockInstance, List, ConfirmRecord,
          Insert, Exists, LookUp, Create, Bind, AdoptSession, KillRecord, RecordKilled, NextHost, Rebind,
          HostListed, Sessions, PassEnds
  <2> DEFINE row == task[t].snap[i]
             told == task[t].told[row.host]
             status == IF row.session \in told.live THEN "running" ELSE "disconnected"
  <2>4. /\ task[t] \in TaskState /\ task[t].snap[i] \in RowType /\ rows \in Table
        /\ \A r \in Routes : task[t].told[r] # None
              => task[t].told[r].name = NameOf(task[t].told[r].from)
    BY <1>1 DEF AdoptInv, TypeOK, Knows
  <2>5. PICK j \in task[t].left :
           LET rw == task[t].snap[j]
               td == task[t].told[rw.host]
               asked == rw.session # None /\ td # None /\ RowIsOn(rw, td.name, rw.host)
               st == IF rw.session \in td.live THEN "running" ELSE "disconnected"
           IN  /\ rows' = IF asked /\ rw.status # st /\ rows[j] # None
                          THEN [rows EXCEPT ![j].status = st] ELSE rows
               /\ task' = [task EXCEPT ![t].left = @ \ {j}, ![t].snap[j] = None]
    BY <2>3 DEF Probe
  <2>6. j = i
    BY <1>1, <2>4, <2>5 DEF AdoptInv, TypeOK, TaskState
  <2>7. /\ told # None /\ RowIsOn(row, told.name, row.host) /\ rows[i] # None
        /\ rows' = [rows EXCEPT ![i].status = status]
    BY <1>1, <2>5, <2>6
  <2>8. row.host \in Routes /\ told.from \in Daemons
    BY <2>4, <2>7 DEF RowType, TaskState, Answer
  <2>9. told.from = row.daemon
    BY <1>1, <2>4, <2>7, <2>8, NameOfType DEF RowIsOn
  <2>10. rows'[i].status = status
    <3>1. rows[i] \in RowType
      BY <2>4, <2>7 DEF Table
    <3>2. rows'[i] = [rows[i] EXCEPT !.status = status]
      BY <2>4, <2>7 DEF Table
    <3> HIDE DEF status
    <3> QED
      BY <3>1, <3>2 DEF RowType
  <2>11. rows'[i].status = "running" <=> row.session \in told.live
    BY <2>10
  <2> SUFFICES \E r \in Routes :
                 /\ task[t].told[r] # None /\ task[t].told[r].from = row.daemon
                 /\ rows'[i].status = "running" <=> row.session \in task[t].told[r].live
    OBVIOUS
  <2> USE <2>8
  <2> WITNESS row.host \in Routes
  <2> QED
    BY <2>7, <2>9, <2>11
<1>2. AdoptInv /\ [Next]_vars
         => [\A t \in Tasks, i \in Ids :
                /\ task[t].pc = "probe" /\ i \in task[t].left \ task'[t].left
                /\ rows'[i] # rows[i] /\ task[t].snap[i].daemon # None
                => Speaks(t, i)]_vars
  BY <1>1
<1> QED
  BY <1>2, AdoptInvariant, PTL DEF Spec, OnlyItsDaemonSpeaks
=============================================================================
