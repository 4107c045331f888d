------------------------------ MODULE Adoption ------------------------------
(***************************************************************************)
(* One client's registry of workspaces and the daemons that hold them:     *)
(* crates/ade_workspaces, lifecycle.rs (adopt_or_create_workspace,         *)
(* confirm_discovered, kill_workspace, recreate_session, reconcile_all),   *)
(* registry.rs, and the control connection of daemon_backend.rs            *)
(* (request_seen).                                                         *)
(*                                                                         *)
(* Operations run at the same time, on background threads.  Two spellings  *)
(* of a host may reach one daemon, a spelling may come to reach another    *)
(* daemon, a cached connection outlives that, and the client may exit in   *)
(* the middle of anything.  Every step is one request or one write of the  *)
(* registry; a status written right after a row's other columns goes with  *)
(* them.                                                                   *)
(*                                                                         *)
(* All rows and records are of one checkout.  Which of several rows or     *)
(* discoveries is the most recent is left open.                            *)
(***************************************************************************)
EXTENDS Naturals, FiniteSets

CONSTANTS
    Tasks,      \* operations under way at the same time
    Routes,     \* spellings of a host
    Daemons,
    Nameless,   \* daemons too old to have an instance id
    Theirs,     \* the id of a record another client made
    Old,        \* rows of an earlier version of this client
    New,        \* rows this client may add
    None,
    MaxOps,     \* bound: operations begun
    MaxPasses,  \* bound: reconciliation passes under way at the same time
    MaxFaults   \* bound: lost connections, moved routes, ended sessions and
                \* exits of the client

ASSUME AdoptionAssumption ==
    /\ Nameless \subseteq Daemons
    /\ Theirs \notin Old \cup New /\ Old \cap New = {}
    /\ (Routes \cap Daemons) = {} /\ None \notin Routes \cup Daemons \cup Tasks
    /\ MaxOps \in Nat /\ MaxFaults \in Nat

VARIABLES
    rows,      \* the registry: ade_workspaces by id
    minted,    \* row ids used so far
    held,      \* the records each daemon holds
    alive,     \* those of them with a live session
    at,        \* the daemon each route reaches now, or None
    conn,      \* the daemon at the end of each route's control connection
    met,       \* the daemons each route has led to since the client started
    lock,      \* daemon_decision_locks, by route and by instance
    task,      \* each operation: where it is and what it has read
    opened,    \* records an open made before it was over, on the daemon whose
               \* listing it acted on, and that were not killed since
    adrift,    \* requests whose senders were given an error, still on their way
    spent      \* how much of each bound is used up

registry == <<rows, minted>>
daemons == <<held, alive, opened, adrift>>
net == <<at, met>>
vars == <<rows, minted, held, alive, at, met, conn, lock, task, opened, adrift, spent>>

Ids == {Theirs} \cup Old \cup New

-----------------------------------------------------------------------------
(* Rows.                                                                    *)

\* daemon_workspace_id: the recorded session, or the name derived from the row.
WireId(i, row) == IF row.session = None THEN i ELSE row.session

Used(rs) == {i \in Ids : rs[i] # None /\ rs[i].used}

\* Mutant: a row is judged by the route it was reached by.
RowIsOnRoute(row, name, r) == row.host = r

\* row_is_on: a row that carries an identity is judged by it alone.
RowIsOn(row, name, r) == IF row.daemon # None THEN row.daemon = name ELSE row.host = r

\* is_the_same_daemons_row.
IsTheSameDaemonsRow(row, name, r, x) == row.session = x /\ RowIsOn(row, name, r)

\* The index ade_workspaces_one_row_per_record.
Record(row) == <<IF row.daemon = None THEN row.host ELSE row.daemon, row.session>>
Unique(rs) ==
    \A i, j \in {k \in Used(rs) : rs[k].session # None} :
        i # j => Record(rs[i]) # Record(rs[j])

Row(r, name, session, status) ==
    [host |-> r, daemon |-> name, session |-> session, status |-> status, used |-> TRUE]

-----------------------------------------------------------------------------
(* Requests.                                                                *)

Acts == spent.ops < MaxOps /\ spent' = [spent EXCEPT !.ops = @ + 1]
Fault == spent.faults < MaxFaults /\ spent' = [spent EXCEPT !.faults = @ + 1]

NameOf(d) == IF d \in Nameless THEN None ELSE d

\* identity_admits.
Admits(fence, d) == d # None /\ (fence = None \/ NameOf(d) = fence)

\* Mutant: a cached connection is used whoever it leads to.
PeerCached(r, fence) == IF conn[r] # None THEN conn[r] ELSE at[r]

\* request_seen: the daemon a fenced request of route r goes to.  A cached
\* connection to another daemon is dropped and made anew, once.
Peer(r, fence) ==
    IF Admits(fence, conn[r]) THEN conn[r]
    ELSE IF Admits(fence, at[r]) THEN at[r] ELSE None

\* The request is answered by d; or d is None and it failed.
Answers(r, fence, d) ==
    \/ /\ d = Peer(r, fence)
       /\ conn' = [conn EXCEPT ![r] = IF Admits(fence, @) THEN @ ELSE at[r]]
       /\ UNCHANGED spent
    \/ /\ d = None /\ Peer(r, fence) # None
       /\ Fault
       /\ conn' = [conn EXCEPT ![r] = None]

\* A record comes to live on daemon d, or is removed from it.
Makes(d, x) == /\ held' = [held EXCEPT ![d] = @ \cup {x}]
               /\ alive' = [alive EXCEPT ![d] = @ \cup {x}]

Removes(d, x) == /\ held' = [held EXCEPT ![d] = @ \ {x}]
                 /\ alive' = [alive EXCEPT ![d] = @ \ {x}]
                 /\ opened' = [opened EXCEPT ![d] = @ \ {x}]

\* The request got to d, or will after its sender is told that it failed.
Strays(op, d, x) == adrift' = adrift \cup {[op |-> op, at |-> d, id |-> x]}

-----------------------------------------------------------------------------
\* `row` is the row or the wire id the operation is about, `base` the row as it
\* was read, `want` expected_daemon_id, `list` the listing.  A reconciliation
\* pass has `todo` hosts and `left` rows to go; `known` and `snap` are the rows
\* it read, `told` what each host answered.
\* An operation drops what it no longer reads: the tries once it has its listing, a
\* row of `snap` once that is judged, answers when the pass has no rows.
Idle == [pc |-> "idle", op |-> "none", route |-> None, row |-> None, base |-> None,
         want |-> None, tries |-> 0, list |-> {}, home |-> None,
         todo |-> {}, left |-> {}, known |-> None, snap |-> None, changed |-> FALSE,
         told |-> [r \in Routes |-> None]]

\* A client that starts, with what an earlier version left in its registry, and
\* daemons that hold what other clients made: ids are unique on one daemon only.
\* Bound: an earlier version leaves one row that is not used at most.
Init ==
    /\ \E used \in BOOLEAN :
       \E old \in [Old -> {None} \cup [host : Routes, daemon : {None}, session : {Theirs},
                                        status : {"running"}, used : {used}]] :
          rows = [i \in Ids |-> IF i \in Old THEN old[i] ELSE None]
    /\ Unique(rows)
    /\ \A i, j \in Old : rows[i] # None /\ rows[j] # None /\ i # j => i \in Used(rows)
    /\ minted = {}
    /\ held \in [Daemons -> SUBSET {Theirs}]
    /\ alive = held
    /\ at \in [Routes -> Daemons]
    /\ conn = [r \in Routes |-> None]
    /\ met = [r \in Routes |-> {at[r]}]
    /\ lock = [k \in Routes \cup Daemons |-> None]
    /\ task = [t \in Tasks |-> Idle]
    /\ opened = [d \in Daemons |-> {}]
    /\ adrift = {}
    /\ spent = [ops |-> 0, faults |-> 0]

Goto(t, pc) == task' = [task EXCEPT ![t].pc = pc]

\* Mutant: a loop goes round with the daemon it gave up still locked.
UnlockedRoute(t) == [k \in Routes \cup Daemons |-> IF lock[k] = t /\ k \in Routes THEN None
                                                   ELSE lock[k]]

\* The guards of a function are dropped where it ends or goes round its loop.
Unlocked(t) == [k \in Routes \cup Daemons |-> IF lock[k] = t THEN None ELSE lock[k]]

OffHost(state) ==
    [state EXCEPT !.pc = "hosts", !.route = None, !.want = None, !.tries = 0,
                  !.list = {}, !.known = None, !.changed = FALSE]

\* The operation is over, well or with an error; a pass goes on to its next host.
Ends(t) ==
    /\ task' = [task EXCEPT ![t] = IF @.op = "pass" THEN OffHost(@) ELSE Idle]
    /\ lock' = Unlocked(t)

-----------------------------------------------------------------------------
(* Operations begin.                                                        *)

Begin(t, state) ==
    /\ task[t].pc = "idle"
    /\ Acts
    /\ task' = [task EXCEPT ![t] = state]
    /\ UNCHANGED <<registry, daemons, net, conn, lock>>

Open(t, r) ==
    Begin(t, [Idle EXCEPT !.pc = "route", !.op = "open", !.route = r, !.tries = 3])

\* Of a record on screen, which some daemon holds or has lost since this began.
ConfirmDiscovered(t, r, x) ==
    /\ \E d \in Daemons : x \in held[d]
    /\ Begin(t, [Idle EXCEPT !.pc = "route", !.op = "confirm", !.route = r, !.row = x,
                             !.tries = 3])

KillWorkspace(t, i) ==
    /\ i \in Used(rows)
    /\ Begin(t, [Idle EXCEPT !.pc = "route", !.op = "kill", !.route = rows[i].host,
                             !.row = i, !.base = rows[i], !.tries = 1])

RecreateSession(t, i) ==
    /\ i \in Used(rows)
    /\ Begin(t, [Idle EXCEPT !.pc = "exists", !.op = "recreate", !.route = rows[i].host,
                             !.row = i, !.base = rows[i]])

Reconcile(t) ==
    /\ Cardinality({u \in Tasks : task[u].op = "pass"}) < MaxPasses
    /\ Begin(t, [Idle EXCEPT !.pc = "hosts", !.op = "pass", !.todo = Routes, !.left = Used(rows),
                             !.snap = [i \in Ids |-> IF i \in Used(rows) THEN rows[i] ELSE None]])

-----------------------------------------------------------------------------
(* listing_under_daemon_lock, and the same steps where confirm_discovered,  *)
(* list_host_workspaces and kill_workspace repeat them.                     *)

LockRoute(t) ==
    LET r == task[t].route IN
    /\ task[t].pc = "route" /\ lock[r] = None
    /\ lock' = [lock EXCEPT ![r] = t]
    /\ Goto(t, "name")
    /\ UNCHANGED <<registry, daemons, net, conn, spent>>

\* Which daemon to lock: the one the last handshake named, which may be one of the
\* status stream's, the one the row names, or the one that answers now.
Expected(t) ==
    CASE task[t].op \in {"open", "confirm"} -> {None} \cup {NameOf(d) : d \in met[task[t].route]}
      [] task[t].op = "kill" -> {task[t].base.daemon}
      [] task[t].op = "pass" -> {None}

Named(t, name) ==
    task' = [task EXCEPT ![t].want = name, ![t].pc = IF name = None THEN "list" ELSE "instance"]

Name(t) ==
    /\ task[t].pc = "name"
    /\ \/ \E name \in Expected(t) \ {None} : Named(t, name) /\ UNCHANGED <<conn, lock, spent>>
       \/ /\ None \in Expected(t)
          /\ \E d \in Daemons \cup {None} :
                /\ Answers(task[t].route, None, d)
                /\ IF d = None THEN Ends(t) ELSE Named(t, NameOf(d)) /\ UNCHANGED lock
    /\ UNCHANGED <<registry, daemons, net>>

\* Mutant: the instance is not locked.
LockInstanceFree(t) ==
    /\ task[t].pc = "instance"
    /\ Goto(t, IF task[t].op = "kill" /\ task[t].base.daemon # None THEN "kill" ELSE "list")
    /\ UNCHANGED <<registry, daemons, net, conn, lock, spent>>

\* A kill of a row that names its daemon needs no listing.
LockInstance(t) ==
    LET name == task[t].want IN
    /\ task[t].pc = "instance" /\ lock[name] = None
    /\ lock' = [lock EXCEPT ![name] = t]
    /\ Goto(t, IF task[t].op = "kill" /\ task[t].base.daemon # None THEN "kill" ELSE "list")
    /\ UNCHANGED <<registry, daemons, net, conn, spent>>

\* adopt_or_create_workspace, from its reading of the registry: an owned row is
\* reused, a killed one too; then a discovery; then a new row.
Decides(t, d) ==
    LET mine == {i \in Used(rows) : RowIsOn(rows[i], task[t].want, task[t].route)}
        wires == {WireId(i, rows[i]) : i \in mine}
    IN  IF wires \cap held[d] # {} \/ \E i \in mine : rows[i].session = None
        THEN Ends(t)
        ELSE /\ IF held[d] \ wires # {}
                THEN \E x \in held[d] \ wires :
                        task' = [task EXCEPT ![t].pc = "confirm", ![t].row = x, ![t].tries = 0]
                ELSE task' = [task EXCEPT ![t].pc = "insert", ![t].home = d, ![t].tries = 0]
             /\ UNCHANGED lock

\* The listing under the locks.  One that fails may lead to a row this client has
\* already, and changes nothing; one of another daemon starts over.
List(t) ==
    /\ task[t].pc = "list"
    /\ \E d \in Daemons \cup {None} :
          /\ Answers(task[t].route, None, d)
          /\ \/ d = None /\ Ends(t)
             \/ /\ d # None /\ NameOf(d) # task[t].want
                /\ IF task[t].tries > 1
                   THEN /\ task' = [task EXCEPT ![t].pc = "route", ![t].tries = @ - 1]
                        /\ lock' = Unlocked(t)
                   ELSE Ends(t)
             \/ /\ d # None /\ NameOf(d) = task[t].want
                /\ CASE task[t].op = "open" -> Decides(t, d)
                     [] task[t].op = "confirm" ->
                          IF task[t].row \in held[d] THEN Goto(t, "confirm") /\ UNCHANGED lock
                          ELSE Ends(t)
                     [] task[t].op = "kill" -> Goto(t, "kill") /\ UNCHANGED lock
                     [] task[t].op = "pass" ->
                          /\ task' = [task EXCEPT ![t].pc = "rebind", ![t].tries = 0,
                                 ![t].list = held[d], ![t].known = rows, ![t].changed = FALSE]
                          /\ UNCHANGED lock
    /\ UNCHANGED <<registry, daemons, net>>

-----------------------------------------------------------------------------
(* confirm_record and create_workspace_scoped.                              *)

\* The row that owns the record is reused, a quarantined one promoted, or a new
\* one inserted.  A write the index refuses leaves the owner it ran into.
ConfirmRecord(t) ==
    LET x == task[t].row
        r == task[t].route
        name == task[t].want
        owned == \E i \in Used(rows) : IsTheSameDaemonsRow(rows[i], name, r, x)
        quarantined == {i \in Ids : /\ rows[i] # None /\ ~ rows[i].used
                                    /\ IsTheSameDaemonsRow(rows[i], name, r, x)}
        Puts(i, row) ==
            LET written == [rows EXCEPT ![i] = row]
            IN  rows' = IF Unique(written) THEN written ELSE rows
    IN  /\ task[t].pc = "confirm"
        /\ \/ owned /\ UNCHANGED registry
           \/ /\ ~ owned
              /\ \E i \in quarantined :
                    Puts(i, [rows[i] EXCEPT !.used = TRUE, !.host = r, !.daemon = name])
              /\ UNCHANGED minted
           \/ /\ ~ owned /\ quarantined = {}
              /\ \E i \in New \ minted :
                    /\ Puts(i, Row(r, name, x, "disconnected"))
                    /\ minted' = minted \cup {i}
        /\ Ends(t)
        /\ UNCHANGED <<daemons, net, conn, spent>>

Insert(t) ==
    /\ task[t].pc = "insert"
    /\ \E i \in New \ minted :
          LET row == Row(task[t].route, None, None, "creating") IN
          /\ minted' = minted \cup {i}
          /\ rows' = [rows EXCEPT ![i] = row]
          /\ task' = [task EXCEPT ![t].pc = "spawn", ![t].row = i, ![t].base = row]
    /\ UNCHANGED <<daemons, net, conn, lock, spent>>

\* set_status: by row id, and only if it differs from the copy in hand.
Status(t, rs, status) ==
    LET i == task[t].row IN
    IF rs[i] = None \/ task[t].base.status = status THEN rs
    ELSE [rs EXCEPT ![i].status = status]

\* recreate_session: a session that turns out to be alive is adopted.
Exists(t) ==
    LET b == task[t].base IN
    /\ task[t].pc = "exists"
    /\ \E d \in Daemons \cup {None} :
          /\ Answers(task[t].route, b.daemon, d)
          /\ IF d = None THEN Ends(t)
             ELSE /\ Goto(t, IF WireId(task[t].row, b) \in alive[d] THEN "adopt" ELSE "spawn")
                  /\ UNCHANGED lock
    /\ UNCHANGED <<registry, daemons, net>>

\* What start_session does of an error; the status is written to the row.
Errs(t) == rows' = Status(t, rows, "error") /\ Ends(t)

\* create_session's listing: a session that lives already is an error.
LookUp(t) ==
    LET b == task[t].base IN
    /\ task[t].pc = "spawn"
    /\ \E d \in Daemons \cup {None} :
          /\ Answers(task[t].route, b.daemon, d)
          /\ IF d = None \/ WireId(task[t].row, b) \in alive[d] THEN Errs(t)
             ELSE Goto(t, "create") /\ UNCHANGED <<rows, lock>>
    /\ UNCHANGED <<minted, daemons, net>>

\* Its CreateSession, which need not go to the daemon that was listed.  The record
\* and its session may be made and the reply lost, or be made after the error.  The
\* tombstones reaped before are no records; a reaping that fails is this request
\* failing.
Create(t) ==
    LET b == task[t].base
        x == WireId(task[t].row, b)
        peer == Peer(task[t].route, b.daemon)
        Opens(d) == /\ Makes(d, x)
                    /\ opened' = IF task[t].home = d
                                 THEN [opened EXCEPT ![d] = @ \cup {x}] ELSE opened
                    /\ UNCHANGED adrift
    IN  /\ task[t].pc = "create"
        /\ \E d \in Daemons \cup {None} :
              /\ Answers(task[t].route, b.daemon, d)
              /\ \/ d = None /\ Errs(t) /\ UNCHANGED daemons
                 \/ d = None /\ peer # None /\ Errs(t) /\ Opens(peer)
                 \/ /\ d = None /\ peer # None
                    /\ Errs(t) /\ Strays("create", peer, x) /\ UNCHANGED <<held, alive, opened>>
                 \/ /\ d # None /\ Opens(d)
                    /\ task' = [task EXCEPT ![t].pc = "bind", ![t].want = NameOf(d)]
                    /\ UNCHANGED <<rows, lock>>
        /\ UNCHANGED <<minted, net>>

\* start_session's write of the route and the daemon that answered.
Bind(t) ==
    LET i == task[t].row
        b == task[t].base
        bound == [b EXCEPT !.daemon = IF @ = None THEN task[t].want ELSE @]
        written == IF rows[i] = None THEN rows
                   ELSE [rows EXCEPT ![i].host = bound.host, ![i].daemon = bound.daemon]
    IN  /\ task[t].pc = "bind"
        /\ IF Unique(written)
           THEN /\ rows' = written
                /\ task' = [task EXCEPT ![t].pc = "adopt", ![t].base = bound]
                /\ UNCHANGED lock
           ELSE UNCHANGED rows /\ Ends(t)
        /\ UNCHANGED <<minted, daemons, net, conn, spent>>

\* adopt_session: a session the row had when it was read is not written again.
AdoptSession(t) ==
    LET i == task[t].row
        written == IF rows[i] = None \/ task[t].base.session # None THEN rows
                   ELSE [rows EXCEPT ![i].session = i]
    IN  /\ task[t].pc = "adopt"
        /\ rows' = IF Unique(written) THEN Status(t, written, "running") ELSE rows
        /\ Ends(t)
        /\ UNCHANGED <<minted, daemons, net, conn, spent>>

-----------------------------------------------------------------------------
(* kill_workspace.                                                          *)

\* The reply may be lost after the record is gone, or before it is.
KillRecord(t) ==
    LET x == WireId(task[t].row, task[t].base)
        peer == Peer(task[t].route, task[t].want)
    IN  /\ task[t].pc = "kill"
        /\ \E d \in Daemons \cup {None} :
              /\ Answers(task[t].route, task[t].want, d)
              /\ \/ d = None /\ Ends(t) /\ UNCHANGED daemons
                 \/ d = None /\ peer # None /\ Ends(t) /\ Removes(peer, x) /\ UNCHANGED adrift
                 \/ /\ d = None /\ peer # None
                    /\ Ends(t) /\ Strays("kill", peer, x) /\ UNCHANGED <<held, alive, opened>>
                 \/ d # None /\ x \notin held[d] /\ Ends(t) /\ UNCHANGED daemons
                 \/ /\ d # None /\ x \in held[d] /\ Goto(t, "killed")
                    /\ Removes(d, x) /\ UNCHANGED <<lock, adrift>>
        /\ UNCHANGED <<registry, net>>

\* record_workspace_killed: session and daemon are cleared if the copy in hand has
\* one.
RecordKilled(t) ==
    LET i == task[t].row
        owned == task[t].base.session # None \/ task[t].base.daemon # None
        freed == IF rows[i] # None /\ owned
                 THEN [rows EXCEPT ![i].session = None, ![i].daemon = None] ELSE rows
    IN  /\ task[t].pc = "killed"
        /\ rows' = Status(t, freed, "stopped")
        /\ Ends(t)
        /\ UNCHANGED <<minted, daemons, net, conn, spent>>

-----------------------------------------------------------------------------
(* reconcile.                                                               *)

NextHost(t) ==
    /\ task[t].pc = "hosts"
    /\ IF task[t].todo = {} THEN Goto(t, "probe")
       ELSE \E r \in task[t].todo :
               task' = [task EXCEPT ![t].pc = "route", ![t].route = r, ![t].tries = 3,
                                    ![t].todo = @ \ {r}]
    /\ UNCHANGED <<registry, daemons, net, conn, lock, spent>>

\* list_host_workspaces: each row that mirrors a listed record is bound to the
\* daemon that listed it.  The row that names the daemon goes before one that
\* names none.  A write the index refuses is resolved: one of the two rows stays.
Rebind(t) ==
    LET r == task[t].route
        name == task[t].want
        known == task[t].known
        Same(x) == {i \in Used(known) : IsTheSameDaemonsRow(known[i], name, r, x)}
        Best(x) == IF \E i \in Same(x) : known[i].daemon # None
                   THEN {i \in Same(x) : known[i].daemon # None} ELSE Same(x)
        Bound(rs, i) == [rs EXCEPT ![i].host = r, ![i].daemon = name]
        Stands(i) == rows[i] # None /\ rows[i].host = known[i].host
                     /\ rows[i].daemon = known[i].daemon
        Owners(x) == {i \in Used(rows) : rows[i].daemon = name /\ rows[i].session = x}
    IN  /\ task[t].pc = "rebind"
        /\ \E x \in task[t].list :
              \/ /\ \A i \in Best(x) : known[i].host = r /\ known[i].daemon = name
                 /\ task' = [task EXCEPT ![t].list = @ \ {x}]
                 /\ UNCHANGED <<rows, lock>>
              \/ \E i \in Best(x) :
                    /\ known[i].host # r \/ known[i].daemon # name
                    /\ IF ~ Stands(i) \/ Unique(Bound(rows, i))
                       THEN /\ rows' = IF Stands(i) THEN Bound(rows, i) ELSE rows
                            /\ task' = [task EXCEPT ![t].list = @ \ {x}, ![t].changed = TRUE]
                            /\ UNCHANGED lock
                       ELSE IF name = None THEN UNCHANGED rows /\ Ends(t)
                       ELSE /\ \E o \in Owners(x), kept \in {i} \cup Owners(x) :
                                  rows' = Bound([j \in Ids |-> IF j \in {i, o} \ {kept} THEN None
                                                               ELSE rows[j]], kept)
                            /\ task' = [task EXCEPT ![t].list = @ \ {x}, ![t].changed = TRUE]
                            /\ UNCHANGED lock
        /\ UNCHANGED <<minted, daemons, net, conn, spent>>

\* Its end: the pass goes on with the rows as they are now.
HostListed(t) ==
    LET fresh == IF task[t].changed THEN rows ELSE task[t].known IN
    /\ task[t].pc = "rebind" /\ task[t].list = {}
    /\ task' = [task EXCEPT ![t].pc = "sessions", ![t].known = None, ![t].snap =
                    [i \in Ids |-> IF i \in task[t].left \cap Used(fresh) THEN fresh[i] ELSE @[i]]]
    /\ lock' = Unlocked(t)
    /\ UNCHANGED <<registry, daemons, net, conn, spent>>

\* list_identified: sessions of another daemon than the one that was listed are
\* not this host's answer.
Sessions(t) ==
    LET r == task[t].route IN
    /\ task[t].pc = "sessions"
    /\ \E d \in Daemons \cup {None} :
          /\ Answers(r, None, d)
          /\ task' = [task EXCEPT ![t] = [OffHost(@) EXCEPT !.told[r] =
                        IF task[t].left # {} /\ d # None /\ NameOf(d) = task[t].want
                        THEN [name |-> NameOf(d), live |-> alive[d], from |-> d] ELSE None]]
    /\ UNCHANGED <<registry, daemons, net, lock>>

\* record_probe, for a row whose host answered; the others keep their status.
Probe(t) ==
    /\ task[t].pc = "probe" /\ task[t].left # {}
    /\ \E i \in task[t].left :
          LET row == task[t].snap[i]
              told == task[t].told[row.host]
              asked == row.session # None /\ told # None /\ RowIsOn(row, told.name, row.host)
              status == IF row.session \in told.live THEN "running" ELSE "disconnected"
          IN  /\ rows' = IF asked /\ row.status # status /\ rows[i] # None
                         THEN [rows EXCEPT ![i].status = status] ELSE rows
              /\ task' = [task EXCEPT ![t].left = @ \ {i}, ![t].snap[i] = None]
    /\ UNCHANGED <<minted, daemons, net, conn, lock, spent>>

PassEnds(t) ==
    /\ task[t].pc = "probe" /\ task[t].left = {}
    /\ task' = [task EXCEPT ![t] = Idle]
    /\ UNCHANGED <<registry, daemons, net, conn, lock, spent>>

-----------------------------------------------------------------------------
(* Everything else.                                                         *)

\* The route comes to lead elsewhere, or nowhere.  A connection that stands may
\* go on standing.
Move(r, d) ==
    /\ d # at[r]
    /\ Fault
    /\ at' = [at EXCEPT ![r] = d]
    /\ met' = [met EXCEPT ![r] = @ \cup ({d} \ {None})]
    /\ \/ UNCHANGED conn
       \/ conn[r] # None /\ conn' = [conn EXCEPT ![r] = None]
    /\ UNCHANGED <<registry, daemons, lock, task>>

SessionEnds(d, x) ==
    /\ x \in alive[d]
    /\ Fault
    /\ alive' = [alive EXCEPT ![d] = @ \ {x}]
    /\ UNCHANGED <<registry, held, opened, adrift, net, conn, lock, task>>

\* A request whose sender has given it up, or has exited since, gets to its daemon.
Lands ==
    /\ \E q \in adrift :
          /\ adrift' = adrift \ {q}
          /\ IF q.op = "create" THEN Makes(q.at, q.id) /\ UNCHANGED opened
             ELSE Removes(q.at, q.id)
    /\ UNCHANGED <<registry, net, conn, lock, task, spent>>

\* The client exits and starts again.
ClientExits ==
    /\ \E t \in Tasks : task[t].pc # "idle"
    /\ Fault
    /\ task' = [t \in Tasks |-> Idle]
    /\ lock' = [k \in Routes \cup Daemons |-> None]
    /\ conn' = [r \in Routes |-> None]
    /\ met' = [r \in Routes |-> {at[r]} \ {None}]
    /\ UNCHANGED <<registry, daemons, at>>

Begins(t) ==
    \/ \E r \in Routes : Open(t, r) \/ ConfirmDiscovered(t, r, Theirs)
    \/ \E i \in Ids : KillWorkspace(t, i) \/ RecreateSession(t, i)
    \/ Reconcile(t)

Steps(t) ==
    \/ LockRoute(t) \/ Name(t) \/ LockInstance(t) \/ List(t)
    \/ ConfirmRecord(t) \/ Insert(t) \/ Exists(t) \/ LookUp(t) \/ Create(t) \/ Bind(t) \/ AdoptSession(t)
    \/ KillRecord(t) \/ RecordKilled(t)
    \/ NextHost(t) \/ Rebind(t) \/ HostListed(t) \/ Sessions(t) \/ Probe(t) \/ PassEnds(t)

Next ==
    \/ \E t \in Tasks : Begins(t) \/ Steps(t)
    \/ \E r \in Routes, d \in Daemons \cup {None} : Move(r, d)
    \/ \E d \in Daemons, x \in Ids : SessionEnds(d, x)
    \/ Lands
    \/ ClientExits

Spec == Init /\ [][Next]_vars

-----------------------------------------------------------------------------
(* Properties.                                                              *)

\* "Resolves a fresh connection under the contacted daemon's decision lock ... a
\* failed listing ... never authorizes creation": however many opens run, under
\* whatever spellings, and wherever the client exits, opens never leave a daemon
\* that has a name with two workspaces for one checkout.  What an open makes after
\* it was given an error is not counted: by then its locks are let go, and another
\* open may have listed the daemon.
OneWorkspacePerCheckout ==
    \A d \in Daemons \ Nameless : \A x, y \in opened[d] : x = y

\* "A host that cannot be reached fails alone: its rows come back Unknown with
\* their stored status untouched": a pass writes the status of a row that names
\* its daemon only from what that daemon answered in this pass.
OnlyItsDaemonSpeaks ==
    [][\A t \in Tasks, i \in Ids :
          /\ task[t].pc = "probe" /\ i \in task[t].left \ task'[t].left
          /\ rows'[i] # rows[i] /\ task[t].snap[i].daemon # None
          => \E r \in Routes :
                /\ task[t].told[r] # None /\ task[t].told[r].from = task[t].snap[i].daemon
                /\ (rows'[i].status = "running")
                      <=> (task[t].snap[i].session \in task[t].told[r].live)]_vars

\* "Unclaimed rows are permissive; persisted identities are fenced": a kill takes
\* a record, at once or late, only from the daemon its row named, or the one that
\* answered under the lock if that has a name, though another daemon may hold a
\* record of the same id.
KillStaysHome ==
    [][\A t \in Tasks, d \in Daemons :
          /\ task[t].pc = "kill" /\ task'[t].pc # "kill"
          /\ held'[d] # held[d] \/ \E q \in adrift' \ adrift : q.at = d
          => /\ task[t].want \in {None, NameOf(d)}
             /\ task[t].base.daemon \in {None, NameOf(d)}]_vars

\* The route is locked before the daemon it leads to, and every guard is dropped
\* where a function returns or tries again: an operation that waits for a lock
\* waits for one that can go on, never in a circle and never for one that is over.
NobodyWaitsInVain ==
    LET Waits(t) == \/ task[t].pc = "route" /\ lock[task[t].route] # None
                    \/ task[t].pc = "instance" /\ lock[task[t].want] # None
    IN  \A t \in Tasks : Waits(t) => \E u \in Tasks : task[u].pc # "idle" /\ ~ Waits(u)

-----------------------------------------------------------------------------
(* The inductive invariant behind these properties: what an operation knows *)
(* and which locks it holds at each of its steps, and that an open about to *)
(* create holds the lock of a daemon without any record an open made.       *)

Statuses == {"creating", "running", "stopped", "disconnected", "error"}
RowType == [host : Routes, daemon : Daemons \cup {None}, session : Ids \cup {None},
            status : Statuses, used : BOOLEAN]
Table == [Ids -> RowType \cup {None}]
Answer == [name : Daemons \cup {None}, live : SUBSET Ids, from : Daemons]

Asking  == {"route", "name", "instance", "list"}
OnRow   == {"exists", "spawn", "create", "bind", "adopt", "kill", "killed"}
OnHost  == {"rebind", "sessions"}
Pcs     == Asking \cup OnRow \cup OnHost \cup {"idle", "confirm", "insert", "hosts", "probe"}

TaskState ==
    [pc : Pcs, op : {"none", "open", "confirm", "kill", "recreate", "pass"},
     route : Routes \cup {None}, row : Ids \cup {None}, base : RowType \cup {None},
     want : Daemons \cup {None}, tries : Nat, list : SUBSET Ids, home : Daemons \cup {None},
     todo : SUBSET Routes, left : SUBSET Ids, known : Table \cup {None},
     snap : Table \cup {None}, changed : BOOLEAN, told : [Routes -> Answer \cup {None}]]

TypeOK ==
    /\ rows \in Table
    /\ held \in [Daemons -> SUBSET Ids] /\ alive \in [Daemons -> SUBSET Ids]
    /\ opened \in [Daemons -> SUBSET Ids]
    /\ adrift \subseteq [op : {"create", "kill"}, at : Daemons, id : Ids]
    /\ at \in [Routes -> Daemons \cup {None}] /\ conn \in [Routes -> Daemons \cup {None}]
    /\ met \in [Routes -> SUBSET Daemons]
    /\ lock \in [Routes \cup Daemons -> Tasks \cup {None}]
    /\ task \in [Tasks -> TaskState]

\* What an operation knows where it is.
Knows(s) ==
    /\ s.pc \in Asking \cup OnRow \cup OnHost \cup {"confirm", "insert"} => s.route \in Routes
    /\ s.pc \in Asking => s.op \in {"open", "confirm", "kill", "pass"}
    /\ s.pc \in OnHost \cup {"hosts", "probe"} => s.op = "pass"
    /\ s.op = "kill" \/ s.pc \in OnRow => s.row \in Ids /\ s.base \in RowType
    /\ s.op = "confirm" \/ s.pc = "confirm" => s.row \in Ids
    /\ s.pc = "instance" => s.want \in Daemons
    /\ s.op = "kill" /\ s.pc \in {"instance", "list"} => s.base.daemon \in {None, s.want}
    /\ s.pc = "kill" => s.base.daemon \in {None, s.want}
    /\ s.pc = "exists" => s.home = None
    /\ s.pc = "rebind" => s.known \in Table
    /\ s.op = "pass" => s.snap \in Table /\ \A i \in s.left : s.snap[i] \in RowType
    /\ \A r \in Routes : s.told[r] # None => s.told[r].name = NameOf(s.told[r].from)

\* Where an operation may hold the lock of a daemon, and that of a route.
HasInstance ==
    {"list", "confirm", "insert", "spawn", "create", "bind", "adopt", "kill", "killed", "rebind"}
HasRoute == HasInstance \cup {"name", "instance"}

LocksHeld ==
    /\ \A r \in Routes : lock[r] # None => task[lock[r]].pc \in HasRoute
    /\ \A d \in Daemons : lock[d] # None => task[lock[d]].pc \in HasInstance
    /\ \A t \in Tasks : task[t].pc = "list" /\ task[t].want # None => lock[task[t].want] = t

\* The daemon an open is about to create on.
CreatesOn(s) == IF s.pc \in {"insert", "spawn", "create"} THEN {s.home} \ ({None} \cup Nameless) ELSE {}

Claims ==
    /\ \A d \in Daemons : opened[d] \subseteq held[d]
    /\ OneWorkspacePerCheckout
    /\ \A t \in Tasks : \A d \in CreatesOn(task[t]) : lock[d] = t /\ opened[d] = {}

AdoptInv ==
    /\ TypeOK
    /\ \A t \in Tasks : Knows(task[t])
    /\ LocksHeld
    /\ Claims
=============================================================================
