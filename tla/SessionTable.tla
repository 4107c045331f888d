---------------------------- MODULE SessionTable ----------------------------
(***************************************************************************)
(* The session table of the ADE daemon: crates/ade_session_daemon,         *)
(* sessions.rs (SessionTable) over state.rs (StateStore).                  *)
(*                                                                         *)
(* The table holds workspaces and the sessions that live in them, runs one *)
(* shell per session, answers requests, announces every change to the      *)
(* subscribers of its event hub, and records both maps in a ledger file    *)
(* (sessions.json) that the next daemon loads.                             *)
(*                                                                         *)
(* One action is one critical section of the code.  `sessions`,            *)
(* `workspaces`, `pending` and `events` are held only inside a section, so *)
(* they need no variable; `persisting` is held across sections and is the  *)
(* variable of that name.  Workers is the set of threads that run request  *)
(* handlers: one for the daemon's default executor, several when it is     *)
(* given more threads or the table is called from several.                 *)
(*                                                                         *)
(* A layout document is abstracted to the set of sessions its terminal     *)
(* tabs name, a name to a member of Names.                                 *)
(***************************************************************************)
EXTENDS Naturals, FiniteSets

CONSTANTS
    SessionIds,       \* ids the daemon may mint for sessions
    WorkspaceIds,     \* ids the daemon may mint for workspaces
    Names,            \* display names of workspaces
    Workers,          \* threads that run request handlers
    Nobody,           \* "no thread holds the lock"
    Gone,             \* "no such key in the map"
    Flat,             \* the empty workspace id of a pre-workspace ledger row
    Ops,              \* the requests clients send
    InitialLedgers,   \* the ledgers the first daemon may find on disk
    MaxRev,           \* bound: the largest layout revision a client sends
    MaxSaveFailures,  \* bound: ledger writes that fail
    MaxRestarts       \* bound: times the daemon dies and is started again

AllOps == {"create", "kill", "create_workspace", "kill_workspace",
           "update_layout", "rename"}

\* WorkspaceInfo, as far as a handler tells one from another.
Info == [layout : SUBSET SessionIds, rev : Nat, name : Names]

\* Session: the workspace it belongs to, and whether it is a row inherited
\* from a dead daemon (no pty, no process).
Row == [home : WorkspaceIds, lost : BOOLEAN]

\* The contents of sessions.json.
Ledger == [sessions   : [SessionIds -> WorkspaceIds \cup {Gone, Flat}],
           workspaces : [WorkspaceIds -> Info \cup {Gone}]]

ASSUME ConstantsAssumption ==
    /\ Nobody \notin Workers
    /\ Gone \notin Info /\ Gone \notin Row /\ Gone \notin Ledger
    /\ Gone \notin WorkspaceIds /\ Flat \notin WorkspaceIds /\ Gone # Flat
    /\ Gone \notin SessionIds /\ SessionIds \cap WorkspaceIds = {}
    /\ Names # {}
    /\ Ops \subseteq AllOps
    /\ InitialLedgers \subseteq Ledger
    /\ MaxRev \in Nat /\ MaxSaveFailures \in Nat /\ MaxRestarts \in Nat

VARIABLES
    rows,        \* SessionTable.sessions
    workspaces,  \* SessionTable.workspaces
    pending,     \* SessionTable.pending: reserved rows, by session id
    persisting,  \* who holds SessionTable.persisting
    snap,        \* what each worker has snapshotted and is writing
    job,         \* the request each worker is serving
    child,       \* the process behind each session id
    disk,        \* sessions.json
    minted,      \* ids handed out so far: a uuid is never minted twice
    announced,   \* sessions a subscriber of the event hub believes in
    shown,       \* workspaces a subscriber of the event hub believes in
    failures,    \* ledger writes that have failed
    restarts     \* daemons that have died

table == <<rows, workspaces, pending>>
events == <<announced, shown>>
bounds == <<failures, restarts>>
vars == <<rows, workspaces, pending, persisting, snap, job, child, disk,
          minted, announced, shown, failures, restarts>>

-----------------------------------------------------------------------------
(* A worker's job: where its handler is, the request's subject, the record  *)
(* the handler captured (`new`), the one it would roll back to (`old`), the *)
(* sessions whose processes it must kill, the answer, and the state of the  *)
(* ledger write it is waiting for.                                          *)

\* Handlers that keep `persisting` from their first section to their last.
ClassB == {"layout", "rename"}

Places == {"idle", "reserve", "reserving", "spawn", "abandon", "record",
           "release", "commit", "undo", "undoing", "undone", "killing",
           "killed", "clearing", "cleared", "opening", "retract",
           "layout", "rename", "reply"}

Writes == {"none", "queued", "writing", "ok", "failed"}

Answers == {"none", "ok", "not_found", "stale_rev", "invalid_argument",
            "persist_failed", "internal"}

Jobs == [pc     : Places,
         op     : AllOps \cup {"none"},
         ws     : WorkspaceIds \cup {Gone},
         id     : SessionIds \cup {Gone},
         new    : Info \cup {Gone},
         old    : Info \cup {Gone},
         doomed : SUBSET SessionIds,
         answer : Answers,
         write  : Writes]

Idle == [pc |-> "idle", op |-> "none", ws |-> Gone, id |-> Gone, new |-> Gone,
         old |-> Gone, doomed |-> {}, answer |-> "none", write |-> "none"]

TypeOK ==
    /\ rows \in [SessionIds -> Row \cup {Gone}]
    /\ workspaces \in [WorkspaceIds -> Info \cup {Gone}]
    /\ pending \in [SessionIds -> WorkspaceIds \cup {Gone}]
    /\ persisting \in Workers \cup {Nobody}
    /\ snap \in [Workers -> Ledger \cup {Gone}]
    /\ job \in [Workers -> Jobs]
    /\ child \in [SessionIds -> {"none", "running", "dead"}]
    /\ disk \in Ledger
    /\ minted \subseteq SessionIds \cup WorkspaceIds
    /\ announced \subseteq SessionIds
    /\ shown \in [WorkspaceIds -> Info \cup {Gone}]
    /\ failures \in Nat
    /\ restarts \in Nat

\* The sessions of the table that belong to workspace w.
SessionsIn(w) == {s \in SessionIds : rows[s] # Gone /\ rows[s].home = w}

\* new_workspace: revision zero and no document.
NewWorkspace(n) == [layout |-> {}, rev |-> 0, name |-> n]

\* persist_serialized's snapshot: rows that are not lost (keeps_a_live_terminal
\* is false), reservations that are not rows yet, every workspace.
Snapshot(r, p, w) ==
    [sessions   |-> [s \in SessionIds |->
                        IF r[s] = Gone THEN p[s]
                        ELSE IF r[s].lost THEN Gone ELSE r[s].home],
     workspaces |-> w]

-----------------------------------------------------------------------------
(* What the frames of the event hub add up to for a subscriber.             *)

\* A Workspace or LayoutChanged frame: a subscriber takes the layout only if
\* its revision is news (layout.rs, broadcast_action).
Newest(seen, info) ==
    IF info.rev > seen.rev THEN [seen EXCEPT !.layout = info.layout, !.rev = info.rev]
    ELSE seen

ShowWorkspace(w, info) ==
    IF shown[w] = Gone THEN [shown EXCEPT ![w] = info]
    ELSE [shown EXCEPT ![w] = [Newest(shown[w], info) EXCEPT !.name = info.name]]

ShowLayout(w, info) ==
    IF shown[w] = Gone THEN shown
    ELSE [shown EXCEPT ![w] = Newest(shown[w], info)]

-----------------------------------------------------------------------------
(* Building a table from a ledger: SessionTable::load.                      *)

Recorded(d) == {s \in SessionIds : d.sessions[s] # Gone}

\* Fresh workspace ids for the rows that name none.
Wrappings(d, used) ==
    LET flat == {s \in SessionIds : d.sessions[s] = Flat}
        free == {w \in WorkspaceIds \ used : d.workspaces[w] = Gone
                                /\ \A s \in SessionIds : d.sessions[s] # w}
    IN  {f \in [flat -> free] : \A s, t \in flat : f[s] = f[t] => s = t}

\* The workspace id of each recorded row once flat rows are wrapped.
HomeOf(d, wrap) ==
    [s \in Recorded(d) |-> IF d.sessions[s] = Flat THEN wrap[s] ELSE d.sessions[s]]

\* Workspaces made up for rows whose record is missing; the first such row in
\* the file gives the new workspace its one tab.
Adopted(d, home) == {w \in WorkspaceIds : d.workspaces[w] = Gone
                                          /\ \E s \in Recorded(d) : home[s] = w}

FirstTabs(d, home) ==
    {f \in [Adopted(d, home) -> Recorded(d)] :
        \A w \in Adopted(d, home) : home[f[w]] = w}

LoadedRows(d, home) ==
    [s \in SessionIds |-> IF s \in Recorded(d) THEN [home |-> home[s], lost |-> TRUE]
                          ELSE Gone]

\* Mutants of LoadedWorkspaces: layouts are restored unpruned; a row whose
\* workspace has no record is not given one.
LoadedUnpruned(d, home, first, n) ==
    [w \in WorkspaceIds |->
        IF w \in Adopted(d, home)
        THEN [layout |-> {first[w]}, rev |-> 1, name |-> n]
        ELSE d.workspaces[w]]

LoadedHomeless(d, home, first, n) ==
    [w \in WorkspaceIds |->
        IF d.workspaces[w] = Gone THEN Gone
        ELSE [d.workspaces[w] EXCEPT !.layout =
                {s \in @ : s \in Recorded(d) /\ home[s] = w}]]

\* Restored and adopted workspaces, their layouts pruned of tabs that name a
\* session of another workspace or of none.  The revision does not move.
LoadedWorkspaces(d, home, first, n) ==
    [w \in WorkspaceIds |->
        IF w \in Adopted(d, home)
        THEN [layout |-> {first[w]}, rev |-> 1, name |-> n]
        ELSE IF d.workspaces[w] = Gone THEN Gone
        ELSE [d.workspaces[w] EXCEPT !.layout =
                {s \in @ : s \in Recorded(d) /\ home[s] = w}]]

\* The tables load may build from ledger d; the display name of an adopted
\* workspace comes from the row's label or directory.
Loaded(d, used) ==
    UNION {{[rows       |-> LoadedRows(d, HomeOf(d, wrap)),
             workspaces |-> LoadedWorkspaces(d, HomeOf(d, wrap), first, n)]
               : first \in FirstTabs(d, HomeOf(d, wrap)), n \in Names}
            : wrap \in Wrappings(d, used)}

\* load rewrites the ledger when it found rows or changed a workspace, and
\* only warns when that write fails; lost rows are not written again.
Rewrites(d, t) == Recorded(d) # {} \/ t.workspaces # d.workspaces

Rewritten(d, t, ok) ==
    IF ok /\ Rewrites(d, t)
    THEN Snapshot(t.rows, [s \in SessionIds |-> Gone], t.workspaces)
    ELSE d

NoPending == [s \in SessionIds |-> Gone]

Init ==
    \E d \in InitialLedgers, ok \in BOOLEAN : \E t \in Loaded(d, {}) :
        /\ ok \/ (Rewrites(d, t) /\ MaxSaveFailures > 0)
        /\ rows = t.rows
        /\ workspaces = t.workspaces
        /\ disk = Rewritten(d, t, ok)
        /\ pending = NoPending
        /\ persisting = Nobody
        /\ snap = [k \in Workers |-> Gone]
        /\ job = [k \in Workers |-> Idle]
        /\ child = [s \in SessionIds |-> IF t.rows[s] = Gone THEN "none" ELSE "dead"]
        /\ minted = {s \in SessionIds : t.rows[s] # Gone}
                    \cup {w \in WorkspaceIds : t.workspaces[w] # Gone}
        /\ announced = {s \in SessionIds : t.rows[s] # Gone}
        /\ shown = t.workspaces
        /\ failures = IF ok THEN 0 ELSE 1
        /\ restarts = 0

-----------------------------------------------------------------------------
(* Job steps.                                                               *)

Goto(k, j) == job' = [job EXCEPT ![k] = j]

At(k, pc) == job[k].pc = pc

\* The handler returns; the server queues the answer on the connection.
Answer(j, a) == [j EXCEPT !.pc = "reply", !.old = Gone, !.doomed = {},
                          !.answer = a, !.write = "none"]

Start(op, w, s) == [Idle EXCEPT !.op = op, !.ws = w, !.id = s]

\* The handler calls persist() and waits for its result at pc.
Persist(j, pc) == [j EXCEPT !.pc = pc, !.write = "queued"]

Then(j, pc) == [j EXCEPT !.pc = pc, !.write = "none"]

Returned(k) == job[k].write \in {"ok", "failed"}

\* serve_connection: the answer is queued and the next frame is read.
Reply(k) ==
    /\ At(k, "reply")
    /\ Goto(k, Idle)
    /\ UNCHANGED <<table, persisting, snap, child, disk, minted, events, bounds>>

-----------------------------------------------------------------------------
(* persist and persist_serialized: take `persisting` unless the handler     *)
(* holds it already, snapshot both maps under their locks, write the file   *)
(* with only `persisting` held, let go unless the handler goes on.          *)

\* Mutant: the snapshot is taken, and written, outside `persisting`.
TakeSnapshotUnlocked(k) ==
    /\ job[k].write = "queued"
    /\ snap' = [snap EXCEPT ![k] = Snapshot(rows, pending, workspaces)]
    /\ Goto(k, [job[k] EXCEPT !.write = "writing"])
    /\ UNCHANGED <<table, persisting, child, disk, minted, events, bounds>>

TakeSnapshot(k) ==
    /\ job[k].write = "queued"
    /\ persisting = IF job[k].pc \in ClassB THEN k ELSE Nobody
    /\ persisting' = k
    /\ snap' = [snap EXCEPT ![k] = Snapshot(rows, pending, workspaces)]
    /\ Goto(k, [job[k] EXCEPT !.write = "writing"])
    /\ UNCHANGED <<table, child, disk, minted, events, bounds>>

\* write_atomic replaced the file, or failed and left the old one.
Save(k, ok) ==
    /\ job[k].write = "writing"
    /\ ok \/ failures < MaxSaveFailures
    /\ disk' = IF ok THEN snap[k] ELSE disk
    /\ failures' = IF ok THEN failures ELSE failures + 1
    /\ snap' = [snap EXCEPT ![k] = Gone]
    /\ persisting' = IF job[k].pc \in ClassB THEN k ELSE Nobody
    /\ Goto(k, [job[k] EXCEPT !.write = IF ok THEN "ok" ELSE "failed"])
    /\ UNCHANGED <<table, child, minted, events, restarts>>

-----------------------------------------------------------------------------
(* create: reserve a ledger row, spawn the shell, insert the row, write it, *)
(* announce it; undo everything when the write fails or the workspace went. *)

\* require_workspace, openpty (which may fail) and the id the row will have.
CreateSession(k, w, s) ==
    /\ "create" \in Ops /\ At(k, "idle")
    /\ s \notin minted
    /\ \/ /\ workspaces[w] = Gone
          /\ Goto(k, Answer(Start("create", w, Gone), "not_found"))
          /\ UNCHANGED minted
       \/ /\ workspaces[w] # Gone
          /\ Goto(k, Answer(Start("create", w, Gone), "internal"))
          /\ UNCHANGED minted
       \/ /\ workspaces[w] # Gone
          /\ Goto(k, Then(Start("create", w, s), "reserve"))
          /\ minted' = minted \cup {s}
    /\ UNCHANGED <<table, persisting, snap, child, disk, events, bounds>>

\* Mutant: the reservation stays in memory until the row is committed.
ReserveUnwritten(k) ==
    /\ At(k, "reserve")
    /\ pending' = [pending EXCEPT ![job[k].id] = job[k].ws]
    /\ Goto(k, Then(job[k], "spawn"))
    /\ UNCHANGED <<rows, workspaces, persisting, snap, child, disk, minted,
                   events, bounds>>

\* reserve: the row is pending before it is written.
Reserve(k) ==
    /\ At(k, "reserve")
    /\ pending' = [pending EXCEPT ![job[k].id] = job[k].ws]
    /\ Goto(k, Persist(job[k], "reserving"))
    /\ UNCHANGED <<rows, workspaces, persisting, snap, child, disk, minted,
                   events, bounds>>

Reserved(k) ==
    /\ At(k, "reserving") /\ Returned(k)
    /\ \/ /\ job[k].write = "ok"
          /\ Goto(k, Then(job[k], "spawn"))
          /\ UNCHANGED pending
       \/ /\ job[k].write = "failed"
          /\ pending' = [pending EXCEPT ![job[k].id] = Gone]
          /\ Goto(k, Answer(job[k], "persist_failed"))
    /\ UNCHANGED <<rows, workspaces, persisting, snap, child, disk, minted,
                   events, bounds>>

\* spawn_command, then the pty's reader and writer.  When either fails the
\* reservation is withdrawn first and the child, if there is one, is abandoned
\* after that write.
Spawn(k, spawned, handles) ==
    /\ At(k, "spawn")
    /\ handles => spawned
    /\ child' = IF spawned THEN [child EXCEPT ![job[k].id] = "running"] ELSE child
    /\ IF handles
       THEN Goto(k, Then(job[k], "record")) /\ UNCHANGED pending
       ELSE /\ pending' = [pending EXCEPT ![job[k].id] = Gone]
            /\ Goto(k, Persist(job[k], "abandon"))
    /\ UNCHANGED <<rows, workspaces, persisting, snap, disk, minted, events, bounds>>

\* Mutant: the error goes out and the child is dropped without being killed.
AbandonedAlive(k) ==
    /\ At(k, "abandon") /\ Returned(k)
    /\ Goto(k, Answer(job[k], "internal"))
    /\ UNCHANGED <<table, persisting, snap, child, disk, minted, events, bounds>>

\* abandon_reservation returned, whatever became of its write.
Abandoned(k) ==
    /\ At(k, "abandon") /\ Returned(k)
    /\ child' = [child EXCEPT ![job[k].id] = IF @ = "running" THEN "dead" ELSE @]
    /\ Goto(k, Answer(job[k], "internal"))
    /\ UNCHANGED <<table, persisting, snap, disk, minted, events, bounds>>

RecordCreated(k) ==
    /\ At(k, "record")
    /\ rows' = [rows EXCEPT ![job[k].id] = [home |-> job[k].ws, lost |-> FALSE]]
    /\ Goto(k, Then(job[k], "release"))
    /\ UNCHANGED <<workspaces, pending, persisting, snap, child, disk, minted,
                   events, bounds>>

\* commit_created, first half: the row supersedes the reservation.
Release(k) ==
    /\ At(k, "release")
    /\ pending' = [pending EXCEPT ![job[k].id] = Gone]
    /\ Goto(k, Persist(job[k], "commit"))
    /\ UNCHANGED <<rows, workspaces, persisting, snap, child, disk, minted,
                   events, bounds>>

\* Mutant: a refusal is answered without undoing the create.
CommitCreatedKept(k) ==
    LET j == job[k] IN
    /\ At(k, "commit") /\ Returned(k)
    /\ \/ /\ j.write = "failed" \/ workspaces[j.ws] = Gone
          /\ Goto(k, Answer(j, "persist_failed"))
          /\ UNCHANGED announced
       \/ /\ j.write = "ok" /\ workspaces[j.ws] # Gone
          /\ Goto(k, Answer(j, "ok"))
          /\ announced' = IF rows[j.id] = Gone THEN announced ELSE announced \cup {j.id}
    /\ UNCHANGED <<table, persisting, snap, child, disk, minted, shown, bounds>>

\* commit_created, second half: recheck the workspace, then the row, and
\* announce the session only if both are there.
CommitCreated(k) ==
    LET j == job[k] IN
    /\ At(k, "commit") /\ Returned(k)
    /\ \/ /\ j.write = "failed"
          /\ Goto(k, [Then(j, "undo") EXCEPT !.answer = "persist_failed"])
          /\ UNCHANGED announced
       \/ /\ j.write = "ok" /\ workspaces[j.ws] = Gone
          /\ Goto(k, [Then(j, "undo") EXCEPT !.answer = "not_found"])
          /\ UNCHANGED announced
       \/ /\ j.write = "ok" /\ workspaces[j.ws] # Gone
          /\ Goto(k, Answer(j, "ok"))
          /\ announced' = IF rows[j.id] = Gone THEN announced
                          ELSE announced \cup {j.id}
    /\ UNCHANGED <<table, persisting, snap, child, disk, minted, shown, bounds>>

-----------------------------------------------------------------------------
(* remove_session: the row, its announcements and its tab go in one         *)
(* section; then the process is killed, and only then the ledger written.   *)

\* scrub_layout: the revision moves only if the session held a tab.
Scrubbed(w, s) == [workspaces[w] EXCEPT !.layout = @ \ {s}, !.rev = @ + 1]

RemoveRow(s) ==
    LET w == rows[s].home
        tab == workspaces[w] # Gone /\ s \in workspaces[w].layout
    IN  /\ rows' = [rows EXCEPT ![s] = Gone]
        /\ announced' = announced \ {s}
        /\ workspaces' = IF tab THEN [workspaces EXCEPT ![w] = Scrubbed(w, s)]
                         ELSE workspaces
        /\ shown' = IF tab THEN ShowLayout(w, Scrubbed(w, s)) ELSE shown

\* create's compensation.  remove_session finds no row when a kill was first;
\* either way create abandons the child it still holds.
Undo(k) ==
    LET j == job[k] IN
    /\ At(k, "undo")
    /\ \/ /\ rows[j.id] # Gone
          /\ RemoveRow(j.id)
          /\ Goto(k, [Then(j, "undoing") EXCEPT !.doomed = {j.id}])
          /\ UNCHANGED child
       \/ /\ rows[j.id] = Gone
          /\ child' = [child EXCEPT ![j.id] = "dead"]
          /\ Goto(k, Answer(j, j.answer))
          /\ UNCHANGED <<rows, workspaces, events>>
    /\ UNCHANGED <<pending, persisting, snap, disk, minted, bounds>>

Kill(k, s) ==
    /\ "kill" \in Ops /\ At(k, "idle") /\ s \in minted
    /\ LET j == Start("kill", Gone, s)
       IN  \/ /\ rows[s] = Gone
              /\ Goto(k, Answer(j, "not_found"))
              /\ UNCHANGED <<rows, workspaces, events>>
           \/ /\ rows[s] # Gone
              /\ RemoveRow(s)
              /\ Goto(k, [Then(j, "killing") EXCEPT !.doomed = {s}])
    /\ UNCHANGED <<pending, persisting, snap, child, disk, minted, bounds>>

\* kill_session_process and its wait, then release, then persist.
KillProcess(k) ==
    LET j == job[k] IN
    /\ j.pc \in {"undoing", "killing"}
    /\ child' = [s \in SessionIds |-> IF s \in j.doomed THEN "dead" ELSE child[s]]
    /\ pending' = [pending EXCEPT ![j.id] = Gone]
    /\ Goto(k, Persist([j EXCEPT !.doomed = {}],
                       IF j.pc = "undoing" THEN "undone" ELSE "killed"))
    /\ UNCHANGED <<rows, workspaces, persisting, snap, disk, minted, events, bounds>>

Undone(k) ==
    /\ At(k, "undone") /\ Returned(k)
    /\ Goto(k, Answer(job[k], job[k].answer))
    /\ UNCHANGED <<table, persisting, snap, child, disk, minted, events, bounds>>

\* Mutant: a removal that could not be recorded is logged and acked.
KilledAnyway(k) ==
    /\ At(k, "killed") /\ Returned(k)
    /\ Goto(k, Answer(job[k], "ok"))
    /\ UNCHANGED <<table, persisting, snap, child, disk, minted, events, bounds>>

Killed(k) ==
    /\ At(k, "killed") /\ Returned(k)
    /\ Goto(k, Answer(job[k], IF job[k].write = "ok" THEN "ok" ELSE "persist_failed"))
    /\ UNCHANGED <<table, persisting, snap, child, disk, minted, events, bounds>>

-----------------------------------------------------------------------------
(* create_workspace (commit_workspace with nothing held): the record is in  *)
(* the map before it is written, and taken back out if the write fails.     *)

CreateWorkspace(k, w, n) ==
    /\ "create_workspace" \in Ops /\ At(k, "idle")
    /\ w \notin minted
    /\ minted' = minted \cup {w}
    /\ workspaces' = [workspaces EXCEPT ![w] = NewWorkspace(n)]
    /\ Goto(k, Persist([Start("create_workspace", w, Gone) EXCEPT !.new = NewWorkspace(n)],
                       "opening"))
    /\ UNCHANGED <<rows, pending, persisting, snap, child, disk, events, bounds>>

CommitWorkspace(k) ==
    LET j == job[k] IN
    /\ At(k, "opening") /\ Returned(k)
    /\ \/ /\ j.write = "failed"
          /\ workspaces' = [workspaces EXCEPT ![j.ws] = Gone]
          /\ Goto(k, IF workspaces[j.ws] = Gone THEN Answer(j, "persist_failed")
                     ELSE Then(j, "retract"))
          /\ UNCHANGED shown
       \/ /\ j.write = "ok" /\ workspaces[j.ws] = Gone
          /\ Goto(k, Answer(j, "not_found"))
          /\ UNCHANGED <<workspaces, shown>>
       \/ /\ j.write = "ok" /\ workspaces[j.ws] # Gone
          /\ shown' = ShowWorkspace(j.ws, j.new)
          /\ Goto(k, Answer(j, "ok"))
          /\ UNCHANGED workspaces
    /\ UNCHANGED <<rows, pending, persisting, snap, child, disk, minted, announced, bounds>>

\* The compensating workspace_removed, after the map's lock was let go.
Retract(k) ==
    /\ At(k, "retract")
    /\ shown' = [shown EXCEPT ![job[k].ws] = Gone]
    /\ Goto(k, Answer(job[k], "persist_failed"))
    /\ UNCHANGED <<table, persisting, snap, child, disk, minted, announced, bounds>>

-----------------------------------------------------------------------------
(* kill_workspace: the record, its sessions, its reservations and all the   *)
(* announcements in one section; the processes and the ledger after it.     *)

KillWorkspace(k, w) ==
    /\ "kill_workspace" \in Ops /\ At(k, "idle") /\ w \in minted
    /\ LET j == Start("kill_workspace", w, Gone)
           doomed == SessionsIn(w)
       IN  \/ /\ workspaces[w] = Gone /\ doomed = {}
              /\ Goto(k, Answer(j, "not_found"))
              /\ UNCHANGED <<table, events>>
           \/ /\ workspaces[w] # Gone \/ doomed # {}
              /\ workspaces' = [workspaces EXCEPT ![w] = Gone]
              /\ rows' = [s \in SessionIds |-> IF s \in doomed THEN Gone ELSE rows[s]]
              /\ pending' = [s \in SessionIds |-> IF pending[s] = w THEN Gone ELSE pending[s]]
              /\ announced' = announced \ doomed
              /\ shown' = [shown EXCEPT ![w] = Gone]
              /\ Goto(k, [Then(j, "clearing") EXCEPT !.doomed = doomed])
    /\ UNCHANGED <<persisting, snap, child, disk, minted, bounds>>

KillDoomed(k) ==
    LET j == job[k] IN
    /\ At(k, "clearing")
    /\ child' = [s \in SessionIds |-> IF s \in j.doomed THEN "dead" ELSE child[s]]
    /\ Goto(k, Persist([j EXCEPT !.doomed = {}], "cleared"))
    /\ UNCHANGED <<table, persisting, snap, disk, minted, events, bounds>>

Cleared(k) ==
    /\ At(k, "cleared") /\ Returned(k)
    /\ Goto(k, Answer(job[k], IF job[k].write = "ok" THEN "ok" ELSE "persist_failed"))
    /\ UNCHANGED <<table, persisting, snap, child, disk, minted, events, bounds>>

-----------------------------------------------------------------------------
(* The class-B mutations: apply, write, announce, all under `persisting`;   *)
(* a failed write is rolled back and never announced.                       *)

UpdateLayout(k, w, doc, rev) ==
    /\ "update_layout" \in Ops /\ At(k, "idle") /\ w \in minted
    /\ persisting = Nobody
    /\ LET j == Start("update_layout", w, Gone)
           was == workspaces[w]
           now == [was EXCEPT !.layout = doc, !.rev = rev]
       IN  \/ /\ was = Gone
              /\ Goto(k, Answer(j, "not_found"))
              /\ UNCHANGED <<workspaces, persisting>>
           \/ /\ was # Gone /\ rev <= was.rev
              /\ Goto(k, Answer(j, "stale_rev"))
              /\ UNCHANGED <<workspaces, persisting>>
           \/ /\ was # Gone /\ rev > was.rev /\ ~ doc \subseteq SessionsIn(w)
              /\ Goto(k, Answer(j, "invalid_argument"))
              /\ UNCHANGED <<workspaces, persisting>>
           \/ /\ was # Gone /\ rev > was.rev /\ doc \subseteq SessionsIn(w)
              /\ workspaces' = [workspaces EXCEPT ![w] = now]
              /\ persisting' = k
              /\ Goto(k, Persist([j EXCEPT !.old = was, !.new = now], "layout"))
    /\ UNCHANGED <<rows, pending, snap, child, disk, minted, events, bounds>>

\* Mutants of LayoutWritten: the layout is announced whether it was written or
\* not; `persisting` is not let go when the workspace went meanwhile.
LayoutAnnouncedAnyway(k) ==
    LET j == job[k] IN
    /\ At(k, "layout") /\ Returned(k)
    /\ workspaces' = IF j.write = "ok" \/ workspaces[j.ws] = Gone THEN workspaces
                     ELSE [workspaces EXCEPT ![j.ws].layout = j.old.layout,
                                             ![j.ws].rev = j.old.rev]
    /\ shown' = ShowLayout(j.ws, j.new)
    /\ Goto(k, Answer(j, IF j.write = "ok" THEN "ok" ELSE "persist_failed"))
    /\ persisting' = Nobody
    /\ UNCHANGED <<rows, pending, snap, child, disk, minted, announced, bounds>>

LayoutGoneLocked(k) ==
    LET j == job[k] IN
    /\ At(k, "layout") /\ Returned(k)
    /\ shown' = ShowLayout(j.ws, j.new)
    /\ Goto(k, Answer(j, "ok"))
    /\ persisting' = IF workspaces[j.ws] = Gone THEN persisting ELSE Nobody
    /\ UNCHANGED <<table, snap, child, disk, minted, announced, bounds>>

\* A failed write restores what the layout was, if the workspace is still
\* there; a written one is announced without another look at the workspace.
LayoutWritten(k) ==
    LET j == job[k] IN
    /\ At(k, "layout") /\ Returned(k)
    /\ \/ /\ j.write = "failed"
          /\ workspaces' = IF workspaces[j.ws] = Gone THEN workspaces
                           ELSE [workspaces EXCEPT ![j.ws].layout = j.old.layout,
                                                   ![j.ws].rev = j.old.rev]
          /\ Goto(k, Answer(j, "persist_failed"))
          /\ UNCHANGED shown
       \/ /\ j.write = "ok"
          /\ shown' = ShowLayout(j.ws, j.new)
          /\ Goto(k, Answer(j, "ok"))
          /\ UNCHANGED workspaces
    /\ persisting' = Nobody
    /\ UNCHANGED <<rows, pending, snap, child, disk, minted, announced, bounds>>

RenameWorkspace(k, w, n) ==
    /\ "rename" \in Ops /\ At(k, "idle") /\ w \in minted
    /\ persisting = Nobody
    /\ LET j == Start("rename", w, Gone)
           was == workspaces[w]
           now == [was EXCEPT !.name = n]
       IN  \/ /\ was = Gone
              /\ Goto(k, Answer(j, "not_found"))
              /\ UNCHANGED <<workspaces, persisting>>
           \/ /\ was # Gone
              /\ workspaces' = [workspaces EXCEPT ![w] = now]
              /\ persisting' = k
              /\ Goto(k, Persist([j EXCEPT !.old = was, !.new = now], "rename"))
    /\ UNCHANGED <<rows, pending, snap, child, disk, minted, events, bounds>>

\* Mutant: a rename that could not be written is not rolled back.
RenameKept(k) ==
    LET j == job[k] IN
    /\ At(k, "rename") /\ Returned(k)
    /\ \/ /\ j.write = "failed" \/ workspaces[j.ws] = Gone
          /\ Goto(k, Answer(j, "persist_failed"))
          /\ UNCHANGED shown
       \/ /\ j.write = "ok" /\ workspaces[j.ws] # Gone
          /\ shown' = ShowWorkspace(j.ws, j.new)
          /\ Goto(k, Answer(j, "ok"))
    /\ persisting' = Nobody
    /\ UNCHANGED <<table, snap, child, disk, minted, announced, bounds>>

\* Like LayoutWritten, but the workspace is looked up again before the
\* announcement, which carries the record as it was captured.
RenameWritten(k) ==
    LET j == job[k] IN
    /\ At(k, "rename") /\ Returned(k)
    /\ \/ /\ j.write = "failed"
          /\ workspaces' = IF workspaces[j.ws] = Gone THEN workspaces
                           ELSE [workspaces EXCEPT ![j.ws].name = j.old.name]
          /\ Goto(k, Answer(j, "persist_failed"))
          /\ UNCHANGED shown
       \/ /\ j.write = "ok" /\ workspaces[j.ws] = Gone
          /\ Goto(k, Answer(j, "not_found"))
          /\ UNCHANGED <<workspaces, shown>>
       \/ /\ j.write = "ok" /\ workspaces[j.ws] # Gone
          /\ shown' = ShowWorkspace(j.ws, j.new)
          /\ Goto(k, Answer(j, "ok"))
          /\ UNCHANGED workspaces
    /\ persisting' = Nobody
    /\ UNCHANGED <<rows, pending, snap, child, disk, minted, announced, bounds>>

-----------------------------------------------------------------------------
(* The daemon dies, at any point of any handler, and a new one loads the    *)
(* file.  Its ptys went with it.  A subscriber reconnects and starts from   *)
(* the new daemon's listing.                                                *)

Restart ==
    /\ restarts < MaxRestarts
    /\ restarts' = restarts + 1
    /\ \E t \in Loaded(disk, minted), ok \in BOOLEAN :
          /\ ok \/ (Rewrites(disk, t) /\ failures < MaxSaveFailures)
          /\ rows' = t.rows
          /\ workspaces' = t.workspaces
          /\ disk' = Rewritten(disk, t, ok)
          /\ failures' = IF ok THEN failures ELSE failures + 1
          /\ announced' = {s \in SessionIds : t.rows[s] # Gone}
          /\ shown' = t.workspaces
          /\ minted' = minted \cup {s \in SessionIds : t.rows[s] # Gone}
                              \cup {w \in WorkspaceIds : t.workspaces[w] # Gone}
    /\ pending' = NoPending
    /\ persisting' = Nobody
    /\ snap' = [k \in Workers |-> Gone]
    /\ job' = [k \in Workers |-> Idle]
    /\ child' = [s \in SessionIds |-> IF child[s] = "running" THEN "dead" ELSE child[s]]

\* What one worker does next.
Step(k) ==
    \/ Reply(k)
    \/ TakeSnapshot(k)
    \/ \E ok \in BOOLEAN : Save(k, ok)
    \/ Reserve(k)
    \/ Reserved(k)
    \/ \E spawned, handles \in BOOLEAN : Spawn(k, spawned, handles)
    \/ Abandoned(k)
    \/ RecordCreated(k)
    \/ Release(k)
    \/ CommitCreated(k)
    \/ Undo(k)
    \/ KillProcess(k)
    \/ Undone(k)
    \/ Killed(k)
    \/ CommitWorkspace(k)
    \/ Retract(k)
    \/ KillDoomed(k)
    \/ Cleared(k)
    \/ LayoutWritten(k)
    \/ RenameWritten(k)

\* The requests an idle worker may be handed.
Request(k) ==
    \/ \E w \in WorkspaceIds, s \in SessionIds : CreateSession(k, w, s)
    \/ \E s \in SessionIds : Kill(k, s)
    \/ \E w \in WorkspaceIds, n \in Names : CreateWorkspace(k, w, n)
    \/ \E w \in WorkspaceIds : KillWorkspace(k, w)
    \/ \E w \in WorkspaceIds, doc \in SUBSET SessionIds, rev \in 1..MaxRev :
          UpdateLayout(k, w, doc, rev)
    \/ \E w \in WorkspaceIds, n \in Names : RenameWorkspace(k, w, n)

Next == \/ \E k \in Workers : Step(k) \/ Request(k)
        \/ Restart

Spec == Init /\ [][Next]_vars

-----------------------------------------------------------------------------
(* Properties.                                                              *)

\* No handler is half way: every worker is idle or about to send its answer.
Quiet == \A k \in Workers : job[k].pc \in {"idle", "reply"}

\* Worker k has created session s and has not answered yet.
Creating(k, s) ==
    job[k].id = s /\ job[k].pc \in {"record", "release", "commit", "undo", "abandon"}

\* "Sessions from a previous daemon are reported, not hidden": whatever handler
\* the daemon dies in, every session a subscriber was told of comes back as a
\* row of its workspace.
CrashLosesNoSession ==
    [][restarts' # restarts =>
          \A s \in announced : ~ rows[s].lost =>
             rows'[s] = [home |-> rows[s].home, lost |-> TRUE]]_vars

\* commit_created and section 8.1: a session the subscribers were told of and
\* that is still in the table is named by the ledger, under its workspace, so
\* that whenever the daemon dies the next one can report it.  (Rows inherited
\* from a dead daemon are reported once and not written again.)
AnnouncedIsRecorded ==
    \A s \in announced :
        /\ rows[s] # Gone
        /\ ~ rows[s].lost => disk.sessions[s] = rows[s].home

\* reserve: "a shell must never exist without a row".  A shell is spawned only
\* when the ledger names it, unless its reservation was swept away together
\* with its workspace while the create was on its way.
SpawnAfterReservation ==
    [][\A s \in SessionIds :
          child[s] = "none" /\ child'[s] = "running" =>
             disk.sessions[s] # Gone \/ pending[s] = Gone]_vars

\* Section 8.1: when a handler answers "ok", the ledger records what the
\* request did, or a later request has undone it in memory already.
AckedIsRecorded ==
    \A k \in Workers :
        LET j == job[k] IN
        j.pc = "reply" /\ j.answer = "ok" =>
            CASE j.op = "create" -> rows[j.id] = Gone \/ disk.sessions[j.id] = j.ws
              [] j.op = "kill" -> disk.sessions[j.id] = Gone
              [] j.op = "create_workspace" ->
                    workspaces[j.ws] = Gone \/ disk.workspaces[j.ws] # Gone
              [] j.op = "kill_workspace" -> disk.workspaces[j.ws] = Gone
              [] j.op = "update_layout" ->
                    workspaces[j.ws] = Gone \/ disk.workspaces[j.ws].rev >= j.new.rev
              [] j.op = "rename" -> workspaces[j.ws] = Gone \/ disk.workspaces[j.ws] # Gone

\* create's compensation: a create that is refused after its id was minted
\* leaves no row, no reservation, no process and no announcement behind.
RefusedCreateLeavesNothing ==
    \A k \in Workers :
        LET j == job[k] IN
        j.pc = "reply" /\ j.op = "create" /\ j.answer # "ok" /\ j.id # Gone =>
            /\ rows[j.id] = Gone /\ pending[j.id] = Gone
            /\ child[j.id] # "running"
            /\ j.id \notin announced

\* "Removing a row the daemon could not reach again is what leaves an agent
\* holding its locks forever": a running process has a row, or a handler that
\* is about to give it one or to kill it.
NoLeakedShell ==
    \A s \in SessionIds : child[s] = "running" =>
        \/ rows[s] # Gone
        \/ \E k \in Workers : Creating(k, s) \/ s \in job[k].doomed

\* Module header: "every session belongs to a workspace".  Only a create that
\* has not answered may hold a row whose workspace was killed under it.
NoFreeFloatingSessions ==
    \A s \in SessionIds : rows[s] # Gone =>
        \/ workspaces[rows[s].home] # Gone
        \/ \E k \in Workers : Creating(k, s)

\* load, update_layout and scrub_layout together: a terminal tab names a
\* session of the table, in the workspace of the tab.
LayoutsNameOwnSessions ==
    \A w \in WorkspaceIds : workspaces[w] # Gone =>
        workspaces[w].layout \subseteq SessionsIn(w)

\* Section 8.3, class B: a rolled back write was never observed.  No subscriber
\* holds a layout revision the table does not.
SubscribersNeverAhead ==
    \A w \in WorkspaceIds : shown[w] # Gone /\ workspaces[w] # Gone =>
        shown[w].rev <= workspaces[w].rev

\* When no handler is half way, the event hub's frames have told a subscriber
\* exactly which sessions there are, and which workspaces with which names and
\* layouts.
TableShown ==
    Quiet => /\ shown = workspaces
             /\ announced = {s \in SessionIds : rows[s] # Gone}

\* persisting: "two persists ... can still reach save in the opposite order,
\* and the older set is then the one left on disk".  As long as no write
\* failed, the ledger is the table whenever no handler is half way.
LedgerIsTable ==
    Quiet /\ failures = 0 => disk = Snapshot(rows, pending, workspaces)

\* A handler that has started answers in the end: every worker comes back to
\* reading requests, whoever holds `persisting` and whatever fails.
RequestsComplete == \A k \in Workers : []<>(job[k].pc = "idle")

\* Every handler that can take a step takes one: no request is starved while
\* it does not wait for a lock.
FairSpec == Spec /\ \A k \in Workers : WF_vars(Step(k))

-----------------------------------------------------------------------------
(* What all of this adds up to for a client: SessionPromise.                *)

\* Something of the daemon still names session s: the table, a reservation,
\* the ledger or a snapshot on its way to it.
Named(s) ==
    \/ rows[s] # Gone \/ pending[s] # Gone \/ disk.sessions[s] # Gone
    \/ \E k \in Workers : job[k].write = "writing" /\ snap[k].sessions[s] # Gone

\* A create of s is on its way to its announcement.
Opening(k, s) ==
    /\ job[k].id = s
    /\ \/ job[k].pc \in {"reserve", "reserving", "spawn", "record"}
       \/ job[k].pc \in {"release", "commit"} /\ rows[s] # Gone

Phase(s) ==
    IF s \in announced THEN (IF rows[s].lost THEN "lost" ELSE "live")
    ELSE IF \E k \in Workers : Opening(k, s) THEN "opening"
    ELSE IF Named(s) THEN "closing"
    ELSE IF s \in minted THEN "ended" ELSE "unborn"

AckedKill(k) ==
    IF job[k].pc = "reply" /\ job[k].op = "kill" /\ job[k].answer = "ok"
    THEN job[k].id ELSE Gone

Promise == INSTANCE SessionPromise WITH
    Sessions <- SessionIds, Clients <- Workers, Nothing <- Gone,
    phase <- [s \in SessionIds |-> Phase(s)],
    acked <- [k \in Workers |-> AckedKill(k)]

\* The table implements its promise: a session is announced once and only live
\* sessions that a crash interrupted come back, as lost rows; a kill answered
\* "ok" is final whatever write, worker or crash comes after it.
KeepsPromise == Promise!Spec

-----------------------------------------------------------------------------
(* The inductive invariant behind AnnouncedIsRecorded and                   *)
(* SpawnAfterReservation: what the ledger, and every snapshot on its way to *)
(* it, already say about a session whose creation has got that far.         *)

BeforeRow == {"reserve", "reserving", "spawn", "abandon", "record"}
AfterRow  == {"release", "commit", "undo"}
Creation  == BeforeRow \cup AfterRow \cup {"undoing", "undone"}

\* `persisting` is held by whoever writes and by every class-B handler.
LockHeld ==
    \A k \in Workers :
        job[k].write = "writing" \/ job[k].pc \in ClassB => persisting = k

SnapTaken == \A k \in Workers : job[k].write = "writing" => snap[k] # Gone

\* The subject of a request is known where its handler uses it.
JobShape ==
    \A k \in Workers :
        LET j == job[k] IN
        /\ j.pc \in Creation => j.id \in SessionIds \cap minted /\ j.ws \in WorkspaceIds
        /\ j.pc \in {"killing", "killed"} => j.id \in SessionIds
        /\ j.pc \in {"opening", "layout", "rename"} => j.new \in Info
        /\ j.pc \in {"opening", "retract", "layout", "rename"} => j.ws \in WorkspaceIds
        /\ j.pc \in {"layout", "rename"} => j.old \in Info

RowsMinted == \A s \in SessionIds : rows[s] # Gone => s \in minted

\* A session id has one create behind it.
OneCreator ==
    \A k, l \in Workers :
        k # l /\ job[k].pc \in Creation /\ job[l].pc \in Creation => job[k].id # job[l].id

RowOfCreation ==
    \A k \in Workers :
        LET j == job[k] IN
        /\ j.pc \in BeforeRow => rows[j.id] = Gone
        /\ j.pc \in AfterRow =>
              rows[j.id] \in {Gone, [home |-> j.ws, lost |-> FALSE]}

\* Every snapshot being written names session s.
InSnaps(s) == \A l \in Workers : job[l].write = "writing" => snap[l].sessions[s] # Gone

\* Every snapshot being written names session s under workspace w.
InSnapsUnder(s, w) ==
    \A l \in Workers : job[l].write = "writing" => snap[l].sessions[s] = w

ReservationRecorded ==
    \A k \in Workers :
        LET j == job[k] IN
        /\ j.pc = "reserving" /\ j.write = "writing" /\ pending[j.id] # Gone =>
              snap[k].sessions[j.id] # Gone
        /\ /\ (j.pc = "reserving" /\ j.write = "ok") \/ j.pc = "spawn"
           /\ pending[j.id] # Gone
           => disk.sessions[j.id] # Gone /\ InSnaps(j.id)

CommitRecorded ==
    \A k \in Workers :
        LET j == job[k] IN
        j.pc = "commit" /\ rows[j.id] # Gone =>
            /\ j.write = "writing" => snap[k].sessions[j.id] = j.ws
            /\ j.write = "ok" => disk.sessions[j.id] = j.ws /\ InSnapsUnder(j.id, j.ws)

AnnouncedInSnaps ==
    \A s \in announced : rows[s] # Gone /\ ~ rows[s].lost => InSnapsUnder(s, rows[s].home)

RecordedInv ==
    /\ TypeOK
    /\ LockHeld
    /\ SnapTaken
    /\ JobShape
    /\ RowsMinted
    /\ OneCreator
    /\ RowOfCreation
    /\ ReservationRecorded
    /\ CommitRecorded
    /\ AnnouncedIsRecorded
    /\ AnnouncedInSnaps

-----------------------------------------------------------------------------
(* The inductive invariant behind RefusedCreateLeavesNothing and            *)
(* NoLeakedShell: who answers for a shell while its create is on its way.   *)

\* Worker k serves, or has just answered, a create that minted an id.
Creator(k) == job[k].op = "create" /\ job[k].id # Gone

CreatesApart ==
    /\ \A k \in Workers :
          /\ job[k].pc \in Creation => Creator(k)
          /\ Creator(k) => job[k].pc \in Creation \cup {"reply"} /\ job[k].id \in minted
    /\ \A k, l \in Workers : k # l /\ Creator(k) /\ Creator(l) => job[k].id # job[l].id

\* Only a handler on its way to kill_session_process has processes to kill.
DoomedHeld ==
    \A k \in Workers :
        LET j == job[k] IN
        /\ j.doomed # {} => j.pc \in {"undoing", "killing", "clearing"}
        /\ j.pc = "undoing" => j.doomed = {j.id}

NothingBehind(s) == rows[s] = Gone /\ pending[s] = Gone /\ child[s] # "running"

CreateTrail ==
    \A k \in Workers : Creator(k) =>
        LET j == job[k] IN
        /\ j.pc \in {"reserve", "reserving", "spawn"} => child[j.id] # "running"
        /\ j.pc \in {"abandon", "commit", "undo", "undoing"} => pending[j.id] = Gone
        /\ j.pc = "undoing" => rows[j.id] = Gone
        /\ j.pc = "undone" \/ (j.pc = "reply" /\ j.answer # "ok") => NothingBehind(j.id)

\* Between `release` and `commit` it is the row that answers for the shell.
Minding(k, s) ==
    \/ job[k].id = s /\ job[k].pc \in {"record", "abandon", "undo"}
    \/ s \in job[k].doomed

ShellKept ==
    \A s \in SessionIds : child[s] = "running" =>
        s \in minted /\ (rows[s] # Gone \/ \E k \in Workers : Minding(k, s))

ShellInv == CreatesApart /\ DoomedHeld /\ CreateTrail /\ ShellKept

-----------------------------------------------------------------------------
(* The inductive invariant behind AckedIsRecorded: from its last change to  *)
(* the table on, a request is in memory to stay, so that its own snapshot   *)
(* and every later one says it too.                                         *)

\* sessions.json, and what is on its way to it.
Ledgers == {disk} \cup {snap[l] : l \in {m \in Workers : job[m].write = "writing"}}

ServesOp ==
    \A k \in Workers :
        LET j == job[k] IN
        /\ j.pc \in {"killing", "killed"} => j.op = "kill"
        /\ j.pc = "opening" => j.op = "create_workspace"
        /\ j.pc \in {"clearing", "cleared"} => j.op = "kill_workspace"
        /\ j.pc = "layout" => j.op = "update_layout"
        /\ j.pc = "rename" => j.op = "rename"
        /\ j.pc # "idle" => j.op # "none"

\* Worker k has made its request's last change to the table.
Applied(k) ==
    \/ job[k].pc \in {"commit", "killing", "killed", "opening", "clearing", "cleared",
                      "layout", "rename"}
    \/ job[k].pc = "reply" /\ job[k].answer = "ok"

\* What the table says of k's request, until a later request undoes it.
InMemory(k) ==
    LET j == job[k] IN
    /\ j.op = "create" =>
          j.id \in SessionIds /\ rows[j.id] \in {Gone, [home |-> j.ws, lost |-> FALSE]}
    /\ j.op = "kill" =>
          /\ j.id \in SessionIds \cap minted /\ rows[j.id] = Gone
          /\ j.pc # "killing" => pending[j.id] = Gone
          /\ \A l \in Workers : job[l].pc \in BeforeRow => job[l].id # j.id
    /\ j.op \in {"create_workspace", "kill_workspace", "update_layout", "rename"} =>
          j.ws \in WorkspaceIds \cap minted
    /\ j.op = "kill_workspace" => workspaces[j.ws] = Gone
    /\ j.op = "update_layout" =>
          /\ j.new \in Info
          /\ workspaces[j.ws] # Gone => workspaces[j.ws].rev >= j.new.rev
          /\ \A l \in Workers :
                l # k /\ job[l].pc = "layout" /\ job[l].ws = j.ws => job[l].old.rev >= j.new.rev

\* What a ledger says of k's request.
Says(k, d) ==
    LET j == job[k] IN
    /\ j.op = "create" /\ rows[j.id] # Gone => d.sessions[j.id] = j.ws
    /\ j.op = "kill" => d.sessions[j.id] = Gone
    /\ j.op \in {"create_workspace", "rename", "update_layout"} /\ workspaces[j.ws] # Gone =>
          d.workspaces[j.ws] # Gone
    /\ j.op = "kill_workspace" => d.workspaces[j.ws] = Gone
    /\ j.op = "update_layout" /\ workspaces[j.ws] # Gone =>
          d.workspaces[j.ws].rev >= j.new.rev

AckTrail ==
    \A k \in Workers : Applied(k) =>
        /\ InMemory(k)
        /\ job[k].write = "writing" => Says(k, snap[k])
        /\ job[k].write = "ok" \/ job[k].pc = "reply" => \A d \in Ledgers : Says(k, d)

AckInv == ServesOp /\ AckTrail

-----------------------------------------------------------------------------
(* The inductive invariant behind LedgerIsTable: whoever leaves the ledger  *)
(* behind the table still has a snapshot to take.                           *)

Owes(k) == job[k].write = "queued" \/ job[k].pc \in {"release", "undoing", "killing", "clearing"}

Current(d) == d = Snapshot(rows, pending, workspaces)

\* A handler waits for no write when it answers; a failed one was counted.
WritesCounted ==
    \A k \in Workers :
        /\ job[k].pc \in {"idle", "reply", "reserve", "spawn", "record", "release", "undo",
                          "undoing", "killing", "clearing", "retract"} =>
              job[k].write = "none"
        /\ job[k].write = "failed" => failures > 0

CaughtUp ==
    \/ \E k \in Workers : Owes(k)
    \/ \E k \in Workers : job[k].write = "writing" /\ Current(snap[k])
    \/ Current(disk) /\ \A k \in Workers : job[k].write # "writing"

LedgerInv == WritesCounted /\ (failures = 0 => CaughtUp)

-----------------------------------------------------------------------------
(* The inductive invariant of a table that is served by one worker, behind  *)
(* NoFreeFloatingSessions, LayoutsNameOwnSessions, SubscribersNeverAhead    *)
(* and TableShown: what the one handler that runs has yet to announce.      *)

OneWorker == \E k \in Workers : Workers = {k}

Live == {s \in SessionIds : rows[s] # Gone}

Homed ==
    /\ \A w \in WorkspaceIds : workspaces[w] # Gone => w \in minted
    /\ \A s \in SessionIds : rows[s] # Gone => workspaces[rows[s].home] # Gone

\* The worker's request has changed its workspace and told nobody yet.
Untold == {"opening", "layout", "rename"}

\* A subscriber's picture is the table, but for what worker k has not told.
Pictured(k) ==
    LET j == job[k] IN
    /\ announced = IF j.pc \in AfterRow THEN Live \ {j.id} ELSE Live
    /\ \A w \in WorkspaceIds : (j.pc \in Untold /\ j.ws = w) \/ shown[w] = workspaces[w]
    /\ j.pc \in Untold => workspaces[j.ws] = j.new

\* What k's handler goes by: nobody takes its workspace or row away.
Undisturbed(k) ==
    LET j == job[k] IN
    /\ j.pc \in BeforeRow \cup {"release", "commit"} => workspaces[j.ws] # Gone
    /\ j.pc \in AfterRow => rows[j.id] # Gone
    /\ j.pc = "opening" =>
          shown[j.ws] = Gone /\ j.new.layout = {} /\ SessionsIn(j.ws) = {}
    /\ j.pc = "retract" => workspaces[j.ws] = Gone
    /\ j.pc \in {"layout", "rename"} =>
          shown[j.ws] = j.old /\ j.old.layout \subseteq SessionsIn(j.ws)
    /\ j.pc = "layout" => j.new.rev > j.old.rev /\ j.new.name = j.old.name
    /\ j.pc = "rename" => j.new.rev = j.old.rev /\ j.new.layout = j.old.layout

SerialInv ==
    /\ Homed
    /\ LayoutsNameOwnSessions
    /\ \A k \in Workers : Pictured(k) /\ Undisturbed(k)
=============================================================================
