# ZOrca's session system in TLA+

ZOrca is an editor (a fork of Zed) with a session layer of its own: terminals and
agents run in a daemon that outlives the editor windows that show them. This
directory models that layer, checks it with TLC and proves most of its safety with TLAPS.
The upstream editor is outside its scope.

## The system

| part | source | state it keeps | operations |
|---|---|---|---|
| session table | `crates/ade_session_daemon/src/sessions.rs` (`SessionTable`) | sessions, workspaces with layout and revision, reservations, the `persisting` lock | create, kill, create/rename/kill workspace, update layout, load, subscribe |
| output hub | `sessions.rs` (`OutputHub`, `Ring`, `Outbound`) | ring of recent bytes, subscribers, the pending end of the stream, per-connection byte budget | publish, attach, repaint, flush, detach |
| screen grid | `grid.rs` | the screen a pty has painted, latched repairs, synchronized updates | feed, repaint, resize |
| pty size | `sessions.rs` (`resize`, `focus`, `apply_size`) | each client's ask, the views, the focus claim, the size | resize, focus, attach, detach |
| status and end | `sessions.rs` (`Activity`, `derive_status`, `sweep`, reaper, drain, `terminate_groups`) | last output, bell, dead flag, status | output, sweep, exit, kill |
| state store | `state.rs` | `sessions.json`, `instance.id`, pid file | load, save |
| server | `server.rs` | socket, admission gate, counters of connections and state requests | bind, accept, handshake, dispatch, shutdown, idle exit |
| proxy | `proxy.rs`, `main.rs` | none | connect or start a daemon, pump bytes |
| attach client | `attach.rs` | the terminal, a view id | attach, reconnect, pump |
| protocol | `crates/ade_session/src` | none | frames, framing, handshake, ssh transport, deployment |
| client backend | `crates/ade_workspaces/src/daemon_backend.rs` | control connection, status stream, host link | requests, resubscription, upgrade |
| client policy | `lifecycle.rs`, `layout.rs`, `registry.rs`, `store.rs` | SQLite cache of workspaces, a window's layout and revision | reconcile, push and refetch layouts |
| agent workspaces | `crates/agent_workspaces/src` | archived worktrees and thread metadata | archive, restore |

**How they interact.** One daemon per host owns every pty. Clients hold three kinds
of connections to it (control, event subscription, attach) over a Unix socket, an
ssh-forwarded socket or a stdio proxy that starts the daemon when it is absent.
Requests go into the table; the table writes the ledger through the state store,
publishes events to the event hub and hands output to each session's hub. Three
threads per session or per table run beside the requests: the drain reads the pty,
the reaper waits for the child, the sweeper derives statuses. Kill starts a fourth,
the escalation from SIGHUP to SIGKILL.

**What is hard.**

- *Concurrency.* Requests run on `smol`'s executor, which has one thread unless
  `SMOL_THREADS` says otherwise, but the drain, reaper, sweeper and escalation are
  threads, and the daemon processes of a host (one starting, one leaving, one
  crashed) are concurrent without any lock between them. The code is written for
  several request threads, and the models check it with one and with two.
- *Failure.* A ledger write can fail at any point of a request that has already
  spawned a process or told subscribers; the daemon or the host can die between any
  two steps; what survives is the ledger.
- *Ordering.* Clients fold frames into what they show. A frame that carries state
  captured before a lock was released can undo a newer one.
- *Limits.* Queues are bounded in bytes; a replay that does not fit must be cut, and
  a repair that does not fit must stay owed.
- *Stale facts.* Process numbers, socket files, sizes and roll-back values are read
  at one moment and used at a later one. A client's cached connection, its rows and its
  layout are all copies of something another process has changed.

**What makes it correct.** A session that was announced or acked is in the ledger; a
refused create leaves nothing behind; every session has a workspace and every layout
names that workspace's own sessions; no client is ahead of the table; no output byte
is lost or repeated on a live stream; a stream ends after its last byte and always
ends; a polite exit cuts nobody off; whoever serves is who the socket leads to,
unless starts raced; the pty has the size the clients' asks add up to; an ended session is never shown alive;
a killed session's processes are gone, or about to be, when the kill is answered; the ledger is whole
after a crash; windows that show one workspace settle on the layout the daemon stores
and never overwrite what they have not seen, unless their own writes overlap; a client keeps one workspace per checkout
however a host is spelled, and believes, and kills at, only the daemon a row belongs to.

## Modules

Each module is one component at the granularity of its critical sections: a step is
what the code does while it holds the locks it holds, or one blocking call (a ledger
write, a system call). Locks that are only held inside such a step do not appear;
`persisting`, which is held across writes, does. Operators named after a mutation (the
comment says `Mutant:`) are variants of the action below them with one plausible
mistake; `PROJECT.json` pairs each property with one that breaks it.

### SessionTable

`rows`, `workspaces`, `pending` and `persisting` are the fields of `SessionTable`;
`disk` is the ledger, `snap` the snapshot a worker is writing, `job` the request each
worker serves and how far it is, `child` the process behind an id, `announced` and
`shown` what a subscriber of the event hub believes. A create is `CreateSession`,
`Reserve`, (write), `Reserved`, `Spawn`, `RecordCreated`, `Release`, (write),
`CommitCreated`, with `Abandoned`, `Undo` and `Undone` for its failures; kill,
workspace and layout requests are split the same way. `TakeSnapshot` and `Save` are
the shared write. `Restart` is the daemon's death at any moment and the load of what
the ledger says, with `Loaded` translating the whole of `SessionTable::load`
(adoption of flat rows, wrapping layouts, pruning of foreign tabs).

Layouts are reduced to the set of sessions they name and a revision; names and
payloads are model values. Left out: a read-only store (StateStore has it), the
generation-2 operations, `update_workspace_project`.

### OutputHub

One session's output: `produced` and `fed` count the child's bytes, `dropped` what the
ring let go, `drain` is where the drain thread is, `grid` the latch and the
synchronized-update hold of the screen, `conn` each connection's bounded queue, `view`
what its client has seen. Bytes are numbered and a frame carries an interval of them, so
missing and repeated bytes are visible: `Reaches` says up to which byte a queue and its
client have got, `Ended` and `Paints` what endings and repaints follow the last replay. The screen's contents are abstracted to the
position in the stream that a repaint shows.

### HostDaemon

The daemon processes and the proxies of one host. `file` and `pidfile` are
the socket's and pid file's owners, `daemon` each process's position in
`Server::bind` and `DaemonControl::exit`, `shutting` and `active` the admission gate,
`held` what its table would lose, `client` each proxy and its connection. Steps
between two system calls interleave freely between processes and, within one, at
every `await`. `strayed` is a history variable: the daemons whose start was raced by
another's, and those whose path such a daemon took with it as it left. Two properties
except them and say what still holds for all others.

### PtySize

One session's `asks`, `viewIds`, `focused` and `size`. Every request is a decision
under the table's lock and, when the size changes, an `ApplySize` under a later one;
`Parallel` says whether another request may run in between.

### SessionEnd

One session with a shell, a child of the shell's group and a foreground job with a
group of its own. `act` is `Activity`, `status` and `shown` the table's and the
subscriber's status, `reaper`, `drain` and `kill` the positions of those threads.
`strangers` are process-group numbers other programs have got; a number is free when
nothing uses it as a pid, a group or a session. SIGHUP has no effect of its own: a
process may exit at any time, and one that traps it does not. SIGKILL makes a process
`doomed`: it will exit, but not before the kernel comes to it, which is why
`terminate_groups` polls after it. `Confirm` is the end of that wait when every group is
gone (a zombie or a stranger answers to a group's number like anyone else), `GiveUp` its
deadline ("still exists after SIGKILL"), and the kill is answered after either;
`HangUpUnthreaded` is the way without a thread, which waits for nothing. Two fields are
history: `overtaken` says that the sweep derived a status of a session before its row
was announced, `kill.reserved` that the shell's number was still its own when the grace
period began.

### StateStore

`load`, `save` and `write_atomic` with a file system in two layers: what programs see
(`cache`, `dir`) and what a power failure leaves (`disk`, `ddir`). Data and names
reach the disk in any order until they are flushed. There is one daemon at a time: that
is what HostDaemon is about.

### SessionPromise

What the daemon promises about one session, without locks, threads, maps or files: a
session is opened, announced, withdrawn and ended, each once; a crash turns a live one
into a lost row and may turn one that was half opened or half closed into a lost row or
into nothing; a kill that was answered "ok" is final. SessionTable implements it:
`KeepsPromise` is `SessionPromise`'s specification under the mapping `Phase` (from the
row, the reservation, the ledger, the snapshots on their way to it and the create that
is under way) and `AckedKill` (the answer a worker is about to give).

### LayoutSync

Windows that show one workspace, each with its own connections, composed with the
daemon's layout record. `win` is the state of the code's `LayoutSync` (revision, known
layout, pending capture, render and what is queued behind it) and what the window
shows; `flight` its writes and re-reads, which travel on the control connection while
events travel on the status stream (`stream`, `seen`, `inbox`). `Schedule` and `Push`
are the capture and the write of one revision past the window's own, `Arrives` the
daemon's guard, `Acked`, `Refused`, `Reads` and `Refetched` what the window does with the
answer, `Apply`, `Rendered` and `RenderDone` the rebuild of its panes with its checks for
an edit that came in between, `Resubscribe` the new stream with the snapshot it starts
from. Requests, replies and streams are lost, the daemon restarts with what its ledger
says, sessions are created and killed, and the workspace is killed and made again.

Six fields of `win` and two variables are not in the code but say what properties are
about: `told` is the layout the window last confirmed with the daemon or heard from it,
`unsent` that its user changed something since the last capture, `refused` that its last
write was refused and nothing has settled the matter, `lapped` that it has sent a write
while another of its own was on its way, `overtaken` and `stranded` the two further cases
the section on disagreements describes; `edited` says that the window shows what
its own user arranged, and `spent` counts edits and faults.

A layout is the set of sessions its tabs name, which is what `same_layout_structure`
compares, and one bit for what it leaves out. The conversion of pane trees to documents
and back is data. The daemon's side is SessionTable's, reduced to the record of one
workspace and to one request at a time, as its default executor has it.

### Adoption

One client's registry and the daemons that hold its workspaces. `rows` is the table
`ade_workspaces` with its unique index (`Unique`), `held` and `alive` what each daemon
would list, `at` the daemon a spelling of a host leads to, `conn` the cached control
connection of each spelling, which may lead to another one, `lock` the
`daemon_decision_locks`, and `task` the operations under way. `LockRoute`, `Name`,
`LockInstance` and `List` are `listing_under_daemon_lock` and its three near copies;
`Decides` is what `adopt_or_create_workspace` makes of the listing; `ConfirmRecord`,
`Insert`, `LookUp`, `Create`, `Bind` and `AdoptSession` are its writes and requests one
by one (`create_session` lists and creates in two requests, which need not meet the same
daemon);
`NextHost` to `PassEnds` are a reconciliation pass; `opened`, a history variable, holds
the records opens made and nobody killed since. `Peer` is the identity fence of
`request_seen`. The client may exit between any two of these steps and start again, a
reply may be lost after the daemon has acted on the request, or before it (`adrift` holds
the creates and kills that reach their daemon after their sender was given an error, or
has exited), a route may come to lead to another daemon, and one of the daemons is too old to have a name.

All rows and records are of one checkout, which is the case in which they compete. Which
of several rows is the most recently opened is left open, and so is the order of hosts
in a pass. `met` stands for `Endpoint::identity`: the last handshake of any of the
route's connections, the status stream's included, so a daemon the route has led to. A
pass asks every route: each has a backend.

## Runs

Every passing run finishes in under three minutes on two cores. `PROJECT.json` lists
each run's properties and, for each property, the mutant that breaks it.

| run | instance | shows |
|---|---|---|
| `table_serial` | 1 worker, every ledger over 2 sessions and 2 workspaces, 2 names, 2 failing writes, 1 crash | what is loaded satisfies the table's rules; sessions keep a workspace, layouts name own sessions, subscribers are never ahead, frames add up to the workspaces |
| `table_faults` | 2 workers, 2 sessions, 1 workspace, 1 failing write, 1 crash, fair | persist-before-ack, reservation-before-spawn, full compensation; at rest the ledger is the table; every request that starts is answered; the table implements SessionPromise; `RecordedInv`, the invariant the proofs use |
| `hub_stream` | 2 connections, ring of 2, 2 bytes, 2 leavings of the alternate screen, fair | no byte slips; a repair that found no room stays owed; a dead stream keeps nobody waiting; Exited comes last, and comes |
| `hub_attach` | 1 connection shared with other output, that attaches again, detaches, hangs up and is repainted | a replay never closes the connection it is for |
| `host_lifecycle` | 2 daemons, 3 clients, every kind of exit, both starting at once or one after the other | a polite exit cuts no admitted request off; an accepted shutdown is acked and leaves no daemon behind; whoever serves is the reachable one, and loads the ledger after its predecessor's last write, unless starts raced |
| `host_race` | 3 daemons, 2 starting at once, crashes | violated: see below |
| `size_views` | 4 clients (a view and its reconnect, another view, none), 3 sizes (one of zero columns), generation-2 resizes | at rest the pty has the size the asks and the claim add up to |
| `end_status` | 1 session, every interleaving, fair | an ended session is never shown alive, status frames add up, what a kill was after is gone or has SIGKILL pending when it is answered, an exit is shown |
| `end_stranger` | the same | violated: see below |
| `store_power` | 2 records, 2 failing calls, 2 deaths or power failures | the ledger is whole, acked records outlive the power, an unreadable ledger is never written over |
| `layout_sync` | 2 windows, 2 sessions, 2 things users do, 1 lost request, reply or stream, restart, or write sent over another, kills of the workspace | windows at rest agree with the daemon; no write replaces a layout its window was not told of; a window writes only what its user arranged; no render takes away an edit that was not captured |
| `adopt_open` | 2 operations, at most one of them a pass, 2 spellings, 2 daemons (one without a name), up to 2 old rows, 1 fault (a late request among them) | opens never leave two workspaces for one checkout; a pass writes a row's status only from its own daemon's answer; a kill never reaches another daemon's record of the same id; locks are never waited for in vain |

**Bounds.** Two workers are enough for every race between two requests, and the
proofs lift it. Two sessions let one be created while another is killed; one failing
write and one crash can meet at any step of either. Two daemons are a predecessor and
its successor, three clients one that is served, one that shuts the daemon down and
one that starts the next. Rings, queues and streams are sized so that they overflow.
Two windows are enough for one to lose a race with the other, and
two edits for each to have something to lose; one fault meets every step of both. Two
operations over two spellings race each other or follow one that the client's exit cut
short; the old rows are what a rebinding conflict and the promotion of a quarantined row
need (at most one of them set aside, in the model's `Init`). Two passes can overlap in
the code, where a superseded one is cancelled only at its next await (`store.rs`,
`refresh`, and `cleanup_dead_workspaces`): the same instance with `MaxPasses` = 2 has 1.6
million states and passes too, but is half as long again as the run that is kept, and the
theorems hold for any number. Revisions, faults, crashes, bytes and deaths are capped by constants whose names begin
with `Max`. Sessions, workspaces, workers, clients, daemons, inodes, windows, tasks, routes
and rows are symmetric in the safety runs where no definition tells them apart; runs with a liveness property use no symmetry. `CHECK_DEADLOCK FALSE`
stands where the bounded system may stop: the child has exited, every id is used, every
daemon has gone, the users and the operations are done.

Some instances are narrower than the code allows, because the property does not hold
beyond them: `table_serial` has one thread (`NoFreeFloatingSessions`,
`SubscribersNeverAhead`, `TableShown`), and `size_views` one request at a time
(`Parallel`): the default executor has one thread. The next section says what happens
beyond. The other instances do what the code does, and a property that fails in a corner
of it names the corner instead, by a variable that remembers it (`strayed`, `overtaken`,
`lapped`, `stranded`): ServingReachable and HandoverIsQuiet where two starts raced,
ShownIsStatus where a session fell quiet while its row was being written, NoLostUpdate
and SettlesOnStored for a window whose own writes overlapped.

**Fairness.** `table_faults` assumes that a request that can take its next step takes
it (an executor that polls ready tasks). A thread that waits for `persisting` needs no
more than that, since the bounded instance cannot take the lock away from it for ever;
renames, which can be repeated without end, are left to `table_serial`, because a
`std::sync::Mutex` promises a waiter nothing against them. `hub_stream` and
`end_status` assume that the drain, the reaper, the sweeper and the handlers run on;
nothing is assumed of the child, and nothing of clients. That the drain reads the end
of the stream once the session leader has exited is Linux's hang-up of the terminal.
`layout_sync` and `adopt_open` state no fairness: that windows come to rest is not
checked (the state graph is too large for TLC's liveness check), only what they show
when they have; that operations finish is checked as `NobodyWaitsInVain`, the absence of
a state in which only waiting operations are left.

## Where code and comments disagree

Two of these are runs that TLC violates, with the comment quoted in `PROJECT.json`:

- `host_race` (`RacingIsFine`): after a crash two starting daemons both see a dead
  socket; the slower unlinks the socket of the faster, and both serve. `proxy.rs` says
  that racing proxies are fine.
- `end_stranger` (`StrangersSpared`): SIGKILL follows SIGHUP by a second without a second
  look at whether the process was reaped. In TLC's trace the shell has exited but is not
  reaped when the kill looks, so its number is reserved; the reaper waits on it during
  the grace period, the number goes to a stranger, and SIGKILL lands there. The property
  is about this case alone. SIGHUP can meet a stranger too: by the shell's number between
  `child.wait()` and `mark_dead` (`sessions.rs:3208`), and, like SIGKILL, by the number
  of a foreground job that has ended, which no unreaped shell reserves.

The others were met while modelling. The constants named in parentheses reach them:

- `update_layout` undoes a failed write without looking at the revision, over a kill
  that has scrubbed and announced a newer one (`sessions.rs:1884`; two workers and a
  failing write in SessionTable violate `SubscribersNeverAhead`).
  `docs/ade/protocol-compatibility.md:528` says "Rollback is conditional".
- `create_workspace` takes its record back after another request put a session in it
  (`sessions.rs:1745`; the same constants violate `NoFreeFloatingSessions`).
- A layout frame can overtake the one that announces its workspace between two
  request threads, so a subscriber may hold an older record (two workers violate
  `TableShown`).
- A size decided first can be applied last (`sessions.rs:2434`; `Parallel` violates
  `SizeFollowsAsks`). The comment at `sessions.rs:2352` names a lock, `sizing`, that
  does not exist. All four need two request threads, and the default executor has one.
- `forget_client` uses `swap_remove` (`sessions.rs:1044`), so a client that leaves
  without an ask can change which of two connections speaks for the focused view, and
  the pty is not told. `SizeFollowsAsks` therefore waits until each view is drawn once:
  the pty has caught up by then. The same function takes the focus from a view that
  reconnects when its old connection ends.
- With a ledger write longer than five seconds `Created` carries an older status than
  the sweep has derived (`sessions.rs:1618`): a session that has fallen quiet is
  announced, and stays, Working until the sweep next finds a change. `ShownIsStatus`
  excepts this much and no more (`overtaken`).
- An attach on a nearly full queue drops the latched repair and the repaint that was to
  stand for it (`sessions.rs:832`).
- An exiting daemon removes the pid file of a successor that has already written its
  own (`server.rs:218`).
- Two daemons on one state directory share a temporary file name (`state.rs:385`).
- Two writes of one window may overlap: a second capture is pushed before the first is
  answered, on a revision the first has not got yet (`layout.rs:1326`; a test,
  `layout.rs:3538`, has the overlap on purpose). `layout_sync` has such writes, and two
  of its properties except the window that sent them (`Alone`). Without the exception TLC
  finds: window 1 switches tabs and pushes revision 1, closes a tab and pushes revision
  2; window 2 opens a terminal and its revision 1 is stored first; window 1's first write
  is refused as stale, its second, one past the stored revision, is accepted, and the
  new terminal's tab is gone (`NoLostUpdate`, with `MaxEdits = 3`). `sessions.rs:10` says
  that the revision guard is there "so two clients cannot silently overwrite one
  another". A kill that scrubs the layout in between is replaced the same way, with one
  window and two edits. And with a second fault, the loss of the second write, a window
  may come to rest on a layout that is not the stored one (`SettlesOnStored`): the
  refusal of the first write takes the window back to the revision it believes the
  second has, and the re-read finds nothing newer. None of this has a run of its own; to
  see it, replace `Alone(w)` by `TRUE` in either property, and let a window's second
  write replace its own first in `NoLostUpdate`.
- A reset that waits behind a render is replaced by a later event together with its
  flag, and what the render left is then pushed as if it were an edit
  (`layout.rs:1422`). `OnlyEditsAreStored` leaves such a window out (`overtaken`).
- A structural edit refused because another window switched tabs is never pushed again:
  `accept` takes the stored layout for known when only the front differs
  (`layout.rs:1483`). `SettlesOnStored` therefore asks less of a window whose last write
  was refused.
- A window's re-read may tell it of a layout that its stream has not forwarded, because
  the stream is down. If that layout came from a kill whose write failed and the daemon
  then dies, the next daemon is behind the window but not behind the stream: the stream
  resumes with a plain layout event instead of a reset, the window ignores it as old, and
  it shows what nobody stores until the daemon's revision has passed its own or its user
  edits, is refused and re-reads (`daemon_backend.rs:1429`). `SettlesOnStored` leaves
  such a window out (`stranded`).
- After a lost reply the window's own write comes back as an event, and a user who has
  undone the edit meanwhile sees it again.
- A workspace's first create is not fenced: the row has no daemon yet, so a route that
  moves between the listing and the create makes the workspace on another daemon
  (`lifecycle.rs:2827`, "Unclaimed rows are permissive"). `OneWorkspacePerCheckout`
  counts what was made on the daemon that was listed. It does not count what is made
  after the open was given an error either: its locks are let go by then, another open
  may list the daemon in between, and when the late create lands the checkout has two
  workspaces (`daemon_backend.rs:503` gives the connection up, and the daemon may still
  read the request). For the same reason a kill that
  was prepared with a daemon without a name may reach the one that replaced it.
- Daemons without a name are told apart by their route alone, so two spellings of one
  may give a checkout two workspaces; `OneWorkspacePerCheckout` is about the others.
- A pass writes statuses after it has let its locks go, so a session created or killed
  meanwhile may be shown wrongly until the next pass.

## What is proved

`SessionTableProofs` proves, for any number of workers, sessions, workspaces, failing
writes and restarts:

- `RecordedInvariant`: `RecordedInv` holds always;
- `TypeCorrect`: every map, job, snapshot and ledger is well formed;
- `AnnouncedRecorded`: an announced session that is still in the table is in the ledger;
- `ReservedBeforeSpawn`: a shell is spawned only when the ledger names it, unless its
  workspace was killed meanwhile;
- `CrashKeepsSessions`: wherever the daemon dies, every announced session of the ledger
  comes back as a lost row of its workspace.

`AnnouncedIsRecorded` is not inductive. A write that was snapshotted before the session
was announced could still land after it and drop the session from the ledger. The
strengthening follows a session along its way: `LockHeld` and `SnapTaken` (whoever has
a snapshot in hand holds `persisting`, so there is one), `JobShape` (what a request
knows at each of its steps), `RowsMinted` and `OneCreator` (ids are fresh and have one
creator), `RowOfCreation` (a create past its insert finds its own row or none),
`ReservationRecorded` and `CommitRecorded` (what the ledger says of a create between
its two writes), `AnnouncedInSnaps` (a snapshot on its way to the disk names every
announced session that is still there). The proof has one lemma per action; the
actions that leave the ledger's side alone go through the two frame lemmas
`FrameShape` and `FrameTrail`. The theorems assume what `SessionTable` states of its
constants (distinct marker values, initial ledgers that are ledgers; a session's id, a workspace's
and `Gone` are never the same value, as the two kinds of id are types of their own in
Rust) and nothing else.

Its second part is about what a request leaves behind, for any number of workers, failing
writes and restarts:

- `RefusalLeavesNothing` (`RefusedCreateLeavesNothing`) and `ShellsAccounted`
  (`NoLeakedShell`) from `ShellInv`. Neither is inductive: while a create is on its way
  its shell may have no row, so `ShellInv` says which handler answers for it at each
  step (`CreateTrail`, `DoomedHeld`, `ShellKept`), and that two creates never share an
  id, answered ones included (`CreatesApart`).
- `AckRecorded` (`AckedIsRecorded`) from `AckInv`. The answer comes after a write that
  another worker's older snapshot could follow. `AckInv` therefore speaks of memory and
  of every ledger on its way: from its last change to the table on, a request is in
  memory to stay or was undone by a later one (`InMemory`), and so it is in its own
  snapshot and in each later one.
- `LedgerMatches` (`LedgerIsTable`) from `LedgerInv`: who leaves the ledger behind the
  table has a snapshot still to take.

Its third part proves the four properties that hold only when requests run one at a
time (`OneWorker`: the default executor, see the bounds of `table_serial`; with two
workers they are false): `SessionsHaveWorkspaces` (`NoFreeFloatingSessions`),
`TabsNameRows` (`LayoutsNameOwnSessions`), `RollbackUnseen` (`SubscribersNeverAhead`)
and `PictureIsTable` (`TableShown`), for any number of sessions, workspaces, failures and
restarts and from every ledger `Init` admits. `SerialInv` says what a subscriber's
picture lacks while the handler runs (`Pictured`, `Untold`) and that nothing the handler
goes by changes under it (`Undisturbed`).

Its fourth part proves the refinement, for any number of workers again: `TableKeepsPromise`
says that `Spec` implies `KeepsPromise`, the whole safety of SessionPromise. Each step of
the table must be a step of the promise or leave every phase and answer as it is. Most
steps are its `Withdraw`, for all sessions at once: `Withdraws(k)` says of a step of
worker `k` that it gives no session an announcement, a row, a reservation or a name in a
ledger that it had not, but where `k` is still creating it, and `WithdrawsKeeps` that
then no session moves anywhere but on. One lemma per group of handlers shows that they
only withdraw; `CreateOpens` and `CommitAnnounces` are the two steps that do not,
`KilledAcks` finds the killed session's phase `ended` when "ok" is given (`AckInv`: it is
in no ledger and in no snapshot on its way to one), and `RestartCrashes` shows that what
a load makes of the ledger is what `Crash` allows: every announced session was recorded
(`RecordedInv`) and comes back lost, and what nothing named stays ended. `Traced` is all
that had to be added to the invariants: what is named was minted, and what is being
created is not announced.

`AdoptionProofs` proves, for any number of operations, spellings of hosts, daemons, rows
and faults:

- `AdoptInvariant`: `AdoptInv` holds always;
- `OpensMakeOne` (`OneWorkspacePerCheckout`), `LocksAreLetGo` (`NobodyWaitsInVain`),
  `KillsStayHome` (`KillStaysHome`) and `PassesBelieveOnlyOwners`
  (`OnlyItsDaemonSpeaks`): the four properties of the run.

`OneWorkspacePerCheckout` is not inductive: it says nothing of an open that has read an
empty listing and not created yet. `AdoptInv` adds `Claims` (such an open holds the lock
of the daemon it listed, and no open has made a record there; a record an open made is
among the daemon's), `LocksHeld` (who holds a lock is at a step where it may, and who
lists a daemon that has a name holds its lock) and `Knows` (what an operation has read
by each of its steps, above all that a kill is fenced by the daemon its row names, and
that an answer a pass keeps carries the name of the daemon it came from). The lock is
the step that matters: `Made` shows that only its holder adds to a named daemon where
it found nothing, and the lemmas `GoesOn`, `LetsGo`, `Takes` and `KeepsLocks` carry the
rest through every action. The two action properties then need `PeerAdmitted`, what
`request_seen` promises of a fence. The theorems assume what `Adoption` states of its
constants: routes, daemons and the marker are distinct, and so are the kinds of row ids.

`OutputHubProofs` proves, for any number of connections and any sizes of ring, queue,
reserve and screen: `NothingSlips` (`NoByteSlips`), `EndingsArrive`
(`NobodyWaitsOnADeadStream`), `ExitComesLast` (`ExitedAfterTheLastByte`) and
`RepairsStayOwed` (`RepairOwed`). `HubInv` adds `ReplayCurrent` (the replay of an attach
that holds the mutex is still the end of the stream), `AttachedListens` (whoever is
attached to a live stream is subscribed, so the ending finds it), `DrainOrder` and
`RepairKept` (a repair is latched, or deferred inside the publish that is running). The
first part of the proof is about queues alone: what appending a frame and receiving one
does to `Reaches`, `Ended` and `Stale`. The second has one lemma per action, over
`SlipsKept`, `RepairCarries` and `EndingKept`. That a queue's byte count never drops
below zero (the last conjunct of `TypeOK`) and `ReplayFits` need the sum over a queue,
an induction over data, and stay with TLC; the proofs take the count for an integer and
do not use it.

`HostDaemonProofs` proves, for any finite number of daemons and clients,
`AdmittedRequestsFinish` (`RequestsFinish`), `IdleExitIsEmpty` (`IdleTakesNothing`) and
`ShutdownCompletes` (`ShutdownRunsItsCourse`) from `HostInv`: where a client stands
against its daemon (`Placed`), that `active` counts the requests in hand
(`ActiveCounts`), why a gate is closed and who is owed an answer (`GateReason`,
`GateClosed`). It proves `ServingIsReachable` (`ServingReachable`) and `QuietHandover`
(`HandoverIsQuiet`), however many daemons start at once, from `OneHolder`: a daemon whose
start nobody raced starts where only raced ones hold the path, and has the path to itself
from its bind until it unlinks it. Finiteness is there for `Cardinality`.

`SessionEndProofs` proves `ExitNeverContradicted` (`NeverContradicted`), `KillEndsGroups`
(`KilledGroupsEnded`) and `FramesAddUp` (`ShownIsStatus`) from `EndInv`: the order of
reaper, drain and kill (`ThreadOrder`, `KillOrder`: from SIGKILL on, whatever runs in a
group the kill is after has it pending, and a doomed shell starts nothing), and that
nothing but silence is derived of a session before it is announced (`AnnouncedAsIs`).
There is no hypothesis: the wait may be given up, and the disk may be slow.

`StateStoreProofs` proves `LedgerWhole` (`LedgerIsWhole`), `AckedSurvives`
(`AckedOutlivesPower`) and `LedgerKept` (`LedgerIsKept`), for any records and any number
of failing calls, deaths and power failures, from `StoreInv`: what has the ledger's name
was flushed before it got it (`NamedFlushed`), the temporary file is never the ledger
(`TempApart`), and a daemon that may write has read a whole ledger (`WriterHolds`).

`PtySizeProofs` proves `PtyFollowsAsks` (`SizeFollowsAsks`) for a daemon that serves one
request at a time (`~ Parallel`, the assumption of `size_views`), with any number of
connections, views and sizes. `SizeInv` adds that at most one request has decided and not
applied, that what it is about to apply is what the asks add up to now, and that the size
at rest is right as soon as the connections that draw the focused view are one
(`Settled`, which `DrawnOnce` implies). The lemmas are about `Vec::retain` and
`swap_remove` on a list in which each connection occurs once: both keep who is in it, so
that the size asked for (`EffectiveSize`) moves only with the asks, the claim and who
draws the focused view.

`LayoutSyncProofs` proves the four properties of `layout_sync` for any number of windows,
sessions, edits, faults and kills. They rest on four invariants, each in terms of the ones
before it:

- `EditInv`, of one window by itself and however many of its writes overlap: types, what
  waits behind a render (`RendersFirst`), that a user's uncaptured change shows
  (`KeepsUnsent`), and that a window which shows or claims anything but what it was told
  does so for its user (`ShowsAsTold`). `UnsentStays` (`UnsentEditsStay`) and
  `PushesEdits` (`OnlyEditsAreStored`) follow.
- `OneClaim`, of a window whose own writes have not overlapped (`Alone`), whatever the
  other windows' do: it has one write on its way at most, and claims a revision it was
  not told of only meanwhile. `NothingLost` (`NoLostUpdate`) follows.
- `StreamTrue`: the ledger is the table or an older state of it; an answer on its way
  agrees with either where it has their revision; the events still to be handled behind
  the last reset lead up to what the stream last forwarded.
- `SettleInv`, again of such a window: one whose events are handled has the
  stored revision or is about to (`HasHeard`), unless its write was refused; every
  layout it holds (told, or queued behind a render) is no newer than what is stored or
  was forwarded, and is the stored one where the revisions are equal (`HoldsStored`);
  and what it shows and has not captured is what it knows (`CapturesAll`).
  `WindowsSettle` (`SettlesOnStored`) follows: at rest nothing is queued, captured or on
  its way.

What is hard is the restart. The ledger may be older than what the windows were told, and
another layout may then get a revision that a window has already seen. What saves the
windows is that a stream which finds the daemon behind what it forwarded resets its
window (`Snapshot`); `Fits` says of each layout in a window that either this will happen or
the layout is not one the restart took back. One window is not saved; see `stranded` in
the section above.

Each of these invariants stands at the end of the module it is about, `Traced` beside the
proof that uses it, and was checked by TLC on the instance of that module's runs before
it was proved. The theorems assume what the modules state of their constants, and the
hypotheses named above.

Only model-checked: `ReplayFits`, the byte count of a queue, and every liveness property,
which is out of the prover's reach.

## What is not modelled

- Encoding, framing and the generation handshake (`ade_session`): data, apart from the
  negotiation, which is planned.
- ssh, deployment and updates of the daemon's binary: I/O around a few decisions.
- The screen's contents (`grid.rs`): no property here tells two screens apart.
- The bell scanner (`BellScan::feed`): a byte automaton with unit tests; SessionEnd takes
  its verdict as an input.
- Of the client: the first render while a window is being installed, project scopes and their enrichment, the cache of discoveries,
  cleanup of dead workspaces, `reset_workspace_sessions`, rename, attach, errors of the
  registry's database, and the host link's upgrade.
- User interface, agent workspaces and the upstream editor.

## Plan

1. SessionTable, OutputHub, HostDaemon, PtySize, SessionEnd, StateStore (done), with the
   proofs of SessionTable (done).
2. SessionPromise, which SessionTable implements, checked by TLC (done); LayoutSync and
   Adoption, the client's side of layouts and of workspaces (done), with the proofs of
   Adoption (done).
3. Proofs of the table's outcomes, the hub, the host, the end of sessions, the store, the
   pty's size and the windows, and the refinement of SessionPromise step by step (done).
4. The generation-2 create, which makes its own workspace, and
   `update_workspace_project`, in SessionTable; the generation handshake of `server.rs`
   and `client.rs`; cleanup of dead workspaces in Adoption.
