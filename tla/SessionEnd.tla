----------------------------- MODULE SessionEnd -----------------------------
(***************************************************************************)
(* How a session's status is derived and how the session ends:             *)
(* crates/ade_session_daemon, sessions.rs (Activity, derive_status, sweep, *)
(* spawn_reaper, spawn_drain, report_exit, kill_session_process,           *)
(* terminate_groups).                                                      *)
(*                                                                         *)
(* One session: a shell that leads the process session, a child in the     *)
(* shell's group and a foreground job in a group of its own.  The sweeper, *)
(* the reaper, the drain and the kill escalation are threads of their own. *)
(* A process group's number is free for a stranger once nothing uses it as *)
(* a pid, a group or a session.                                            *)
(***************************************************************************)
EXTENDS Naturals, FiniteSets

Statuses == {"Working", "NeedsInput", "Idle", "Exited"}
Groups == {"shell", "job"}
Procs == {"shell", "child", "job"}
Signals == {"SIGHUP", "SIGKILL"}
KillSteps == {"none", "groups", "killer", "last", "grace", "check", "gone", "answered"}
GroupOf == [p \in Procs |-> IF p = "job" THEN "job" ELSE "shell"]

VARIABLES
    proc,       \* the session's processes; a zombie is exited and not waited on
    fg,         \* the pty's foreground group, or "none"
    strangers,  \* group numbers other programs hold by now
    hits,       \* the signals that were sent to strangers
    doomed,     \* processes with a SIGKILL to die of, sooner or later
    act,        \* Activity: bell, quiet (no output for needs_input_after), dead
    row,        \* the table's row: "uncommitted", "committed" or "removed"
    status,     \* SessionInfo.status
    reaper, drain,
    kill,       \* where the kill stands, the groups it is after, whether the gate spared
                \* them and whether all were seen gone; history: whether the shell's
                \* number was still reserved when KILL_GRACE began
    shown,      \* the status a subscriber holds
    exits,      \* Exited frames it got
    overtaken   \* history: the last sweep to change the row came before its announcement

vars == <<proc, fg, strangers, hits, doomed, act, row, status, reaper, drain, kill,
          shown, exits, overtaken>>
procVars == <<proc, fg, strangers, hits, doomed>>
rowVars == <<row, status, shown, exits, overtaken>>

\* What the variables range over.
TypeOK ==
    /\ proc \in [Procs -> {"unborn", "run", "zombie", "gone"}]
    /\ \A p \in Procs \ {"shell"} : proc[p] # "zombie"
    /\ fg \in Groups \cup {"none"}
    /\ strangers \subseteq Groups /\ hits \subseteq Signals \X Groups
    /\ doomed \subseteq Procs
    /\ act \in [bell : BOOLEAN, quiet : BOOLEAN, dead : BOOLEAN]
    /\ row \in {"uncommitted", "committed", "removed"}
    /\ status \in Statuses
    /\ reaper \in {"off", "waiting", "waited", "marked", "sent"}
    /\ drain \in {"off", "reading", "eof", "done"}
    /\ kill \in [at : KillSteps, groups : SUBSET Groups, spared : BOOLEAN,
                 reserved : BOOLEAN, confirmed : BOOLEAN]
    /\ shown \in Statuses \cup {"unknown", "removed"}
    /\ exits \in 0 .. 2 /\ overtaken \in BOOLEAN

\* record_created has inserted the row; commit_created is about to write it.
Init ==
    /\ proc = [p \in Procs |-> IF p = "job" THEN "unborn" ELSE "run"]
    /\ fg = "shell" /\ strangers = {} /\ hits = {} /\ doomed = {}
    /\ act = [bell |-> FALSE, quiet |-> FALSE, dead |-> FALSE]
    /\ row = "uncommitted" /\ status = "Working"
    /\ reaper = "off" /\ drain = "off"
    /\ kill = [at |-> "none", groups |-> {}, spared |-> FALSE, reserved |-> FALSE,
               confirmed |-> FALSE]
    /\ shown = "unknown" /\ exits = 0 /\ overtaken = FALSE

-----------------------------------------------------------------------------
(* The session's processes and the rest of the host.                        *)

\* The shell's number is also the session's, which every process of it uses.
InUse(g) == \E p \in Procs : proc[p] \in {"run", "zombie"} /\ g \in {GroupOf[p], "shell"}

Hosts(g) == {p \in Procs : GroupOf[p] = g /\ proc[p] = "run"}

\* group_exists: a zombie answers to its group's number, and so does a stranger.
GroupExists(g) ==
    g \in strangers \/ \E p \in Procs : GroupOf[p] = g /\ proc[p] \in {"run", "zombie"}

StartJob ==
    /\ proc["shell"] = "run" /\ "shell" \notin doomed /\ proc["job"] = "unborn"
    /\ proc' = [proc EXCEPT !["job"] = "run"]
    /\ fg' = "job"
    /\ UNCHANGED <<strangers, hits, doomed, act, reaper, drain, kill>> /\ UNCHANGED rowVars

\* A process exits, of itself or of a signal.  The kernel takes the terminal from
\* a session whose leader has exited.
Exit(p) ==
    /\ proc[p] = "run"
    /\ proc' = [proc EXCEPT ![p] = IF p = "shell" THEN "zombie" ELSE "gone"]
    /\ fg' = IF p = "shell" THEN "none" ELSE fg
    /\ UNCHANGED <<strangers, hits, doomed, act, reaper, drain, kill>> /\ UNCHANGED rowVars

\* The shell takes its terminal back some time after the job's end.
Reclaim ==
    /\ proc["shell"] = "run" /\ "shell" \notin doomed /\ proc["job"] = "gone" /\ fg = "job"
    /\ fg' = "shell"
    /\ UNCHANGED <<proc, strangers, hits, doomed, act, reaper, drain, kill>> /\ UNCHANGED rowVars

Recycle(g) ==
    /\ ~ InUse(g) /\ g \notin strangers
    /\ g = "job" => proc["job"] = "gone"
    /\ strangers' = strangers \cup {g}
    /\ UNCHANGED <<proc, fg, hits, doomed, act, reaper, drain, kill>> /\ UNCHANGED rowVars

-----------------------------------------------------------------------------
(* Status.                                                                  *)

\* Activity::record_output, by the drain thread; BellScan decides the bell.
Output(rang) ==
    /\ drain = "reading"
    /\ act' = [act EXCEPT !.bell = rang, !.quiet = FALSE]
    /\ UNCHANGED <<reaper, drain, kill>> /\ UNCHANGED procVars /\ UNCHANGED rowVars

\* needs_input_after passes without output.
Silence ==
    /\ ~ act.quiet
    /\ act' = [act EXCEPT !.quiet = TRUE]
    /\ UNCHANGED <<reaper, drain, kill>> /\ UNCHANGED procVars /\ UNCHANGED rowVars

\* Mutant: the bell outranks the exit.
DeriveBellFirst ==
    IF act.bell THEN {"NeedsInput"}
    ELSE IF act.dead THEN {"Exited"}
    ELSE IF ~ act.quiet THEN {"Working"}
    ELSE {"Idle", "NeedsInput"}

\* derive_status: what it may answer, which is one status except that the
\* foreground process may have a shell's name or not, and hide it from the probe.
DeriveStatus ==
    IF act.dead THEN {"Exited"}
    ELSE IF act.bell THEN {"NeedsInput"}
    ELSE IF ~ act.quiet THEN {"Working"}
    ELSE IF fg = "none" THEN {"NeedsInput"}
    ELSE {"Idle", "NeedsInput"}

\* SessionTable::sweep, whole under the table's lock.
Sweep ==
    /\ row # "removed"
    /\ \E derived \in DeriveStatus :
         /\ derived # status
         /\ status' = derived
         /\ shown' = derived
    /\ overtaken' = (row = "uncommitted")
    /\ UNCHANGED <<act, row, exits, reaper, drain, kill>> /\ UNCHANGED procVars

\* Mutant: the threads are started before the session is announced.
CommitSpawnsFirst ==
    /\ \/ reaper = "off" /\ reaper' = "waiting" /\ drain' = "reading"
          /\ UNCHANGED <<row, shown>>
       \/ reaper # "off" /\ row = "uncommitted" /\ row' = "committed"
          /\ shown' = "Working" /\ UNCHANGED <<reaper, drain>>
    /\ UNCHANGED <<act, status, exits, overtaken, kill>> /\ UNCHANGED procVars

\* The tail of commit_created, and create's two threads.
Commit ==
    /\ reaper = "off"
    /\ IF row = "uncommitted"
       THEN row' = "committed" /\ shown' = "Working"
       ELSE UNCHANGED <<row, shown>>
    /\ reaper' = "waiting" /\ drain' = "reading"
    /\ UNCHANGED <<act, status, exits, overtaken, kill>> /\ UNCHANGED procVars

-----------------------------------------------------------------------------
(* The child's exit: reaper and drain.                                      *)

\* child.wait() returns, and the kernel forgets the shell's pid.
Wait ==
    /\ reaper = "waiting" /\ proc["shell"] = "zombie"
    /\ proc' = [proc EXCEPT !["shell"] = "gone"]
    /\ reaper' = "waited"
    /\ UNCHANGED <<fg, strangers, hits, doomed, act, drain, kill>> /\ UNCHANGED rowVars

\* Mutant: the exit code is sent before the fact is recorded.
MarkDeadLate ==
    /\ reaper = "waited"
    /\ reaper' = "sent"
    /\ UNCHANGED <<act, drain, kill>> /\ UNCHANGED procVars /\ UNCHANGED rowVars

\* Activity::mark_dead.
MarkDead ==
    /\ reaper = "waited"
    /\ act' = [act EXCEPT !.dead = TRUE]
    /\ reaper' = "marked"
    /\ UNCHANGED <<drain, kill>> /\ UNCHANGED procVars /\ UNCHANGED rowVars

SendExit ==
    /\ reaper = "marked"
    /\ reaper' = "sent"
    /\ UNCHANGED <<act, drain, kill>> /\ UNCHANGED procVars /\ UNCHANGED rowVars

\* The leader's exit, or the kill's dropping of the master, hangs the pty up.
Eof ==
    /\ drain = "reading"
    /\ proc["shell"] # "run" \/ kill.at = "answered"
    /\ drain' = "eof"
    /\ UNCHANGED <<act, reaper, kill>> /\ UNCHANGED procVars /\ UNCHANGED rowVars

\* spawn_drain's recv, and SessionTable::report_exit.
ReportExit ==
    /\ drain = "eof" /\ reaper = "sent"
    /\ drain' = "done"
    /\ IF row = "removed" THEN UNCHANGED <<exits, shown>>
       ELSE exits' = exits + 1 /\ shown' = "Exited"
    /\ UNCHANGED <<act, row, status, overtaken, reaper, kill>> /\ UNCHANGED procVars

-----------------------------------------------------------------------------
(* Kill.                                                                    *)

\* remove_session's critical section, and the groups the pty names.
RemoveSession ==
    /\ kill.at = "none" /\ row # "removed"
    /\ row' = "removed" /\ shown' = "removed"
    /\ kill' = [kill EXCEPT !.at = "groups", !.groups = {"shell", fg} \ {"none"}]
    /\ UNCHANGED <<act, status, exits, overtaken, reaper, drain>> /\ UNCHANGED procVars

\* Astray(sig, gs): sig sent to the groups gs reaches the strangers among them.
Astray(sig, gs) == hits \cup {sig} \X (gs \cap strangers)

\* terminate_groups up to the thread it starts.  What SIGHUP does to a process
\* is its own affair: it may exit, as it may at any time.
HangUp ==
    /\ kill.at = "groups"
    /\ IF act.dead
       THEN hits' = hits /\ kill' = [kill EXCEPT !.at = "gone", !.spared = TRUE]
       ELSE /\ hits' = Astray("SIGHUP", kill.groups)
            /\ kill' = [kill EXCEPT !.at = "killer"]
    /\ UNCHANGED <<proc, fg, strangers, doomed, act, reaper, drain>> /\ UNCHANGED rowVars

\* Kills(gs): SIGKILL to the groups gs, of which what runs there will die.
Kills(gs) ==
    /\ doomed' = doomed \cup UNION {Hosts(g) : g \in gs}
    /\ hits' = Astray("SIGKILL", gs)

\* The same when the thread cannot be started: SIGKILL at once, and no waiting.
HangUpUnthreaded ==
    /\ kill.at = "groups" /\ ~ act.dead
    /\ Kills(kill.groups)
    /\ kill' = [kill EXCEPT !.at = "last"]
    /\ UNCHANGED <<proc, fg, strangers, act, reaper, drain>> /\ UNCHANGED rowVars

\* live.killer.kill(): SIGHUP to the shell's pid, behind a gate of its own.
Killer ==
    /\ kill.at \in {"killer", "last"}
    /\ hits' = IF act.dead THEN hits ELSE Astray("SIGHUP", {"shell"})
    /\ kill' = IF kill.at = "killer"
               THEN [kill EXCEPT !.at = "grace", !.reserved = proc["shell"] # "gone"]
               ELSE [kill EXCEPT !.at = "gone"]
    /\ UNCHANGED <<proc, fg, strangers, doomed, act, reaper, drain>> /\ UNCHANGED rowVars

\* Mutant: only the first of the groups gets the second signal.
EscalateFirst ==
    /\ kill.at = "grace"
    /\ Kills({"shell"})
    /\ kill' = [kill EXCEPT !.at = "check"]
    /\ UNCHANGED <<proc, fg, strangers, act, reaper, drain>> /\ UNCHANGED rowVars

\* The escalation thread, after KILL_GRACE: SIGKILL to every group.
Escalate ==
    /\ kill.at = "grace"
    /\ Kills(kill.groups)
    /\ kill' = [kill EXCEPT !.at = "check"]
    /\ UNCHANGED <<proc, fg, strangers, act, reaper, drain>> /\ UNCHANGED rowVars

\* It polls until no group exists any more ...
Confirm ==
    /\ kill.at = "check" /\ \A g \in kill.groups : ~ GroupExists(g)
    /\ kill' = [kill EXCEPT !.at = "gone", !.confirmed = TRUE]
    /\ UNCHANGED <<act, reaper, drain>> /\ UNCHANGED procVars /\ UNCHANGED rowVars

\* ... or until its deadline: "still exists after SIGKILL".
GiveUp ==
    /\ kill.at = "check"
    /\ kill' = [kill EXCEPT !.at = "gone"]
    /\ UNCHANGED <<act, reaper, drain>> /\ UNCHANGED procVars /\ UNCHANGED rowVars

\* wait_for_termination, the drop of the pty, and the answer.
Answer ==
    /\ kill.at = "gone"
    /\ kill' = [kill EXCEPT !.at = "answered"]
    /\ UNCHANGED <<act, reaper, drain>> /\ UNCHANGED procVars /\ UNCHANGED rowVars

-----------------------------------------------------------------------------
Host == StartJob \/ (\E p \in Procs : Exit(p)) \/ Reclaim \/ (\E g \in Groups : Recycle(g))
Threads == Sweep \/ Commit \/ Wait \/ MarkDead \/ SendExit \/ Eof \/ ReportExit
Kill == \/ RemoveSession \/ HangUp \/ HangUpUnthreaded \/ Killer
        \/ Escalate \/ Confirm \/ GiveUp \/ Answer

Next ==
    \/ Host \/ Threads \/ Kill
    \/ Silence \/ \E rang \in BOOLEAN : Output(rang)

Spec == Init /\ [][Next]_vars

\* Every thread of the daemon runs on; programs and clients owe nothing.
FairSpec ==
    /\ Spec
    /\ WF_vars(Sweep) /\ WF_vars(Commit) /\ WF_vars(Wait) /\ WF_vars(MarkDead)
    /\ WF_vars(SendExit) /\ WF_vars(Eof) /\ WF_vars(ReportExit)

-----------------------------------------------------------------------------
(* Properties.                                                              *)

\* spawn_reaper: "The fact first, so that a sweep racing the event can only ever
\* be late, never contradictory".  A subscriber that has heard Exited hears it
\* once and is never told that the session is alive, and one that was told to
\* forget the session hears no more of it.
NeverContradicted ==
    /\ exits > 0 => shown \in {"Exited", "removed"}
    /\ exits <= 1
    /\ row = "removed" => shown = "removed"

\* sweep pushes what changed and nothing else, so what the frames add up to is
\* the status the table holds.  Exited may come ahead of the sweep; and a session
\* that falls quiet while its row is being written is announced as Working over
\* what the sweep made of it, until the sweep next finds a change.
ShownIsStatus ==
    row = "committed" =>
        \/ shown = status
        \/ shown = "Exited" /\ act.dead
        \/ overtaken /\ shown = "Working" /\ status \in {"Idle", "NeedsInput"}

\* terminate_groups: "make sure it ended".  Unless the child had been reaped before
\* the kill, nothing that runs in the groups the pty named at its start outlives
\* the answer except what has SIGKILL pending, whatever traps SIGHUP, starts or
\* exits meanwhile and whether the thread could be started or not; and nothing at
\* all does unless the wait was given up.
KilledGroupsEnded ==
    kill.at \in {"gone", "answered"} /\ ~ kill.spared =>
        \A g \in kill.groups :
            /\ Hosts(g) \subseteq doomed
            /\ kill.confirmed => Hosts(g) = {}

\* terminate_groups: "An unreaped leader keeps the pid reserved, which makes the
\* signals below safe".  Where the shell's number was reserved as KILL_GRACE began,
\* the SIGKILL after it reaches no other program's group by that number.
StrangersSpared == kill.reserved => <<"SIGKILL", "shell">> \notin hits

\* A child's exit reaches the subscribers, whatever bells, output and sweeps
\* come in between, unless the session is killed.
ExitIsShown ==
    (proc["shell"] = "zombie") ~> (shown = "removed" \/ (shown = "Exited" /\ status = "Exited"))

-----------------------------------------------------------------------------
(* The inductive invariants behind these properties.                        *)

\* The order of the threads' steps: nobody waits for a child, reads its output or
\* reports its exit before the row is committed or removed, and the report comes
\* after the fact.
ThreadOrder ==
    /\ row = "uncommitted" => reaper = "off"
    /\ reaper = "off" <=> drain = "off"
    /\ drain = "done" => reaper = "sent"
    /\ act.dead <=> reaper \in {"marked", "sent"}
    /\ exits > 0 => drain = "done"
    /\ row = "removed" <=> kill.at # "none"

\* What the kill is after has been born, so that nothing of it can start later,
\* and has its SIGKILL from the escalation on, or at once without a thread.
KillOrder ==
    /\ fg = "job" \/ "job" \in kill.groups => proc["job"] # "unborn"
    /\ kill.at \in {"last", "check"} => \A g \in kill.groups : Hosts(g) \subseteq doomed
    /\ kill.spared => kill.at \in {"gone", "answered"}
    /\ kill.confirmed => kill.at \in {"gone", "answered"} /\ ~ kill.spared

\* Nothing but silence has been derived of a session before it is announced.
AnnouncedAsIs ==
    row = "uncommitted" =>
        /\ ~ act.bell /\ ~ act.dead
        /\ overtaken \/ status = "Working"
        /\ status \in {"Working", "Idle", "NeedsInput"}

EndInv ==
    /\ TypeOK /\ ThreadOrder /\ KillOrder /\ AnnouncedAsIs
    /\ NeverContradicted /\ ShownIsStatus /\ KilledGroupsEnded
=============================================================================
