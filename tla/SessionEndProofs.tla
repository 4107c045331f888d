-------------------------- MODULE SessionEndProofs --------------------------
(***************************************************************************)
(* Theorems about SessionEnd: what subscribers hear of a session's end and *)
(* what is left of a killed one, in every interleaving of the sweeper, the *)
(* reaper, the drain, the kill and the session's own processes.            *)
(***************************************************************************)
EXTENDS SessionEnd, TLAPS

\* commit_created is about to run.
LEMMA InitHolds == Init => EndInv
<1> SUFFICES ASSUME Init PROVE EndInv
  OBVIOUS
<1>1. TypeOK
  <2>1. hits \subseteq Signals \X Groups /\ doomed \subseteq Procs /\ strangers \subseteq Groups
    BY DEF Init
  <2>2. /\ proc \in [Procs -> {"unborn", "run", "zombie", "gone"}]
        /\ \A p \in Procs \ {"shell"} : proc[p] # "zombie"
    BY DEF Init, Procs
  <2>3. kill \in [at : KillSteps, groups : SUBSET Groups, spared : BOOLEAN,
                  reserved : BOOLEAN, confirmed : BOOLEAN]
    BY DEF Init, KillSteps
  <2>4. act \in [bell : BOOLEAN, quiet : BOOLEAN, dead : BOOLEAN] /\ overtaken \in BOOLEAN
    BY DEF Init
  <2>5. /\ fg \in Groups \cup {"none"} /\ status \in Statuses
        /\ row \in {"uncommitted", "committed", "removed"}
        /\ reaper \in {"off", "waiting", "waited", "marked", "sent"}
        /\ drain \in {"off", "reading", "eof", "done"}
        /\ shown \in Statuses \cup {"unknown", "removed"}
        /\ exits \in 0 .. 2
    BY DEF Init, Groups, Statuses
  <2> QED
    BY <2>1, <2>2, <2>3, <2>4, <2>5 DEF TypeOK
<1>2. ThreadOrder /\ AnnouncedAsIs
  BY DEF Init, ThreadOrder, AnnouncedAsIs
<1>3. KillOrder /\ NeverContradicted /\ ShownIsStatus /\ KilledGroupsEnded
  BY DEF Init, KillOrder, NeverContradicted, ShownIsStatus, KilledGroupsEnded
<1> QED
  BY <1>1, <1>2, <1>3 DEF EndInv

\* Where no group gets more to run, none is spared and no signal forgotten, what
\* the kill has reached stays reached.
LEMMA KillStays ==
    ASSUME KillOrder, KilledGroupsEnded, UNCHANGED kill, doomed \subseteq doomed',
           \A g \in kill.groups : Hosts(g)' \subseteq Hosts(g),
           (fg' = "job" => fg = "job") \/ proc'["job"] # "unborn",
           proc["job"] # "unborn" => proc'["job"] # "unborn"
    PROVE  KillOrder' /\ KilledGroupsEnded'
BY DEF KillOrder, KilledGroupsEnded

-----------------------------------------------------------------------------
(* The host's steps.                                                        *)

\* A job starts in a group that no kill is after.
LEMMA StartJobHolds == EndInv /\ StartJob => EndInv'
<1> SUFFICES ASSUME EndInv, StartJob PROVE EndInv'
  OBVIOUS
<1>1. UNCHANGED <<strangers, hits, doomed, act, reaper, drain, kill, row, status, shown, exits, overtaken>>
      /\ fg' = "job"
  BY DEF StartJob, rowVars
<1>2. /\ proc' \in [Procs -> {"unborn", "run", "zombie", "gone"}]
      /\ \A p \in Procs \ {"shell"} : proc'[p] # "zombie"
      /\ \A p \in Procs \ {"job"} : proc'[p] = proc[p]
      /\ proc'["job"] = "run" /\ proc["job"] = "unborn"
  BY DEF StartJob, EndInv, TypeOK, Procs
<1>3. TypeOK'
  BY <1>1, <1>2 DEF EndInv, TypeOK, Groups
<1>4. kill.groups \subseteq {"shell"}
  BY <1>2 DEF EndInv, KillOrder, TypeOK, Groups
<1>5. \A g \in kill.groups : Hosts(g)' = Hosts(g)
  BY <1>2, <1>4 DEF Hosts, GroupOf, Procs
<1>6. KillOrder' /\ KilledGroupsEnded'
  BY <1>1, <1>2, <1>5, KillStays DEF EndInv
<1> QED
  BY <1>1, <1>3, <1>6 DEF EndInv, ThreadOrder, AnnouncedAsIs, NeverContradicted, ShownIsStatus

\* A process exits, of itself or of a signal.
LEMMA ExitHolds == ASSUME NEW p \in Procs, EndInv, Exit(p) PROVE EndInv'
<1>1. UNCHANGED <<strangers, hits, doomed, act, reaper, drain, kill, row, status, shown, exits, overtaken>>
      /\ fg' \in {fg, "none"} /\ proc[p] = "run"
      /\ proc' = [proc EXCEPT ![p] = IF p = "shell" THEN "zombie" ELSE "gone"]
  BY DEF Exit, rowVars
<1>2. /\ proc' \in [Procs -> {"unborn", "run", "zombie", "gone"}]
      /\ \A q \in Procs \ {"shell"} : proc'[q] # "zombie"
      /\ \A q \in Procs : /\ proc'[q] = "run" => proc[q] = "run"
                          /\ proc'[q] = "unborn" <=> proc[q] = "unborn"
  BY <1>1 DEF EndInv, TypeOK
<1>3. TypeOK'
  BY <1>1, <1>2 DEF EndInv, TypeOK
<1>4. \A g : Hosts(g)' \subseteq Hosts(g)
  BY <1>2 DEF Hosts
<1>5. "job" \in Procs
  BY DEF Procs
<1>6. KillOrder' /\ KilledGroupsEnded'
  BY <1>1, <1>2, <1>4, <1>5, KillStays DEF EndInv
<1> QED
  BY <1>1, <1>3, <1>6 DEF EndInv, ThreadOrder, AnnouncedAsIs, NeverContradicted, ShownIsStatus

\* The terminal goes back to the shell, or a number to a stranger.
LEMMA HostHolds ==
    EndInv /\ (Reclaim \/ \E g \in Groups : Recycle(g)) => EndInv'
<1> SUFFICES ASSUME EndInv, Reclaim \/ \E g \in Groups : Recycle(g) PROVE EndInv'
  OBVIOUS
<1>1. /\ UNCHANGED <<proc, hits, doomed, act, reaper, drain, kill, row, status, shown, exits, overtaken>>
      /\ fg' \in {fg, "shell"} /\ strangers' \subseteq Groups
  BY DEF Reclaim, Recycle, rowVars, EndInv, TypeOK
<1>2. TypeOK'
  BY <1>1 DEF EndInv, TypeOK, Groups
<1>3. \A g : Hosts(g)' = Hosts(g)
  BY <1>1 DEF Hosts
<1>4. KillOrder' /\ KilledGroupsEnded'
  BY <1>1, <1>3, KillStays DEF EndInv
<1> QED
  BY <1>1, <1>2, <1>4 DEF EndInv, ThreadOrder, AnnouncedAsIs, NeverContradicted, ShownIsStatus

-----------------------------------------------------------------------------
(* The daemon's threads.                                                    *)

\* Output, silence and the reaper's steps: the row is not touched.
LEMMA ActivityHolds ==
    EndInv /\ ((\E rang \in BOOLEAN : Output(rang)) \/ Silence \/ MarkDead \/ SendExit \/ Eof)
        => EndInv'
<1> SUFFICES ASSUME EndInv,
                    (\E rang \in BOOLEAN : Output(rang)) \/ Silence \/ MarkDead \/ SendExit \/ Eof
             PROVE  EndInv'
  OBVIOUS
<1>1. UNCHANGED <<proc, fg, strangers, hits, doomed, kill, row, status, shown, exits, overtaken>>
  BY DEF Output, Silence, MarkDead, SendExit, Eof, procVars, rowVars
<1>2. /\ act' \in [bell : BOOLEAN, quiet : BOOLEAN, dead : BOOLEAN]
      /\ ~ MarkDead => act'.dead = act.dead
      /\ MarkDead => act'.dead = TRUE
  BY DEF EndInv, TypeOK, Output, Silence, MarkDead, SendExit, Eof
<1>3. TypeOK'
  <2>1. /\ reaper' \in {"off", "waiting", "waited", "marked", "sent"}
        /\ drain' \in {"off", "reading", "eof", "done"}
    BY DEF EndInv, TypeOK, Output, Silence, MarkDead, SendExit, Eof
  <2> QED
    BY <1>1, <1>2, <2>1 DEF EndInv, TypeOK
<1>4. ThreadOrder'
  <2>1. CASE MarkDead
    BY <1>1, <1>2, <2>1 DEF EndInv, ThreadOrder, MarkDead
  <2>2. CASE ~ MarkDead
    <3>1. act'.dead = act.dead
      BY <1>2, <2>2
    <3> QED
      BY <1>1, <2>2, <3>1 DEF EndInv, ThreadOrder, TypeOK, Output, Silence, SendExit, Eof
  <2> QED
    BY <2>1, <2>2
<1>5. KillOrder' /\ KilledGroupsEnded'
  <2>1. \A g : Hosts(g)' = Hosts(g)
    BY <1>1 DEF Hosts
  <2> QED
    BY <1>1, <2>1, KillStays DEF EndInv
<1>6. (act.dead => act'.dead) /\ (row = "uncommitted" => UNCHANGED <<reaper, drain>> /\ act'.bell = act.bell /\ act'.dead = act.dead)
  <2>1. act.dead => act'.dead
    BY <1>2
  <2>2. row = "uncommitted" => reaper = "off" /\ drain = "off"
    BY DEF EndInv, ThreadOrder
  <2>3. row = "uncommitted" => Silence
    BY <2>2 DEF Output, MarkDead, SendExit, Eof
  <2> QED
    BY <2>1, <2>3 DEF Silence, EndInv, TypeOK
<1>7. AnnouncedAsIs' /\ ShownIsStatus' /\ NeverContradicted'
  BY <1>1, <1>6 DEF EndInv, AnnouncedAsIs, ShownIsStatus, NeverContradicted
<1> QED
  BY <1>3, <1>4, <1>5, <1>7 DEF EndInv

\* child.wait() takes a zombie, which runs in no group.
LEMMA WaitHolds == EndInv /\ Wait => EndInv'
<1> SUFFICES ASSUME EndInv, Wait PROVE EndInv'
  OBVIOUS
<1>1. /\ UNCHANGED <<fg, strangers, hits, doomed, act, drain, kill, row, status, shown, exits, overtaken>>
      /\ reaper = "waiting" /\ reaper' = "waited"
  BY DEF Wait, rowVars
<1>2. /\ proc' \in [Procs -> {"unborn", "run", "zombie", "gone"}]
      /\ \A p \in Procs \ {"shell"} : proc'[p] = proc[p]
      /\ proc["shell"] # "run" /\ proc'["shell"] # "run"
  BY DEF Wait, EndInv, TypeOK, Procs
<1>3. \A g : Hosts(g)' = Hosts(g)
  BY <1>2 DEF Hosts
<1>4. TypeOK'
  BY <1>1, <1>2 DEF EndInv, TypeOK
<1>5. KillOrder' /\ KilledGroupsEnded'
  BY <1>1, <1>2, <1>3, KillStays DEF EndInv, Procs
<1> QED
  BY <1>1, <1>4, <1>5 DEF EndInv, ThreadOrder, AnnouncedAsIs, NeverContradicted, ShownIsStatus

\* The sweep and the announcement: what is pushed of a dead child is its exit, and
\* only silence is ever announced over.
LEMMA PushHolds == EndInv /\ (Sweep \/ Commit \/ ReportExit) => EndInv'
<1> SUFFICES ASSUME EndInv, Sweep \/ Commit \/ ReportExit PROVE EndInv'
  OBVIOUS
<1>1. UNCHANGED <<proc, fg, strangers, hits, doomed, act, kill>>
  BY DEF Sweep, Commit, ReportExit, procVars
<1>2. /\ DeriveStatus \subseteq Statuses /\ (act.dead => DeriveStatus = {"Exited"})
      /\ ~ act.dead /\ ~ act.bell => DeriveStatus \subseteq {"Working", "Idle", "NeedsInput"}
  BY DEF DeriveStatus, Statuses
<1>3. exits \in {0, 1} /\ (exits > 0 => act.dead)
  BY DEF EndInv, TypeOK, NeverContradicted, ThreadOrder
<1>4. KillOrder' /\ KilledGroupsEnded'
  <2>1. \A g : Hosts(g)' = Hosts(g)
    BY <1>1 DEF Hosts
  <2> QED
    BY <1>1, <2>1, KillStays DEF EndInv
<1>5. CASE Sweep
  <2>1. UNCHANGED <<row, exits, reaper, drain>> /\ row # "removed"
        /\ status' \in DeriveStatus /\ shown' = status' /\ overtaken' = (row = "uncommitted")
    BY <1>5 DEF Sweep
  <2>2. TypeOK'
    BY <1>1, <1>2, <2>1 DEF EndInv, TypeOK, Statuses
  <2>3. ThreadOrder' /\ NeverContradicted'
    BY <1>1, <1>2, <1>3, <2>1 DEF EndInv, ThreadOrder, NeverContradicted
  <2>4. AnnouncedAsIs' /\ ShownIsStatus'
    BY <1>1, <1>2, <2>1 DEF EndInv, AnnouncedAsIs, ShownIsStatus
  <2> QED
    BY <1>4, <2>2, <2>3, <2>4 DEF EndInv
<1>6. CASE Commit
  <2>1. /\ UNCHANGED <<status, exits, overtaken>> /\ reaper = "off"
        /\ reaper' = "waiting" /\ drain' = "reading"
        /\ row = "uncommitted" => row' = "committed" /\ shown' = "Working"
        /\ row # "uncommitted" => UNCHANGED <<row, shown>>
    BY <1>6 DEF Commit
  <2>2. TypeOK'
    BY <1>1, <2>1 DEF EndInv, TypeOK, Statuses
  <2>3. ThreadOrder' /\ NeverContradicted'
    BY <1>1, <1>3, <2>1 DEF EndInv, ThreadOrder, NeverContradicted, TypeOK
  <2>4. AnnouncedAsIs' /\ ShownIsStatus'
    BY <1>1, <2>1 DEF EndInv, AnnouncedAsIs, ShownIsStatus, TypeOK
  <2> QED
    BY <1>4, <2>2, <2>3, <2>4 DEF EndInv
<1>7. CASE ReportExit
  <2>1. /\ UNCHANGED <<row, status, overtaken, reaper>> /\ reaper = "sent" /\ drain = "eof" /\ drain' = "done"
        /\ row = "removed" => UNCHANGED <<exits, shown>>
        /\ row # "removed" => exits' = exits + 1 /\ shown' = "Exited"
    BY <1>7 DEF ReportExit
  <2>2. act.dead /\ exits = 0
    BY <1>3, <2>1 DEF EndInv, ThreadOrder
  <2>3. TypeOK'
    BY <1>1, <2>1, <2>2 DEF EndInv, TypeOK, Statuses
  <2>4. ThreadOrder' /\ NeverContradicted'
    BY <1>1, <2>1, <2>2 DEF EndInv, ThreadOrder, NeverContradicted
  <2>5. AnnouncedAsIs' /\ ShownIsStatus'
    BY <1>1, <2>1, <2>2 DEF EndInv, AnnouncedAsIs, ShownIsStatus
  <2> QED
    BY <1>4, <2>3, <2>4, <2>5 DEF EndInv
<1> QED
  BY <1>5, <1>6, <1>7

-----------------------------------------------------------------------------
(* The kill.                                                                *)

\* remove_session asks the pty for groups, all of which were born.
LEMMA RemoveHolds == EndInv /\ RemoveSession => EndInv'
<1> SUFFICES ASSUME EndInv, RemoveSession PROVE EndInv'
  OBVIOUS
<1>1. /\ UNCHANGED <<proc, fg, strangers, hits, doomed, act, status, exits, overtaken, reaper, drain>>
      /\ row' = "removed" /\ shown' = "removed" /\ kill.at = "none"
      /\ kill' = [kill EXCEPT !.at = "groups", !.groups = {"shell", fg} \ {"none"}]
  BY DEF RemoveSession, procVars
<1>2. /\ kill'.at = "groups" /\ kill'.groups = {"shell", fg} \ {"none"}
      /\ kill'.groups \subseteq Groups
      /\ kill'.spared = kill.spared /\ kill'.confirmed = kill.confirmed
  BY <1>1 DEF EndInv, TypeOK, Groups
<1>3. kill'.spared = FALSE /\ kill'.confirmed = FALSE
  BY <1>1, <1>2 DEF EndInv, KillOrder, TypeOK
<1>4. TypeOK'
  BY <1>1, <1>2 DEF EndInv, TypeOK, KillSteps
<1>5. ThreadOrder'
  BY <1>1, <1>2 DEF EndInv, ThreadOrder
<1>6. KillOrder' /\ KilledGroupsEnded'
  BY <1>1, <1>2, <1>3 DEF EndInv, KillOrder, KilledGroupsEnded
<1>7. NeverContradicted' /\ AnnouncedAsIs' /\ ShownIsStatus'
  BY <1>1 DEF EndInv, NeverContradicted, AnnouncedAsIs, ShownIsStatus
<1> QED
  BY <1>4, <1>5, <1>6, <1>7 DEF EndInv

\* What a step of the kill after that must do to keep the invariant.
LEMMA KillStep ==
    ASSUME EndInv, kill.at # "none", kill'.at # "none",
           UNCHANGED <<proc, fg, strangers, act, reaper, drain, row, status, shown, exits, overtaken>>,
           hits' \subseteq Signals \X Groups, doomed' \subseteq Procs,
           kill' \in [at : KillSteps, groups : SUBSET Groups, spared : BOOLEAN,
                      reserved : BOOLEAN, confirmed : BOOLEAN],
           KillOrder', KilledGroupsEnded'
    PROVE  EndInv'
<1>1. TypeOK'
  BY DEF EndInv, TypeOK
<1>2. ThreadOrder' /\ NeverContradicted' /\ AnnouncedAsIs' /\ ShownIsStatus'
  BY DEF EndInv, ThreadOrder, NeverContradicted, AnnouncedAsIs, ShownIsStatus
<1> QED
  BY <1>1, <1>2 DEF EndInv

\* Signals that nobody has to die of.
LEMMA SignalHolds == EndInv /\ (HangUp \/ Killer) => EndInv'
<1> SUFFICES ASSUME EndInv, HangUp \/ Killer PROVE EndInv'
  OBVIOUS
<1>1. UNCHANGED <<proc, fg, strangers, doomed, act, reaper, drain, row, status, shown, exits, overtaken>>
  BY DEF HangUp, Killer, rowVars
<1>2. hits' \subseteq Signals \X Groups /\ doomed' \subseteq Procs
  BY <1>1 DEF HangUp, Killer, Astray, EndInv, TypeOK, Groups, Signals
<1>3. /\ kill.at \in {"groups", "killer", "last"} /\ kill'.groups = kill.groups
      /\ kill' \in [at : KillSteps, groups : SUBSET Groups, spared : BOOLEAN,
                    reserved : BOOLEAN, confirmed : BOOLEAN]
      /\ \/ kill'.at \in {"killer", "grace"} /\ kill'.spared = kill.spared
         \/ kill'.at = "gone" /\ kill'.spared
         \/ kill'.at = "gone" /\ kill.at = "last" /\ kill'.spared = kill.spared
      /\ kill'.confirmed = kill.confirmed
  BY DEF HangUp, Killer, EndInv, TypeOK, KillSteps
<1>4. ~ kill.spared /\ ~ kill.confirmed
  BY <1>3 DEF EndInv, KillOrder
<1>5. \A g : Hosts(g)' = Hosts(g)
  BY <1>1 DEF Hosts
<1>6. KillOrder' /\ KilledGroupsEnded'
  BY <1>1, <1>3, <1>4, <1>5 DEF EndInv, KillOrder, KilledGroupsEnded
<1> QED
  BY <1>1, <1>2, <1>3, <1>6, KillStep

\* SIGKILL to every group, by the escalation or without its thread.
LEMMA SigkillHolds == EndInv /\ (HangUpUnthreaded \/ Escalate) => EndInv'
<1> SUFFICES ASSUME EndInv, HangUpUnthreaded \/ Escalate PROVE EndInv'
  OBVIOUS
<1>1. UNCHANGED <<proc, fg, strangers, act, reaper, drain, row, status, shown, exits, overtaken>>
      /\ Kills(kill.groups)
  BY DEF HangUpUnthreaded, Escalate, rowVars
<1>2. hits' \subseteq Signals \X Groups /\ doomed' \subseteq Procs
  BY <1>1 DEF Kills, Astray, Hosts, EndInv, TypeOK, Groups, Signals
<1>3. /\ kill.at \in {"groups", "grace"} /\ kill'.groups = kill.groups
      /\ kill' \in [at : KillSteps, groups : SUBSET Groups, spared : BOOLEAN,
                    reserved : BOOLEAN, confirmed : BOOLEAN]
      /\ kill'.at \in {"last", "check"}
      /\ kill'.spared = kill.spared /\ kill'.confirmed = kill.confirmed
  BY DEF HangUpUnthreaded, Escalate, EndInv, TypeOK, KillSteps
<1>4. ~ kill.spared /\ ~ kill.confirmed
  BY <1>3 DEF EndInv, KillOrder
<1>5. \A g \in kill.groups : Hosts(g)' \subseteq doomed'
  <2>1. \A g : Hosts(g)' = Hosts(g)
    BY <1>1 DEF Hosts
  <2> QED
    BY <1>1, <2>1 DEF Kills
<1>6. KillOrder' /\ KilledGroupsEnded'
  BY <1>1, <1>3, <1>4, <1>5 DEF EndInv, KillOrder, KilledGroupsEnded
<1> QED
  BY <1>1, <1>2, <1>3, <1>6, KillStep

\* The wait ends with the groups or at its deadline, and the kill is answered.
LEMMA WaitEndsHolds == EndInv /\ (Confirm \/ GiveUp \/ Answer) => EndInv'
<1> SUFFICES ASSUME EndInv, Confirm \/ GiveUp \/ Answer PROVE EndInv'
  OBVIOUS
<1>1. UNCHANGED <<proc, fg, strangers, hits, doomed, act, reaper, drain, row, status, shown, exits, overtaken>>
  BY DEF Confirm, GiveUp, Answer, procVars, rowVars
<1>2. hits' \subseteq Signals \X Groups /\ doomed' \subseteq Procs
  BY <1>1 DEF EndInv, TypeOK
<1>3. /\ kill.at \in {"check", "gone"} /\ kill'.groups = kill.groups
      /\ kill' \in [at : KillSteps, groups : SUBSET Groups, spared : BOOLEAN,
                    reserved : BOOLEAN, confirmed : BOOLEAN]
      /\ kill'.at \in {"gone", "answered"} /\ kill'.spared = kill.spared
      /\ kill'.confirmed => kill.confirmed \/ Confirm
      /\ Confirm => kill.at = "check"
  BY DEF Confirm, GiveUp, Answer, EndInv, TypeOK, KillSteps
<1>4. \A g : Hosts(g)' = Hosts(g)
  BY <1>1 DEF Hosts
<1>5. Confirm => \A g \in kill.groups : Hosts(g) = {}
  BY DEF Confirm, GroupExists, Hosts
<1>6. kill.at = "check" => ~ kill.spared /\ ~ kill.confirmed
  BY DEF EndInv, KillOrder
<1>7. \A g \in kill.groups : ~ kill.spared => Hosts(g) \subseteq doomed
  BY <1>3 DEF EndInv, KillOrder, KilledGroupsEnded
<1>8. KillOrder' /\ KilledGroupsEnded'
  <2>1. KillOrder'
    BY <1>1, <1>3, <1>6 DEF EndInv, KillOrder
  <2>2. KilledGroupsEnded'
    BY <1>1, <1>3, <1>4, <1>5, <1>6, <1>7 DEF EndInv, KilledGroupsEnded
  <2> QED
    BY <2>1, <2>2
<1> QED
  BY <1>1, <1>2, <1>3, <1>8, KillStep

-----------------------------------------------------------------------------
\* Every step of the threads, the kill and the host keeps the invariant.
LEMMA NextHolds == EndInv /\ [Next]_vars => EndInv'
<1> SUFFICES ASSUME EndInv, [Next]_vars PROVE EndInv'
  OBVIOUS
<1>1. CASE UNCHANGED vars
  <2>1. \A g : Hosts(g)' = Hosts(g)
    BY <1>1 DEF vars, Hosts
  <2>2. KillOrder' /\ KilledGroupsEnded'
    BY <1>1, <2>1, KillStays DEF vars, EndInv
  <2> QED
    BY <1>1, <2>2 DEF vars, EndInv, TypeOK, ThreadOrder, AnnouncedAsIs, NeverContradicted, ShownIsStatus
<1>2. CASE Host
  BY <1>2, StartJobHolds, ExitHolds, HostHolds DEF Host
<1>3. CASE Threads
  BY <1>3, PushHolds, WaitHolds, ActivityHolds DEF Threads
<1>4. CASE Kill
  BY <1>4, RemoveHolds, SignalHolds, SigkillHolds, WaitEndsHolds DEF Kill
<1>5. CASE Silence \/ \E rang \in BOOLEAN : Output(rang)
  BY <1>5, ActivityHolds
<1> QED
  BY <1>1, <1>2, <1>3, <1>4, <1>5 DEF Next

\* The inductive invariant holds of every behaviour.
THEOREM EndInvariant == Spec => []EndInv
<1>1. Init => EndInv
  BY InitHolds
<1> QED
  BY <1>1, NextHolds, PTL DEF Spec

\* spawn_reaper and report_exit: whatever sweeps race the exit and whatever kill
\* races both, a subscriber hears of the exit at most once and is never told
\* afterwards that the session lives, nor anything once it was removed.
THEOREM ExitNeverContradicted == Spec => []NeverContradicted
<1>1. EndInv => NeverContradicted
  BY DEF EndInv
<1> QED
  BY <1>1, EndInvariant, PTL

\* terminate_groups: when a kill is answered, with the escalation's thread or without
\* it, all that still runs in the groups the pty named at its start has SIGKILL
\* pending, and nothing does if the wait saw them gone before its deadline.
THEOREM KillEndsGroups == Spec => []KilledGroupsEnded
<1>1. EndInv => KilledGroupsEnded
  BY DEF EndInv
<1> QED
  BY <1>1, EndInvariant, PTL

\* sweep, commit_created and report_exit, however long the ledger's write takes:
\* what a subscriber holds of a session is what the table holds, or the Exited that
\* came ahead of the sweep, or Working where silence was overtaken by the
\* announcement and no sweep has found a change since.
THEOREM FramesAddUp == Spec => []ShownIsStatus
<1>1. EndInv => ShownIsStatus
  BY DEF EndInv
<1> QED
  BY <1>1, EndInvariant, PTL
=============================================================================
