------------------------- MODULE SessionTableProofs -------------------------
(***************************************************************************)
(* Proofs about SessionTable, for any sets of sessions, workspaces and     *)
(* request threads, any number of failing writes and of restarts:          *)
(*   - Recording: what is announced is on record (RecordedInv), with any   *)
(*     number of workers;                                                  *)
(*   - Outcomes: a refused create leaves nothing (ShellInv), an "ok" is on *)
(*     record (AckInv), and as long as no write fails the ledger is the    *)
(*     table whenever no handler is half way (LedgerInv);                  *)
(*   - One worker: the daemon's default executor, under which every tab is *)
(*     a session of its workspace and a subscriber is neither ahead of the *)
(*     table nor, between requests, behind it (SerialInv);                 *)
(*   - The promise: every step of the table, with any number of workers,   *)
(*     is a step of SessionPromise or none (KeepsPromise).                 *)
(* The parts build on each other: RecordedInv is known on both sides of    *)
(* every step of the later ones.                                           *)
(***************************************************************************)
EXTENDS SessionTable, TLAPS

(***************************************************************************)
(* Recording.  RecordedInv is inductive.  Its first four conjuncts (Shape) *)
(* say that the state is well formed and that `persisting` is held where   *)
(* the code relies on it; the others (Trail) follow a session from its     *)
(* reservation to its announcement.  Most steps only take rows,            *)
(* reservations and announcements away, or move a handler on: the two      *)
(* Frame lemmas cover those, and each step that adds something has an      *)
(* argument of its own.                                                    *)
(***************************************************************************)
Shape == TypeOK /\ LockHeld /\ SnapTaken /\ JobShape

Trail == /\ RowsMinted
         /\ OneCreator
         /\ RowOfCreation
         /\ ReservationRecorded
         /\ CommitRecorded
         /\ AnnouncedIsRecorded
         /\ AnnouncedInSnaps

\* The inductive invariant is its two halves.
LEMMA RecordedInvParts == RecordedInv <=> Shape /\ Trail
  BY DEF RecordedInv, Shape, Trail

-----------------------------------------------------------------------------
(* Job records.                                                             *)

\* An idle worker's job.
LEMMA IdleJob == Idle \in Jobs /\ Idle.pc = "idle" /\ Idle.write = "none"
  BY DEF Jobs, Idle, Places, Writes, Answers

\* A handler that returns.
LEMMA AnswerJob ==
    ASSUME NEW j \in Jobs, NEW a \in Answers
    PROVE  Answer(j, a) \in Jobs /\ Answer(j, a).pc = "reply" /\ Answer(j, a).write = "none"
  BY DEF Jobs, Answer, Places, Writes

\* The job of a new request.
LEMMA StartJob ==
    ASSUME NEW op \in AllOps, NEW w \in WorkspaceIds \cup {Gone},
           NEW s \in SessionIds \cup {Gone}
    PROVE  /\ Start(op, w, s) \in Jobs
           /\ Start(op, w, s).ws = w /\ Start(op, w, s).id = s
  BY DEF Jobs, Idle, Start, Places, Writes, Answers

\* A handler that waits for a ledger write keeps its subjects.
LEMMA PersistJob ==
    ASSUME NEW j \in Jobs, NEW pc \in Places
    PROVE  LET n == Persist(j, pc) IN
           /\ n \in Jobs /\ n.pc = pc /\ n.write = "queued"
           /\ n.ws = j.ws /\ n.id = j.id /\ n.new = j.new /\ n.old = j.old
  BY DEF Jobs, Persist, Writes

\* A handler that goes on without a write keeps its subjects.
LEMMA ThenJob ==
    ASSUME NEW j \in Jobs, NEW pc \in Places
    PROVE  LET n == Then(j, pc) IN
           /\ n \in Jobs /\ n.pc = pc /\ n.write = "none"
           /\ n.ws = j.ws /\ n.id = j.id /\ n.new = j.new /\ n.old = j.old
  BY DEF Jobs, Then, Writes

\* Goto changes one worker's job.
LEMMA GotoOne ==
    ASSUME job \in [Workers -> Jobs], NEW k \in Workers, NEW j \in Jobs, Goto(k, j)
    PROVE  /\ job' \in [Workers -> Jobs]
           /\ job'[k] = j
           /\ \A l \in Workers : l # k => job'[l] = job[l]
  BY DEF Goto

\* A snapshot is a ledger.
LEMMA SnapshotTyped ==
    ASSUME TypeOK
    PROVE  Snapshot(rows, pending, workspaces) \in Ledger
  BY ConstantsAssumption DEF TypeOK, Snapshot, Ledger, Row

-----------------------------------------------------------------------------
(* Steps that add nothing.                                                  *)

\* n is a job worker k's handler may go on with, short of taking a snapshot:
\* a creation stays the creation of the same session and only gets on, and the
\* subjects of the request are those the next step needs.
GoesOn(k, n) ==
    /\ n \in Jobs /\ Goto(k, n)
    /\ n.write # "writing"
    /\ n.pc \in Creation =>
          job[k].pc \in Creation /\ n.id = job[k].id /\ n.ws = job[k].ws
    /\ n.pc \in BeforeRow => job[k].pc \in BeforeRow
    /\ n.pc \in AfterRow => job[k].pc \in AfterRow
    /\ n.pc \in {"reserving", "commit"} => n.write = "queued"
    /\ n.pc = "spawn" => job[k].pc = "reserving" /\ job[k].write = "ok"
    /\ n.pc \in {"killing", "killed"} => n.id \in SessionIds
    /\ n.pc \in {"opening", "layout", "rename"} => n.new \in Info
    /\ n.pc \in {"opening", "retract", "layout", "rename"} => n.ws \in WorkspaceIds
    /\ n.pc \in {"layout", "rename"} => n.old \in Info
    /\ n.pc \in ClassB => persisting' = k

\* Such a step keeps the shape, if it leaves the lock to whoever else holds it.
LEMMA FrameShape ==
    ASSUME Shape, NEW k \in Workers, NEW n, GoesOn(k, n), TypeOK',
           snap' = snap, minted \subseteq minted',
           \/ persisting' = persisting
           \/ persisting \in {k, Nobody}
    PROVE  Shape'
  <1>1. /\ job'[k] = n
        /\ \A l \in Workers : l # k => job'[l] = job[l]
    BY GotoOne DEF Shape, TypeOK, GoesOn
  <1>2. LockHeld'
    BY <1>1, ConstantsAssumption DEF LockHeld, GoesOn, Shape
  <1>3. SnapTaken'
    BY <1>1 DEF SnapTaken, GoesOn, Shape
  <1>4. JobShape'
    BY <1>1 DEF JobShape, GoesOn, Shape
  <1> QED
    BY <1>2, <1>3, <1>4 DEF Shape

\* A step of worker k that moves its handler on, takes rows, reservations and
\* announcements away and leaves the ledger and every snapshot alone keeps the
\* trail.
LEMMA FrameTrail ==
    ASSUME Shape, Trail, NEW k \in Workers, NEW n, GoesOn(k, n),
           snap' = snap, disk' = disk, minted \subseteq minted',
           \A s \in SessionIds : rows'[s] \in {rows[s], Gone},
           \A s \in SessionIds : pending'[s] \in {pending[s], Gone},
           announced' \subseteq announced,
           \A s \in announced' : rows'[s] = rows[s]
    PROVE  Trail'
  <1>0. /\ job'[k] = n
        /\ \A l \in Workers : l # k => job'[l] = job[l]
    BY GotoOne DEF Shape, TypeOK, GoesOn
  <1> DEFINE j == job'[k]
  <1>j. /\ j.write # "writing"
        /\ j.pc \in Creation =>
              job[k].pc \in Creation /\ j.id = job[k].id /\ j.ws = job[k].ws
        /\ j.pc \in BeforeRow => job[k].pc \in BeforeRow
        /\ j.pc \in AfterRow => job[k].pc \in AfterRow
        /\ j.pc \in {"reserving", "commit"} => j.write = "queued"
        /\ j.pc = "spawn" => job[k].pc = "reserving" /\ job[k].write = "ok"
    BY <1>0 DEF GoesOn
  <1> USE <1>0, <1>j DEF Shape, Trail
  <1>1. RowsMinted'
    BY DEF RowsMinted
  <1>2. OneCreator'
    BY DEF OneCreator
  <1>3. RowOfCreation'
    <2> SUFFICES ASSUME NEW l \in Workers
                 PROVE  /\ job'[l].pc \in BeforeRow => rows'[job'[l].id] = Gone
                        /\ job'[l].pc \in AfterRow =>
                              rows'[job'[l].id] \in {Gone, [home |-> job'[l].ws, lost |-> FALSE]}
      BY DEF RowOfCreation
    <2>1. job'[l].pc \in Creation =>
             /\ job[l].pc \in Creation
             /\ job'[l].id = job[l].id /\ job'[l].ws = job[l].ws
             /\ job[l].id \in SessionIds
      BY DEF JobShape
    <2>2. job'[l].pc \in BeforeRow => job[l].pc \in BeforeRow
      OBVIOUS
    <2>3. job'[l].pc \in AfterRow => job[l].pc \in AfterRow
      OBVIOUS
    <2> QED
      BY <2>1, <2>2, <2>3 DEF RowOfCreation, Creation
  <1>4. ReservationRecorded'
    BY DEF ReservationRecorded, InSnaps, JobShape, Creation, BeforeRow
  <1>5. CommitRecorded'
    BY DEF CommitRecorded, InSnapsUnder, JobShape, Creation, AfterRow
  <1>6. AnnouncedIsRecorded'
    BY DEF AnnouncedIsRecorded, TypeOK
  <1>7. AnnouncedInSnaps'
    BY DEF AnnouncedInSnaps, InSnapsUnder, TypeOK
  <1> QED
    BY <1>1, <1>2, <1>3, <1>4, <1>5, <1>6, <1>7

-----------------------------------------------------------------------------
(* The steps of a handler, one lemma each.                                  *)

\* The answer goes out.
LEMMA ReplyInv ==
    ASSUME Shape, Trail, NEW k \in Workers, Reply(k)
    PROVE  Shape' /\ Trail'
  <1>1. GoesOn(k, Idle)
    BY IdleJob DEF GoesOn, Reply, Creation, BeforeRow, AfterRow, ClassB
  <1>2. TypeOK'
    BY <1>1, GotoOne DEF GoesOn, Reply, Shape, TypeOK, table, events, bounds
  <1> QED
    BY <1>1, <1>2, FrameShape, FrameTrail DEF Reply, table, events, Shape, TypeOK

\* A written reservation leads to the spawn, a failed one to a refusal.
LEMMA ReservedInv ==
    ASSUME Shape, Trail, NEW k \in Workers, Reserved(k)
    PROVE  Shape' /\ Trail'
  <1> DEFINE n == IF job[k].write = "ok" THEN Then(job[k], "spawn")
                  ELSE Answer(job[k], "persist_failed")
  <1>1. GoesOn(k, n)
    BY ThenJob, AnswerJob
    DEF GoesOn, Reserved, At, Creation, BeforeRow, AfterRow, ClassB, Places, Answers,
        Shape, TypeOK, JobShape
  <1>2. TypeOK'
    BY <1>1, GotoOne DEF GoesOn, Reserved, Shape, TypeOK, table, events, bounds
  <1> QED
    BY <1>1, <1>2, FrameShape, FrameTrail DEF Reserved, events, Shape, TypeOK

\* The spawn, with or without its handles.
LEMMA SpawnInv ==
    ASSUME Shape, Trail, NEW k \in Workers,
           NEW spawned \in BOOLEAN, NEW handles \in BOOLEAN, Spawn(k, spawned, handles)
    PROVE  Shape' /\ Trail'
  <1> DEFINE n == IF handles THEN Then(job[k], "record") ELSE Persist(job[k], "abandon")
  <1>1. GoesOn(k, n)
    BY ThenJob, PersistJob
    DEF GoesOn, Spawn, At, Creation, BeforeRow, AfterRow, ClassB, Places, Shape, TypeOK
  <1>2. TypeOK'
    BY <1>1, GotoOne DEF GoesOn, Spawn, Shape, TypeOK, events, bounds
  <1> QED
    BY <1>1, <1>2, FrameShape, FrameTrail DEF Spawn, events, Shape, TypeOK

\* A create whose spawn failed answers.
LEMMA AbandonedInv ==
    ASSUME Shape, Trail, NEW k \in Workers, Abandoned(k)
    PROVE  Shape' /\ Trail'
  <1>1. GoesOn(k, Answer(job[k], "internal"))
    BY AnswerJob
    DEF GoesOn, Abandoned, Creation, BeforeRow, AfterRow, ClassB, Answers, Shape, TypeOK
  <1>2. TypeOK'
    BY <1>1, GotoOne DEF GoesOn, Abandoned, Shape, TypeOK, table, events, bounds
  <1> QED
    BY <1>1, <1>2, FrameShape, FrameTrail DEF Abandoned, table, events, Shape, TypeOK

\* The row is in the table: only a reservation goes.
LEMMA ReleaseInv ==
    ASSUME Shape, Trail, NEW k \in Workers, Release(k)
    PROVE  Shape' /\ Trail'
  <1>1. GoesOn(k, Persist(job[k], "commit"))
    BY PersistJob
    DEF GoesOn, Release, At, Creation, BeforeRow, AfterRow, ClassB, Places, Shape, TypeOK
  <1>2. TypeOK'
    BY <1>1, GotoOne DEF GoesOn, Release, Shape, TypeOK, events, bounds
  <1> QED
    BY <1>1, <1>2, FrameShape, FrameTrail DEF Release, events, Shape, TypeOK

\* The process is killed and its reservation released.
LEMMA KillProcessInv ==
    ASSUME Shape, Trail, NEW k \in Workers, KillProcess(k)
    PROVE  Shape' /\ Trail'
  <1> DEFINE j == [job[k] EXCEPT !.doomed = {}]
             n == Persist(j, IF job[k].pc = "undoing" THEN "undone" ELSE "killed")
  <1>1. j \in Jobs /\ j.id = job[k].id /\ j.ws = job[k].ws
    BY DEF Shape, TypeOK, Jobs
  <1>2. GoesOn(k, n)
    <2>3. Goto(k, n)
      BY DEF KillProcess
    <2> HIDE DEF j
    <2>1. /\ Persist(j, "undone") \in Jobs /\ Persist(j, "undone").pc = "undone"
          /\ Persist(j, "undone").id = job[k].id /\ Persist(j, "undone").ws = job[k].ws
          /\ Persist(j, "undone").write = "queued"
      BY <1>1, PersistJob DEF Places
    <2>2. /\ Persist(j, "killed") \in Jobs /\ Persist(j, "killed").pc = "killed"
          /\ Persist(j, "killed").id = job[k].id
          /\ Persist(j, "killed").write = "queued"
      BY <1>1, PersistJob DEF Places
    <2>4. CASE job[k].pc = "undoing"
      BY <2>1, <2>3, <2>4 DEF GoesOn, Creation, BeforeRow, AfterRow, ClassB
    <2>5. CASE job[k].pc = "killing"
      BY <2>2, <2>3, <2>5 DEF GoesOn, Creation, BeforeRow, AfterRow, ClassB, Shape, JobShape
    <2> QED
      BY <2>4, <2>5 DEF KillProcess
  <1>3. TypeOK'
    BY <1>2, GotoOne DEF GoesOn, KillProcess, Shape, TypeOK, events, bounds
  <1> QED
    BY <1>2, <1>3, FrameShape, FrameTrail DEF KillProcess, events, Shape, TypeOK

\* A compensated create answers.
LEMMA UndoneInv ==
    ASSUME Shape, Trail, NEW k \in Workers, Undone(k)
    PROVE  Shape' /\ Trail'
  <1>1. GoesOn(k, Answer(job[k], job[k].answer))
    BY AnswerJob
    DEF GoesOn, Undone, Creation, BeforeRow, AfterRow, ClassB, Shape, TypeOK, Jobs
  <1>2. TypeOK'
    BY <1>1, GotoOne DEF GoesOn, Undone, Shape, TypeOK, table, events, bounds
  <1> QED
    BY <1>1, <1>2, FrameShape, FrameTrail DEF Undone, table, events, Shape, TypeOK

\* A kill answers.
LEMMA KilledInv ==
    ASSUME Shape, Trail, NEW k \in Workers, Killed(k)
    PROVE  Shape' /\ Trail'
  <1>1. GoesOn(k, Answer(job[k], IF job[k].write = "ok" THEN "ok" ELSE "persist_failed"))
    BY AnswerJob
    DEF GoesOn, Killed, Creation, BeforeRow, AfterRow, ClassB, Answers, Shape, TypeOK
  <1>2. TypeOK'
    BY <1>1, GotoOne DEF GoesOn, Killed, Shape, TypeOK, table, events, bounds
  <1> QED
    BY <1>1, <1>2, FrameShape, FrameTrail DEF Killed, table, events, Shape, TypeOK

\* A workspace kill answers.
LEMMA ClearedInv ==
    ASSUME Shape, Trail, NEW k \in Workers, Cleared(k)
    PROVE  Shape' /\ Trail'
  <1>1. GoesOn(k, Answer(job[k], IF job[k].write = "ok" THEN "ok" ELSE "persist_failed"))
    BY AnswerJob
    DEF GoesOn, Cleared, Creation, BeforeRow, AfterRow, ClassB, Answers, Shape, TypeOK
  <1>2. TypeOK'
    BY <1>1, GotoOne DEF GoesOn, Cleared, Shape, TypeOK, table, events, bounds
  <1> QED
    BY <1>1, <1>2, FrameShape, FrameTrail DEF Cleared, table, events, Shape, TypeOK

\* The processes of a killed workspace are killed.
LEMMA KillDoomedInv ==
    ASSUME Shape, Trail, NEW k \in Workers, KillDoomed(k)
    PROVE  Shape' /\ Trail'
  <1> DEFINE j == [job[k] EXCEPT !.doomed = {}]
  <1>1. j \in Jobs
    BY DEF Shape, TypeOK, Jobs
  <1>2. GoesOn(k, Persist(j, "cleared"))
    BY <1>1, PersistJob
    DEF GoesOn, KillDoomed, Creation, BeforeRow, AfterRow, ClassB, Places
  <1>3. TypeOK'
    BY <1>2, GotoOne DEF GoesOn, KillDoomed, Shape, TypeOK, table, events, bounds
  <1> QED
    BY <1>2, <1>3, FrameShape, FrameTrail DEF KillDoomed, table, events, Shape, TypeOK

-----------------------------------------------------------------------------
(* Removals.                                                                *)

\* Taking a newer layout keeps a record a record.
LEMMA NewestTyped ==
    ASSUME NEW seen \in Info, NEW info \in Info
    PROVE  Newest(seen, info) \in Info
  BY DEF Newest, Info

\* A frame leaves a subscriber with records.
LEMMA ShownTyped ==
    ASSUME TypeOK, NEW w \in WorkspaceIds, NEW info \in Info
    PROVE  /\ ShowLayout(w, info) \in [WorkspaceIds -> Info \cup {Gone}]
           /\ ShowWorkspace(w, info) \in [WorkspaceIds -> Info \cup {Gone}]
  <1>1. ASSUME shown[w] # Gone
        PROVE  Newest(shown[w], info) \in Info
    BY <1>1, NewestTyped DEF TypeOK
  <1>2. ASSUME NEW x \in Info PROVE [x EXCEPT !.name = info.name] \in Info
    BY DEF Info
  <1> QED
    BY <1>1, <1>2 DEF ShowLayout, ShowWorkspace, TypeOK

\* A record with another layout and revision.
LEMMA LaidOut ==
    ASSUME NEW i \in Info, NEW l \in SUBSET SessionIds, NEW r \in Nat
    PROVE  [i EXCEPT !.layout = l, !.rev = r] \in Info
  BY DEF Info

\* scrub_layout keeps a record a record.
LEMMA ScrubTyped ==
    ASSUME NEW i \in Info, NEW s
    PROVE  [i EXCEPT !.layout = @ \ {s}, !.rev = @ + 1] \in Info
  <1>1. i.layout \ {s} \in SUBSET SessionIds /\ i.rev + 1 \in Nat
    BY DEF Info
  <1>2. [i EXCEPT !.layout = i.layout \ {s}, !.rev = i.rev + 1] \in Info
    BY <1>1, LaidOut
  <1> QED
    BY <1>2, Zenon

\* remove_session's section keeps the maps typed.
LEMMA RemoveRowTyped ==
    ASSUME TypeOK, NEW s \in SessionIds, rows[s] # Gone, RemoveRow(s)
    PROVE  /\ rows' \in [SessionIds -> Row \cup {Gone}]
           /\ workspaces' \in [WorkspaceIds -> Info \cup {Gone}]
           /\ shown' \in [WorkspaceIds -> Info \cup {Gone}]
           /\ announced' \subseteq SessionIds
  <1> DEFINE w == rows[s].home
  <1>1. w \in WorkspaceIds
    BY DEF TypeOK, Row
  <1>2. ASSUME workspaces[w] # Gone PROVE Scrubbed(w, s) \in Info
    <2>1. workspaces[w] \in Info
      BY <1>1, <1>2 DEF TypeOK
    <2> QED
      BY <2>1, ScrubTyped DEF Scrubbed
  <1>3. ASSUME workspaces[w] # Gone
        PROVE  ShowLayout(w, Scrubbed(w, s)) \in [WorkspaceIds -> Info \cup {Gone}]
    BY <1>1, <1>2, <1>3, ShownTyped
  <1> QED
    BY <1>1, <1>2, <1>3 DEF RemoveRow, TypeOK

\* A refused create takes its own row out, or finds it gone.
LEMMA UndoInv ==
    ASSUME Shape, Trail, NEW k \in Workers, Undo(k)
    PROVE  Shape' /\ Trail'
  <1>0. job[k] \in Jobs /\ job[k].id \in SessionIds
    BY DEF Shape, TypeOK, JobShape, Undo, At, Creation, AfterRow
  <1>1. CASE rows[job[k].id] # Gone
    <2> DEFINE n == [Then(job[k], "undoing") EXCEPT !.doomed = {job[k].id}]
    <2>1. /\ n \in Jobs /\ n.pc = "undoing" /\ n.write = "none"
          /\ n.id = job[k].id /\ n.ws = job[k].ws
      BY <1>0 DEF Jobs, Then, Places, Writes
    <2>2. GoesOn(k, n)
      BY <1>1, <2>1 DEF GoesOn, Undo, At, Creation, BeforeRow, AfterRow, ClassB
    <2>3. TypeOK'
      BY <1>0, <1>1, <2>2, GotoOne, RemoveRowTyped DEF GoesOn, Undo, Shape, TypeOK, bounds
    <2> QED
      BY <1>1, <2>2, <2>3, FrameShape, FrameTrail DEF Undo, RemoveRow, Shape, TypeOK
  <1>2. CASE rows[job[k].id] = Gone
    <2>1. GoesOn(k, Answer(job[k], job[k].answer))
      BY <1>0, <1>2, AnswerJob
      DEF GoesOn, Undo, Creation, BeforeRow, AfterRow, ClassB, Jobs
    <2>2. TypeOK'
      BY <1>2, <2>1, GotoOne DEF GoesOn, Undo, Shape, TypeOK, events, bounds
    <2> QED
      BY <1>2, <2>1, <2>2, FrameShape, FrameTrail DEF Undo, events, Shape, TypeOK
  <1> QED
    BY <1>1, <1>2

\* A kill takes one row out.
LEMMA KillInv ==
    ASSUME Shape, Trail, NEW k \in Workers, NEW s \in SessionIds, Kill(k, s)
    PROVE  Shape' /\ Trail'
  <1> DEFINE j == Start("kill", Gone, s)
  <1>0. j \in Jobs /\ j.id = s
    BY StartJob DEF AllOps
  <1>1. CASE rows[s] # Gone
    <2> DEFINE n == [Then(j, "killing") EXCEPT !.doomed = {s}]
    <2>1. Goto(k, n) /\ RemoveRow(s)
      BY <1>1 DEF Kill
    <2> HIDE DEF j
    <2>2. n \in Jobs /\ n.pc = "killing" /\ n.write = "none" /\ n.id = s
      BY <1>0 DEF Jobs, Then, Places, Writes
    <2>3. GoesOn(k, n)
      BY <2>1, <2>2 DEF GoesOn, Creation, BeforeRow, AfterRow, ClassB
    <2>4. TypeOK'
      BY <1>1, <2>1, <2>3, GotoOne, RemoveRowTyped
      DEF GoesOn, Kill, Shape, TypeOK, bounds
    <2> QED
      BY <2>1, <2>3, <2>4, FrameShape, FrameTrail DEF Kill, RemoveRow, Shape, TypeOK
  <1>2. CASE rows[s] = Gone
    <2>0. Goto(k, Answer(j, "not_found"))
      BY <1>2 DEF Kill
    <2> HIDE DEF j
    <2>1. GoesOn(k, Answer(j, "not_found"))
      BY <1>0, <2>0, AnswerJob
      DEF GoesOn, Creation, BeforeRow, AfterRow, ClassB, Answers
    <2>2. TypeOK'
      BY <1>2, <2>1, GotoOne DEF GoesOn, Kill, Shape, TypeOK, events, bounds
    <2> QED
      BY <1>2, <2>1, <2>2, FrameShape, FrameTrail DEF Kill, events, Shape, TypeOK
  <1> QED
    BY <1>1, <1>2

\* A workspace kill takes rows and reservations out.
LEMMA KillWorkspaceInv ==
    ASSUME Shape, Trail, NEW k \in Workers, NEW w \in WorkspaceIds, KillWorkspace(k, w)
    PROVE  Shape' /\ Trail'
  <1> DEFINE j == Start("kill_workspace", w, Gone)
             dead == SessionsIn(w)
  <1>0. j \in Jobs /\ dead \in SUBSET SessionIds
    BY StartJob DEF AllOps, SessionsIn
  <1>1. CASE workspaces[w] = Gone /\ dead = {}
    <2>0. Goto(k, Answer(j, "not_found")) /\ UNCHANGED <<table, events>>
      BY <1>1 DEF KillWorkspace
    <2> HIDE DEF j
    <2>1. GoesOn(k, Answer(j, "not_found"))
      BY <1>0, <2>0, AnswerJob
      DEF GoesOn, Creation, BeforeRow, AfterRow, ClassB, Answers
    <2>2. TypeOK'
      BY <2>0, <2>1, GotoOne DEF GoesOn, KillWorkspace, Shape, TypeOK, table, events, bounds
    <2> QED
      BY <2>0, <2>1, <2>2, FrameShape, FrameTrail
      DEF KillWorkspace, table, events, Shape, TypeOK
  <1>2. CASE workspaces[w] # Gone \/ dead # {}
    <2> DEFINE n == [Then(j, "clearing") EXCEPT !.doomed = dead]
    <2>0. /\ Goto(k, n)
          /\ workspaces' = [workspaces EXCEPT ![w] = Gone]
          /\ rows' = [s \in SessionIds |-> IF s \in dead THEN Gone ELSE rows[s]]
          /\ pending' = [s \in SessionIds |-> IF pending[s] = w THEN Gone ELSE pending[s]]
          /\ announced' = announced \ dead
          /\ shown' = [shown EXCEPT ![w] = Gone]
      BY <1>2 DEF KillWorkspace
    <2> HIDE DEF j, dead
    <2>1. n \in Jobs /\ n.pc = "clearing" /\ n.write = "none"
      BY <1>0 DEF Jobs, Then, Places, Writes
    <2>2. GoesOn(k, n)
      BY <2>0, <2>1 DEF GoesOn, Creation, BeforeRow, AfterRow, ClassB
    <2>3. TypeOK'
      BY <1>0, <2>0, <2>2, GotoOne DEF GoesOn, KillWorkspace, Shape, TypeOK, bounds
    <2>4. /\ \A s \in SessionIds : rows'[s] \in {rows[s], Gone}
          /\ \A s \in SessionIds : pending'[s] \in {pending[s], Gone}
          /\ announced' \subseteq announced
          /\ \A s \in announced' : rows'[s] = rows[s]
      BY <2>0 DEF Shape, TypeOK
    <2> QED
      BY <2>2, <2>3, <2>4, FrameShape, FrameTrail DEF KillWorkspace
  <1> QED
    BY <1>1, <1>2

-----------------------------------------------------------------------------
(* Workspaces.                                                              *)

\* A new workspace is a record.
LEMMA NewWorkspaceTyped ==
    ASSUME NEW n \in Names
    PROVE  NewWorkspace(n) \in Info
  BY DEF NewWorkspace, Info

\* A new workspace touches no session.
LEMMA CreateWorkspaceInv ==
    ASSUME Shape, Trail, NEW k \in Workers, NEW w \in WorkspaceIds, NEW m \in Names,
           CreateWorkspace(k, w, m)
    PROVE  Shape' /\ Trail'
  <1> DEFINE i == NewWorkspace(m)
             j == [Start("create_workspace", w, Gone) EXCEPT !.new = i]
  <1>0. i \in Info
    BY NewWorkspaceTyped
  <1>1. j \in Jobs /\ j.new = i /\ j.ws = w
    <2> HIDE DEF i
    <2> QED BY <1>0 DEF Jobs, Start, Idle, Places, Writes, Answers, AllOps
  <1>2. Goto(k, Persist(j, "opening")) /\ workspaces' = [workspaces EXCEPT ![w] = i]
    BY DEF CreateWorkspace
  <1> HIDE DEF i, j
  <1>3. GoesOn(k, Persist(j, "opening"))
    BY <1>0, <1>1, <1>2, PersistJob
    DEF GoesOn, Creation, BeforeRow, AfterRow, ClassB, Places
  <1>4. TypeOK'
    BY <1>0, <1>2, <1>3, GotoOne DEF GoesOn, CreateWorkspace, Shape, TypeOK, events, bounds
  <1> QED
    BY <1>3, <1>4, FrameShape, FrameTrail DEF CreateWorkspace, events, Shape, TypeOK

\* Nor does committing it.
LEMMA CommitWorkspaceInv ==
    ASSUME Shape, Trail, NEW k \in Workers, CommitWorkspace(k)
    PROVE  Shape' /\ Trail'
  <1> DEFINE j == job[k]
  <1>0. /\ j \in Jobs /\ j.ws \in WorkspaceIds /\ j.new \in Info
    BY DEF CommitWorkspace, At, Shape, TypeOK, JobShape
  <1>1. \E n \in {Answer(j, "persist_failed"), Answer(j, "not_found"), Answer(j, "ok"),
                  Then(j, "retract")} : Goto(k, n)
    BY DEF CommitWorkspace
  <1>2. PICK n \in {Answer(j, "persist_failed"), Answer(j, "not_found"), Answer(j, "ok"),
                   Then(j, "retract")} : Goto(k, n)
    BY <1>1
  <1>3. /\ n \in Jobs /\ n.pc \in {"reply", "retract"} /\ n.write = "none"
        /\ n.pc = "retract" => n.ws \in WorkspaceIds
    BY <1>0, AnswerJob, ThenJob DEF Places, Answers
  <1>4. GoesOn(k, n)
    BY <1>2, <1>3 DEF GoesOn, Creation, BeforeRow, AfterRow, ClassB
  <1>5. /\ workspaces' \in [WorkspaceIds -> Info \cup {Gone}]
        /\ shown' \in [WorkspaceIds -> Info \cup {Gone}]
    BY <1>0, ShownTyped DEF CommitWorkspace, Shape, TypeOK
  <1>6. TypeOK'
    BY <1>4, <1>5, GotoOne DEF GoesOn, CommitWorkspace, Shape, TypeOK, bounds
  <1> QED
    BY <1>4, <1>6, FrameShape, FrameTrail DEF CommitWorkspace, Shape, TypeOK

\* Nor does taking it back.
LEMMA RetractInv ==
    ASSUME Shape, Trail, NEW k \in Workers, Retract(k)
    PROVE  Shape' /\ Trail'
  <1>1. GoesOn(k, Answer(job[k], "persist_failed"))
    BY AnswerJob
    DEF GoesOn, Retract, Creation, BeforeRow, AfterRow, ClassB, Answers, Shape, TypeOK
  <1>2. TypeOK'
    BY <1>1, GotoOne DEF GoesOn, Retract, Shape, TypeOK, table, bounds
  <1> QED
    BY <1>1, <1>2, FrameShape, FrameTrail DEF Retract, table, Shape, TypeOK

\* A layout write touches no session and takes the free lock.
LEMMA UpdateLayoutInv ==
    ASSUME Shape, Trail, NEW k \in Workers, NEW w \in WorkspaceIds,
           NEW doc \in SUBSET SessionIds, NEW rev \in 1..MaxRev,
           UpdateLayout(k, w, doc, rev)
    PROVE  Shape' /\ Trail'
  <1> DEFINE j == Start("update_layout", w, Gone)
             was == workspaces[w]
             now == [was EXCEPT !.layout = doc, !.rev = rev]
             go == [j EXCEPT !.old = was, !.new = now]
  <1>0. j \in Jobs /\ j.ws = w /\ was \in Info \cup {Gone} /\ rev \in Nat
    BY StartJob, ConstantsAssumption DEF AllOps, Shape, TypeOK
  <1>1. CASE \E a \in {"not_found", "stale_rev", "invalid_argument"} :
                Goto(k, Answer(j, a)) /\ UNCHANGED <<workspaces, persisting>>
    <2>1. PICK a \in {"not_found", "stale_rev", "invalid_argument"} :
                Goto(k, Answer(j, a)) /\ UNCHANGED <<workspaces, persisting>>
      BY <1>1
    <2> HIDE DEF j
    <2>2. GoesOn(k, Answer(j, a))
      BY <1>0, <2>1, AnswerJob
      DEF GoesOn, Creation, BeforeRow, AfterRow, ClassB, Answers
    <2>3. TypeOK'
      BY <2>1, <2>2, GotoOne DEF GoesOn, UpdateLayout, Shape, TypeOK, events, bounds
    <2> QED
      BY <2>1, <2>2, <2>3, FrameShape, FrameTrail DEF UpdateLayout, events, Shape, TypeOK
  <1>2. CASE /\ was # Gone /\ persisting' = k
             /\ workspaces' = [workspaces EXCEPT ![w] = now]
             /\ Goto(k, Persist(go, "layout"))
    <2>1. now \in Info
      BY <1>0, <1>2, LaidOut
    <2>2. go \in Jobs /\ go.ws = w /\ go.old = was /\ go.new = now
      <3> HIDE DEF j, was, now
      <3> QED BY <1>0, <1>2, <2>1 DEF Jobs
    <2> HIDE DEF now, go
    <2>3. GoesOn(k, Persist(go, "layout"))
      BY <1>0, <1>2, <2>1, <2>2, PersistJob
      DEF GoesOn, Creation, BeforeRow, AfterRow, ClassB, Places
    <2>4. TypeOK'
      BY <1>2, <2>1, <2>3, GotoOne DEF GoesOn, UpdateLayout, Shape, TypeOK, events, bounds
    <2> QED
      BY <1>2, <2>3, <2>4, FrameShape, FrameTrail DEF UpdateLayout, events, Shape, TypeOK
  <1> QED
    BY <1>1, <1>2 DEF UpdateLayout

\* A rename does the same.
LEMMA RenameWorkspaceInv ==
    ASSUME Shape, Trail, NEW k \in Workers, NEW w \in WorkspaceIds, NEW m \in Names,
           RenameWorkspace(k, w, m)
    PROVE  Shape' /\ Trail'
  <1> DEFINE j == Start("rename", w, Gone)
             was == workspaces[w]
             now == [was EXCEPT !.name = m]
             go == [j EXCEPT !.old = was, !.new = now]
  <1>0. j \in Jobs /\ j.ws = w /\ was \in Info \cup {Gone}
    BY StartJob DEF AllOps, Shape, TypeOK
  <1>1. CASE Goto(k, Answer(j, "not_found")) /\ UNCHANGED <<workspaces, persisting>>
    <2> HIDE DEF j
    <2>2. GoesOn(k, Answer(j, "not_found"))
      BY <1>0, <1>1, AnswerJob
      DEF GoesOn, Creation, BeforeRow, AfterRow, ClassB, Answers
    <2>3. TypeOK'
      BY <1>1, <2>2, GotoOne DEF GoesOn, RenameWorkspace, Shape, TypeOK, events, bounds
    <2> QED
      BY <1>1, <2>2, <2>3, FrameShape, FrameTrail DEF RenameWorkspace, events, Shape, TypeOK
  <1>2. CASE /\ was # Gone /\ persisting' = k
             /\ workspaces' = [workspaces EXCEPT ![w] = now]
             /\ Goto(k, Persist(go, "rename"))
    <2>1. now \in Info
      BY <1>0, <1>2 DEF Info
    <2>2. go \in Jobs /\ go.ws = w /\ go.old = was /\ go.new = now
      <3> HIDE DEF j, was, now
      <3> QED BY <1>0, <1>2, <2>1 DEF Jobs
    <2> HIDE DEF now, go
    <2>3. GoesOn(k, Persist(go, "rename"))
      BY <1>0, <1>2, <2>1, <2>2, PersistJob
      DEF GoesOn, Creation, BeforeRow, AfterRow, ClassB, Places
    <2>4. TypeOK'
      BY <1>2, <2>1, <2>3, GotoOne DEF GoesOn, RenameWorkspace, Shape, TypeOK, events, bounds
    <2> QED
      BY <1>2, <2>3, <2>4, FrameShape, FrameTrail DEF RenameWorkspace, events, Shape, TypeOK
  <1> QED
    BY <1>1, <1>2 DEF RenameWorkspace

\* The handler that holds the lock lets it go.
LEMMA LayoutWrittenInv ==
    ASSUME Shape, Trail, NEW k \in Workers, LayoutWritten(k)
    PROVE  Shape' /\ Trail'
  <1> DEFINE j == job[k]
  <1>0. /\ j \in Jobs /\ j.ws \in WorkspaceIds /\ j.new \in Info /\ j.old \in Info
        /\ persisting = k
    BY DEF LayoutWritten, At, Shape, TypeOK, JobShape, LockHeld, ClassB
  <1>1. PICK a \in {"persist_failed", "ok"} : Goto(k, Answer(j, a))
    BY DEF LayoutWritten
  <1>2. GoesOn(k, Answer(j, a))
    BY <1>0, <1>1, AnswerJob DEF GoesOn, Creation, BeforeRow, AfterRow, ClassB, Answers
  <1>3. ASSUME workspaces[j.ws] # Gone
        PROVE  [workspaces EXCEPT ![j.ws].layout = j.old.layout, ![j.ws].rev = j.old.rev]
                  \in [WorkspaceIds -> Info \cup {Gone}]
    <2>1. workspaces[j.ws] \in Info
      BY <1>0, <1>3 DEF Shape, TypeOK
    <2>2. j.old.layout \in SUBSET SessionIds /\ j.old.rev \in Nat
      BY <1>0 DEF Info
    <2> QED
      BY <1>0, <2>1, <2>2 DEF Shape, TypeOK, Info
  <1>4. /\ workspaces' \in [WorkspaceIds -> Info \cup {Gone}]
        /\ shown' \in [WorkspaceIds -> Info \cup {Gone}]
    <2> DEFINE v == [workspaces EXCEPT ![j.ws].layout = j.old.layout, ![j.ws].rev = j.old.rev]
    <2>1. ShowLayout(j.ws, j.new) \in [WorkspaceIds -> Info \cup {Gone}]
      BY <1>0, ShownTyped DEF Shape
    <2>2. workspaces' = workspaces \/ (workspaces[j.ws] # Gone /\ workspaces' = v)
      BY DEF LayoutWritten
    <2>3. shown' = shown \/ shown' = ShowLayout(j.ws, j.new)
      BY DEF LayoutWritten
    <2>4. workspaces[j.ws] # Gone => v \in [WorkspaceIds -> Info \cup {Gone}]
      BY <1>3
    <2> HIDE DEF v
    <2> QED
      BY <2>1, <2>2, <2>3, <2>4 DEF Shape, TypeOK
  <1>5. TypeOK'
    BY <1>2, <1>4, GotoOne DEF GoesOn, LayoutWritten, Shape, TypeOK, bounds
  <1> QED
    BY <1>0, <1>2, <1>5, FrameShape, FrameTrail DEF LayoutWritten, Shape, TypeOK

\* Likewise for a rename.
LEMMA RenameWrittenInv ==
    ASSUME Shape, Trail, NEW k \in Workers, RenameWritten(k)
    PROVE  Shape' /\ Trail'
  <1> DEFINE j == job[k]
  <1>0. /\ j \in Jobs /\ j.ws \in WorkspaceIds /\ j.new \in Info /\ j.old \in Info
        /\ persisting = k
    BY DEF RenameWritten, At, Shape, TypeOK, JobShape, LockHeld, ClassB
  <1>1. PICK a \in {"persist_failed", "not_found", "ok"} : Goto(k, Answer(j, a))
    BY DEF RenameWritten
  <1>2. GoesOn(k, Answer(j, a))
    BY <1>0, <1>1, AnswerJob DEF GoesOn, Creation, BeforeRow, AfterRow, ClassB, Answers
  <1>3. ASSUME workspaces[j.ws] # Gone
        PROVE  [workspaces EXCEPT ![j.ws].name = j.old.name]
                  \in [WorkspaceIds -> Info \cup {Gone}]
    <2>1. workspaces[j.ws] \in Info /\ j.old.name \in Names
      BY <1>0, <1>3 DEF Shape, TypeOK, Info
    <2> QED
      BY <1>0, <2>1 DEF Shape, TypeOK, Info
  <1>4. /\ workspaces' \in [WorkspaceIds -> Info \cup {Gone}]
        /\ shown' \in [WorkspaceIds -> Info \cup {Gone}]
    <2> DEFINE v == [workspaces EXCEPT ![j.ws].name = j.old.name]
    <2>1. ShowWorkspace(j.ws, j.new) \in [WorkspaceIds -> Info \cup {Gone}]
      BY <1>0, ShownTyped DEF Shape
    <2>2. workspaces' = workspaces \/ (workspaces[j.ws] # Gone /\ workspaces' = v)
      BY DEF RenameWritten
    <2>3. shown' = shown \/ shown' = ShowWorkspace(j.ws, j.new)
      BY DEF RenameWritten
    <2>4. workspaces[j.ws] # Gone => v \in [WorkspaceIds -> Info \cup {Gone}]
      BY <1>3
    <2> HIDE DEF v
    <2> QED
      BY <2>1, <2>2, <2>3, <2>4 DEF Shape, TypeOK
  <1>5. TypeOK'
    BY <1>2, <1>4, GotoOne DEF GoesOn, RenameWritten, Shape, TypeOK, bounds
  <1> QED
    BY <1>0, <1>2, <1>5, FrameShape, FrameTrail DEF RenameWritten, Shape, TypeOK

-----------------------------------------------------------------------------
(* The ledger's writer.                                                     *)

\* While worker k takes `persisting`, or holds it, nobody else is writing.
LEMMA OnlyWriter ==
    ASSUME LockHeld, NEW k \in Workers, persisting \in {k, Nobody}
    PROVE  \A l \in Workers : job[l].write = "writing" => l = k
  BY ConstantsAssumption DEF LockHeld

\* A snapshot names every session whose creation is that far.
LEMMA TakeSnapshotInv ==
    ASSUME Shape, Trail, NEW k \in Workers, TakeSnapshot(k)
    PROVE  Shape' /\ Trail'
  <1> DEFINE n == [job[k] EXCEPT !.write = "writing"]
             d == Snapshot(rows, pending, workspaces)
  <1>0. d \in Ledger /\ d # Gone
    BY SnapshotTyped, ConstantsAssumption DEF Shape
  <1>d. \A s \in SessionIds :
           /\ rows[s] = Gone => d.sessions[s] = pending[s]
           /\ rows[s] # Gone /\ ~ rows[s].lost => d.sessions[s] = rows[s].home
    BY DEF Snapshot
  <1>1. /\ n \in Jobs /\ n.pc = job[k].pc /\ n.id = job[k].id /\ n.ws = job[k].ws
        /\ n.old = job[k].old /\ n.new = job[k].new /\ n.write = "writing"
    BY DEF Shape, TypeOK, Jobs, Writes
  <1>2. /\ job' \in [Workers -> Jobs] /\ job'[k] = n
        /\ \A l \in Workers : l # k => job'[l] = job[l]
    BY <1>1, GotoOne DEF TakeSnapshot, Shape, TypeOK
  <1>3. /\ snap' \in [Workers -> Ledger \cup {Gone}] /\ snap'[k] = d
        /\ \A l \in Workers : l # k => snap'[l] = snap[l]
    BY <1>0 DEF TakeSnapshot, Shape, TypeOK
  <1> HIDE DEF n, d
  <1>4. /\ persisting \in {k, Nobody} /\ persisting' = k
        /\ UNCHANGED <<table, child, disk, minted, events, bounds>>
    BY DEF TakeSnapshot
  <1>5. \A l \in Workers : job[l].write = "writing" => l = k
    BY <1>4, OnlyWriter DEF Shape
  <1>6. /\ \A l \in Workers : job'[l].pc = job[l].pc /\ job'[l].id = job[l].id
                              /\ job'[l].ws = job[l].ws /\ job'[l].old = job[l].old
                              /\ job'[l].new = job[l].new
        /\ \A l \in Workers : job'[l].write = "writing" => l = k
        /\ \A l \in Workers : job'[l].write = "ok" => job[l].write = "ok" /\ l # k
    BY <1>1, <1>2, <1>5
  <1>7. TypeOK'
    BY <1>2, <1>3, <1>4 DEF Shape, TypeOK, table, events, bounds
  <1>8. LockHeld' /\ SnapTaken' /\ JobShape'
    <2>1. LockHeld'
      BY <1>4, <1>6, ConstantsAssumption DEF Shape, LockHeld
    <2>2. SnapTaken'
      BY <1>0, <1>3, <1>6 DEF SnapTaken
    <2>3. JobShape'
      BY <1>4, <1>6 DEF Shape, JobShape
    <2> QED BY <2>1, <2>2, <2>3
  <1>9. RowsMinted' /\ OneCreator' /\ RowOfCreation' /\ AnnouncedIsRecorded'
    BY <1>4, <1>6
    DEF Trail, RowsMinted, OneCreator, RowOfCreation, AnnouncedIsRecorded, table, events
  <1>10. ReservationRecorded'
    <2> SUFFICES ASSUME NEW l \in Workers, pending[job[l].id] # Gone,
                        job[l].pc \in {"reserving", "spawn"}
                 PROVE  /\ job'[l].write = "writing" => snap'[l].sessions[job[l].id] # Gone
                        /\ (job[l].pc = "reserving" /\ job[l].write = "ok") \/ job[l].pc = "spawn"
                              => disk.sessions[job[l].id] # Gone /\ InSnaps(job[l].id)'
      BY <1>4, <1>6 DEF ReservationRecorded, table
    <2>1. job[l].id \in SessionIds /\ rows[job[l].id] = Gone
      BY DEF Shape, Trail, JobShape, RowOfCreation, Creation, BeforeRow
    <2>2. d.sessions[job[l].id] # Gone
      BY <1>d, <2>1
    <2> QED
      BY <1>3, <1>6, <2>2 DEF Trail, ReservationRecorded, InSnaps
  <1>11. CommitRecorded'
    <2> SUFFICES ASSUME NEW l \in Workers, job[l].pc = "commit", rows[job[l].id] # Gone
                 PROVE  /\ job'[l].write = "writing" => snap'[l].sessions[job[l].id] = job[l].ws
                        /\ job[l].write = "ok" => disk.sessions[job[l].id] = job[l].ws
                                                 /\ InSnapsUnder(job[l].id, job[l].ws)'
      BY <1>4, <1>6 DEF CommitRecorded, table, InSnapsUnder
    <2>1. job[l].id \in SessionIds /\ rows[job[l].id] = [home |-> job[l].ws, lost |-> FALSE]
      BY DEF Shape, Trail, JobShape, RowOfCreation, Creation, AfterRow
    <2>2. d.sessions[job[l].id] = job[l].ws
      BY <1>d, <2>1
    <2> QED
      BY <1>3, <1>6, <2>2 DEF Trail, CommitRecorded, InSnapsUnder
  <1>12. AnnouncedInSnaps'
    BY <1>d, <1>3, <1>4, <1>6
    DEF AnnouncedInSnaps, InSnapsUnder, Shape, TypeOK, table, events
  <1> QED
    BY <1>7, <1>8, <1>9, <1>10, <1>11, <1>12 DEF Shape, Trail

\* The file becomes the only snapshot there was.
LEMMA SaveInv ==
    ASSUME Shape, Trail, NEW k \in Workers, NEW ok \in BOOLEAN, Save(k, ok)
    PROVE  Shape' /\ Trail'
  <1> DEFINE r == IF ok THEN "ok" ELSE "failed"
             n == [job[k] EXCEPT !.write = r]
  <1>1. /\ n \in Jobs /\ n.pc = job[k].pc /\ n.id = job[k].id /\ n.ws = job[k].ws
        /\ n.old = job[k].old /\ n.new = job[k].new /\ n.write = r
        /\ r # "writing" /\ (r = "ok" => ok)
    BY DEF Shape, TypeOK, Jobs, Writes
  <1>2. /\ job' \in [Workers -> Jobs] /\ job'[k] = n
        /\ \A l \in Workers : l # k => job'[l] = job[l]
    BY <1>1, GotoOne DEF Save, Shape, TypeOK
  <1> HIDE DEF r, n
  <1>3. /\ job[k].write = "writing" /\ persisting = k
        /\ snap[k] \in Ledger
        /\ disk' \in {snap[k], disk} /\ (ok => disk' = snap[k])
        /\ snap' = [snap EXCEPT ![k] = Gone]
        /\ persisting' = IF job[k].pc \in ClassB THEN k ELSE Nobody
        /\ failures' \in Nat
        /\ UNCHANGED <<table, child, minted, events, restarts>>
    BY DEF Save, Shape, LockHeld, SnapTaken, TypeOK
  <1>5. \A l \in Workers : job[l].write = "writing" => l = k
    BY <1>3, OnlyWriter DEF Shape
  <1>6. /\ \A l \in Workers : job'[l].pc = job[l].pc /\ job'[l].id = job[l].id
                              /\ job'[l].ws = job[l].ws /\ job'[l].old = job[l].old
                              /\ job'[l].new = job[l].new
        /\ \A l \in Workers : job'[l].write # "writing"
        /\ \A l \in Workers : job'[l].write = "ok" =>
               job[l].write = "ok" \/ (l = k /\ disk' = snap[k])
    BY <1>1, <1>2, <1>3, <1>5
  <1>7. TypeOK'
    BY <1>2, <1>3 DEF Shape, TypeOK, table, events
  <1>8. LockHeld' /\ SnapTaken' /\ JobShape'
    <2>1. LockHeld'
      BY <1>3, <1>6, ConstantsAssumption DEF Shape, LockHeld
    <2>2. SnapTaken'
      BY <1>6 DEF SnapTaken
    <2>3. JobShape'
      BY <1>3, <1>6 DEF Shape, JobShape
    <2> QED BY <2>1, <2>2, <2>3
  <1>9. RowsMinted' /\ OneCreator' /\ RowOfCreation'
    BY <1>3, <1>6 DEF Trail, RowsMinted, OneCreator, RowOfCreation, table
  <1>10. ReservationRecorded'
    <2> SUFFICES ASSUME NEW l \in Workers, pending[job[l].id] # Gone,
                        (job[l].pc = "reserving" /\ job'[l].write = "ok") \/ job[l].pc = "spawn"
                 PROVE  disk'.sessions[job[l].id] # Gone
      BY <1>3, <1>6 DEF ReservationRecorded, InSnaps, table
    <2>1. CASE disk' = disk /\ disk' # snap[k]
      BY <1>6, <2>1 DEF Trail, ReservationRecorded
    <2>2. CASE disk' = snap[k]
      BY <1>3, <1>6, <2>2 DEF Trail, ReservationRecorded, InSnaps
    <2> QED BY <1>3, <2>1, <2>2
  <1>11. CommitRecorded'
    <2> SUFFICES ASSUME NEW l \in Workers, job[l].pc = "commit", rows[job[l].id] # Gone,
                        job'[l].write = "ok"
                 PROVE  disk'.sessions[job[l].id] = job[l].ws
      BY <1>3, <1>6 DEF CommitRecorded, table, InSnapsUnder
    <2>1. CASE disk' = disk /\ disk' # snap[k]
      BY <1>6, <2>1 DEF Trail, CommitRecorded
    <2>2. CASE disk' = snap[k]
      BY <1>3, <1>6, <2>2 DEF Trail, CommitRecorded, InSnapsUnder
    <2> QED BY <1>3, <2>1, <2>2
  <1>12. AnnouncedIsRecorded'
    BY <1>3 DEF Trail, AnnouncedIsRecorded, AnnouncedInSnaps, InSnapsUnder, table, events
  <1>13. AnnouncedInSnaps'
    BY <1>6 DEF AnnouncedInSnaps, InSnapsUnder
  <1> QED
    BY <1>7, <1>8, <1>9, <1>10, <1>11, <1>12, <1>13 DEF Shape, Trail

-----------------------------------------------------------------------------
(* The steps of a creation that add something.                              *)

\* A new creation has an id nobody has used.
LEMMA CreateSessionInv ==
    ASSUME Shape, Trail, NEW k \in Workers, NEW w \in WorkspaceIds, NEW s \in SessionIds,
           CreateSession(k, w, s)
    PROVE  Shape' /\ Trail'
  <1>1. CASE \E a \in {"not_found", "internal"} :
                Goto(k, Answer(Start("create", w, Gone), a)) /\ minted' = minted
    <2> DEFINE j == Start("create", w, Gone)
    <2>1. PICK a \in {"not_found", "internal"} : Goto(k, Answer(j, a)) /\ minted' = minted
      BY <1>1
    <2>2. j \in Jobs
      BY StartJob DEF AllOps
    <2> HIDE DEF j
    <2>3. GoesOn(k, Answer(j, a))
      BY <2>1, <2>2, AnswerJob DEF GoesOn, Creation, BeforeRow, AfterRow, ClassB, Answers
    <2>4. TypeOK'
      BY <2>1, <2>3, GotoOne
      DEF GoesOn, CreateSession, Shape, TypeOK, table, events, bounds
    <2> QED
      BY <2>1, <2>3, <2>4, FrameShape, FrameTrail
      DEF CreateSession, table, events, Shape, TypeOK
  <1>2. CASE /\ s \notin minted
             /\ Goto(k, Then(Start("create", w, s), "reserve"))
             /\ minted' = minted \cup {s}
    <2> DEFINE n == Then(Start("create", w, s), "reserve")
    <2>1. n \in Jobs /\ n.pc = "reserve" /\ n.id = s /\ n.ws = w /\ n.write = "none"
      BY StartJob, ThenJob DEF AllOps, Places
    <2>2. /\ job' \in [Workers -> Jobs] /\ job'[k] = n
          /\ \A l \in Workers : l # k => job'[l] = job[l]
      BY <1>2, <2>1, GotoOne DEF Shape, TypeOK
    <2> HIDE DEF n
    <2>3. UNCHANGED <<table, persisting, snap, child, disk, events, bounds>>
      BY DEF CreateSession
    <2>4. /\ rows[s] = Gone
          /\ \A l \in Workers : job[l].pc \in Creation => job[l].id # s
      BY <1>2 DEF Shape, Trail, RowsMinted, JobShape
    <2>5. TypeOK'
      BY <1>2, <2>2, <2>3 DEF Shape, TypeOK, table, events, bounds
    <2>6. LockHeld' /\ SnapTaken' /\ JobShape'
      BY <1>2, <2>1, <2>2, <2>3
      DEF Shape, LockHeld, SnapTaken, JobShape, ClassB
    <2>7. RowsMinted' /\ OneCreator'
      BY <1>2, <2>1, <2>2, <2>3, <2>4 DEF Trail, RowsMinted, OneCreator, table
    <2>8. RowOfCreation'
      BY <2>1, <2>2, <2>3, <2>4 DEF Trail, RowOfCreation, AfterRow, table
    <2>9. ReservationRecorded' /\ CommitRecorded'
      BY <2>1, <2>2, <2>3
      DEF Trail, ReservationRecorded, CommitRecorded, InSnaps, InSnapsUnder, table
    <2>10. AnnouncedIsRecorded' /\ AnnouncedInSnaps'
      BY <2>1, <2>2, <2>3
      DEF Trail, AnnouncedIsRecorded, AnnouncedInSnaps, InSnapsUnder, table, events
    <2> QED
      BY <2>5, <2>6, <2>7, <2>8, <2>9, <2>10 DEF Shape, Trail
  <1> QED
    BY <1>1, <1>2 DEF CreateSession

\* A reservation is of the creation's own id.
LEMMA ReserveInv ==
    ASSUME Shape, Trail, NEW k \in Workers, Reserve(k)
    PROVE  Shape' /\ Trail'
  <1> DEFINE n == Persist(job[k], "reserving")
  <1>0. job[k].pc = "reserve" /\ job[k].id \in SessionIds /\ job[k].ws \in WorkspaceIds
    BY DEF Reserve, At, Shape, JobShape, Creation, BeforeRow
  <1>1. GoesOn(k, n)
    BY <1>0, PersistJob
    DEF GoesOn, Reserve, Creation, BeforeRow, AfterRow, ClassB, Places, Shape, TypeOK
  <1>2. TypeOK'
    BY <1>0, <1>1, GotoOne DEF GoesOn, Reserve, Shape, TypeOK, events, bounds
  <1>3. Shape'
    BY <1>1, <1>2, FrameShape DEF Reserve
  <1>4. /\ job'[k].pc = "reserving" /\ job'[k].write = "queued"
        /\ job'[k].id = job[k].id /\ job'[k].ws = job[k].ws
        /\ \A l \in Workers : l # k => job'[l] = job[l]
    BY PersistJob, GotoOne DEF Reserve, Places, Shape, TypeOK
  <1>5. /\ UNCHANGED <<rows, workspaces, persisting, snap, child, disk, minted, announced>>
        /\ \A s \in SessionIds : s # job[k].id => pending'[s] = pending[s]
    BY DEF Reserve, events, Shape, TypeOK
  <1>6. \A l \in Workers : l # k /\ job[l].pc \in Creation =>
           job[l].id # job[k].id /\ job[l].id \in SessionIds
    BY <1>0 DEF Trail, OneCreator, Shape, JobShape, Creation, BeforeRow
  <1>7. RowsMinted' /\ OneCreator' /\ RowOfCreation'
    BY <1>0, <1>4, <1>5
    DEF Trail, RowsMinted, OneCreator, RowOfCreation, Creation, BeforeRow, AfterRow
  <1>8. ReservationRecorded'
    BY <1>4, <1>5, <1>6 DEF Trail, ReservationRecorded, InSnaps, Creation, BeforeRow
  <1>9. CommitRecorded' /\ AnnouncedIsRecorded' /\ AnnouncedInSnaps'
    BY <1>4, <1>5
    DEF Trail, CommitRecorded, AnnouncedIsRecorded, AnnouncedInSnaps, InSnapsUnder
  <1> QED
    BY <1>3, <1>7, <1>8, <1>9 DEF Trail

\* A new row is not announced yet.
LEMMA RecordCreatedInv ==
    ASSUME Shape, Trail, NEW k \in Workers, RecordCreated(k)
    PROVE  Shape' /\ Trail'
  <1> DEFINE n == Then(job[k], "release")
             row == [home |-> job[k].ws, lost |-> FALSE]
  <1>0. /\ job[k].pc = "record" /\ job[k].id \in SessionIds \cap minted
        /\ job[k].ws \in WorkspaceIds /\ rows[job[k].id] = Gone
    BY DEF RecordCreated, At, Shape, Trail, JobShape, RowOfCreation, Creation, BeforeRow
  <1>1. /\ job' \in [Workers -> Jobs]
        /\ job'[k].pc = "release" /\ job'[k].write = "none"
        /\ job'[k].id = job[k].id /\ job'[k].ws = job[k].ws
        /\ \A l \in Workers : l # k => job'[l] = job[l]
    BY ThenJob, GotoOne DEF RecordCreated, Places, Shape, TypeOK
  <1>2. /\ UNCHANGED <<workspaces, pending, persisting, snap, child, disk, minted, announced>>
        /\ row \in Row /\ row # Gone
        /\ rows' = [rows EXCEPT ![job[k].id] = row]
    <2>1. row \in Row
      BY <1>0 DEF Row
    <2>2. row # Gone
      BY <2>1, ConstantsAssumption
    <2> QED
      BY <2>1, <2>2 DEF RecordCreated, events
  <1>3. rows'[job[k].id] = row /\ \A s \in SessionIds : s # job[k].id => rows'[s] = rows[s]
    BY <1>0, <1>2 DEF Shape, TypeOK
  <1>4. TypeOK'
    BY <1>1, <1>2 DEF RecordCreated, Shape, TypeOK, events, bounds
  <1>5. LockHeld' /\ SnapTaken' /\ JobShape'
    BY <1>0, <1>1, <1>2
    DEF Shape, LockHeld, SnapTaken, JobShape, ClassB, Creation, BeforeRow, AfterRow
  <1>6. \A l \in Workers : l # k /\ job[l].pc \in Creation =>
           job[l].id # job[k].id /\ job[l].id \in SessionIds
    BY <1>0 DEF Trail, OneCreator, Shape, JobShape, Creation, BeforeRow
  <1>7. job[k].id \notin announced
    BY <1>0 DEF Trail, AnnouncedIsRecorded
  <1>8. RowsMinted' /\ OneCreator'
    BY <1>0, <1>1, <1>2, <1>3
    DEF Trail, RowsMinted, OneCreator, Creation, BeforeRow, AfterRow
  <1>9. RowOfCreation'
    <2> SUFFICES ASSUME NEW l \in Workers
                 PROVE  /\ job'[l].pc \in BeforeRow => rows'[job'[l].id] = Gone
                        /\ job'[l].pc \in AfterRow =>
                              rows'[job'[l].id] \in {Gone, [home |-> job'[l].ws, lost |-> FALSE]}
      BY DEF RowOfCreation
    <2>1. CASE l = k
      BY <1>1, <1>3, <2>1 DEF BeforeRow, AfterRow
    <2>2. CASE l # k
      <3>1. job'[l] = job[l]
        BY <1>1, <2>2
      <3>2. job[l].pc \in BeforeRow \cup AfterRow => rows'[job[l].id] = rows[job[l].id]
        BY <1>3, <1>6, <2>2 DEF Creation
      <3> QED
        BY <3>1, <3>2 DEF Trail, RowOfCreation
    <2> QED
      BY <2>1, <2>2
  <1>10. ReservationRecorded'
    BY <1>1, <1>2 DEF Trail, ReservationRecorded, InSnaps
  <1>11. CommitRecorded'
    BY <1>1, <1>2, <1>3, <1>6 DEF Trail, CommitRecorded, InSnapsUnder, Creation, AfterRow
  <1>12. AnnouncedIsRecorded' /\ AnnouncedInSnaps'
    BY <1>1, <1>2, <1>3, <1>7
    DEF Trail, AnnouncedIsRecorded, AnnouncedInSnaps, InSnapsUnder, Shape, TypeOK
  <1> QED
    BY <1>4, <1>5, <1>8, <1>9, <1>10, <1>11, <1>12 DEF Shape, Trail

\* A session is announced once its own write returned.
LEMMA CommitCreatedInv ==
    ASSUME Shape, Trail, NEW k \in Workers, CommitCreated(k)
    PROVE  Shape' /\ Trail'
  <1> DEFINE j == job[k]
  <1>0. j.pc = "commit" /\ j \in Jobs /\ j.id \in SessionIds
    BY DEF CommitCreated, At, Shape, TypeOK, JobShape, Creation, AfterRow
  <1>1. CASE \E a \in {"persist_failed", "not_found"} :
                Goto(k, [Then(j, "undo") EXCEPT !.answer = a]) /\ announced' = announced
    <2>1. PICK a \in {"persist_failed", "not_found"} :
             Goto(k, [Then(j, "undo") EXCEPT !.answer = a]) /\ announced' = announced
      BY <1>1
    <2> DEFINE n == [Then(j, "undo") EXCEPT !.answer = a]
    <2>2. /\ n \in Jobs /\ n.pc = "undo" /\ n.write = "none" /\ n.id = j.id /\ n.ws = j.ws
      BY <1>0 DEF Jobs, Then, Places, Writes, Answers
    <2>3. GoesOn(k, n)
      BY <1>0, <2>1, <2>2 DEF GoesOn, Creation, BeforeRow, AfterRow, ClassB
    <2>4. TypeOK'
      BY <2>1, <2>3, GotoOne DEF GoesOn, CommitCreated, Shape, TypeOK, table, bounds
    <2> QED
      BY <2>1, <2>3, <2>4, FrameShape, FrameTrail DEF CommitCreated, table, Shape, TypeOK
  <1>2. CASE /\ Goto(k, Answer(j, "ok")) /\ j.write = "ok"
             /\ announced' = IF rows[j.id] = Gone THEN announced ELSE announced \cup {j.id}
    <2>1. GoesOn(k, Answer(j, "ok"))
      BY <1>0, <1>2, AnswerJob DEF GoesOn, Creation, BeforeRow, AfterRow, ClassB, Answers
    <2>2. TypeOK'
      BY <1>0, <1>2, <2>1, GotoOne DEF GoesOn, CommitCreated, Shape, TypeOK, table, bounds
    <2>3. Shape'
      BY <2>1, <2>2, FrameShape DEF CommitCreated
    <2>4. CASE rows[j.id] = Gone
      BY <1>2, <2>1, <2>3, <2>4, FrameTrail DEF CommitCreated, table, Shape, TypeOK
    <2>5. CASE rows[j.id] # Gone
      <3>1. /\ rows[j.id] = [home |-> j.ws, lost |-> FALSE]
            /\ disk.sessions[j.id] = j.ws /\ InSnapsUnder(j.id, j.ws)
        BY <1>0, <1>2, <2>5 DEF Trail, RowOfCreation, CommitRecorded, AfterRow
      <3>2. /\ job'[k].pc = "reply" /\ job'[k].write = "none"
            /\ \A l \in Workers : l # k => job'[l] = job[l]
        BY <1>0, <1>2, AnswerJob, GotoOne DEF Shape, TypeOK, Answers
      <3>3. UNCHANGED <<rows, workspaces, pending, persisting, snap, child, disk, minted>>
        BY DEF CommitCreated, table
      <3>4. RowsMinted' /\ OneCreator' /\ RowOfCreation'
        BY <3>2, <3>3
        DEF Trail, RowsMinted, OneCreator, RowOfCreation, Creation, BeforeRow, AfterRow
      <3>5. ReservationRecorded' /\ CommitRecorded'
        BY <3>2, <3>3
        DEF Trail, ReservationRecorded, CommitRecorded, InSnaps, InSnapsUnder
      <3>6. AnnouncedIsRecorded'
        BY <1>2, <2>5, <3>1, <3>3 DEF Trail, AnnouncedIsRecorded
      <3>7. AnnouncedInSnaps'
        BY <1>2, <2>5, <3>1, <3>2, <3>3 DEF Trail, AnnouncedInSnaps, InSnapsUnder
      <3> QED
        BY <2>3, <3>4, <3>5, <3>6, <3>7 DEF Trail
    <2> QED
      BY <2>4, <2>5
  <1> QED
    BY <1>1, <1>2 DEF CommitCreated

-----------------------------------------------------------------------------
(* Loading a ledger.                                                        *)

\* What load builds is a table, and every row of it is a lost one.
LEMMA LoadedTyped ==
    ASSUME NEW d \in Ledger, NEW used, NEW t \in Loaded(d, used)
    PROVE  /\ t.rows \in [SessionIds -> Row \cup {Gone}]
           /\ t.workspaces \in [WorkspaceIds -> Info \cup {Gone}]
           /\ \A s \in SessionIds : t.rows[s] # Gone => t.rows[s].lost
  <1>1. PICK wrap \in Wrappings(d, used) :
           \E first \in FirstTabs(d, HomeOf(d, wrap)), n \in Names :
              t = [rows       |-> LoadedRows(d, HomeOf(d, wrap)),
                   workspaces |-> LoadedWorkspaces(d, HomeOf(d, wrap), first, n)]
    BY DEF Loaded
  <1> DEFINE home == HomeOf(d, wrap)
  <1>2. PICK first \in FirstTabs(d, home), n \in Names :
           t = [rows       |-> LoadedRows(d, home),
                workspaces |-> LoadedWorkspaces(d, home, first, n)]
    BY <1>1
  <1>3. \A s \in Recorded(d) : home[s] \in WorkspaceIds
    BY DEF HomeOf, Recorded, Wrappings, Ledger
  <1> HIDE DEF home
  <1>4. /\ t.rows = LoadedRows(d, home)
        /\ t.workspaces = LoadedWorkspaces(d, home, first, n)
    BY <1>2
  <1>5. \A s \in Recorded(d) : [home |-> home[s], lost |-> TRUE] \in Row
    BY <1>3 DEF Row
  <1>6. LoadedRows(d, home) \in [SessionIds -> Row \cup {Gone}]
    BY <1>5 DEF LoadedRows
  <1>7. \A s \in SessionIds : LoadedRows(d, home)[s] # Gone => LoadedRows(d, home)[s].lost
    BY DEF LoadedRows
  <1>8. \A w \in Adopted(d, home) : [layout |-> {first[w]}, rev |-> 1, name |-> n] \in Info
    BY DEF FirstTabs, Recorded, Info
  <1>9. ASSUME NEW w \in WorkspaceIds, d.workspaces[w] # Gone
        PROVE  [d.workspaces[w] EXCEPT !.layout =
                  {s \in @ : s \in Recorded(d) /\ home[s] = w}] \in Info
    <2>1. d.workspaces[w] \in Info
      BY <1>9 DEF Ledger
    <2>2. {s \in d.workspaces[w].layout : s \in Recorded(d) /\ home[s] = w}
             \in SUBSET SessionIds
      BY DEF Recorded
    <2>3. ASSUME NEW i \in Info, NEW l \in SUBSET SessionIds
          PROVE  [i EXCEPT !.layout = l] \in Info
      BY DEF Info
    <2>4. [d.workspaces[w] EXCEPT !.layout =
             {s \in d.workspaces[w].layout : s \in Recorded(d) /\ home[s] = w}] \in Info
      BY <2>1, <2>2, <2>3
    <2> QED
      BY <2>4, Zenon
  <1>10. LoadedWorkspaces(d, home, first, n) \in [WorkspaceIds -> Info \cup {Gone}]
    BY <1>8, <1>9 DEF LoadedWorkspaces, Adopted
  <1> QED
    BY <1>4, <1>6, <1>7, <1>10

\* load leaves a ledger on disk.
LEMMA RewrittenTyped ==
    ASSUME NEW d \in Ledger, NEW used, NEW t \in Loaded(d, used), NEW ok \in BOOLEAN
    PROVE  Rewritten(d, t, ok) \in Ledger
  <1>1. /\ t.rows \in [SessionIds -> Row \cup {Gone}]
        /\ t.workspaces \in [WorkspaceIds -> Info \cup {Gone}]
    BY LoadedTyped
  <1>2. Snapshot(t.rows, [s \in SessionIds |-> Gone], t.workspaces) \in Ledger
    BY <1>1, ConstantsAssumption DEF Snapshot, Ledger, Row
  <1> QED
    BY <1>2 DEF Rewritten

\* A daemon that has just loaded its ledger: every row is lost and no handler
\* runs.
LEMMA FreshTable ==
    ASSUME TypeOK,
           job = [k \in Workers |-> Idle],
           \A s \in SessionIds : rows[s] # Gone => rows[s].lost /\ s \in minted,
           announced = {s \in SessionIds : rows[s] # Gone}
    PROVE  Shape /\ Trail
  <1>1. \A k \in Workers : job[k].pc = "idle" /\ job[k].write = "none"
    BY IdleJob
  <1>2. Shape
    BY <1>1 DEF Shape, LockHeld, SnapTaken, JobShape, ClassB, Creation, BeforeRow, AfterRow
  <1>3. RowsMinted /\ AnnouncedIsRecorded /\ AnnouncedInSnaps
    BY DEF RowsMinted, AnnouncedIsRecorded, AnnouncedInSnaps
  <1>4. OneCreator /\ RowOfCreation /\ ReservationRecorded /\ CommitRecorded
    BY <1>1
    DEF OneCreator, RowOfCreation, ReservationRecorded, CommitRecorded, Creation,
        BeforeRow, AfterRow
  <1> QED
    BY <1>2, <1>3, <1>4 DEF Trail

\* A daemon's first table satisfies the invariant.
LEMMA InitInv == Init => RecordedInv
  <1> SUFFICES ASSUME Init PROVE Shape /\ Trail
    BY RecordedInvParts
  <1>1. PICK d \in InitialLedgers, ok \in BOOLEAN : \E t \in Loaded(d, {}) :
        /\ rows = t.rows
        /\ workspaces = t.workspaces
        /\ disk = Rewritten(d, t, ok)
        /\ minted = {s \in SessionIds : t.rows[s] # Gone}
                    \cup {w \in WorkspaceIds : t.workspaces[w] # Gone}
        /\ announced = {s \in SessionIds : t.rows[s] # Gone}
        /\ shown = t.workspaces
        /\ child = [s \in SessionIds |-> IF t.rows[s] = Gone THEN "none" ELSE "dead"]
        /\ failures = IF ok THEN 0 ELSE 1
    BY DEF Init
  <1>2. PICK t \in Loaded(d, {}) :
        /\ rows = t.rows
        /\ workspaces = t.workspaces
        /\ disk = Rewritten(d, t, ok)
        /\ minted = {s \in SessionIds : t.rows[s] # Gone}
                    \cup {w \in WorkspaceIds : t.workspaces[w] # Gone}
        /\ announced = {s \in SessionIds : t.rows[s] # Gone}
        /\ shown = t.workspaces
        /\ child = [s \in SessionIds |-> IF t.rows[s] = Gone THEN "none" ELSE "dead"]
        /\ failures = IF ok THEN 0 ELSE 1
    BY <1>1
  <1>3. d \in Ledger
    BY ConstantsAssumption
  <1>4. /\ t.rows \in [SessionIds -> Row \cup {Gone}]
        /\ t.workspaces \in [WorkspaceIds -> Info \cup {Gone}]
        /\ \A s \in SessionIds : t.rows[s] # Gone => t.rows[s].lost
        /\ Rewritten(d, t, ok) \in Ledger
    BY <1>3, LoadedTyped, RewrittenTyped
  <1>5. /\ pending = [s \in SessionIds |-> Gone]
        /\ persisting = Nobody
        /\ snap = [k \in Workers |-> Gone]
        /\ job = [k \in Workers |-> Idle]
        /\ restarts = 0
    BY DEF Init, NoPending
  <1>6. TypeOK
    BY <1>2, <1>4, <1>5, IdleJob DEF TypeOK
  <1> QED
    BY <1>2, <1>4, <1>5, <1>6, FreshTable

\* The table of a restarted daemon does too, whatever its predecessor was doing.
LEMMA RestartInv ==
    ASSUME Shape, Restart
    PROVE  Shape' /\ Trail'
  <1>1. PICK t \in Loaded(disk, minted), ok \in BOOLEAN :
          /\ rows' = t.rows
          /\ workspaces' = t.workspaces
          /\ disk' = Rewritten(disk, t, ok)
          /\ failures' = IF ok THEN failures ELSE failures + 1
          /\ announced' = {s \in SessionIds : t.rows[s] # Gone}
          /\ shown' = t.workspaces
          /\ minted' = minted \cup {s \in SessionIds : t.rows[s] # Gone}
                              \cup {w \in WorkspaceIds : t.workspaces[w] # Gone}
    BY DEF Restart
  <1>2. /\ t.rows \in [SessionIds -> Row \cup {Gone}]
        /\ t.workspaces \in [WorkspaceIds -> Info \cup {Gone}]
        /\ \A s \in SessionIds : t.rows[s] # Gone => t.rows[s].lost
        /\ Rewritten(disk, t, ok) \in Ledger
    BY LoadedTyped, RewrittenTyped DEF Shape, TypeOK
  <1>3. /\ pending' = [s \in SessionIds |-> Gone]
        /\ persisting' = Nobody
        /\ snap' = [k \in Workers |-> Gone]
        /\ job' = [k \in Workers |-> Idle]
        /\ restarts' = restarts + 1
        /\ child' = [s \in SessionIds |-> IF child[s] = "running" THEN "dead" ELSE child[s]]
    BY DEF Restart, NoPending
  <1>4. TypeOK'
    BY <1>1, <1>2, <1>3, IdleJob DEF Shape, TypeOK
  <1>5. \A k \in Workers : job'[k].pc = "idle" /\ job'[k].write = "none"
    BY <1>3, IdleJob
  <1>6. Shape'
    BY <1>4, <1>5 DEF Shape, LockHeld, SnapTaken, JobShape, ClassB, Creation, BeforeRow, AfterRow
  <1>7. RowsMinted' /\ AnnouncedIsRecorded' /\ AnnouncedInSnaps'
    BY <1>1, <1>2 DEF RowsMinted, AnnouncedIsRecorded, AnnouncedInSnaps
  <1>8. OneCreator' /\ RowOfCreation' /\ ReservationRecorded' /\ CommitRecorded'
    BY <1>5
    DEF OneCreator, RowOfCreation, ReservationRecorded, CommitRecorded, Creation,
        BeforeRow, AfterRow
  <1> QED
    BY <1>6, <1>7, <1>8 DEF Trail

-----------------------------------------------------------------------------
(* The invariant, and what follows from it.                                 *)

\* Every step of a handler keeps the invariant.
LEMMA StepInv ==
    ASSUME Shape, Trail, NEW k \in Workers, Step(k)
    PROVE  Shape' /\ Trail'
  <1>1. CASE Reply(k) \/ TakeSnapshot(k) \/ \E ok \in BOOLEAN : Save(k, ok)
    BY <1>1, ReplyInv, TakeSnapshotInv, SaveInv
  <1>2. CASE Reserve(k) \/ Reserved(k)
              \/ \E spawned, handles \in BOOLEAN : Spawn(k, spawned, handles)
    BY <1>2, ReserveInv, ReservedInv, SpawnInv
  <1>3. CASE Abandoned(k) \/ RecordCreated(k) \/ Release(k) \/ CommitCreated(k)
    BY <1>3, AbandonedInv, RecordCreatedInv, ReleaseInv, CommitCreatedInv
  <1>4. CASE Undo(k) \/ KillProcess(k) \/ Undone(k) \/ Killed(k)
    BY <1>4, UndoInv, KillProcessInv, UndoneInv, KilledInv
  <1>5. CASE CommitWorkspace(k) \/ Retract(k) \/ KillDoomed(k) \/ Cleared(k)
    BY <1>5, CommitWorkspaceInv, RetractInv, KillDoomedInv, ClearedInv
  <1>6. CASE LayoutWritten(k) \/ RenameWritten(k)
    BY <1>6, LayoutWrittenInv, RenameWrittenInv
  <1> QED
    BY <1>1, <1>2, <1>3, <1>4, <1>5, <1>6 DEF Step

\* Every request keeps the invariant.
LEMMA RequestInv ==
    ASSUME Shape, Trail, NEW k \in Workers, Request(k)
    PROVE  Shape' /\ Trail'
  BY CreateSessionInv, KillInv, CreateWorkspaceInv, KillWorkspaceInv, UpdateLayoutInv,
     RenameWorkspaceInv
  DEF Request

\* RecordedInv is inductive.
LEMMA NextInv == RecordedInv /\ [Next]_vars => RecordedInv'
  <1> SUFFICES ASSUME Shape, Trail, [Next]_vars PROVE Shape' /\ Trail'
    BY RecordedInvParts DEF RecordedInv, Shape, Trail
  <1>1. CASE Next
    BY <1>1, StepInv, RequestInv, RestartInv DEF Next
  <1>2. CASE UNCHANGED vars
    <2>1. Shape'
      BY <1>2 DEF vars, Shape, TypeOK, LockHeld, SnapTaken, JobShape
    <2>2. RowsMinted' /\ OneCreator' /\ RowOfCreation'
      BY <1>2 DEF vars, Trail, RowsMinted, OneCreator, RowOfCreation
    <2>3. ReservationRecorded' /\ CommitRecorded'
      BY <1>2
      DEF vars, Trail, ReservationRecorded, CommitRecorded, InSnaps, InSnapsUnder
    <2>4. AnnouncedIsRecorded' /\ AnnouncedInSnaps'
      BY <1>2 DEF vars, Trail, AnnouncedIsRecorded, AnnouncedInSnaps, InSnapsUnder
    <2> QED
      BY <2>1, <2>2, <2>3, <2>4 DEF Trail
  <1> QED
    BY <1>1, <1>2

\* Every state of the session table satisfies the inductive invariant: the
\* lock discipline of persist_serialized and what the ledger and the snapshots
\* on their way to it say of each create.
THEOREM RecordedInvariant == Spec => []RecordedInv
  BY InitInv, NextInv, PTL DEF Spec

\* The handlers of sessions.rs keep every map, job and ledger well formed.
THEOREM TypeCorrect == Spec => []TypeOK
  <1>1. RecordedInv => TypeOK
    BY DEF RecordedInv
  <1> QED
    BY <1>1, RecordedInvariant, PTL

\* commit_created announces a session only once the ledger names it, and no
\* later write of any handler drops it while its row is in the table.
THEOREM AnnouncedRecorded == Spec => []AnnouncedIsRecorded
  <1>1. RecordedInv => AnnouncedIsRecorded
    BY DEF RecordedInv
  <1> QED
    BY <1>1, RecordedInvariant, PTL

\* Only spawn_command makes a process.
LEMMA OnlySpawnStarts ==
    ASSUME TypeOK, Next, NEW s \in SessionIds, child[s] = "none", child'[s] = "running"
    PROVE  \E k \in Workers : job[k].pc = "spawn" /\ s = job[k].id
  <1>1. CASE Restart
    BY <1>1 DEF Restart, TypeOK
  <1>2. ASSUME NEW k \in Workers, Request(k) PROVE FALSE
    BY <1>2
    DEF Request, CreateSession, Kill, CreateWorkspace, KillWorkspace, UpdateLayout,
        RenameWorkspace
  <1>3. ASSUME NEW k \in Workers, Step(k) PROVE job[k].pc = "spawn" /\ s = job[k].id
    <2>1. CASE \E spawned, handles \in BOOLEAN : Spawn(k, spawned, handles)
      BY <2>1 DEF Spawn, At, TypeOK
    <2>2. CASE Reply(k) \/ TakeSnapshot(k) \/ \E ok \in BOOLEAN : Save(k, ok)
      BY <2>2 DEF Reply, TakeSnapshot, Save
    <2>3. CASE Reserve(k) \/ Reserved(k) \/ RecordCreated(k) \/ Release(k) \/ CommitCreated(k)
      BY <2>3 DEF Reserve, Reserved, RecordCreated, Release, CommitCreated
    <2>4. CASE Abandoned(k) \/ Undo(k) \/ KillProcess(k) \/ KillDoomed(k)
      BY <2>4 DEF Abandoned, Undo, KillProcess, KillDoomed, TypeOK
    <2>5. CASE Undone(k) \/ Killed(k) \/ CommitWorkspace(k) \/ Retract(k) \/ Cleared(k)
      BY <2>5 DEF Undone, Killed, CommitWorkspace, Retract, Cleared
    <2>6. CASE LayoutWritten(k) \/ RenameWritten(k)
      BY <2>6 DEF LayoutWritten, RenameWritten
    <2> QED
      BY <1>3, <2>1, <2>2, <2>3, <2>4, <2>5, <2>6 DEF Step
  <1> QED
    BY <1>1, <1>2, <1>3 DEF Next

\* reserve's rule: create spawns a shell only once the ledger on disk names it,
\* whatever other handlers wrote between its reservation and its spawn, unless
\* remove_workspace has withdrawn the reservation with its workspace.
THEOREM ReservedBeforeSpawn == Spec => SpawnAfterReservation
  <1> DEFINE A == \A s \in SessionIds :
                     child[s] = "none" /\ child'[s] = "running" =>
                        disk.sessions[s] # Gone \/ pending[s] = Gone
  <1>1. RecordedInv /\ [Next]_vars => [A]_vars
    <2> SUFFICES ASSUME RecordedInv, Next, NEW s \in SessionIds,
                        child[s] = "none", child'[s] = "running", pending[s] # Gone
                 PROVE  disk.sessions[s] # Gone
      BY DEF vars
    <2>1. PICK k \in Workers : job[k].pc = "spawn" /\ s = job[k].id
      BY OnlySpawnStarts DEF RecordedInv
    <2> QED
      BY <2>1 DEF RecordedInv, ReservationRecorded
  <1> QED
    BY <1>1, RecordedInvariant, PTL DEF Spec, SpawnAfterReservation

\* Only a restart counts as one.
LEMMA OnlyRestartCounts ==
    ASSUME [Next]_vars, restarts' # restarts
    PROVE  Restart
  <1>1. ASSUME NEW k \in Workers, Request(k) PROVE FALSE
    BY <1>1
    DEF Request, CreateSession, Kill, CreateWorkspace, KillWorkspace, UpdateLayout,
        RenameWorkspace, bounds
  <1>2. ASSUME NEW k \in Workers, Step(k) PROVE FALSE
    <2>1. CASE \/ Reply(k) \/ TakeSnapshot(k) \/ Reserve(k) \/ Reserved(k) \/ Abandoned(k)
               \/ \E ok \in BOOLEAN : Save(k, ok)
               \/ \E spawned, handles \in BOOLEAN : Spawn(k, spawned, handles)
      BY <2>1 DEF Reply, TakeSnapshot, Save, Reserve, Reserved, Spawn, Abandoned, bounds
    <2>2. CASE \/ RecordCreated(k) \/ Release(k) \/ CommitCreated(k) \/ Undo(k)
               \/ KillProcess(k) \/ Undone(k) \/ Killed(k)
      BY <2>2
      DEF RecordCreated, Release, CommitCreated, Undo, KillProcess, Undone, Killed, bounds
    <2>3. CASE \/ CommitWorkspace(k) \/ Retract(k) \/ KillDoomed(k) \/ Cleared(k)
               \/ LayoutWritten(k) \/ RenameWritten(k)
      BY <2>3
      DEF CommitWorkspace, Retract, KillDoomed, Cleared, LayoutWritten, RenameWritten, bounds
    <2> QED
      BY <1>2, <2>1, <2>2, <2>3 DEF Step
  <1> QED
    BY <1>1, <1>2 DEF Next, vars

\* The next daemon's load: whatever handler the daemon dies in, every session a
\* subscriber was told of comes back as a lost row of its own workspace.
THEOREM CrashKeepsSessions == Spec => CrashLosesNoSession
  <1> DEFINE A == restarts' # restarts =>
                     \A s \in announced : ~ rows[s].lost =>
                        rows'[s] = [home |-> rows[s].home, lost |-> TRUE]
  <1>1. RecordedInv /\ [Next]_vars => [A]_vars
    <2> SUFFICES ASSUME RecordedInv, [Next]_vars, restarts' # restarts,
                        NEW s \in announced, ~ rows[s].lost
                 PROVE  rows'[s] = [home |-> rows[s].home, lost |-> TRUE]
      OBVIOUS
    <2>1. PICK t \in Loaded(disk, minted) : rows' = t.rows
      BY OnlyRestartCounts DEF Restart
    <2>2. PICK wrap \in Wrappings(disk, minted) :
             t.rows = LoadedRows(disk, HomeOf(disk, wrap))
      BY DEF Loaded
    <2>3. s \in SessionIds /\ rows[s] # Gone /\ disk.sessions[s] = rows[s].home
      BY DEF RecordedInv, TypeOK, AnnouncedIsRecorded
    <2>4. rows[s].home \in WorkspaceIds
      BY <2>3 DEF RecordedInv, TypeOK, Row
    <2>5. s \in Recorded(disk) /\ HomeOf(disk, wrap)[s] = rows[s].home
      BY <2>3, <2>4, ConstantsAssumption DEF Recorded, HomeOf
    <2> QED
      BY <2>1, <2>2, <2>3, <2>5 DEF LoadedRows
  <1> QED
    BY <1>1, RecordedInvariant, PTL DEF Spec, CrashLosesNoSession

-----------------------------------------------------------------------------
(* Outcomes: what the requests come to.                                     *)

-----------------------------------------------------------------------------
(* What each action does to the job of its worker.                          *)

\* Worker k's job is replaced by one with these fields.
Becomes(k, pc, op, ws, id, doomed, answer, write) ==
    /\ job' \in [Workers -> Jobs]
    /\ \A l \in Workers : l # k => job'[l] = job[l]
    /\ job'[k].pc = pc /\ job'[k].op = op /\ job'[k].ws = ws /\ job'[k].id = id
    /\ job'[k].doomed = doomed /\ job'[k].answer = answer /\ job'[k].write = write

\* The handler goes on with the request it serves.
Moves(k, pc, doomed, answer, write) ==
    /\ Becomes(k, pc, job[k].op, job[k].ws, job[k].id, doomed, answer, write)
    /\ job'[k].new = job[k].new

\* The job goes on to pc, for the write it queues.
LEMMA PersistIs ==
    ASSUME TypeOK, NEW k \in Workers, NEW pc \in Places,
           Goto(k, Persist(job[k], pc))
    PROVE  Moves(k, pc, job[k].doomed, job[k].answer, "queued")
           /\ job'[k].old = job[k].old
  BY DEF TypeOK, Goto, Persist, Jobs, Writes, Moves, Becomes

\* The job goes on to pc without a write.
LEMMA ThenIs ==
    ASSUME TypeOK, NEW k \in Workers, NEW pc \in Places,
           Goto(k, Then(job[k], pc))
    PROVE  Moves(k, pc, job[k].doomed, job[k].answer, "none")
           /\ job'[k].old = job[k].old
  BY DEF TypeOK, Goto, Then, Jobs, Writes, Moves, Becomes

\* An answer keeps the subject of its request.
LEMMA AnswerFields ==
    ASSUME NEW j \in Jobs, NEW a \in Answers
    PROVE  LET n == Answer(j, a) IN
           /\ n.op = j.op /\ n.ws = j.ws /\ n.id = j.id /\ n.new = j.new
           /\ n.doomed = {} /\ n.answer = a
  BY DEF Jobs, Answer

\* The handler answers.
LEMMA AnswerIs ==
    ASSUME TypeOK, NEW k \in Workers, NEW a \in Answers,
           Goto(k, Answer(job[k], a))
    PROVE  Moves(k, "reply", {}, a, "none")
  BY AnswerFields, AnswerJob, GotoOne DEF TypeOK, Moves, Becomes

\* A new request is refused where it stands.
LEMMA RefuseIs ==
    ASSUME TypeOK, NEW k \in Workers, NEW a \in Answers, NEW op \in AllOps,
           NEW w \in WorkspaceIds \cup {Gone}, NEW s \in SessionIds \cup {Gone},
           Goto(k, Answer(Start(op, w, s), a))
    PROVE  Becomes(k, "reply", op, w, s, {}, a, "none")
  <1> DEFINE j == Start(op, w, s)
  <1>1. /\ j \in Jobs /\ j.op = op /\ j.ws = w /\ j.id = s
    BY DEF Jobs, Idle, Start, Places, Writes, Answers
  <1> HIDE DEF j
  <1>2. Goto(k, Answer(j, a))
    BY DEF j
  <1> QED
    BY <1>1, <1>2, AnswerFields, AnswerJob, GotoOne DEF TypeOK, Becomes

\* The answer goes out and the worker is idle.
LEMMA ReplyDoes ==
    ASSUME TypeOK, NEW k \in Workers, Reply(k)
    PROVE  Becomes(k, "idle", "none", Gone, Gone, {}, "none", "none")
  BY GotoOne, IdleJob DEF Reply, TypeOK, Becomes, Idle

\* The write is on its way.
LEMMA TakeSnapshotDoes ==
    ASSUME TypeOK, NEW k \in Workers, TakeSnapshot(k)
    PROVE  Moves(k, job[k].pc, job[k].doomed, job[k].answer, "writing")
           /\ job'[k].old = job[k].old
  <1> DEFINE n == [job[k] EXCEPT !.write = "writing"]
  <1>1. /\ n \in Jobs /\ n.pc = job[k].pc /\ n.op = job[k].op /\ n.ws = job[k].ws
        /\ n.id = job[k].id /\ n.new = job[k].new /\ n.old = job[k].old
        /\ n.doomed = job[k].doomed /\ n.answer = job[k].answer /\ n.write = "writing"
    BY DEF TypeOK, Jobs, Writes
  <1> HIDE DEF n
  <1>2. Goto(k, n)
    BY DEF TakeSnapshot, n
  <1> QED
    BY <1>1, <1>2, GotoOne DEF TypeOK, Moves, Becomes

\* The write is done.
LEMMA SaveDoes ==
    ASSUME TypeOK, NEW k \in Workers, NEW ok \in BOOLEAN, Save(k, ok)
    PROVE  Moves(k, job[k].pc, job[k].doomed, job[k].answer, IF ok THEN "ok" ELSE "failed")
           /\ job'[k].old = job[k].old
  <1> DEFINE r == IF ok THEN "ok" ELSE "failed"
             n == [job[k] EXCEPT !.write = r]
  <1>0. r \in Writes
    BY DEF Writes
  <1>2. Goto(k, n)
    BY DEF Save
  <1> HIDE DEF r
  <1>1. /\ n \in Jobs /\ n.pc = job[k].pc /\ n.op = job[k].op /\ n.ws = job[k].ws
        /\ n.id = job[k].id /\ n.new = job[k].new /\ n.old = job[k].old
        /\ n.doomed = job[k].doomed /\ n.answer = job[k].answer /\ n.write = r
    BY <1>0 DEF TypeOK, Jobs
  <1> HIDE DEF n
  <1> QED
    BY <1>1, <1>2, GotoOne DEF TypeOK, Moves, Becomes, r

\* A create is refused before it minted an id, or starts with a fresh one.
LEMMA CreateSessionDoes ==
    ASSUME TypeOK, NEW k \in Workers, NEW w \in WorkspaceIds, NEW s \in SessionIds,
           CreateSession(k, w, s)
    PROVE  \/ /\ \E a \in {"not_found", "internal"} :
                    Becomes(k, "reply", "create", w, Gone, {}, a, "none")
              /\ minted' = minted
           \/ /\ Becomes(k, "reserve", "create", w, s, {}, "none", "none")
              /\ workspaces[w] # Gone /\ minted' = minted \cup {s}
  <1>1. ASSUME NEW a \in {"not_found", "internal"},
               Goto(k, Answer(Start("create", w, Gone), a))
        PROVE  Becomes(k, "reply", "create", w, Gone, {}, a, "none")
    BY <1>1, RefuseIs DEF AllOps, Answers
  <1>2. ASSUME Goto(k, Then(Start("create", w, s), "reserve"))
        PROVE  Becomes(k, "reserve", "create", w, s, {}, "none", "none")
    <2> DEFINE n == Then(Start("create", w, s), "reserve")
    <2>1. /\ n \in Jobs /\ n.pc = "reserve" /\ n.op = "create" /\ n.ws = w /\ n.id = s
          /\ n.doomed = {} /\ n.answer = "none" /\ n.write = "none"
      BY DEF Jobs, Then, Start, Idle, Places, Writes, Answers, AllOps
    <2> HIDE DEF n
    <2> QED
      BY <1>2, <2>1, GotoOne DEF TypeOK, Becomes, n
  <1> QED
    BY <1>1, <1>2 DEF CreateSession

\* The handlers of a create that only move their job on.
LEMMA CreateMoves ==
    ASSUME TypeOK, NEW k \in Workers
    PROVE  /\ Reserve(k) => Moves(k, "reserving", job[k].doomed, job[k].answer, "queued")
           /\ Reserved(k) =>
                 \/ job[k].write = "ok"
                    /\ Moves(k, "spawn", job[k].doomed, job[k].answer, "none")
                 \/ job[k].write = "failed"
                    /\ Moves(k, "reply", {}, "persist_failed", "none")
           /\ \A spawned, handles \in BOOLEAN : Spawn(k, spawned, handles) =>
                 IF handles THEN Moves(k, "record", job[k].doomed, job[k].answer, "none")
                 ELSE Moves(k, "abandon", job[k].doomed, job[k].answer, "queued")
           /\ Abandoned(k) => Moves(k, "reply", {}, "internal", "none")
           /\ RecordCreated(k) => Moves(k, "release", job[k].doomed, job[k].answer, "none")
           /\ Release(k) => Moves(k, "commit", job[k].doomed, job[k].answer, "queued")
           /\ Undone(k) => Moves(k, "reply", {}, job[k].answer, "none")
  <1>1. Reserve(k) => Moves(k, "reserving", job[k].doomed, job[k].answer, "queued")
    BY PersistIs DEF Reserve, Places
  <1>2. Reserved(k) =>
           \/ job[k].write = "ok"
              /\ Moves(k, "spawn", job[k].doomed, job[k].answer, "none")
           \/ job[k].write = "failed"
              /\ Moves(k, "reply", {}, "persist_failed", "none")
    BY ThenIs, AnswerIs DEF Reserved, Places, Answers
  <1>3. ASSUME NEW spawned \in BOOLEAN, NEW handles \in BOOLEAN, Spawn(k, spawned, handles)
        PROVE  IF handles THEN Moves(k, "record", job[k].doomed, job[k].answer, "none")
               ELSE Moves(k, "abandon", job[k].doomed, job[k].answer, "queued")
    BY <1>3, ThenIs, PersistIs DEF Spawn, Places
  <1>4. Abandoned(k) => Moves(k, "reply", {}, "internal", "none")
    BY AnswerIs DEF Abandoned, Answers
  <1>5. RecordCreated(k) => Moves(k, "release", job[k].doomed, job[k].answer, "none")
    BY ThenIs DEF RecordCreated, Places
  <1>6. Release(k) => Moves(k, "commit", job[k].doomed, job[k].answer, "queued")
    BY PersistIs DEF Release, Places
  <1>7. Undone(k) => Moves(k, "reply", {}, job[k].answer, "none")
    BY AnswerIs DEF Undone, TypeOK, Jobs
  <1> QED
    BY <1>1, <1>2, <1>3, <1>4, <1>5, <1>6, <1>7

\* A job that goes on without a write keeps everything else.
LEMMA ThenFields ==
    ASSUME NEW j \in Jobs, NEW pc \in Places
    PROVE  LET n == Then(j, pc) IN
           /\ n \in Jobs /\ n.pc = pc /\ n.op = j.op /\ n.ws = j.ws /\ n.id = j.id
           /\ n.new = j.new /\ n.doomed = j.doomed /\ n.answer = j.answer /\ n.write = "none"
  BY DEF Jobs, Then, Writes

\* A handler notes what it will answer.
LEMMA AnswerNotedIs ==
    ASSUME TypeOK, NEW k \in Workers, NEW pc \in Places, NEW a \in Answers,
           Goto(k, [Then(job[k], pc) EXCEPT !.answer = a])
    PROVE  Moves(k, pc, job[k].doomed, a, "none")
  <1> DEFINE t == Then(job[k], pc)
             n == [t EXCEPT !.answer = a]
  <1>1. /\ t \in Jobs /\ t.pc = pc /\ t.op = job[k].op /\ t.ws = job[k].ws
        /\ t.id = job[k].id /\ t.new = job[k].new /\ t.doomed = job[k].doomed
        /\ t.write = "none"
    BY ThenFields DEF TypeOK
  <1>2. Goto(k, n)
    OBVIOUS
  <1> HIDE DEF t
  <1>3. /\ n \in Jobs /\ n.pc = t.pc /\ n.op = t.op /\ n.ws = t.ws /\ n.id = t.id
        /\ n.new = t.new /\ n.doomed = t.doomed /\ n.answer = a /\ n.write = t.write
    BY <1>1 DEF Jobs
  <1> HIDE DEF n
  <1> QED
    BY <1>1, <1>2, <1>3, GotoOne DEF TypeOK, Moves, Becomes

\* A handler notes whose processes it will kill.
LEMMA DoomIs ==
    ASSUME TypeOK, NEW k \in Workers, NEW j \in Jobs, NEW pc \in Places,
           NEW D \in SUBSET SessionIds, Goto(k, [Then(j, pc) EXCEPT !.doomed = D])
    PROVE  Becomes(k, pc, j.op, j.ws, j.id, D, j.answer, "none") /\ job'[k].new = j.new
  <1> DEFINE t == Then(j, pc)
             n == [t EXCEPT !.doomed = D]
  <1>1. /\ t \in Jobs /\ t.pc = pc /\ t.op = j.op /\ t.ws = j.ws /\ t.id = j.id
        /\ t.new = j.new /\ t.answer = j.answer /\ t.write = "none"
    BY ThenFields
  <1>2. Goto(k, n)
    OBVIOUS
  <1> HIDE DEF t
  <1>3. /\ n \in Jobs /\ n.pc = t.pc /\ n.op = t.op /\ n.ws = t.ws /\ n.id = t.id
        /\ n.new = t.new /\ n.doomed = D /\ n.answer = t.answer /\ n.write = t.write
    BY <1>1 DEF Jobs
  <1> HIDE DEF n
  <1> QED
    BY <1>1, <1>2, <1>3, GotoOne DEF TypeOK, Becomes

\* commit_created refuses, or answers "ok".
LEMMA CommitCreatedDoes ==
    ASSUME TypeOK, NEW k \in Workers, CommitCreated(k)
    PROVE  \/ /\ \E a \in {"persist_failed", "not_found"} :
                    Moves(k, "undo", job[k].doomed, a, "none")
              /\ job[k].write = "failed" \/ workspaces[job[k].ws] = Gone
              /\ announced' = announced
           \/ /\ Moves(k, "reply", {}, "ok", "none")
              /\ job[k].write = "ok" /\ workspaces[job[k].ws] # Gone
              /\ announced' = IF rows[job[k].id] = Gone THEN announced
                              ELSE announced \cup {job[k].id}
  <1>1. ASSUME NEW a \in {"persist_failed", "not_found"},
               Goto(k, [Then(job[k], "undo") EXCEPT !.answer = a])
        PROVE  Moves(k, "undo", job[k].doomed, a, "none")
    BY <1>1, AnswerNotedIs DEF Places, Answers
  <1>2. Goto(k, Answer(job[k], "ok")) => Moves(k, "reply", {}, "ok", "none")
    BY AnswerIs DEF Answers
  <1> QED
    BY <1>1, <1>2 DEF CommitCreated

\* The undoing of a create: remove_session, or what a kill left of it.
LEMMA UndoDoes ==
    ASSUME TypeOK, NEW k \in Workers, job[k].id \in SessionIds, Undo(k)
    PROVE  \/ /\ rows[job[k].id] # Gone /\ RemoveRow(job[k].id) /\ child' = child
              /\ Moves(k, "undoing", {job[k].id}, job[k].answer, "none")
           \/ /\ rows[job[k].id] = Gone /\ UNCHANGED <<rows, workspaces, events>>
              /\ child' = [child EXCEPT ![job[k].id] = "dead"]
              /\ Moves(k, "reply", {}, job[k].answer, "none")
  <1>1. ASSUME Goto(k, [Then(job[k], "undoing") EXCEPT !.doomed = {job[k].id}])
        PROVE  Moves(k, "undoing", {job[k].id}, job[k].answer, "none")
    <2>1. {job[k].id} \in SUBSET SessionIds /\ "undoing" \in Places /\ job[k] \in Jobs
      BY DEF Places, TypeOK
    <2> QED
      BY <1>1, <2>1, DoomIs DEF Moves
  <1>2. Goto(k, Answer(job[k], job[k].answer)) =>
           Moves(k, "reply", {}, job[k].answer, "none")
    BY AnswerIs DEF TypeOK, Jobs
  <1> QED
    BY <1>1, <1>2 DEF Undo

\* A kill finds no row, or takes it away together with its announcements.
LEMMA KillDoes ==
    ASSUME TypeOK, NEW k \in Workers, NEW s \in SessionIds, Kill(k, s)
    PROVE  \/ /\ rows[s] = Gone /\ UNCHANGED <<rows, workspaces, events>>
              /\ Becomes(k, "reply", "kill", Gone, s, {}, "not_found", "none")
           \/ /\ rows[s] # Gone /\ RemoveRow(s)
              /\ Becomes(k, "killing", "kill", Gone, s, {s}, "none", "none")
  <1>1. Goto(k, Answer(Start("kill", Gone, s), "not_found")) =>
           Becomes(k, "reply", "kill", Gone, s, {}, "not_found", "none")
    BY RefuseIs DEF AllOps, Answers
  <1>2. ASSUME Goto(k, [Then(Start("kill", Gone, s), "killing") EXCEPT !.doomed = {s}])
        PROVE  Becomes(k, "killing", "kill", Gone, s, {s}, "none", "none")
    <2> DEFINE j == Start("kill", Gone, s)
    <2>1. j \in Jobs /\ j.op = "kill" /\ j.ws = Gone /\ j.id = s /\ j.answer = "none"
      BY DEF Jobs, Start, Idle, Places, Writes, Answers, AllOps
    <2>2. Goto(k, [Then(j, "killing") EXCEPT !.doomed = {s}])
      BY <1>2
    <2> HIDE DEF j
    <2>3. {s} \in SUBSET SessionIds /\ "killing" \in Places
      BY DEF Places
    <2> QED
      BY <2>1, <2>2, <2>3, DoomIs
  <1> QED
    BY <1>1, <1>2 DEF Kill

\* A workspace kill finds nothing, or takes the workspace, its sessions and
\* its reservations away.
LEMMA KillWorkspaceDoes ==
    ASSUME TypeOK, NEW k \in Workers, NEW w \in WorkspaceIds, KillWorkspace(k, w)
    PROVE  \/ /\ UNCHANGED <<table, events>>
              /\ Becomes(k, "reply", "kill_workspace", w, Gone, {}, "not_found", "none")
           \/ /\ workspaces' = [workspaces EXCEPT ![w] = Gone]
              /\ rows' = [s \in SessionIds |-> IF s \in SessionsIn(w) THEN Gone ELSE rows[s]]
              /\ pending' = [s \in SessionIds |-> IF pending[s] = w THEN Gone ELSE pending[s]]
              /\ announced' = announced \ SessionsIn(w)
              /\ shown' = [shown EXCEPT ![w] = Gone]
              /\ Becomes(k, "clearing", "kill_workspace", w, Gone, SessionsIn(w), "none", "none")
  <1>1. Goto(k, Answer(Start("kill_workspace", w, Gone), "not_found")) =>
           Becomes(k, "reply", "kill_workspace", w, Gone, {}, "not_found", "none")
    BY RefuseIs DEF AllOps, Answers
  <1> DEFINE D == SessionsIn(w)
  <1>2. ASSUME Goto(k, [Then(Start("kill_workspace", w, Gone), "clearing") EXCEPT !.doomed = D])
        PROVE  Becomes(k, "clearing", "kill_workspace", w, Gone, D, "none", "none")
    <2> DEFINE j == Start("kill_workspace", w, Gone)
    <2>1. j \in Jobs /\ j.op = "kill_workspace" /\ j.ws = w /\ j.id = Gone /\ j.answer = "none"
      BY DEF Jobs, Start, Idle, Places, Writes, Answers, AllOps
    <2>2. Goto(k, [Then(j, "clearing") EXCEPT !.doomed = D])
      BY <1>2
    <2> HIDE DEF j
    <2>3. D \in SUBSET SessionIds /\ "clearing" \in Places
      BY DEF Places, SessionsIn
    <2> HIDE DEF D
    <2> QED
      BY <2>1, <2>2, <2>3, DoomIs
  <1> QED
    BY <1>1, <1>2 DEF KillWorkspace

\* The processes are dead; the write is queued.
LEMMA SparedIs ==
    ASSUME TypeOK, NEW k \in Workers, NEW pc \in Places,
           Goto(k, Persist([job[k] EXCEPT !.doomed = {}], pc))
    PROVE  Moves(k, pc, {}, job[k].answer, "queued")
  <1> DEFINE j == [job[k] EXCEPT !.doomed = {}]
             n == Persist(j, pc)
  <1>1. /\ j \in Jobs /\ j.op = job[k].op /\ j.ws = job[k].ws /\ j.id = job[k].id
        /\ j.new = job[k].new /\ j.doomed = {} /\ j.answer = job[k].answer
    BY DEF TypeOK, Jobs
  <1>2. Goto(k, n)
    OBVIOUS
  <1> HIDE DEF j
  <1>3. /\ n \in Jobs /\ n.pc = pc /\ n.op = j.op /\ n.ws = j.ws /\ n.id = j.id
        /\ n.new = j.new /\ n.doomed = j.doomed /\ n.answer = j.answer /\ n.write = "queued"
    BY <1>1 DEF Jobs, Persist, Writes
  <1> HIDE DEF n
  <1> QED
    BY <1>1, <1>2, <1>3, GotoOne DEF TypeOK, Moves, Becomes

\* What ends a kill.
LEMMA KillMoves ==
    ASSUME TypeOK, NEW k \in Workers
    PROVE  /\ KillProcess(k) =>
                 Moves(k, IF job[k].pc = "undoing" THEN "undone" ELSE "killed",
                       {}, job[k].answer, "queued")
           /\ KillDoomed(k) => Moves(k, "cleared", {}, job[k].answer, "queued")
           /\ Killed(k) \/ Cleared(k) =>
                 Moves(k, "reply", {}, IF job[k].write = "ok" THEN "ok" ELSE "persist_failed",
                       "none")
  <1>1. KillProcess(k) =>
           Moves(k, IF job[k].pc = "undoing" THEN "undone" ELSE "killed",
                 {}, job[k].answer, "queued")
    BY SparedIs DEF KillProcess, Places
  <1>2. KillDoomed(k) => Moves(k, "cleared", {}, job[k].answer, "queued")
    BY SparedIs DEF KillDoomed, Places
  <1>3. Killed(k) \/ Cleared(k) =>
           Moves(k, "reply", {}, IF job[k].write = "ok" THEN "ok" ELSE "persist_failed", "none")
    BY AnswerIs DEF Killed, Cleared, Answers
  <1> QED
    BY <1>1, <1>2, <1>3

\* A new workspace is in the map before it is written.
LEMMA CreateWorkspaceDoes ==
    ASSUME TypeOK, NEW k \in Workers, NEW w \in WorkspaceIds, NEW m \in Names,
           CreateWorkspace(k, w, m)
    PROVE  /\ Becomes(k, "opening", "create_workspace", w, Gone, {}, "none", "queued")
           /\ job'[k].new = NewWorkspace(m)
  <1> DEFINE i == NewWorkspace(m)
             b == Start("create_workspace", w, Gone)
             j == [b EXCEPT !.new = i]
             n == Persist(j, "opening")
  <1>0. Goto(k, n)
    BY DEF CreateWorkspace
  <1>1. i \in Info
    BY NewWorkspaceTyped
  <1>2. /\ b \in Jobs /\ b.op = "create_workspace" /\ b.ws = w /\ b.id = Gone
        /\ b.doomed = {} /\ b.answer = "none"
    BY DEF Jobs, Start, Idle, Places, Writes, Answers, AllOps
  <1> HIDE DEF i, b
  <1>3. /\ j \in Jobs /\ j.op = b.op /\ j.ws = b.ws /\ j.id = b.id
        /\ j.doomed = b.doomed /\ j.answer = b.answer /\ j.new = i
    BY <1>1, <1>2 DEF Jobs
  <1> HIDE DEF j
  <1>4. /\ n \in Jobs /\ n.pc = "opening" /\ n.op = j.op /\ n.ws = j.ws /\ n.id = j.id
        /\ n.doomed = j.doomed /\ n.answer = j.answer /\ n.write = "queued" /\ n.new = j.new
    BY <1>3 DEF Jobs, Persist, Writes, Places
  <1> HIDE DEF n
  <1>5. /\ job'[k] = n /\ job' \in [Workers -> Jobs]
        /\ \A l \in Workers : l # k => job'[l] = job[l]
    BY <1>0, <1>4, GotoOne DEF TypeOK
  <1> QED
    BY <1>2, <1>3, <1>4, <1>5 DEF Becomes, i

\* What ends create_workspace.
LEMMA CommitWorkspaceDoes ==
    ASSUME TypeOK, NEW k \in Workers, CommitWorkspace(k)
    PROVE  \/ /\ job[k].write = "failed"
              /\ workspaces' = [workspaces EXCEPT ![job[k].ws] = Gone] /\ shown' = shown
              /\ \/ /\ workspaces[job[k].ws] = Gone
                    /\ Moves(k, "reply", {}, "persist_failed", "none")
                 \/ /\ workspaces[job[k].ws] # Gone
                    /\ Moves(k, "retract", job[k].doomed, job[k].answer, "none")
           \/ /\ job[k].write = "ok" /\ workspaces[job[k].ws] = Gone
              /\ workspaces' = workspaces /\ shown' = shown
              /\ Moves(k, "reply", {}, "not_found", "none")
           \/ /\ job[k].write = "ok" /\ workspaces[job[k].ws] # Gone
              /\ workspaces' = workspaces /\ shown' = ShowWorkspace(job[k].ws, job[k].new)
              /\ Moves(k, "reply", {}, "ok", "none")
  <1>1. \A a \in Answers : Goto(k, Answer(job[k], a)) => Moves(k, "reply", {}, a, "none")
    BY AnswerIs
  <1>2. Goto(k, Then(job[k], "retract")) =>
           Moves(k, "retract", job[k].doomed, job[k].answer, "none")
    BY ThenIs DEF Places
  <1> QED
    BY <1>1, <1>2 DEF CommitWorkspace, Answers

\* The job of a new request.
LEMMA StartIs ==
    ASSUME NEW op \in AllOps, NEW w \in WorkspaceIds
    PROVE  LET b == Start(op, w, Gone) IN
           /\ b \in Jobs /\ b.op = op /\ b.ws = w /\ b.id = Gone
           /\ b.doomed = {} /\ b.answer = "none"
  BY DEF Jobs, Start, Idle, Places, Writes, Answers

\* A class-B handler waits for its write.
LEMMA QueueIs ==
    ASSUME TypeOK, NEW k \in Workers, NEW j \in Jobs, NEW pc \in Places,
           Goto(k, Persist(j, pc))
    PROVE  /\ Becomes(k, pc, j.op, j.ws, j.id, j.doomed, j.answer, "queued")
           /\ job'[k].old = j.old /\ job'[k].new = j.new
  <1> DEFINE n == Persist(j, pc)
  <1>1. /\ n \in Jobs /\ n.pc = pc /\ n.op = j.op /\ n.ws = j.ws /\ n.id = j.id
        /\ n.doomed = j.doomed /\ n.answer = j.answer /\ n.write = "queued"
        /\ n.new = j.new /\ n.old = j.old
    BY DEF Jobs, Persist, Writes
  <1> HIDE DEF n
  <1>2. /\ job'[k] = n /\ job' \in [Workers -> Jobs]
        /\ \A l \in Workers : l # k => job'[l] = job[l]
    BY <1>1, GotoOne DEF TypeOK, n
  <1> QED
    BY <1>1, <1>2 DEF Becomes

\* update_layout is refused, or puts the document in the map.
LEMMA UpdateLayoutDoes ==
    ASSUME TypeOK, NEW k \in Workers, NEW w \in WorkspaceIds,
           NEW doc \in SUBSET SessionIds, NEW rev \in 1..MaxRev, UpdateLayout(k, w, doc, rev)
    PROVE  \/ /\ UNCHANGED <<workspaces, persisting>>
              /\ \E a \in {"not_found", "stale_rev", "invalid_argument"} :
                    Becomes(k, "reply", "update_layout", w, Gone, {}, a, "none")
           \/ /\ workspaces[w] # Gone /\ rev > workspaces[w].rev /\ doc \subseteq SessionsIn(w)
              /\ Becomes(k, "layout", "update_layout", w, Gone, {}, "none", "queued")
              /\ job'[k].old = workspaces[w] /\ job'[k].new \in Info
              /\ job'[k].new.rev = rev /\ job'[k].new.layout = doc
              /\ job'[k].new.name = workspaces[w].name
              /\ workspaces' = [workspaces EXCEPT ![w] = job'[k].new]
              /\ persisting' = k
  <1>1. \A a \in {"not_found", "stale_rev", "invalid_argument"} :
           Goto(k, Answer(Start("update_layout", w, Gone), a)) =>
              Becomes(k, "reply", "update_layout", w, Gone, {}, a, "none")
    BY RefuseIs DEF AllOps, Answers
  <1>2. CASE workspaces[w] = Gone \/ rev <= workspaces[w].rev \/ ~ doc \subseteq SessionsIn(w)
    <2>1. /\ UNCHANGED <<workspaces, persisting>>
          /\ \E a \in {"not_found", "stale_rev", "invalid_argument"} :
                Goto(k, Answer(Start("update_layout", w, Gone), a))
      <3>1. CASE workspaces[w] = Gone
        BY <3>1 DEF UpdateLayout
      <3>2. CASE workspaces[w] # Gone
        <4>1. workspaces[w].rev \in Nat /\ rev \in Nat
          BY <3>2, ConstantsAssumption DEF TypeOK, Info
        <4> QED
          BY <1>2, <3>2, <4>1 DEF UpdateLayout
      <3> QED
        BY <3>1, <3>2
    <2> QED
      BY <1>1, <2>1
  <1>3. CASE workspaces[w] # Gone /\ ~ rev <= workspaces[w].rev /\ doc \subseteq SessionsIn(w)
    <2> DEFINE was == workspaces[w]
               now == [was EXCEPT !.layout = doc, !.rev = rev]
    <2>1. was \in Info /\ rev \in Nat
      BY <1>3, ConstantsAssumption DEF TypeOK
    <2> DEFINE b == Start("update_layout", w, Gone)
               j == [b EXCEPT !.old = was, !.new = now]
    <2>2. /\ Goto(k, Persist(j, "layout"))
          /\ workspaces' = [workspaces EXCEPT ![w] = now] /\ persisting' = k
          /\ rev > was.rev
      BY <1>3 DEF UpdateLayout
    <2> HIDE DEF was
    <2>3. now \in Info /\ now.rev = rev /\ now.layout = doc /\ now.name = was.name
      BY <2>1 DEF Info
    <2> HIDE DEF now
    <2>b. /\ b \in Jobs /\ b.op = "update_layout" /\ b.ws = w /\ b.id = Gone
          /\ b.doomed = {} /\ b.answer = "none"
      BY StartIs DEF AllOps
    <2> HIDE DEF b
    <2>4. /\ j \in Jobs /\ j.op = b.op /\ j.ws = b.ws /\ j.id = b.id
          /\ j.doomed = b.doomed /\ j.answer = b.answer /\ j.new = now /\ j.old = was
      BY <2>1, <2>3, <2>b DEF Jobs
    <2> HIDE DEF j
    <2>5. /\ Becomes(k, "layout", "update_layout", w, Gone, {}, "none", "queued")
          /\ job'[k].old = was /\ job'[k].new = now
      BY <2>2, <2>b, <2>4, QueueIs DEF Places
    <2> QED
      BY <1>3, <2>2, <2>3, <2>5 DEF was
  <1> QED
    BY <1>2, <1>3

\* A written layout is announced, a failed one rolled back.
LEMMA LayoutWrittenDoes ==
    ASSUME TypeOK, NEW k \in Workers, job[k].ws \in WorkspaceIds, job[k].old \in Info,
           LayoutWritten(k)
    PROVE  /\ \/ /\ job[k].write = "failed" /\ shown' = shown
                 /\ Moves(k, "reply", {}, "persist_failed", "none")
                 /\ \A w \in WorkspaceIds : w # job[k].ws => workspaces'[w] = workspaces[w]
                 /\ workspaces[job[k].ws] = Gone => workspaces'[job[k].ws] = Gone
                 /\ workspaces[job[k].ws] # Gone =>
                       /\ workspaces'[job[k].ws] \in Info
                       /\ workspaces'[job[k].ws].layout = job[k].old.layout
                       /\ workspaces'[job[k].ws].rev = job[k].old.rev
                       /\ workspaces'[job[k].ws].name = workspaces[job[k].ws].name
              \/ /\ job[k].write = "ok" /\ workspaces' = workspaces
                 /\ shown' = ShowLayout(job[k].ws, job[k].new)
                 /\ Moves(k, "reply", {}, "ok", "none")
           /\ persisting' = Nobody
  <1>1. \A a \in Answers : Goto(k, Answer(job[k], a)) => Moves(k, "reply", {}, a, "none")
    BY AnswerIs
  <1> DEFINE w == job[k].ws
             u == [workspaces EXCEPT ![w].layout = job[k].old.layout,
                                     ![w].rev = job[k].old.rev]
  <1>2. ASSUME workspaces[w] # Gone
        PROVE  /\ \A v \in WorkspaceIds : v # w => u[v] = workspaces[v]
               /\ u[w] \in Info /\ u[w].layout = job[k].old.layout
               /\ u[w].rev = job[k].old.rev /\ u[w].name = workspaces[w].name
    <2>1. workspaces[w] \in Info
      BY <1>2 DEF TypeOK
    <2> QED
      BY <2>1 DEF TypeOK, Info
  <1> QED
    BY <1>1, <1>2 DEF LayoutWritten, Answers

\* rename_workspace is refused, or puts the name in the map.
LEMMA RenameWorkspaceDoes ==
    ASSUME TypeOK, NEW k \in Workers, NEW w \in WorkspaceIds, NEW m \in Names,
           RenameWorkspace(k, w, m)
    PROVE  \/ /\ UNCHANGED <<workspaces, persisting>>
              /\ Becomes(k, "reply", "rename", w, Gone, {}, "not_found", "none")
           \/ /\ workspaces[w] # Gone
              /\ Becomes(k, "rename", "rename", w, Gone, {}, "none", "queued")
              /\ job'[k].old = workspaces[w] /\ job'[k].new \in Info
              /\ job'[k].new.rev = workspaces[w].rev
              /\ job'[k].new.layout = workspaces[w].layout
              /\ workspaces' = [workspaces EXCEPT ![w] = job'[k].new]
              /\ persisting' = k
  <1>1. Goto(k, Answer(Start("rename", w, Gone), "not_found")) =>
           Becomes(k, "reply", "rename", w, Gone, {}, "not_found", "none")
    BY RefuseIs DEF AllOps, Answers
  <1>2. CASE workspaces[w] = Gone
    BY <1>1, <1>2 DEF RenameWorkspace
  <1>3. CASE workspaces[w] # Gone
    <2> DEFINE was == workspaces[w]
               now == [was EXCEPT !.name = m]
    <2>1. was \in Info
      BY <1>3 DEF TypeOK
    <2> DEFINE b == Start("rename", w, Gone)
               j == [b EXCEPT !.old = was, !.new = now]
    <2>2. /\ Goto(k, Persist(j, "rename"))
          /\ workspaces' = [workspaces EXCEPT ![w] = now] /\ persisting' = k
      BY <1>3 DEF RenameWorkspace
    <2> HIDE DEF was
    <2>3. now \in Info /\ now.rev = was.rev /\ now.layout = was.layout
      BY <2>1 DEF Info
    <2> HIDE DEF now
    <2>b. /\ b \in Jobs /\ b.op = "rename" /\ b.ws = w /\ b.id = Gone
          /\ b.doomed = {} /\ b.answer = "none"
      BY StartIs DEF AllOps
    <2> HIDE DEF b
    <2>4. /\ j \in Jobs /\ j.op = b.op /\ j.ws = b.ws /\ j.id = b.id
          /\ j.doomed = b.doomed /\ j.answer = b.answer /\ j.new = now /\ j.old = was
      BY <2>1, <2>3, <2>b DEF Jobs
    <2> HIDE DEF j
    <2>5. /\ Becomes(k, "rename", "rename", w, Gone, {}, "none", "queued")
          /\ job'[k].old = was /\ job'[k].new = now
      BY <2>2, <2>b, <2>4, QueueIs DEF Places
    <2> QED
      BY <1>3, <2>2, <2>3, <2>5 DEF was
  <1> QED
    BY <1>2, <1>3

\* A written name is announced if the workspace is still there, a failed one
\* rolled back.
LEMMA RenameWrittenDoes ==
    ASSUME TypeOK, NEW k \in Workers, job[k].ws \in WorkspaceIds, job[k].old \in Info,
           RenameWritten(k)
    PROVE  /\ \/ /\ job[k].write = "failed" /\ shown' = shown
                 /\ Moves(k, "reply", {}, "persist_failed", "none")
                 /\ \A w \in WorkspaceIds : w # job[k].ws => workspaces'[w] = workspaces[w]
                 /\ workspaces[job[k].ws] = Gone => workspaces'[job[k].ws] = Gone
                 /\ workspaces[job[k].ws] # Gone =>
                       /\ workspaces'[job[k].ws] \in Info
                       /\ workspaces'[job[k].ws].layout = workspaces[job[k].ws].layout
                       /\ workspaces'[job[k].ws].rev = workspaces[job[k].ws].rev
                       /\ workspaces'[job[k].ws].name = job[k].old.name
              \/ /\ job[k].write = "ok" /\ workspaces[job[k].ws] = Gone
                 /\ workspaces' = workspaces /\ shown' = shown
                 /\ Moves(k, "reply", {}, "not_found", "none")
              \/ /\ job[k].write = "ok" /\ workspaces[job[k].ws] # Gone
                 /\ workspaces' = workspaces /\ shown' = ShowWorkspace(job[k].ws, job[k].new)
                 /\ Moves(k, "reply", {}, "ok", "none")
           /\ persisting' = Nobody
  <1>1. \A a \in Answers : Goto(k, Answer(job[k], a)) => Moves(k, "reply", {}, a, "none")
    BY AnswerIs
  <1> DEFINE w == job[k].ws
             u == [workspaces EXCEPT ![w].name = job[k].old.name]
  <1>2. ASSUME workspaces[w] # Gone
        PROVE  /\ \A v \in WorkspaceIds : v # w => u[v] = workspaces[v]
               /\ u[w] \in Info /\ u[w].layout = workspaces[w].layout
               /\ u[w].rev = workspaces[w].rev /\ u[w].name = job[k].old.name
    <2>1. workspaces[w] \in Info
      BY <1>2 DEF TypeOK
    <2> QED
      BY <2>1 DEF TypeOK, Info
  <1> QED
    BY <1>1, <1>2 DEF RenameWritten, Answers

\* The workspace that was not written is taken back from the subscribers.
LEMMA RetractDoes ==
    ASSUME TypeOK, NEW k \in Workers, Retract(k)
    PROVE  Moves(k, "reply", {}, "persist_failed", "none")
  BY AnswerIs DEF Retract, Answers

-----------------------------------------------------------------------------
(* ShellInv: who answers for a shell.                                       *)

\* Worker k's job goes on, or ends, without touching a session.
Passes(k) ==
    /\ job' \in [Workers -> Jobs]
    /\ \A l \in Workers : l # k => job'[l] = job[l]
    /\ job'[k].doomed = job[k].doomed
    /\ job'[k].pc \in {"undoing", "killing", "clearing"} <=>
          job[k].pc \in {"undoing", "killing", "clearing"}
    /\ job'[k].pc \in Creation \cup {"undoing", "killing", "clearing"} =>
          job'[k].pc = job[k].pc /\ job'[k].id = job[k].id /\ job'[k].op = job[k].op
    /\ job[k].pc \in {"record", "abandon", "undo"} => job'[k].pc = job[k].pc
    /\ job'[k].op = "create" /\ job'[k].id # Gone =>
          /\ Creator(k) /\ job'[k].id = job[k].id
          /\ \/ job'[k].pc = job[k].pc /\ job'[k].answer = job[k].answer
             \/ job'[k].pc = "reply" /\ (job'[k].answer = "ok" \/ job[k].pc = "undone")

\* Such a step keeps ShellInv.
LEMMA ShellPasses ==
    ASSUME TypeOK, ShellInv, NEW k \in Workers, Passes(k), minted \subseteq minted',
           rows' = rows, pending' = pending, child' = child
    PROVE  ShellInv'
  <1>1. CreatesApart'
    BY DEF ShellInv, CreatesApart, Creator, Passes
  <1>2. DoomedHeld'
    BY DEF ShellInv, DoomedHeld, Passes
  <1>3. CreateTrail'
    BY DEF ShellInv, CreateTrail, Creator, Passes, NothingBehind
  <1>4. ShellKept'
    <2> SUFFICES ASSUME NEW s \in SessionIds, child[s] = "running", rows[s] = Gone
                 PROVE  s \in minted' /\ \E l \in Workers : Minding(l, s)'
      BY DEF ShellKept, ShellInv
    <2>1. PICK l \in Workers : Minding(l, s)
      BY DEF ShellKept, ShellInv
    <2>2. Minding(l, s)'
      BY <2>1 DEF Minding, Passes, Creation, BeforeRow, AfterRow
    <2> QED
      BY <2>2 DEF ShellInv, ShellKept
  <1> QED
    BY <1>1, <1>2, <1>3, <1>4 DEF ShellInv

\* The steps that leave rows, reservations and processes alone.
LEMMA ShellIdleSteps ==
    ASSUME RecordedInv, ShellInv, NEW k \in Workers,
           \/ Reply(k) \/ TakeSnapshot(k) \/ \E ok \in BOOLEAN : Save(k, ok)
           \/ Undone(k) \/ Killed(k) \/ Cleared(k)
           \/ CommitWorkspace(k) \/ Retract(k) \/ LayoutWritten(k) \/ RenameWritten(k)
    PROVE  ShellInv'
  <1>0. TypeOK /\ DoomedHeld
    BY DEF RecordedInv, ShellInv
  <1>1. UNCHANGED <<rows, pending, child, minted>>
    BY DEF Reply, TakeSnapshot, Save, Undone, Killed, Cleared, CommitWorkspace, Retract,
           LayoutWritten, RenameWritten, table
  <1>2. CASE Reply(k)
    BY <1>0, <1>1, <1>2, ReplyDoes, ShellPasses
    DEF Reply, At, Becomes, Passes, DoomedHeld, Creation, BeforeRow, AfterRow
  <1>3. CASE TakeSnapshot(k) \/ \E ok \in BOOLEAN : Save(k, ok)
    <2>1. \E w \in Writes : Moves(k, job[k].pc, job[k].doomed, job[k].answer, w)
      BY <1>0, <1>3, TakeSnapshotDoes, SaveDoes DEF Writes
    <2> QED
      BY <1>0, <1>1, <2>1, ShellPasses DEF Moves, Becomes, Passes, Creator
  <1>4. CASE \/ Undone(k) \/ Killed(k) \/ Cleared(k) \/ CommitWorkspace(k) \/ Retract(k)
             \/ LayoutWritten(k) \/ RenameWritten(k)
    <2>1. /\ job[k].pc \in {"undone", "killed", "cleared", "opening", "retract", "layout",
                            "rename"}
          /\ job[k].doomed = {}
      BY <1>0, <1>4
      DEF Undone, Killed, Cleared, CommitWorkspace, Retract, LayoutWritten, RenameWritten, At,
          DoomedHeld
    <2>2. \/ \E a \in Answers : Moves(k, "reply", {}, a, "none")
          \/ Moves(k, "retract", {}, job[k].answer, "none")
      <3>1. CASE Undone(k) \/ Killed(k) \/ Cleared(k) \/ Retract(k)
        BY <1>0, <3>1, CreateMoves, KillMoves, RetractDoes DEF Answers, TypeOK, Jobs
      <3>2. CASE CommitWorkspace(k)
        BY <1>0, <2>1, <3>2, CommitWorkspaceDoes DEF Answers
      <3>3. CASE LayoutWritten(k) \/ RenameWritten(k)
        <4>1. job[k].ws \in WorkspaceIds /\ job[k].old \in Info
          BY <3>3 DEF RecordedInv, JobShape, LayoutWritten, RenameWritten, At
        <4> QED
          BY <1>0, <3>3, <4>1, LayoutWrittenDoes, RenameWrittenDoes DEF Answers
      <3> QED
        BY <1>4, <3>1, <3>2, <3>3
    <2>3. Passes(k)
      BY <2>1, <2>2
      DEF Moves, Becomes, Passes, Creator, Creation, BeforeRow, AfterRow, ShellInv,
          CreatesApart
    <2> QED
      BY <1>0, <1>1, <2>3, ShellPasses
  <1> QED
    BY <1>2, <1>3, <1>4

\* remove_session and kill_workspace: whose rows go is in `doomed`.
LEMMA ShellRemoves ==
    ASSUME RecordedInv, ShellInv, NEW k \in Workers,
           job' \in [Workers -> Jobs], \A l \in Workers : l # k => job'[l] = job[l],
           minted' = minted, child' = child,
           \A s \in SessionIds : rows'[s] \in {rows[s], Gone},
           \A s \in SessionIds : pending'[s] \in {pending[s], Gone},
           \A s \in SessionIds : rows[s] # Gone /\ rows'[s] = Gone => s \in job'[k].doomed,
           \/ /\ job[k].pc = "idle" /\ job'[k].pc \in {"killing", "clearing"}
              /\ job'[k].op # "create"
           \/ /\ job[k].pc = "undo" /\ job'[k].pc = "undoing"
              /\ job'[k].op = job[k].op /\ job'[k].id = job[k].id
              /\ job'[k].doomed = {job[k].id} /\ rows'[job[k].id] = Gone
    PROVE  ShellInv'
  <1>0. TypeOK /\ CreatesApart /\ DoomedHeld /\ CreateTrail /\ ShellKept
    BY DEF RecordedInv, ShellInv
  <1>1. CreatesApart'
    BY <1>0 DEF CreatesApart, Creator, Creation, BeforeRow, AfterRow
  <1>2. DoomedHeld'
    BY <1>0 DEF DoomedHeld
  <1>3. CreateTrail'
    <2> SUFFICES ASSUME NEW l \in Workers, Creator(l)'
                 PROVE  LET j == job'[l] IN
                        /\ j.pc \in {"reserve", "reserving", "spawn"} => child[j.id] # "running"
                        /\ j.pc \in {"abandon", "commit", "undo", "undoing"} => pending'[j.id] = Gone
                        /\ j.pc = "undoing" => rows'[j.id] = Gone
                        /\ j.pc = "undone" \/ (j.pc = "reply" /\ j.answer # "ok") =>
                              rows'[j.id] = Gone /\ pending'[j.id] = Gone /\ child[j.id] # "running"
      BY DEF CreateTrail, NothingBehind
    <2>1. job'[l].id \in SessionIds
      BY DEF Creator, Jobs
    <2>2. CASE l # k
      BY <1>0, <2>1, <2>2 DEF CreateTrail, Creator, NothingBehind
    <2>3. CASE l = k
      BY <1>0, <2>1, <2>3 DEF CreateTrail, Creator, NothingBehind
    <2> QED
      BY <2>2, <2>3
  <1>4. ShellKept'
    <2> SUFFICES ASSUME NEW s \in SessionIds, child[s] = "running", rows'[s] = Gone
                 PROVE  s \in minted /\ \E l \in Workers : Minding(l, s)'
      BY <1>0 DEF ShellKept
    <2>0. s \in minted
      BY <1>0 DEF ShellKept
    <2>1. CASE rows[s] # Gone
      BY <2>0, <2>1 DEF Minding
    <2>2. CASE rows[s] = Gone
      <3>1. PICK l \in Workers : Minding(l, s)
        BY <1>0, <2>2 DEF ShellKept
      <3>2. Minding(l, s)'
        BY <1>0, <3>1 DEF Minding, DoomedHeld
      <3> QED
        BY <2>0, <3>2
    <2> QED
      BY <2>1, <2>2
  <1> QED
    BY <1>1, <1>2, <1>3, <1>4 DEF ShellInv

\* What a new request does to the sessions.
LEMMA ShellRequest ==
    ASSUME RecordedInv, ShellInv, NEW k \in Workers, Request(k)
    PROVE  ShellInv'
  <1>0. TypeOK /\ CreatesApart /\ DoomedHeld /\ CreateTrail /\ ShellKept
    BY DEF RecordedInv, ShellInv
  <1>i. job[k].pc = "idle" /\ job[k].doomed = {} /\ ~ Creator(k)
    <2>1. job[k].pc = "idle"
      BY DEF Request, CreateSession, Kill, CreateWorkspace, KillWorkspace, UpdateLayout,
             RenameWorkspace, At
    <2> QED
      BY <1>0, <2>1 DEF DoomedHeld, CreatesApart, Creation, BeforeRow, AfterRow
  <1>1. ASSUME NEW pc \in {"reply", "opening", "layout", "rename"}, NEW op, NEW w, NEW s,
               NEW a, NEW wr, Becomes(k, pc, op, w, s, {}, a, wr),
               op # "create" \/ s = Gone
        PROVE  Passes(k)
    BY <1>0, <1>i, <1>1 DEF Becomes, Passes, Creation, BeforeRow, AfterRow
  <1>2. ASSUME Passes(k), UNCHANGED <<rows, pending, child>>, minted \subseteq minted'
        PROVE  ShellInv'
    BY <1>0, <1>2, ShellPasses
  <1>3. ASSUME NEW w \in WorkspaceIds, NEW m \in Names, CreateWorkspace(k, w, m)
        PROVE  ShellInv'
    <2>1. Passes(k)
      BY <1>0, <1>1, <1>3, CreateWorkspaceDoes
    <2> QED
      BY <1>2, <1>3, <2>1 DEF CreateWorkspace
  <1>4. ASSUME NEW w \in WorkspaceIds, NEW m \in Names, RenameWorkspace(k, w, m)
        PROVE  ShellInv'
    <2>1. Passes(k)
      BY <1>0, <1>1, <1>4, RenameWorkspaceDoes
    <2> QED
      BY <1>2, <1>4, <2>1 DEF RenameWorkspace
  <1>5. ASSUME NEW w \in WorkspaceIds, NEW doc \in SUBSET SessionIds, NEW rev \in 1..MaxRev,
               UpdateLayout(k, w, doc, rev)
        PROVE  ShellInv'
    <2>1. Passes(k)
      BY <1>0, <1>1, <1>5, UpdateLayoutDoes
    <2> QED
      BY <1>2, <1>5, <2>1 DEF UpdateLayout
  <1>6. ASSUME NEW s \in SessionIds, Kill(k, s) PROVE ShellInv'
    <2>0. UNCHANGED <<pending, child, minted>>
      BY <1>6 DEF Kill
    <2>1. CASE Becomes(k, "reply", "kill", Gone, s, {}, "not_found", "none") /\ rows' = rows
      BY <1>1, <1>2, <2>0, <2>1
    <2>2. CASE /\ rows[s] # Gone /\ RemoveRow(s)
               /\ Becomes(k, "killing", "kill", Gone, s, {s}, "none", "none")
      BY <1>0, <1>i, <2>0, <2>2, ShellRemoves DEF RemoveRow, Becomes, TypeOK
    <2> QED
      BY <1>0, <1>6, <2>1, <2>2, KillDoes
  <1>7. ASSUME NEW w \in WorkspaceIds, KillWorkspace(k, w) PROVE ShellInv'
    <2>0. UNCHANGED <<child, minted>>
      BY <1>7 DEF KillWorkspace
    <2>1. CASE /\ Becomes(k, "reply", "kill_workspace", w, Gone, {}, "not_found", "none")
               /\ UNCHANGED table
      BY <1>1, <1>2, <2>0, <2>1 DEF table
    <2>2. CASE /\ rows' = [s \in SessionIds |-> IF s \in SessionsIn(w) THEN Gone ELSE rows[s]]
               /\ pending' = [s \in SessionIds |-> IF pending[s] = w THEN Gone ELSE pending[s]]
               /\ Becomes(k, "clearing", "kill_workspace", w, Gone, SessionsIn(w), "none", "none")
      BY <1>0, <1>i, <2>0, <2>2, ShellRemoves DEF Becomes
    <2> QED
      BY <1>0, <1>7, <2>1, <2>2, KillWorkspaceDoes
  <1>8. ASSUME NEW w \in WorkspaceIds, NEW s \in SessionIds, CreateSession(k, w, s)
        PROVE  ShellInv'
    <2>0. UNCHANGED <<rows, pending, child>> /\ s \notin minted
      BY <1>8 DEF CreateSession, table
    <2>1. CASE /\ \E a \in {"not_found", "internal"} :
                     Becomes(k, "reply", "create", w, Gone, {}, a, "none")
               /\ minted' = minted
      BY <1>1, <1>2, <2>0, <2>1
    <2>2. CASE /\ Becomes(k, "reserve", "create", w, s, {}, "none", "none")
               /\ minted' = minted \cup {s}
      <3> USE <1>0, <1>i, <2>0, <2>2 DEF Becomes
      <3>1. CreatesApart'
        BY ConstantsAssumption DEF CreatesApart, Creator, Creation, BeforeRow, AfterRow
      <3>2. DoomedHeld'
        BY DEF DoomedHeld
      <3>3. CreateTrail'
        BY DEF CreateTrail, Creator, NothingBehind, ShellKept
      <3>4. ShellKept'
        <4> SUFFICES ASSUME NEW t \in SessionIds, child[t] = "running", rows[t] = Gone
                     PROVE  \E l \in Workers : Minding(l, t)'
          BY DEF ShellKept
        <4>1. PICK l \in Workers : Minding(l, t)
          BY DEF ShellKept
        <4>2. Minding(l, t)'
          BY <4>1 DEF Minding
        <4> QED
          BY <4>2
      <3> QED
        BY <3>1, <3>2, <3>3, <3>4 DEF ShellInv
    <2> QED
      BY <1>0, <1>8, <2>1, <2>2, CreateSessionDoes
  <1> QED
    BY <1>3, <1>4, <1>5, <1>6, <1>7, <1>8 DEF Request

\* A create that works on its own session only, and answers for its shell.
LEMMA ShellCreates ==
    ASSUME RecordedInv, ShellInv, NEW k \in Workers, NEW i \in SessionIds, i = job[k].id,
           job[k].pc \in Creation \ {"undoing"},
           job' \in [Workers -> Jobs], \A l \in Workers : l # k => job'[l] = job[l],
           job'[k].op = job[k].op, job'[k].id = i, job'[k].doomed = {},
           job'[k].pc \in (Creation \ {"undoing"}) \cup {"reply"},
           minted' = minted,
           \A s \in SessionIds : s # i =>
              rows'[s] = rows[s] /\ pending'[s] = pending[s] /\ child'[s] = child[s],
           job'[k].pc \in {"reserve", "reserving", "spawn"} => child'[i] # "running",
           job'[k].pc \in {"abandon", "commit", "undo"} => pending'[i] = Gone,
           job'[k].pc = "undone" \/ (job'[k].pc = "reply" /\ job'[k].answer # "ok") =>
              rows'[i] = Gone /\ pending'[i] = Gone /\ child'[i] # "running",
           child'[i] = "running" =>
              \/ rows'[i] # Gone \/ job'[k].pc \in {"record", "abandon", "undo"}
              \/ \E l \in Workers : l # k /\ i \in job[l].doomed
    PROVE  ShellInv'
  <1>0. TypeOK /\ CreatesApart /\ DoomedHeld /\ CreateTrail /\ ShellKept
    BY DEF RecordedInv, ShellInv
  <1>k. Creator(k) /\ job[k].doomed = {} /\ i \in minted
    BY <1>0 DEF CreatesApart, DoomedHeld, Creation, BeforeRow, AfterRow
  <1>1. CreatesApart'
    BY <1>0, <1>k DEF CreatesApart, Creator
  <1>2. DoomedHeld'
    BY <1>0 DEF DoomedHeld, Creation, BeforeRow, AfterRow
  <1>3. CreateTrail'
    <2> SUFFICES ASSUME NEW l \in Workers, Creator(l)'
                 PROVE  LET j == job'[l] IN
                        /\ j.pc \in {"reserve", "reserving", "spawn"} => child'[j.id] # "running"
                        /\ j.pc \in {"abandon", "commit", "undo", "undoing"} => pending'[j.id] = Gone
                        /\ j.pc = "undoing" => rows'[j.id] = Gone
                        /\ j.pc = "undone" \/ (j.pc = "reply" /\ j.answer # "ok") =>
                              /\ rows'[j.id] = Gone /\ pending'[j.id] = Gone
                              /\ child'[j.id] # "running"
      BY DEF CreateTrail, NothingBehind
    <2>1. CASE l # k
      <3>1. job'[l] = job[l] /\ Creator(l) /\ job[l].id \in SessionIds /\ job[l].id # i
        BY <1>0, <1>k, <2>1 DEF Creator, CreatesApart, TypeOK, Jobs
      <3> QED
        BY <1>0, <3>1 DEF CreateTrail, NothingBehind
    <2>2. CASE l = k
      BY <2>2
    <2> QED
      BY <2>1, <2>2
  <1>4. ShellKept'
    <2> SUFFICES ASSUME NEW s \in SessionIds, child'[s] = "running"
                 PROVE  s \in minted /\ (rows'[s] # Gone \/ \E l \in Workers : Minding(l, s)')
      BY DEF ShellKept
    <2>1. CASE s # i
      <3>0. s \in minted /\ (rows[s] # Gone \/ \E l \in Workers : Minding(l, s))
        BY <1>0, <2>1 DEF ShellKept
      <3>1. ASSUME NEW l \in Workers, Minding(l, s) PROVE Minding(l, s)'
        BY <1>k, <2>1, <3>1 DEF Minding
      <3> QED
        BY <2>1, <3>0, <3>1
    <2>2. CASE s = i
      BY <1>k, <2>2 DEF Minding
    <2> QED
      BY <2>1, <2>2
  <1> QED
    BY <1>1, <1>2, <1>3, <1>4 DEF ShellInv

\* kill_session_process ends the processes the handler is to kill.
LEMMA ShellKills ==
    ASSUME RecordedInv, ShellInv, NEW k \in Workers,
           job' \in [Workers -> Jobs], \A l \in Workers : l # k => job'[l] = job[l],
           job'[k].op = job[k].op, job'[k].id = job[k].id, job'[k].doomed = {},
           \/ job[k].pc = "undoing" /\ job'[k].pc = "undone" /\ pending'[job[k].id] = Gone
           \/ job[k].pc \in {"killing", "clearing"} /\ job'[k].pc \in {"killed", "cleared"},
           minted' = minted, rows' = rows,
           \A s \in SessionIds : pending'[s] \in {pending[s], Gone},
           child' = [s \in SessionIds |-> IF s \in job[k].doomed THEN "dead" ELSE child[s]]
    PROVE  ShellInv'
  <1>0. TypeOK /\ CreatesApart /\ DoomedHeld /\ CreateTrail /\ ShellKept
    BY DEF RecordedInv, ShellInv
  <1>1. CreatesApart'
    BY <1>0 DEF CreatesApart, Creator, Creation, BeforeRow, AfterRow
  <1>2. DoomedHeld'
    BY <1>0 DEF DoomedHeld
  <1>3. CreateTrail'
    <2> SUFFICES ASSUME NEW l \in Workers, Creator(l)'
                 PROVE  LET j == job'[l] IN
                        /\ j.pc \in {"reserve", "reserving", "spawn"} => child'[j.id] # "running"
                        /\ j.pc \in {"abandon", "commit", "undo", "undoing"} => pending'[j.id] = Gone
                        /\ j.pc = "undoing" => rows'[j.id] = Gone
                        /\ j.pc = "undone" \/ (j.pc = "reply" /\ j.answer # "ok") =>
                              /\ rows'[j.id] = Gone /\ pending'[j.id] = Gone
                              /\ child'[j.id] # "running"
      BY DEF CreateTrail, NothingBehind
    <2>0. Creator(l) /\ job'[l].id = job[l].id /\ job[l].id \in SessionIds
      BY <1>0 DEF Creator, TypeOK, Jobs
    <2>1. CASE l # k
      BY <1>0, <2>0, <2>1 DEF CreateTrail, NothingBehind
    <2>2. CASE l = k
      <3>1. job[k].pc = "undoing" /\ job[k].doomed = {job[k].id}
        BY <1>0, <2>0, <2>2 DEF CreatesApart, Creation, BeforeRow, AfterRow, DoomedHeld
      <3> QED
        BY <1>0, <2>0, <2>2, <3>1 DEF CreateTrail
    <2> QED
      BY <2>1, <2>2
  <1>4. ShellKept'
    <2> SUFFICES ASSUME NEW s \in SessionIds, child'[s] = "running"
                 PROVE  s \in minted /\ (rows[s] # Gone \/ \E l \in Workers : Minding(l, s)')
      BY DEF ShellKept
    <2>1. child[s] = "running" /\ s \notin job[k].doomed
      OBVIOUS
    <2>2. ASSUME NEW l \in Workers, Minding(l, s) PROVE Minding(l, s)'
      BY <2>1, <2>2 DEF Minding
    <2> QED
      BY <1>0, <2>1, <2>2 DEF ShellKept
  <1> QED
    BY <1>1, <1>2, <1>3, <1>4 DEF ShellInv

\* A shell whose row was taken away before its create committed is doomed.
LEMMA ShellElsewhere ==
    ASSUME RecordedInv, ShellInv, NEW k \in Workers, job[k].pc \in {"release", "commit"},
           child[job[k].id] = "running", rows[job[k].id] = Gone
    PROVE  \E l \in Workers : l # k /\ job[k].id \in job[l].doomed
  <1>1. job[k].id \in SessionIds /\ job[k].doomed = {}
    BY DEF RecordedInv, JobShape, Creation, BeforeRow, AfterRow, ShellInv, DoomedHeld
  <1>2. PICK l \in Workers : Minding(l, job[k].id)
    BY <1>1 DEF ShellInv, ShellKept
  <1>3. l # k
    BY <1>1, <1>2 DEF Minding
  <1>4. ~ (job[l].id = job[k].id /\ job[l].pc \in {"record", "abandon", "undo"})
    BY <1>3 DEF RecordedInv, OneCreator, Creation, BeforeRow, AfterRow
  <1> QED
    BY <1>2, <1>3, <1>4 DEF Minding

\* Every step of a create, of its undoing and of a kill.
LEMMA ShellStep ==
    ASSUME RecordedInv, ShellInv, NEW k \in Workers, Step(k)
    PROVE  ShellInv'
  <1>0. TypeOK /\ CreatesApart /\ DoomedHeld /\ CreateTrail /\ ShellKept
    BY DEF RecordedInv, ShellInv
  <1> DEFINE i == job[k].id
  <1>c. ASSUME job[k].pc \in Creation
        PROVE  i \in SessionIds /\ Creator(k)
               /\ (job[k].pc # "undoing" => job[k].doomed = {})
    BY <1>0, <1>c DEF RecordedInv, JobShape, CreatesApart, DoomedHeld, Creation, BeforeRow,
                      AfterRow
  <1>b. job[k].pc \in BeforeRow => rows[i] = Gone
    BY DEF RecordedInv, RowOfCreation
  <1>p. Creation = {"reserve", "reserving", "spawn", "abandon", "record", "release", "commit",
                    "undo", "undoing", "undone"}
    BY DEF Creation, BeforeRow, AfterRow
  <1>1. CASE \/ Reply(k) \/ TakeSnapshot(k) \/ \E ok \in BOOLEAN : Save(k, ok)
             \/ Undone(k) \/ Killed(k) \/ Cleared(k)
             \/ CommitWorkspace(k) \/ Retract(k) \/ LayoutWritten(k) \/ RenameWritten(k)
    BY <1>1, ShellIdleSteps
  <1>2. CASE Reserve(k)
    <2>1. job[k].pc = "reserve" /\ child[i] # "running"
      BY <1>0, <1>2, <1>c, <1>p DEF Reserve, At, CreateTrail
    <2>2. Moves(k, "reserving", job[k].doomed, job[k].answer, "queued")
      BY <1>0, <1>2, CreateMoves
    <2> QED
      BY <1>0, <1>2, <1>c, <1>p, <2>1, <2>2, ShellCreates DEF Reserve, Moves, Becomes, TypeOK
  <1>3. CASE Reserved(k)
    <2>1. job[k].pc = "reserving" /\ child[i] # "running" /\ rows[i] = Gone
      BY <1>0, <1>3, <1>b, <1>c, <1>p DEF Reserved, At, CreateTrail, BeforeRow
    <2>2. /\ \/ Moves(k, "spawn", {}, job[k].answer, "none")
             \/ Moves(k, "reply", {}, "persist_failed", "none") /\ pending'[i] = Gone
          /\ \A s \in SessionIds : s # i => pending'[s] = pending[s]
          /\ UNCHANGED <<rows, child, minted>>
      BY <1>0, <1>3, <1>c, <1>p, <2>1, CreateMoves DEF Reserved, TypeOK
    <2> QED
      BY <1>0, <1>c, <1>p, <2>1, <2>2, ShellCreates DEF Moves, Becomes
  <1>4. CASE \E spawned, handles \in BOOLEAN : Spawn(k, spawned, handles)
    <2>0. PICK spawned \in BOOLEAN, handles \in BOOLEAN : Spawn(k, spawned, handles)
      BY <1>4
    <2>1. job[k].pc = "spawn" /\ child[i] # "running" /\ rows[i] = Gone
      BY <1>0, <2>0, <1>b, <1>c, <1>p DEF Spawn, At, CreateTrail, BeforeRow
    <2>2. /\ \/ Moves(k, "record", {}, job[k].answer, "none")
             \/ Moves(k, "abandon", {}, job[k].answer, "queued") /\ pending'[i] = Gone
          /\ \A s \in SessionIds : s # i => pending'[s] = pending[s] /\ child'[s] = child[s]
          /\ UNCHANGED <<rows, minted>>
      BY <1>0, <1>c, <1>p, <2>0, <2>1, CreateMoves DEF Spawn, TypeOK
    <2> QED
      BY <1>0, <1>c, <1>p, <2>1, <2>2, ShellCreates DEF Moves, Becomes
  <1>5. CASE Abandoned(k)
    <2>1. job[k].pc = "abandon" /\ pending[i] = Gone /\ rows[i] = Gone
      BY <1>0, <1>5, <1>b, <1>c, <1>p DEF Abandoned, At, CreateTrail, BeforeRow
    <2>2. /\ Moves(k, "reply", {}, "internal", "none")
          /\ \A s \in SessionIds : s # i => child'[s] = child[s]
          /\ child'[i] # "running"
          /\ UNCHANGED <<rows, pending, minted>>
      BY <1>0, <1>5, <1>c, <1>p, <2>1, CreateMoves DEF Abandoned, TypeOK, table
    <2> QED
      BY <1>0, <1>c, <1>p, <2>1, <2>2, ShellCreates DEF Moves, Becomes
  <1>6. CASE RecordCreated(k)
    <2>1. job[k].pc = "record" /\ job[k].ws \in WorkspaceIds
      BY <1>6, <1>p DEF RecordCreated, At, RecordedInv, JobShape
    <2>2. [home |-> job[k].ws, lost |-> FALSE] # Gone
      <3>1. [home |-> job[k].ws, lost |-> FALSE] \in Row
        BY <2>1 DEF Row
      <3> QED
        BY <3>1, ConstantsAssumption
    <2>3. /\ Moves(k, "release", {}, job[k].answer, "none")
          /\ \A s \in SessionIds : s # i => rows'[s] = rows[s]
          /\ rows'[i] # Gone
          /\ UNCHANGED <<child, pending, minted>>
      BY <1>0, <1>6, <1>c, <1>p, <2>1, <2>2, CreateMoves DEF RecordCreated, TypeOK
    <2> QED
      BY <1>0, <1>c, <1>p, <2>1, <2>3, ShellCreates DEF Moves, Becomes
  <1>7. CASE Release(k)
    <2>1. job[k].pc = "release"
      BY <1>7 DEF Release, At
    <2>2. /\ Moves(k, "commit", {}, job[k].answer, "queued")
          /\ \A s \in SessionIds : s # i => pending'[s] = pending[s]
          /\ pending'[i] = Gone
          /\ UNCHANGED <<child, rows, minted>>
      BY <1>0, <1>7, <1>c, <1>p, <2>1, CreateMoves DEF Release, TypeOK
    <2> QED
      BY <1>0, <1>c, <1>p, <2>1, <2>2, ShellElsewhere, ShellCreates DEF Moves, Becomes
  <1>8. CASE CommitCreated(k)
    <2>1. job[k].pc = "commit" /\ pending[i] = Gone
      BY <1>0, <1>8, <1>c, <1>p DEF CommitCreated, At, CreateTrail
    <2>2. /\ \/ \E a \in Answers : Moves(k, "undo", {}, a, "none")
             \/ Moves(k, "reply", {}, "ok", "none")
          /\ UNCHANGED <<child, rows, pending, minted>>
      <3>1. UNCHANGED <<child, rows, pending, minted>>
        BY <1>8 DEF CommitCreated, table
      <3> QED
        BY <1>0, <1>8, <1>c, <1>p, <2>1, <3>1, CommitCreatedDoes DEF Answers
    <2> QED
      BY <1>0, <1>c, <1>p, <2>1, <2>2, ShellElsewhere, ShellCreates DEF Moves, Becomes
  <1>9. CASE Undo(k)
    <2>0. job[k].pc = "undo" /\ i \in SessionIds /\ pending[i] = Gone
          /\ UNCHANGED <<pending, minted>>
      BY <1>0, <1>9, <1>c, <1>p DEF Undo, At, CreateTrail
    <2>1. CASE /\ rows[i] # Gone /\ RemoveRow(i) /\ child' = child
               /\ Moves(k, "undoing", {i}, job[k].answer, "none")
      BY <1>0, <2>0, <2>1, ShellRemoves DEF RemoveRow, Moves, Becomes, TypeOK
    <2>2. CASE /\ rows[i] = Gone /\ rows' = rows
               /\ child' = [child EXCEPT ![i] = "dead"]
               /\ Moves(k, "reply", {}, job[k].answer, "none")
      BY <1>0, <1>c, <1>p, <2>0, <2>2, ShellCreates DEF Moves, Becomes, TypeOK
    <2> QED
      BY <1>0, <1>9, <2>0, <2>1, <2>2, UndoDoes
  <1>10. CASE KillProcess(k)
    <2>1. job[k].pc \in {"undoing", "killing"} /\ i \in SessionIds
      BY <1>10, <1>p DEF KillProcess, RecordedInv, JobShape
    <2>2. /\ Moves(k, IF job[k].pc = "undoing" THEN "undone" ELSE "killed",
                   {}, job[k].answer, "queued")
          /\ \A s \in SessionIds : pending'[s] \in {pending[s], Gone}
          /\ pending'[i] = Gone
      BY <1>0, <1>10, <2>1, KillMoves DEF KillProcess, TypeOK
    <2> QED
      BY <1>10, <2>1, <2>2, ShellKills DEF KillProcess, Moves, Becomes
  <1>11. CASE KillDoomed(k)
    <2>1. job[k].pc = "clearing" /\ Moves(k, "cleared", {}, job[k].answer, "queued")
      BY <1>0, <1>11, KillMoves DEF KillDoomed, At
    <2> QED
      BY <1>11, <2>1, ShellKills DEF KillDoomed, Moves, Becomes, table
  <1> QED
    BY <1>1, <1>2, <1>3, <1>4, <1>5, <1>6, <1>7, <1>8, <1>9, <1>10, <1>11 DEF Step

\* A daemon that has just loaded its ledger runs no shell and no handler.
LEMMA ShellFresh ==
    ASSUME job = [k \in Workers |-> Idle], \A s \in SessionIds : child[s] # "running"
    PROVE  ShellInv
  <1>1. \A k \in Workers : job[k].pc = "idle" /\ job[k].op = "none" /\ job[k].doomed = {}
    BY DEF Idle
  <1> QED
    BY <1>1
    DEF ShellInv, CreatesApart, DoomedHeld, CreateTrail, ShellKept, Creator, Creation,
        BeforeRow, AfterRow

\* ShellInv holds at the start and over every step.
LEMMA ShellInductive ==
    /\ Init => ShellInv
    /\ RecordedInv /\ ShellInv /\ [Next]_vars => ShellInv'
  <1>1. ASSUME Init PROVE ShellInv
    <2>1. /\ job = [k \in Workers |-> Idle]
          /\ \E r : child = [s \in SessionIds |-> IF r[s] = Gone THEN "none" ELSE "dead"]
      BY <1>1 DEF Init
    <2> QED
      BY <2>1, ShellFresh
  <1>2. ASSUME RecordedInv, ShellInv, [Next]_vars PROVE ShellInv'
    <2>1. CASE \E k \in Workers : Step(k) \/ Request(k)
      BY <1>2, <2>1, ShellStep, ShellRequest
    <2>2. CASE Restart
      <3>1. /\ job' = [k \in Workers |-> Idle]
            /\ child' = [s \in SessionIds |-> IF child[s] = "running" THEN "dead" ELSE child[s]]
        BY <2>2 DEF Restart
      <3>2. \A k \in Workers : /\ job'[k].pc = "idle" /\ job'[k].op = "none"
                               /\ job'[k].doomed = {}
        BY <3>1 DEF Idle
      <3> QED
        BY <3>1, <3>2
        DEF ShellInv, CreatesApart, DoomedHeld, CreateTrail, ShellKept, Creator, Creation,
            BeforeRow, AfterRow
    <2>3. CASE UNCHANGED vars
      BY <1>2, <2>3
      DEF vars, ShellInv, CreatesApart, DoomedHeld, CreateTrail, ShellKept, Creator, Minding,
          NothingBehind
    <2> QED
      BY <1>2, <2>1, <2>2, <2>3 DEF Next
  <1> QED
    BY <1>1, <1>2

\* A shell, and whatever a create has put into the table, is answered for by
\* its row or by the handler that made it or took it away.
THEOREM ShellInvariant == Spec => []ShellInv
  BY ShellInductive, RecordedInvariant, PTL DEF Spec

\* create's compensation: a create refused after its id was minted leaves no
\* row, no reservation, no process and no announcement behind.
THEOREM RefusalLeavesNothing == Spec => []RefusedCreateLeavesNothing
  <1>1. RecordedInv /\ ShellInv => RefusedCreateLeavesNothing
    BY DEF RecordedInv, TypeOK, Jobs, ShellInv, CreateTrail, Creator, NothingBehind,
           AnnouncedIsRecorded, RefusedCreateLeavesNothing
  <1> QED
    BY <1>1, RecordedInvariant, ShellInvariant, PTL

\* A running process always has a row, or a handler that will give it one or
\* kill it.
THEOREM ShellsAccounted == Spec => []NoLeakedShell
  <1>1. ShellInv => NoLeakedShell
    BY DEF ShellInv, ShellKept, Minding, NoLeakedShell, Creating
  <1> QED
    BY <1>1, ShellInvariant, PTL

-----------------------------------------------------------------------------
(* What a step of worker k may do to what other requests rely on.           *)

Considerate(k) ==
    /\ job' \in [Workers -> Jobs]
    /\ \A l \in Workers : l # k => job'[l] = job[l]
    /\ minted \subseteq minted'
    /\ \A s \in SessionIds :
          \/ rows'[s] \in {rows[s], Gone}
          \/ job[k].pc = "record" /\ s = job[k].id
    /\ \A s \in SessionIds :
          \/ pending'[s] \in {pending[s], Gone}
          \/ job[k].pc = "reserve" /\ s = job[k].id
    /\ \A w \in WorkspaceIds :
          \/ workspaces'[w] \in {workspaces[w], Gone}
          \/ w \notin minted
          \/ /\ workspaces[w] # Gone
             /\ \/ workspaces'[w].rev >= workspaces[w].rev
                \/ /\ job[k].pc = "layout" /\ w = job[k].ws
                   /\ workspaces'[w].rev = job[k].old.rev
    /\ job'[k].pc \in BeforeRow =>
          \/ job[k].pc \in BeforeRow /\ job'[k].id = job[k].id
          \/ job'[k].id \notin minted
    /\ job'[k].pc = "layout" =>
          \/ job[k].pc = "layout" /\ job'[k].ws = job[k].ws /\ job'[k].old = job[k].old
          \/ workspaces[job'[k].ws] # Gone /\ job'[k].old = workspaces[job'[k].ws]

\* remove_session only moves a revision up.
LEMMA RemoveRowRevs ==
    ASSUME TypeOK, NEW s \in SessionIds, rows[s] # Gone, RemoveRow(s)
    PROVE  /\ \A t \in SessionIds : rows'[t] = IF t = s THEN Gone ELSE rows[t]
           /\ \A w \in WorkspaceIds :
                 \/ workspaces'[w] = workspaces[w]
                 \/ /\ w = rows[s].home /\ workspaces[w] # Gone
                    /\ s \in workspaces[w].layout
                    /\ workspaces'[w] = Scrubbed(w, s)
                    /\ workspaces'[w] \in Info
                    /\ workspaces'[w].layout = workspaces[w].layout \ {s}
                    /\ workspaces'[w].rev = workspaces[w].rev + 1
                    /\ workspaces'[w].name = workspaces[w].name
  <1> DEFINE w == rows[s].home
  <1>1. w \in WorkspaceIds
    BY DEF TypeOK, Row
  <1>2. rows' = [rows EXCEPT ![s] = Gone]
    BY DEF RemoveRow
  <1>3. CASE workspaces[w] # Gone /\ s \in workspaces[w].layout
    <2> DEFINE i == workspaces[w]
    <2>1. i \in Info
      BY <1>1, <1>3 DEF TypeOK
    <2>2. workspaces' = [workspaces EXCEPT ![w] = Scrubbed(w, s)]
      BY <1>3 DEF RemoveRow
    <2>3. Scrubbed(w, s) = [i EXCEPT !.layout = i.layout \ {s}, !.rev = i.rev + 1]
      BY DEF Scrubbed
    <2> HIDE DEF i
    <2>4. /\ Scrubbed(w, s) \in Info
          /\ Scrubbed(w, s).layout = i.layout \ {s}
          /\ Scrubbed(w, s).rev = i.rev + 1 /\ Scrubbed(w, s).name = i.name
      <3> DEFINE e == [i EXCEPT !.layout = i.layout \ {s}, !.rev = i.rev + 1]
      <3>1. i.layout \ {s} \in SUBSET SessionIds /\ i.rev + 1 \in Nat
        BY <2>1 DEF Info
      <3>2. e \in Info /\ e.layout = i.layout \ {s} /\ e.rev = i.rev + 1 /\ e.name = i.name
        BY <2>1, <3>1 DEF Info
      <3> QED
        BY <2>3, <3>2
    <2> QED
      BY <1>1, <1>2, <1>3, <2>2, <2>4 DEF TypeOK, i
  <1>4. CASE ~ (workspaces[w] # Gone /\ s \in workspaces[w].layout)
    BY <1>2, <1>4 DEF RemoveRow, TypeOK
  <1> QED
    BY <1>3, <1>4

\* Every step of a handler is considerate.
LEMMA StepConsiderate ==
    ASSUME RecordedInv, NEW k \in Workers, Step(k)
    PROVE  Considerate(k)
  <1>0. TypeOK
    BY DEF RecordedInv
  <1>w. \A w \in WorkspaceIds : workspaces[w] # Gone => workspaces[w].rev \in Nat
    BY <1>0 DEF TypeOK, Info
  <1>b. "layout" \notin BeforeRow /\ "rename" \notin BeforeRow /\ "opening" \notin BeforeRow
        /\ "reply" \notin BeforeRow
    BY DEF BeforeRow
  <1>1. CASE Reply(k)
    BY <1>0, <1>1, ReplyDoes DEF Reply, Becomes, Considerate, BeforeRow, table
  <1>2. CASE TakeSnapshot(k) \/ \E ok \in BOOLEAN : Save(k, ok)
    <2>1. \E w \in Writes : /\ Moves(k, job[k].pc, job[k].doomed, job[k].answer, w)
                            /\ job'[k].old = job[k].old
      BY <1>0, <1>2, TakeSnapshotDoes, SaveDoes DEF Writes
    <2>2. UNCHANGED <<rows, pending, workspaces, minted>>
      BY <1>2 DEF TakeSnapshot, Save, table
    <2> QED
      BY <2>1, <2>2 DEF Moves, Becomes, Considerate
  <1>3. CASE \/ Undone(k) \/ Killed(k) \/ Cleared(k) \/ Retract(k) \/ Abandoned(k)
             \/ CommitCreated(k) \/ KillDoomed(k)
    <2>1. UNCHANGED <<rows, pending, workspaces, minted>>
      BY <1>3 DEF Undone, Killed, Cleared, Retract, Abandoned, CommitCreated, KillDoomed, table
    <2>2. \E pc \in {"reply", "undo", "cleared"}, d \in SUBSET SessionIds, a \in Answers,
             w \in Writes : Moves(k, pc, d, a, w)
      BY <1>0, <1>3, CreateMoves, KillMoves, RetractDoes, CommitCreatedDoes
      DEF Answers, Writes, TypeOK, Jobs
    <2> QED
      BY <2>1, <2>2 DEF Moves, Becomes, Considerate, BeforeRow
  <1>4. CASE \/ Reserve(k) \/ Reserved(k) \/ Release(k)
             \/ \E spawned, handles \in BOOLEAN : Spawn(k, spawned, handles)
    <2>1. /\ UNCHANGED <<rows, workspaces, minted>>
          /\ job[k].pc \in BeforeRow \/ Release(k)
          /\ \A s \in SessionIds :
                \/ pending'[s] \in {pending[s], Gone}
                \/ job[k].pc = "reserve" /\ s = job[k].id
      BY <1>0, <1>4 DEF Reserve, Reserved, Spawn, Release, At, TypeOK, BeforeRow
    <2>2. \E pc \in {"reply", "reserving", "spawn", "record", "abandon", "commit"},
             d \in SUBSET SessionIds, a \in Answers, w \in Writes :
                Moves(k, pc, d, a, w) /\ (Release(k) => pc = "commit")
      <3>1. CASE \/ Reserve(k) \/ Reserved(k)
                 \/ \E spawned, handles \in BOOLEAN : Spawn(k, spawned, handles)
        <4>1. ~ Release(k)
          BY <3>1 DEF Reserve, Reserved, Spawn, Release, At
        <4> QED
          BY <1>0, <3>1, <4>1, CreateMoves DEF Answers, Writes, TypeOK, Jobs
      <3>2. CASE Release(k)
        BY <1>0, <3>2, CreateMoves DEF Answers, Writes, TypeOK, Jobs
      <3> QED
        BY <1>4, <3>1, <3>2
    <2> QED
      BY <2>1, <2>2 DEF Moves, Becomes, Considerate, BeforeRow
  <1>5. CASE RecordCreated(k)
    BY <1>0, <1>5, CreateMoves
    DEF RecordCreated, At, Moves, Becomes, Considerate, BeforeRow, TypeOK
  <1>6. CASE Undo(k)
    <2>0. job[k].id \in SessionIds /\ UNCHANGED <<pending, minted>>
      BY <1>6 DEF Undo, At, RecordedInv, JobShape, Creation, AfterRow
    <2>1. /\ \A t \in SessionIds : rows'[t] \in {rows[t], Gone}
          /\ \A w \in WorkspaceIds :
                \/ workspaces'[w] = workspaces[w]
                \/ workspaces[w] # Gone /\ workspaces'[w].rev >= workspaces[w].rev
      <3>1. CASE rows[job[k].id] # Gone /\ RemoveRow(job[k].id)
        BY <1>0, <1>w, <2>0, <3>1, RemoveRowRevs
      <3>2. CASE UNCHANGED <<rows, workspaces>>
        BY <3>2
      <3> QED
        BY <1>0, <1>6, <2>0, <3>1, <3>2, UndoDoes
    <2>2. \E pc \in {"reply", "undoing"} : \E d, a : Moves(k, pc, d, a, "none")
      BY <1>0, <1>6, <2>0, UndoDoes
    <2> QED
      BY <2>0, <2>1, <2>2 DEF Moves, Becomes, Considerate, BeforeRow
  <1>7. CASE KillProcess(k)
    <2>1. /\ UNCHANGED <<rows, workspaces, minted>>
          /\ \A s \in SessionIds : pending'[s] \in {pending[s], Gone}
      BY <1>0, <1>7 DEF KillProcess, TypeOK
    <2>2. \E pc \in {"undone", "killed"} : Moves(k, pc, {}, job[k].answer, "queued")
      BY <1>0, <1>7, KillMoves
    <2> QED
      BY <2>1, <2>2 DEF Moves, Becomes, Considerate, BeforeRow
  <1>8. CASE CommitWorkspace(k)
    <2>1. /\ UNCHANGED <<rows, pending, minted>>
          /\ \A w \in WorkspaceIds : workspaces'[w] \in {workspaces[w], Gone}
      BY <1>0, <1>8 DEF CommitWorkspace, TypeOK
    <2>2. \E pc \in {"reply", "retract"} : \E d, a : Moves(k, pc, d, a, "none")
      BY <1>0, <1>8, CommitWorkspaceDoes
    <2> QED
      BY <2>1, <2>2 DEF Moves, Becomes, Considerate, BeforeRow
  <1>9. CASE LayoutWritten(k) \/ RenameWritten(k)
    <2>0. /\ job[k].ws \in WorkspaceIds /\ job[k].old \in Info
          /\ UNCHANGED <<rows, pending, minted>>
          /\ LayoutWritten(k) => job[k].pc = "layout"
      BY <1>9 DEF RecordedInv, JobShape, LayoutWritten, RenameWritten, At
    <2>1. \A w \in WorkspaceIds :
                \/ workspaces'[w] \in {workspaces[w], Gone}
                \/ /\ workspaces[w] # Gone
                   /\ \/ workspaces'[w].rev >= workspaces[w].rev
                      \/ /\ job[k].pc = "layout" /\ w = job[k].ws
                         /\ workspaces'[w].rev = job[k].old.rev
      BY <1>0, <1>9, <1>w, <2>0, LayoutWrittenDoes, RenameWrittenDoes
    <2>2. \E a : Moves(k, "reply", {}, a, "none")
      BY <1>0, <1>9, <2>0, LayoutWrittenDoes, RenameWrittenDoes
    <2> QED
      BY <2>0, <2>1, <2>2 DEF Moves, Becomes, Considerate, BeforeRow
  <1> QED
    BY <1>1, <1>2, <1>3, <1>4, <1>5, <1>6, <1>7, <1>8, <1>9 DEF Step

\* Every new request is considerate.
LEMMA RequestConsiderate ==
    ASSUME RecordedInv, NEW k \in Workers, Request(k)
    PROVE  Considerate(k)
  <1>0. TypeOK
    BY DEF RecordedInv
  <1>w. \A w \in WorkspaceIds : workspaces[w] # Gone => workspaces[w].rev \in Nat
    BY <1>0 DEF TypeOK, Info
  <1>1. ASSUME NEW w \in WorkspaceIds, NEW s \in SessionIds, CreateSession(k, w, s)
        PROVE  Considerate(k)
    <2>1. UNCHANGED table /\ s \notin minted
      BY <1>1 DEF CreateSession
    <2>2. CASE \E a : Becomes(k, "reply", "create", w, Gone, {}, a, "none") /\ minted' = minted
      BY <2>1, <2>2 DEF Becomes, Considerate, BeforeRow, table
    <2>3. CASE /\ Becomes(k, "reserve", "create", w, s, {}, "none", "none")
               /\ minted' = minted \cup {s}
      BY <2>1, <2>3 DEF Becomes, Considerate, BeforeRow, table
    <2> QED
      BY <1>0, <1>1, <2>2, <2>3, CreateSessionDoes
  <1>2. ASSUME NEW s \in SessionIds, Kill(k, s) PROVE Considerate(k)
    <2>1. UNCHANGED <<pending, minted>>
      BY <1>2 DEF Kill
    <2>2. \E pc \in {"reply", "killing"} : \E d, a :
             Becomes(k, pc, "kill", Gone, s, d, a, "none")
      BY <1>0, <1>2, KillDoes
    <2>3. /\ \A t \in SessionIds : rows'[t] \in {rows[t], Gone}
          /\ \A w \in WorkspaceIds :
                \/ workspaces'[w] = workspaces[w]
                \/ workspaces[w] # Gone /\ workspaces'[w].rev >= workspaces[w].rev
      <3>1. CASE rows[s] # Gone /\ RemoveRow(s)
        BY <1>0, <1>w, <3>1, RemoveRowRevs
      <3>2. CASE UNCHANGED <<rows, workspaces>>
        BY <3>2
      <3> QED
        BY <1>0, <1>2, <3>1, <3>2, KillDoes
    <2> QED
      BY <2>1, <2>2, <2>3 DEF Becomes, Considerate, BeforeRow
  <1>3. ASSUME NEW w \in WorkspaceIds, NEW m \in Names, CreateWorkspace(k, w, m)
        PROVE  Considerate(k)
    <2>1. /\ UNCHANGED <<rows, pending>> /\ minted' = minted \cup {w} /\ w \notin minted
          /\ workspaces' = [workspaces EXCEPT ![w] = NewWorkspace(m)]
      BY <1>3 DEF CreateWorkspace
    <2>2. Becomes(k, "opening", "create_workspace", w, Gone, {}, "none", "queued")
      BY <1>0, <1>3, CreateWorkspaceDoes
    <2> QED
      BY <1>0, <2>1, <2>2 DEF Becomes, Considerate, BeforeRow, TypeOK
  <1>4. ASSUME NEW w \in WorkspaceIds, KillWorkspace(k, w) PROVE Considerate(k)
    <2>1. /\ minted' = minted
          /\ \A s \in SessionIds : rows'[s] \in {rows[s], Gone}
          /\ \A s \in SessionIds : pending'[s] \in {pending[s], Gone}
          /\ \A v \in WorkspaceIds : workspaces'[v] \in {workspaces[v], Gone}
      BY <1>0, <1>4 DEF KillWorkspace, table, TypeOK
    <2>2. \E pc \in {"reply", "clearing"} : \E d, a :
             Becomes(k, pc, "kill_workspace", w, Gone, d, a, "none")
      BY <1>0, <1>4, KillWorkspaceDoes
    <2> QED
      BY <2>1, <2>2 DEF Becomes, Considerate, BeforeRow
  <1>5. ASSUME NEW w \in WorkspaceIds, NEW doc \in SUBSET SessionIds, NEW rev \in 1..MaxRev,
               UpdateLayout(k, w, doc, rev)
        PROVE  Considerate(k)
    <2>1. UNCHANGED <<rows, pending, minted>>
      BY <1>5 DEF UpdateLayout
    <2>2. CASE /\ workspaces' = workspaces
               /\ \E a : Becomes(k, "reply", "update_layout", w, Gone, {}, a, "none")
      BY <2>1, <2>2 DEF Becomes, Considerate, BeforeRow
    <2>3. CASE /\ workspaces[w] # Gone /\ rev > workspaces[w].rev
               /\ Becomes(k, "layout", "update_layout", w, Gone, {}, "none", "queued")
               /\ job'[k].old = workspaces[w]
               /\ job'[k].new.rev = rev
               /\ workspaces' = [workspaces EXCEPT ![w] = job'[k].new]
      <3>1. /\ \A v \in WorkspaceIds : v # w => workspaces'[v] = workspaces[v]
            /\ workspaces'[w].rev >= workspaces[w].rev
        BY <1>0, <1>w, <2>3, ConstantsAssumption DEF TypeOK
      <3> QED
        BY <2>1, <2>3, <3>1 DEF Becomes, Considerate, BeforeRow
    <2> QED
      BY <1>0, <1>5, <2>2, <2>3, UpdateLayoutDoes
  <1>6. ASSUME NEW w \in WorkspaceIds, NEW m \in Names, RenameWorkspace(k, w, m)
        PROVE  Considerate(k)
    <2>1. UNCHANGED <<rows, pending, minted>>
      BY <1>6 DEF RenameWorkspace
    <2>2. \E pc \in {"reply", "rename"} : \E a, wr :
             Becomes(k, pc, "rename", w, Gone, {}, a, wr)
      BY <1>0, <1>6, RenameWorkspaceDoes
    <2>3. \A v \in WorkspaceIds :
             \/ workspaces'[v] = workspaces[v]
             \/ workspaces[v] # Gone /\ workspaces'[v].rev >= workspaces[v].rev
      BY <1>0, <1>6, <1>w, RenameWorkspaceDoes DEF TypeOK
    <2> QED
      BY <2>1, <2>2, <2>3 DEF Becomes, Considerate, BeforeRow
  <1> QED
    BY <1>1, <1>2, <1>3, <1>4, <1>5, <1>6 DEF Request

-----------------------------------------------------------------------------
(* Which handler is where, and which of them wait for a write.              *)

Waiting == {"reserving", "abandon", "commit", "undone", "killed", "opening", "cleared",
            "layout", "rename"}

\* Worker k's job goes from one place of its handler to another.
Proceeds(k) ==
    /\ \A l \in Workers : l # k => job'[l] = job[l]
    /\ job'[k].pc \notin Waiting => job'[k].write = "none"
    /\ job'[k].write = "failed" => failures' > 0
    /\ job'[k].pc # "idle" =>
          job'[k].op # "none" \/ (job'[k].op = job[k].op /\ job[k].pc # "idle")
    /\ \/ job'[k].op = job[k].op /\ job'[k].pc = job[k].pc
       \/ job'[k].op = job[k].op /\ job[k].pc = "killing" /\ job'[k].pc = "killed"
       \/ job'[k].op = job[k].op /\ job[k].pc = "clearing" /\ job'[k].pc = "cleared"
       \/ job'[k].pc \in Creation \cup {"idle", "reply", "retract"}
       \/ job'[k].pc = "killing" /\ job'[k].op = "kill"
       \/ job'[k].pc = "opening" /\ job'[k].op = "create_workspace"
       \/ job'[k].pc = "clearing" /\ job'[k].op = "kill_workspace"
       \/ job'[k].pc = "layout" /\ job'[k].op = "update_layout"
       \/ job'[k].pc = "rename" /\ job'[k].op = "rename"

\* That keeps every handler where its request belongs.
LEMMA ProceedsKeeps ==
    ASSUME WritesCounted, ServesOp, NEW k \in Workers, Proceeds(k),
           failures > 0 => failures' > 0
    PROVE  WritesCounted' /\ ServesOp'
  <1>1. WritesCounted'
    BY DEF WritesCounted, Proceeds, Waiting
  <1>2. ServesOp'
    BY DEF ServesOp, Proceeds, Creation, BeforeRow, AfterRow
  <1> QED
    BY <1>1, <1>2

\* Every step of a handler proceeds.
LEMMA StepProceeds ==
    ASSUME RecordedInv, WritesCounted, ServesOp, NEW k \in Workers, Step(k)
    PROVE  WritesCounted' /\ ServesOp'
  <1>0. TypeOK
    BY DEF RecordedInv
  <1>c. Creation = {"reserve", "reserving", "spawn", "abandon", "record", "release", "commit",
                    "undo", "undoing", "undone"}
    BY DEF Creation, BeforeRow, AfterRow
  <1>m. ASSUME NEW pc \in {"reply", "retract"} \cup Creation, NEW d, NEW a,
               NEW w \in {"none", "queued"}, Moves(k, pc, d, a, w), pc \in Waiting \/ w = "none",
               failures' = failures, job[k].pc # "idle"
        PROVE  WritesCounted' /\ ServesOp'
    BY <1>m, ProceedsKeeps DEF Moves, Becomes, Proceeds
  <1>1. CASE Reply(k)
    BY <1>0, <1>1, ReplyDoes, ProceedsKeeps DEF Reply, Becomes, Proceeds, bounds
  <1>2. CASE TakeSnapshot(k)
    <2>1. job[k].pc \in Waiting
      BY <1>0, <1>2 DEF TakeSnapshot, WritesCounted, Waiting, TypeOK, Jobs, Places
    <2> QED
      BY <1>0, <1>2, <2>1, TakeSnapshotDoes, ProceedsKeeps
      DEF TakeSnapshot, Moves, Becomes, Proceeds, bounds
  <1>3. CASE \E ok \in BOOLEAN : Save(k, ok)
    <2>0. PICK ok \in BOOLEAN : Save(k, ok)
      BY <1>3
    <2>1. job[k].pc \in Waiting
      BY <1>0, <2>0 DEF Save, WritesCounted, Waiting, TypeOK, Jobs, Places
    <2>2. Moves(k, job[k].pc, job[k].doomed, job[k].answer, IF ok THEN "ok" ELSE "failed")
      BY <1>0, <2>0, SaveDoes
    <2>3. /\ job'[k].write = "failed" => failures' > 0
          /\ failures > 0 => failures' > 0
      BY <1>0, <2>0, <2>2 DEF Save, TypeOK, Moves, Becomes
    <2> QED
      BY <2>1, <2>2, <2>3, ProceedsKeeps DEF Moves, Becomes, Proceeds
  <1>4. CASE \/ Reserve(k) \/ Reserved(k) \/ Abandoned(k) \/ RecordCreated(k) \/ Release(k)
             \/ Undone(k) \/ \E spawned, handles \in BOOLEAN : Spawn(k, spawned, handles)
    <2>1. failures' = failures /\ job[k].pc # "idle"
      BY <1>4 DEF Reserve, Reserved, Abandoned, RecordCreated, Release, Undone, Spawn, bounds, At
    <2>2. \E pc \in {"reply"} \cup Creation, w \in {"none", "queued"} : \E d, a :
             Moves(k, pc, d, a, w) /\ (pc \in Waiting \/ w = "none")
      <3> DEFINE R(pc, w) == \E d, a : Moves(k, pc, d, a, w)
      <3>1. \/ R("reserving", "queued") \/ R("abandon", "queued") \/ R("commit", "queued")
            \/ R("spawn", "none") \/ R("record", "none") \/ R("release", "none")
            \/ R("reply", "none")
        BY <1>0, <1>4, CreateMoves
      <3>2. \A pc \in {"reserving", "abandon", "commit"} : pc \in Waiting /\ pc \in Creation
        BY <1>c DEF Waiting
      <3>3. \A pc \in {"spawn", "record", "release"} : pc \in Creation
        BY <1>c
      <3> QED
        BY <3>1, <3>2, <3>3
    <2> QED
      BY <1>m, <2>1, <2>2
  <1>5. CASE CommitCreated(k) \/ CommitWorkspace(k) \/ Retract(k) \/ Killed(k) \/ Cleared(k)
    <2>1. failures' = failures /\ job[k].pc # "idle"
      BY <1>5 DEF CommitCreated, CommitWorkspace, Retract, Killed, Cleared, bounds, At
    <2>2. \E pc \in {"reply", "retract"} \cup Creation : \E d, a : Moves(k, pc, d, a, "none")
      BY <1>0, <1>5, <1>c, CommitCreatedDoes, CommitWorkspaceDoes, RetractDoes, KillMoves
    <2> QED
      BY <1>m, <2>1, <2>2
  <1>6. CASE Undo(k) \/ LayoutWritten(k) \/ RenameWritten(k)
    <2>1. failures' = failures /\ job[k].pc # "idle"
      BY <1>6 DEF Undo, LayoutWritten, RenameWritten, bounds, At
    <2>2. \E pc \in {"reply", "retract"} \cup Creation : \E d, a : Moves(k, pc, d, a, "none")
      <3>1. CASE Undo(k)
        <4>1. job[k].id \in SessionIds
          BY <1>c, <3>1 DEF Undo, At, RecordedInv, JobShape
        <4> QED
          BY <1>0, <1>c, <3>1, <4>1, UndoDoes
      <3>2. CASE LayoutWritten(k) \/ RenameWritten(k)
        <4>1. job[k].ws \in WorkspaceIds /\ job[k].old \in Info
          BY <3>2 DEF RecordedInv, JobShape, LayoutWritten, RenameWritten, At
        <4> QED
          BY <1>0, <3>2, <4>1, LayoutWrittenDoes, RenameWrittenDoes
      <3> QED
        BY <1>6, <3>1, <3>2
    <2> QED
      BY <1>m, <2>1, <2>2
  <1>7. CASE KillProcess(k)
    BY <1>0, <1>7, <1>c, KillMoves, ProceedsKeeps
    DEF KillProcess, Moves, Becomes, Proceeds, Waiting, bounds
  <1>8. CASE KillDoomed(k)
    BY <1>0, <1>8, KillMoves, ProceedsKeeps
    DEF KillDoomed, At, Moves, Becomes, Proceeds, Waiting, bounds
  <1> QED
    BY <1>1, <1>2, <1>3, <1>4, <1>5, <1>6, <1>7, <1>8 DEF Step

\* So does every new request.
LEMMA RequestProceeds ==
    ASSUME RecordedInv, WritesCounted, ServesOp, NEW k \in Workers, Request(k)
    PROVE  WritesCounted' /\ ServesOp'
  <1>0. TypeOK /\ failures' = failures
    BY DEF RecordedInv, Request, CreateSession, Kill, CreateWorkspace, KillWorkspace,
           UpdateLayout, RenameWorkspace, bounds
  <1>c. "reserve" \in Creation
    BY DEF Creation, BeforeRow
  <1>m. ASSUME NEW pc, NEW op \in AllOps, NEW v, NEW s, NEW d, NEW a, NEW w \in {"none", "queued"},
               Becomes(k, pc, op, v, s, d, a, w),
               \/ pc \in {"reply", "reserve"} /\ w = "none"
               \/ pc = "killing" /\ op = "kill" /\ w = "none"
               \/ pc = "clearing" /\ op = "kill_workspace" /\ w = "none"
               \/ pc = "opening" /\ op = "create_workspace"
               \/ pc = "layout" /\ op = "update_layout"
               \/ pc = "rename" /\ op = "rename"
        PROVE  WritesCounted' /\ ServesOp'
    <2>1. Proceeds(k)
      BY <1>c, <1>m DEF Becomes, Proceeds, Waiting, AllOps
    <2> QED
      BY <1>0, <2>1, ProceedsKeeps
  <1>1. ASSUME NEW w \in WorkspaceIds, NEW s \in SessionIds, CreateSession(k, w, s)
        PROVE  WritesCounted' /\ ServesOp'
    BY <1>0, <1>1, <1>m, CreateSessionDoes DEF AllOps
  <1>2. ASSUME NEW s \in SessionIds, Kill(k, s) PROVE WritesCounted' /\ ServesOp'
    BY <1>0, <1>2, <1>m, KillDoes DEF AllOps
  <1>3. ASSUME NEW w \in WorkspaceIds, NEW m \in Names, CreateWorkspace(k, w, m)
        PROVE  WritesCounted' /\ ServesOp'
    BY <1>0, <1>3, <1>m, CreateWorkspaceDoes DEF AllOps
  <1>4. ASSUME NEW w \in WorkspaceIds, KillWorkspace(k, w) PROVE WritesCounted' /\ ServesOp'
    BY <1>0, <1>4, <1>m, KillWorkspaceDoes DEF AllOps
  <1>5. ASSUME NEW w \in WorkspaceIds, NEW doc \in SUBSET SessionIds, NEW rev \in 1..MaxRev,
               UpdateLayout(k, w, doc, rev)
        PROVE  WritesCounted' /\ ServesOp'
    BY <1>0, <1>5, <1>m, UpdateLayoutDoes DEF AllOps
  <1>6. ASSUME NEW w \in WorkspaceIds, NEW m \in Names, RenameWorkspace(k, w, m)
        PROVE  WritesCounted' /\ ServesOp'
    BY <1>0, <1>6, <1>m, RenameWorkspaceDoes DEF AllOps
  <1> QED
    BY <1>1, <1>2, <1>3, <1>4, <1>5, <1>6 DEF Request

-----------------------------------------------------------------------------
(* AckInv: what was answered "ok" is on record.                             *)

\* A considerate step of k leaves the table and the ledgers saying what they
\* say of another worker's request.
LEMMA AckOthers ==
    ASSUME RecordedInv, TypeOK', ShellInv, NEW k \in Workers, Considerate(k),
           NEW l \in Workers, l # k, Applied(l), InMemory(l)
    PROVE  /\ InMemory(l)'
           /\ \A d : Says(l, d) => Says(l, d)'
  <1> DEFINE j == job[l]
  <1>0. TypeOK /\ job'[l] = j /\ j \in Jobs
    BY DEF RecordedInv, TypeOK, Considerate
  <1>1. ASSUME j.op = "create"
        PROVE  /\ j.id \in SessionIds
               /\ rows'[j.id] \in {rows[j.id], Gone}
    <2>1. j.id \in SessionIds
      BY <1>1 DEF InMemory
    <2>2. Creator(l)
      BY <1>1, <2>1, ConstantsAssumption DEF Creator
    <2>3. job[k].pc = "record" => Creator(k) /\ job[k].id # j.id
      BY <2>2 DEF ShellInv, CreatesApart, Creation, BeforeRow
    <2> QED
      BY <2>1, <2>3 DEF Considerate
  <1>2. ASSUME j.op = "kill"
        PROVE  /\ j.id \in SessionIds \cap minted' /\ rows'[j.id] = Gone
               /\ j.pc # "killing" => pending'[j.id] = Gone
               /\ \A m \in Workers : job'[m].pc \in BeforeRow => job'[m].id # j.id
    <2>1. /\ j.id \in SessionIds \cap minted /\ rows[j.id] = Gone
          /\ j.pc # "killing" => pending[j.id] = Gone
          /\ \A m \in Workers : job[m].pc \in BeforeRow => job[m].id # j.id
      BY <1>2 DEF InMemory
    <2>2. job[k].pc \in {"record", "reserve"} => job[k].id # j.id
      BY <2>1 DEF BeforeRow
    <2>3. \A m \in Workers : job'[m].pc \in BeforeRow => job'[m].id # j.id
      BY <2>1 DEF Considerate
    <2> QED
      BY <2>1, <2>2, <2>3 DEF Considerate
  <1>3. ASSUME j.op \in {"create_workspace", "kill_workspace", "update_layout", "rename"}
        PROVE  /\ j.ws \in WorkspaceIds \cap minted'
               /\ workspaces[j.ws] = Gone => workspaces'[j.ws] = Gone
    <2>1. j.ws \in WorkspaceIds \cap minted
      BY <1>3 DEF InMemory
    <2> QED
      BY <2>1 DEF Considerate
  <1>4. ASSUME j.op = "update_layout"
        PROVE  /\ workspaces'[j.ws] # Gone => workspaces'[j.ws].rev >= j.new.rev
               /\ \A m \in Workers :
                     m # l /\ job'[m].pc = "layout" /\ job'[m].ws = j.ws =>
                        job'[m].old.rev >= j.new.rev
    <2>1. /\ j.ws \in WorkspaceIds \cap minted /\ j.new.rev \in Nat
          /\ workspaces[j.ws] # Gone =>
                workspaces[j.ws].rev >= j.new.rev /\ workspaces[j.ws].rev \in Nat
          /\ \A m \in Workers :
                m # l /\ job[m].pc = "layout" /\ job[m].ws = j.ws => job[m].old.rev >= j.new.rev
      BY <1>0, <1>4 DEF InMemory, Info, TypeOK
    <2>2. workspaces'[j.ws] # Gone => workspaces'[j.ws].rev \in Nat
      BY <2>1 DEF TypeOK, Info
    <2>3. workspaces'[j.ws] # Gone => workspaces'[j.ws].rev >= j.new.rev
      BY <2>1, <2>2 DEF Considerate
    <2>4. ASSUME NEW m \in Workers, m # l, job'[m].pc = "layout", job'[m].ws = j.ws
          PROVE  job'[m].old.rev >= j.new.rev
      BY <2>1, <2>4 DEF Considerate
    <2> QED
      BY <2>3, <2>4
  <1>5. InMemory(l)'
    BY <1>0, <1>1, <1>2, <1>3, <1>4 DEF InMemory
  <1>6. ASSUME NEW d, Says(l, d) PROVE Says(l, d)'
    BY <1>0, <1>1, <1>3, <1>6 DEF Says
  <1> QED
    BY <1>5, <1>6

\* A request that has been applied stays so while its worker and the table
\* only go on about its write and its answer.
LEMMA AckSame ==
    ASSUME NEW k \in Workers, InMemory(k), job[k].pc # "killing",
           \A l \in Workers : l # k => job'[l] = job[l],
           job'[k].op = job[k].op, job'[k].ws = job[k].ws, job'[k].id = job[k].id,
           job'[k].new = job[k].new, job'[k].pc \notin BeforeRow \/ job'[k].pc = job[k].pc,
           UNCHANGED <<rows, pending, workspaces>>, minted \subseteq minted'
    PROVE  /\ InMemory(k)'
           /\ \A d : Says(k, d) => Says(k, d)'
  <1>1. InMemory(k)'
    BY DEF InMemory
  <1>2. \A d : Says(k, d) => Says(k, d)'
    BY DEF Says
  <1> QED
    BY <1>1, <1>2

\* A snapshot says what is in memory.
LEMMA SnapshotSays ==
    ASSUME TypeOK, NEW k \in Workers, InMemory(k), job[k].pc # "killing",
           NEW d, d = Snapshot(rows, pending, workspaces)
    PROVE  Says(k, d)
  <1> DEFINE j == job[k]
  <1>1. /\ \A s \in SessionIds :
              /\ rows[s] = Gone => d.sessions[s] = pending[s]
              /\ rows[s] # Gone /\ ~ rows[s].lost => d.sessions[s] = rows[s].home
        /\ d.workspaces = workspaces
    BY DEF Snapshot
  <1>2. j.op = "create" /\ rows[j.id] # Gone => d.sessions[j.id] = j.ws
    BY <1>1 DEF InMemory
  <1>3. j.op = "kill" => d.sessions[j.id] = Gone
    BY <1>1 DEF InMemory
  <1>4. /\ j.op \in {"create_workspace", "rename", "update_layout"} /\ workspaces[j.ws] # Gone =>
              d.workspaces[j.ws] # Gone
        /\ j.op = "kill_workspace" => d.workspaces[j.ws] = Gone
        /\ j.op = "update_layout" /\ workspaces[j.ws] # Gone =>
              d.workspaces[j.ws].rev >= j.new.rev
    BY <1>1 DEF InMemory
  <1> QED
    BY <1>2, <1>3, <1>4 DEF Says

\* A step that neither takes a snapshot nor writes one.
LEMMA AckFrame ==
    ASSUME RecordedInv, TypeOK', ShellInv, AckTrail, NEW k \in Workers, Considerate(k),
           snap' = snap, disk' = disk, job'[k].write # "writing",
           Applied(k)' =>
              /\ InMemory(k)'
              /\ job'[k].write = "ok" \/ job'[k].pc = "reply" =>
                    \A d \in Ledgers : Says(k, d)'
    PROVE  AckTrail'
  <1>0. /\ TypeOK
        /\ \A l \in Workers : l # k => job'[l] = job[l]
    BY DEF RecordedInv, Considerate
  <1>1. Ledgers' \subseteq Ledgers
    BY <1>0 DEF Ledgers
  <1> SUFFICES ASSUME NEW l \in Workers, Applied(l)'
               PROVE  /\ InMemory(l)'
                      /\ job'[l].write = "writing" => Says(l, snap[l])'
                      /\ job'[l].write = "ok" \/ job'[l].pc = "reply" =>
                            \A d \in Ledgers : Says(l, d)'
    BY <1>1 DEF AckTrail
  <1>2. CASE l # k
    <2>1. job'[l] = job[l] /\ Applied(l)
      BY <1>0, <1>2 DEF Applied
    <2>2. /\ InMemory(l)
          /\ job[l].write = "writing" => Says(l, snap[l])
          /\ job[l].write = "ok" \/ job[l].pc = "reply" => \A d \in Ledgers : Says(l, d)
      BY <2>1 DEF AckTrail
    <2>3. InMemory(l)' /\ \A d : Says(l, d) => Says(l, d)'
      BY <1>2, <2>1, <2>2, AckOthers
    <2>4. Says(l, snap[l]) => Says(l, snap[l])'
      BY <2>3 DEF Says
    <2> QED
      BY <2>1, <2>2, <2>3, <2>4
  <1>3. CASE l = k
    BY <1>3
  <1> QED
    BY <1>2, <1>3

\* A snapshot says what every applied request has in memory.
LEMMA AckTakeSnapshot ==
    ASSUME RecordedInv, TypeOK', ShellInv, AckTrail, WritesCounted, NEW k \in Workers,
           TakeSnapshot(k)
    PROVE  AckTrail'
  <1>e. PICK e : e = Snapshot(rows, pending, workspaces)
    OBVIOUS
  <1>0. /\ TypeOK /\ Considerate(k)
        /\ UNCHANGED <<rows, pending, workspaces, minted, disk>>
        /\ snap' = [snap EXCEPT ![k] = e] /\ job[k].write = "queued"
    BY <1>e, StepConsiderate DEF RecordedInv, TakeSnapshot, Step, table
  <1>1. /\ Moves(k, job[k].pc, job[k].doomed, job[k].answer, "writing")
        /\ \A l \in Workers : l # k => job'[l] = job[l]
    BY <1>0, TakeSnapshotDoes DEF Considerate
  <1>2. Ledgers' \subseteq Ledgers \cup {e}
    BY <1>0, <1>1 DEF Ledgers, TypeOK
  <1>3. snap'[k] = e /\ \A l \in Workers : l # k => snap'[l] = snap[l]
    BY <1>0 DEF TypeOK
  <1> SUFFICES ASSUME NEW l \in Workers, Applied(l)'
               PROVE  /\ InMemory(l)'
                      /\ job'[l].write = "writing" => Says(l, snap[l])'
                      /\ job'[l].write = "ok" \/ job'[l].pc = "reply" =>
                            \A d \in Ledgers \cup {e} : Says(l, d)'
    BY <1>2 DEF AckTrail
  <1>4. Applied(l) /\ InMemory(l)
    BY <1>1 DEF Applied, Moves, Becomes, AckTrail
  <1>5. InMemory(l)' /\ \A d : Says(l, d) => Says(l, d)'
    <2>1. CASE l # k
      BY <1>0, <1>4, <2>1, AckOthers
    <2>2. CASE l = k
      <3>1. job[k].pc # "killing"
        BY <1>0 DEF WritesCounted
      <3> QED
        BY <1>0, <1>1, <1>4, <2>2, <3>1, AckSame DEF Moves, Becomes
    <2> QED
      BY <2>1, <2>2
  <1>6. job[l].pc # "killing" => Says(l, e)
    BY <1>0, <1>4, <1>e, SnapshotSays
  <1>7. CASE l # k
    <2>1. job'[l] = job[l] /\ snap'[l] = snap[l]
      BY <1>1, <1>3, <1>7
    <2>2. job[l].write = "ok" => job[l].pc # "killing"
      BY DEF WritesCounted
    <2>3. Says(l, snap[l]) => Says(l, snap[l])'
      BY <1>5, <2>1 DEF Says
    <2> QED
      BY <1>4, <1>5, <1>6, <2>1, <2>2, <2>3 DEF AckTrail
  <1>8. CASE l = k
    <2>1. job'[k].write = "writing" /\ job'[k].pc = job[k].pc /\ job[k].pc # "reply"
          /\ job[k].pc # "killing"
      BY <1>0, <1>1 DEF Moves, Becomes, WritesCounted
    <2>2. Says(k, e)'
      BY <1>5, <1>6, <1>8, <2>1 DEF Says
    <2>3. Says(k, snap[k])'
      BY <1>3, <2>2 DEF Says
    <2> QED
      BY <1>5, <1>8, <2>1, <2>3
  <1> QED
    BY <1>7, <1>8

\* A write leaves its snapshot as the only ledger there is.
LEMMA AckSave ==
    ASSUME RecordedInv, TypeOK', ShellInv, AckTrail, WritesCounted, NEW k \in Workers,
           NEW ok \in BOOLEAN, Save(k, ok)
    PROVE  AckTrail'
  <1>0. /\ TypeOK /\ Considerate(k)
        /\ UNCHANGED <<rows, pending, workspaces, minted>>
        /\ disk' = IF ok THEN snap[k] ELSE disk
        /\ snap' = [snap EXCEPT ![k] = Gone] /\ job[k].write = "writing"
    BY StepConsiderate DEF RecordedInv, Save, Step, table
  <1>1. /\ Moves(k, job[k].pc, job[k].doomed, job[k].answer, IF ok THEN "ok" ELSE "failed")
        /\ \A l \in Workers : l # k => job'[l] = job[l]
        /\ job'[k].write \in {"ok", "failed"} /\ (job'[k].write = "ok" => ok)
    BY <1>0, SaveDoes DEF Considerate, Moves, Becomes
  <1>2. \A l \in Workers : job[l].write = "writing" => l = k
    BY <1>0, OnlyWriter DEF RecordedInv, LockHeld
  <1>3. /\ Ledgers' \subseteq Ledgers
        /\ ok => Ledgers' = {snap[k]}
    BY <1>0, <1>1, <1>2 DEF Ledgers, TypeOK
  <1>k. job[k].pc # "killing" /\ job[k].pc # "reply"
    BY <1>0 DEF WritesCounted
  <1> SUFFICES ASSUME NEW l \in Workers, Applied(l)'
               PROVE  /\ InMemory(l)'
                      /\ job'[l].write # "writing"
                      /\ job'[l].write = "ok" \/ job'[l].pc = "reply" =>
                            \A d \in Ledgers' : Says(l, d)'
    BY DEF AckTrail
  <1>4. Applied(l) /\ InMemory(l)
    BY <1>1 DEF Applied, Moves, Becomes, AckTrail
  <1>5. InMemory(l)' /\ \A d : Says(l, d) => Says(l, d)'
    <2>1. CASE l # k
      BY <1>0, <1>4, <2>1, AckOthers
    <2>2. CASE l = k
      BY <1>0, <1>1, <1>4, <1>k, <2>2, AckSame DEF Moves, Becomes
    <2> QED
      BY <2>1, <2>2
  <1>6. CASE l # k
    <2>1. job'[l] = job[l] /\ job[l].write # "writing"
      BY <1>1, <1>2, <1>6
    <2> QED
      BY <1>3, <1>4, <1>5, <2>1 DEF AckTrail
  <1>7. CASE l = k
    <2>1. Says(k, snap[k])
      BY <1>0, <1>4, <1>7 DEF AckTrail
    <2>2. job'[k].pc # "reply"
      BY <1>1, <1>k DEF Moves, Becomes
    <2>3. ok => \A d \in Ledgers' : Says(k, d)'
      BY <1>3, <1>5, <1>7, <2>1
    <2> QED
      BY <1>1, <1>5, <1>7, <2>2, <2>3
  <1> QED
    BY <1>6, <1>7

\* A handler whose write succeeded answers "ok".
LEMMA AckAnswered ==
    ASSUME AckTrail, NEW k \in Workers, Applied(k), job[k].pc # "killing",
           job[k].write = "ok", Moves(k, "reply", {}, "ok", "none"),
           UNCHANGED <<rows, pending, workspaces>>, minted \subseteq minted'
    PROVE  InMemory(k)' /\ \A d \in Ledgers : Says(k, d)'
  <1>1. InMemory(k) /\ \A d \in Ledgers : Says(k, d)
    BY DEF AckTrail
  <1>2. InMemory(k)' /\ \A d : Says(k, d) => Says(k, d)'
    BY <1>1, AckSame DEF Moves, Becomes, BeforeRow
  <1> QED
    BY <1>1, <1>2

\* A handler that has not applied its request, or answers with an error, has
\* nothing to show.
LEMMA AckNothing ==
    ASSUME RecordedInv, TypeOK', ShellInv, AckTrail, NEW k \in Workers, Considerate(k),
           snap' = snap, disk' = disk, NEW pc, NEW d, NEW a, NEW w, w # "writing",
           Moves(k, pc, d, a, w) \/ \E op, v, s : Becomes(k, pc, op, v, s, d, a, w),
           pc \in {"idle", "reserve", "reserving", "spawn", "record", "abandon", "release",
                   "undo", "undoing", "undone", "retract"}
             \/ (pc = "reply" /\ a # "ok")
    PROVE  AckTrail'
  <1>1. job'[k].pc = pc /\ job'[k].answer = a /\ job'[k].write = w
    BY DEF Moves, Becomes
  <1>2. ~ Applied(k)'
    BY <1>1 DEF Applied
  <1> QED
    BY <1>1, <1>2, AckFrame

\* Every step of a handler keeps what was answered on record.
LEMMA AckStep ==
    ASSUME RecordedInv, RecordedInv', ShellInv, ServesOp, AckTrail, WritesCounted,
           NEW k \in Workers, Step(k)
    PROVE  AckTrail'
  <1>0. TypeOK /\ TypeOK' /\ Considerate(k)
    BY StepConsiderate DEF RecordedInv
  <1>1. CASE TakeSnapshot(k) \/ \E ok \in BOOLEAN : Save(k, ok)
    BY <1>0, <1>1, AckTakeSnapshot, AckSave
  <1>2. CASE \/ Reply(k) \/ Reserve(k) \/ Reserved(k) \/ Abandoned(k) \/ RecordCreated(k)
             \/ Retract(k) \/ \E spawned, handles \in BOOLEAN : Spawn(k, spawned, handles)
    <2>1. snap' = snap /\ disk' = disk
      BY <1>2 DEF Reply, Reserve, Reserved, Abandoned, RecordCreated, Retract, Spawn
    <2>2. CASE Reply(k)
      BY <1>0, <2>1, <2>2, ReplyDoes, AckNothing
    <2>3. CASE ~ Reply(k)
      BY <1>0, <1>2, <2>1, <2>3, CreateMoves, RetractDoes, AckNothing
    <2> QED
      BY <2>2, <2>3
  <1>3. CASE Undone(k) \/ Undo(k)
    <2>1. /\ snap' = snap /\ disk' = disk
          /\ job[k].pc \in {"undone", "undo"} /\ job[k].id \in SessionIds
          /\ job[k].op = "create"
      BY <1>3
      DEF Undone, Undo, At, RecordedInv, JobShape, ShellInv, CreatesApart, Creator, Creation,
          AfterRow
    <2>2. \/ Moves(k, "undoing", {job[k].id}, job[k].answer, "none")
          \/ Moves(k, "reply", {}, job[k].answer, "none") /\ rows'[job[k].id] = Gone
      <3>1. CASE Undone(k)
        <4>1. rows' = rows /\ rows[job[k].id] = Gone
          BY <2>1, <3>1, ConstantsAssumption
          DEF Undone, At, table, ShellInv, CreateTrail, Creator, NothingBehind
        <4> QED
          BY <1>0, <3>1, <4>1, CreateMoves
      <3>2. CASE Undo(k)
        BY <1>0, <2>1, <3>2, UndoDoes
      <3> QED
        BY <1>3, <3>1, <3>2
    <2>3. CASE Moves(k, "undoing", {job[k].id}, job[k].answer, "none")
      BY <1>0, <2>1, <2>3, AckNothing
    <2>4. CASE Moves(k, "reply", {}, job[k].answer, "none") /\ rows'[job[k].id] = Gone
      <3>1. /\ job'[k].op = "create" /\ job'[k].id = job[k].id /\ job'[k].write = "none"
        BY <2>1, <2>4 DEF Moves, Becomes
      <3>2. InMemory(k)'
        BY <2>1, <2>4, <3>1 DEF InMemory
      <3>3. \A d : Says(k, d)'
        BY <2>1, <2>4, <3>1 DEF Says
      <3> QED
        BY <1>0, <2>1, <3>1, <3>2, <3>3, AckFrame
    <2> QED
      BY <2>2, <2>3, <2>4
  <1>4. CASE Release(k)
    <2>1. /\ snap' = snap /\ disk' = disk /\ job[k].pc = "release"
          /\ Moves(k, "commit", job[k].doomed, job[k].answer, "queued")
      BY <1>0, <1>4, CreateMoves DEF Release, At
    <2>2. /\ job'[k].pc = "commit" /\ job'[k].write = "queued" /\ job'[k].op = "create"
          /\ job'[k].id \in SessionIds
          /\ rows'[job'[k].id] \in {Gone, [home |-> job'[k].ws, lost |-> FALSE]}
      BY <2>1
      DEF Moves, Becomes, RecordedInv, RowOfCreation, JobShape, ShellInv, CreatesApart, Creator,
          Creation, AfterRow
    <2>3. InMemory(k)'
      BY <2>2 DEF InMemory
    <2> QED
      BY <1>0, <2>1, <2>2, <2>3, AckFrame
  <1>5. CASE CommitCreated(k)
    <2>1. /\ UNCHANGED <<rows, pending, workspaces, minted, snap, disk>> /\ job[k].pc = "commit"
      BY <1>5 DEF CommitCreated, At, table
    <2>2. CASE \E a : Moves(k, "undo", job[k].doomed, a, "none")
      BY <1>0, <2>1, <2>2, AckNothing
    <2>3. CASE Moves(k, "reply", {}, "ok", "none") /\ job[k].write = "ok"
      <3>1. InMemory(k)' /\ \A d \in Ledgers : Says(k, d)'
        BY <2>1, <2>3, AckAnswered DEF Applied
      <3> QED
        BY <1>0, <2>1, <2>3, <3>1, AckFrame DEF Moves, Becomes
    <2> QED
      BY <1>0, <1>5, <2>2, <2>3, CommitCreatedDoes
  <1>6. CASE Killed(k) \/ Cleared(k)
    <2>1. /\ UNCHANGED <<rows, pending, workspaces, minted, snap, disk>>
          /\ job[k].pc \in {"killed", "cleared"}
          /\ Moves(k, "reply", {}, IF job[k].write = "ok" THEN "ok" ELSE "persist_failed",
                   "none")
      BY <1>0, <1>6, KillMoves DEF Killed, Cleared, At, table
    <2>2. CASE job[k].write # "ok"
      BY <1>0, <2>1, <2>2, AckNothing
    <2>3. CASE job[k].write = "ok"
      <3>1. InMemory(k)' /\ \A d \in Ledgers : Says(k, d)'
        BY <2>1, <2>3, AckAnswered DEF Applied
      <3> QED
        BY <1>0, <2>1, <2>3, <3>1, AckFrame DEF Moves, Becomes
    <2> QED
      BY <2>2, <2>3
  <1>7. CASE CommitWorkspace(k) \/ LayoutWritten(k) \/ RenameWritten(k)
    <2>1. /\ UNCHANGED <<rows, pending, minted, snap, disk>>
          /\ job[k].pc \in {"opening", "layout", "rename"}
      BY <1>7 DEF CommitWorkspace, LayoutWritten, RenameWritten, At
    <2>2. \/ \E pc \in {"reply", "retract"} : \E d, a :
                Moves(k, pc, d, a, "none") /\ (pc = "reply" => a # "ok")
          \/ Moves(k, "reply", {}, "ok", "none") /\ job[k].write = "ok" /\ workspaces' = workspaces
      <3>1. CASE CommitWorkspace(k)
        BY <1>0, <3>1, CommitWorkspaceDoes
      <3>2. CASE LayoutWritten(k) \/ RenameWritten(k)
        <4>1. job[k].ws \in WorkspaceIds /\ job[k].old \in Info
          BY <3>2 DEF RecordedInv, JobShape, LayoutWritten, RenameWritten, At
        <4> QED
          BY <1>0, <3>2, <4>1, LayoutWrittenDoes, RenameWrittenDoes
      <3> QED
        BY <1>7, <3>1, <3>2
    <2>3. CASE \E pc \in {"reply", "retract"} : \E d, a :
                  Moves(k, pc, d, a, "none") /\ (pc = "reply" => a # "ok")
      BY <1>0, <2>1, <2>3, AckNothing
    <2>4. CASE /\ Moves(k, "reply", {}, "ok", "none") /\ job[k].write = "ok"
               /\ workspaces' = workspaces
      <3>1. InMemory(k)' /\ \A d \in Ledgers : Says(k, d)'
        BY <2>1, <2>4, AckAnswered DEF Applied
      <3> QED
        BY <1>0, <2>1, <2>4, <3>1, AckFrame DEF Moves, Becomes
    <2> QED
      BY <2>2, <2>3, <2>4
  <1>8. CASE KillProcess(k)
    <2>1. /\ UNCHANGED <<rows, workspaces, minted, snap, disk>>
          /\ job[k].pc \in {"undoing", "killing"} /\ job[k].id \in SessionIds
          /\ pending'[job[k].id] = Gone
          /\ Moves(k, IF job[k].pc = "undoing" THEN "undone" ELSE "killed",
                   {}, job[k].answer, "queued")
      <3>1. job[k].pc \in {"undoing", "killing"} /\ job[k].id \in SessionIds
        BY <1>8 DEF KillProcess, RecordedInv, JobShape, Creation
      <3> QED
        BY <1>0, <1>8, <3>1, KillMoves DEF KillProcess, TypeOK
    <2>2. CASE job[k].pc = "undoing"
      BY <1>0, <2>1, <2>2, AckNothing
    <2>3. CASE job[k].pc = "killing"
      <3>1. /\ job'[k].pc = "killed" /\ job'[k].op = "kill" /\ job'[k].id = job[k].id
            /\ job'[k].write = "queued"
            /\ \A l \in Workers : l # k => job'[l] = job[l]
        BY <2>1, <2>3 DEF Moves, Becomes, ServesOp
      <3>2. /\ job[k].id \in minted /\ rows[job[k].id] = Gone
            /\ \A l \in Workers : job[l].pc \in BeforeRow => job[l].id # job[k].id
        BY <2>3 DEF AckTrail, Applied, InMemory, ServesOp
      <3>3. InMemory(k)'
        BY <2>1, <3>1, <3>2 DEF InMemory, BeforeRow
      <3> QED
        BY <1>0, <2>1, <3>1, <3>3, AckFrame
    <2> QED
      BY <2>1, <2>2, <2>3
  <1>9. CASE KillDoomed(k)
    <2>1. /\ UNCHANGED <<rows, pending, workspaces, minted, snap, disk>>
          /\ job[k].pc = "clearing"
          /\ Moves(k, "cleared", {}, job[k].answer, "queued")
      BY <1>0, <1>9, KillMoves DEF KillDoomed, At, table
    <2>2. InMemory(k)
      BY <2>1 DEF AckTrail, Applied
    <2>3. InMemory(k)'
      BY <2>1, <2>2, AckSame DEF Moves, Becomes, BeforeRow
    <2> QED
      BY <1>0, <2>1, <2>3, AckFrame DEF Moves, Becomes
  <1> QED
    BY <1>1, <1>2, <1>3, <1>4, <1>5, <1>6, <1>7, <1>8, <1>9 DEF Step

\* A new request takes nothing back that was answered.
LEMMA AckRequest ==
    ASSUME RecordedInv, RecordedInv', ShellInv, AckTrail, NEW k \in Workers, Request(k)
    PROVE  AckTrail'
  <1>0. /\ TypeOK /\ TypeOK' /\ Considerate(k)
        /\ snap' = snap /\ disk' = disk
    BY RequestConsiderate
    DEF RecordedInv, Request, CreateSession, Kill, CreateWorkspace, KillWorkspace, UpdateLayout,
        RenameWorkspace
  <1>1. ASSUME NEW w \in WorkspaceIds, NEW s \in SessionIds, CreateSession(k, w, s)
        PROVE  AckTrail'
    <2>1. CASE \E a \in {"not_found", "internal"} :
                  Becomes(k, "reply", "create", w, Gone, {}, a, "none")
      BY <1>0, <2>1, AckNothing
    <2>2. CASE Becomes(k, "reserve", "create", w, s, {}, "none", "none")
      BY <1>0, <2>2, AckNothing
    <2> QED
      BY <1>0, <1>1, <2>1, <2>2, CreateSessionDoes
  <1>2. ASSUME NEW s \in SessionIds, Kill(k, s) PROVE AckTrail'
    <2>1. CASE Becomes(k, "reply", "kill", Gone, s, {}, "not_found", "none")
      BY <1>0, <2>1, AckNothing
    <2>2. CASE /\ rows[s] # Gone /\ RemoveRow(s)
               /\ Becomes(k, "killing", "kill", Gone, s, {s}, "none", "none")
      <3>1. rows'[s] = Gone /\ s \in minted'
        BY <1>0, <1>2, <2>2, RemoveRowRevs DEF Kill
      <3>2. \A l \in Workers : job'[l].pc \in BeforeRow => job'[l].id # s
        BY <2>2 DEF Becomes, RecordedInv, RowOfCreation, BeforeRow
      <3>3. /\ job'[k].pc = "killing" /\ job'[k].op = "kill" /\ job'[k].id = s
            /\ job'[k].write = "none"
        BY <2>2 DEF Becomes
      <3>4. InMemory(k)'
        BY <3>1, <3>2, <3>3 DEF InMemory
      <3> QED
        BY <1>0, <3>3, <3>4, AckFrame
    <2> QED
      BY <1>0, <1>2, <2>1, <2>2, KillDoes
  <1>3. ASSUME NEW w \in WorkspaceIds, NEW m \in Names, CreateWorkspace(k, w, m)
        PROVE  AckTrail'
    <2>1. /\ job'[k].pc = "opening" /\ job'[k].op = "create_workspace" /\ job'[k].ws = w
          /\ job'[k].write = "queued" /\ w \in minted'
      BY <1>0, <1>3, CreateWorkspaceDoes DEF Becomes, CreateWorkspace
    <2>2. InMemory(k)'
      BY <2>1 DEF InMemory
    <2> QED
      BY <1>0, <2>1, <2>2, AckFrame
  <1>4. ASSUME NEW w \in WorkspaceIds, KillWorkspace(k, w) PROVE AckTrail'
    <2>1. CASE Becomes(k, "reply", "kill_workspace", w, Gone, {}, "not_found", "none")
      BY <1>0, <2>1, AckNothing
    <2>2. CASE /\ workspaces' = [workspaces EXCEPT ![w] = Gone]
               /\ Becomes(k, "clearing", "kill_workspace", w, Gone, SessionsIn(w), "none", "none")
      <3>1. /\ job'[k].pc = "clearing" /\ job'[k].op = "kill_workspace" /\ job'[k].ws = w
            /\ job'[k].write = "none" /\ w \in minted' /\ workspaces'[w] = Gone
        BY <1>0, <1>4, <2>2 DEF Becomes, KillWorkspace, TypeOK
      <3>2. InMemory(k)'
        BY <3>1 DEF InMemory
      <3> QED
        BY <1>0, <3>1, <3>2, AckFrame
    <2> QED
      BY <1>0, <1>4, <2>1, <2>2, KillWorkspaceDoes
  <1>5. ASSUME NEW w \in WorkspaceIds, NEW doc \in SUBSET SessionIds, NEW rev \in 1..MaxRev,
               UpdateLayout(k, w, doc, rev)
        PROVE  AckTrail'
    <2>1. CASE \E a \in {"not_found", "stale_rev", "invalid_argument"} :
                  Becomes(k, "reply", "update_layout", w, Gone, {}, a, "none")
      BY <1>0, <2>1, AckNothing
    <2>2. CASE /\ Becomes(k, "layout", "update_layout", w, Gone, {}, "none", "queued")
               /\ job'[k].new \in Info
               /\ workspaces' = [workspaces EXCEPT ![w] = job'[k].new]
      <3>1. /\ job'[k].pc = "layout" /\ job'[k].op = "update_layout" /\ job'[k].ws = w
            /\ job'[k].write = "queued" /\ w \in minted' /\ workspaces'[w] = job'[k].new
            /\ job'[k].new.rev \in Nat
        BY <1>0, <1>5, <2>2 DEF Becomes, UpdateLayout, TypeOK, Info
      <3>2. \A l \in Workers : job[l].pc # "layout"
        BY <1>5, ConstantsAssumption DEF UpdateLayout, RecordedInv, LockHeld, ClassB
      <3>3. \A l \in Workers : l # k => job'[l].pc # "layout"
        BY <1>0, <3>2 DEF Considerate
      <3>4. InMemory(k)'
        BY <2>2, <3>1, <3>3 DEF InMemory
      <3> QED
        BY <1>0, <3>1, <3>4, AckFrame
    <2> QED
      BY <1>0, <1>5, <2>1, <2>2, UpdateLayoutDoes
  <1>6. ASSUME NEW w \in WorkspaceIds, NEW m \in Names, RenameWorkspace(k, w, m)
        PROVE  AckTrail'
    <2>1. CASE Becomes(k, "reply", "rename", w, Gone, {}, "not_found", "none")
      BY <1>0, <2>1, AckNothing
    <2>2. CASE Becomes(k, "rename", "rename", w, Gone, {}, "none", "queued")
      <3>1. /\ job'[k].pc = "rename" /\ job'[k].op = "rename" /\ job'[k].ws = w
            /\ job'[k].write = "queued" /\ w \in minted'
        BY <1>0, <1>6, <2>2 DEF Becomes, RenameWorkspace
      <3>2. InMemory(k)'
        BY <3>1 DEF InMemory
      <3> QED
        BY <1>0, <3>1, <3>2, AckFrame
    <2> QED
      BY <1>0, <1>6, <2>1, <2>2, RenameWorkspaceDoes
  <1> QED
    BY <1>1, <1>2, <1>3, <1>4, <1>5, <1>6 DEF Request

\* A daemon without a handler owes nobody anything.
LEMMA AckFresh ==
    ASSUME job = [k \in Workers |-> Idle]
    PROVE  AckInv /\ WritesCounted
  <1>1. \A k \in Workers : job[k].pc = "idle" /\ job[k].write = "none"
    BY IdleJob
  <1> QED
    BY <1>1 DEF AckInv, ServesOp, AckTrail, Applied, WritesCounted

\* AckInv holds at the start and over every step.
LEMMA AckInductive ==
    /\ Init => AckInv /\ WritesCounted
    /\ RecordedInv /\ RecordedInv' /\ ShellInv /\ AckInv /\ WritesCounted /\ [Next]_vars =>
          AckInv' /\ WritesCounted'
  <1>1. Init => AckInv /\ WritesCounted
    BY AckFresh DEF Init
  <1>2. ASSUME RecordedInv, RecordedInv', ShellInv, AckInv, WritesCounted, [Next]_vars
        PROVE  AckInv' /\ WritesCounted'
    <2>1. ASSUME NEW k \in Workers, Step(k) PROVE AckInv' /\ WritesCounted'
      BY <1>2, <2>1, AckStep, StepProceeds DEF AckInv
    <2>2. ASSUME NEW k \in Workers, Request(k) PROVE AckInv' /\ WritesCounted'
      BY <1>2, <2>2, AckRequest, RequestProceeds DEF AckInv
    <2>3. CASE Restart
      <3>1. \A k \in Workers : job'[k].pc = "idle" /\ job'[k].write = "none"
        BY <2>3, IdleJob DEF Restart
      <3> QED
        BY <3>1 DEF AckInv, ServesOp, AckTrail, Applied, WritesCounted
    <2>4. CASE UNCHANGED vars
      <3>1. ServesOp' /\ WritesCounted'
        BY <1>2, <2>4 DEF vars, AckInv, ServesOp, WritesCounted
      <3>2. Ledgers' = Ledgers
        BY <2>4 DEF vars, Ledgers
      <3>3. \A k \in Workers : (Applied(k)' <=> Applied(k)) /\ (InMemory(k)' <=> InMemory(k))
        BY <2>4 DEF vars, Applied, InMemory
      <3>4. \A k \in Workers : \A d : Says(k, d)' <=> Says(k, d)
        BY <2>4 DEF vars, Says
      <3> QED
        BY <1>2, <2>4, <3>1, <3>2, <3>3, <3>4 DEF vars, AckInv, AckTrail
    <2> QED
      BY <1>2, <2>1, <2>2, <2>3, <2>4 DEF Next
  <1> QED
    BY <1>1, <1>2

\* From a request's last change to the table on, the table, its snapshot and
\* every later one say it.
THEOREM AckInvariant == Spec => [](AckInv /\ WritesCounted)
  BY AckInductive, RecordedInvariant, ShellInvariant, PTL DEF Spec

\* Section 8.1: what was answered "ok" is in the ledger when the answer is
\* given, and no write of another handler takes it out again.
THEOREM AckRecorded == Spec => []AckedIsRecorded
  <1>1. AckInv /\ RecordedInv => AckedIsRecorded
    <2> SUFFICES ASSUME AckInv, RecordedInv, NEW k \in Workers,
                        job[k].pc = "reply", job[k].answer = "ok"
                 PROVE  LET j == job[k] IN
                        CASE j.op = "create" -> rows[j.id] = Gone \/ disk.sessions[j.id] = j.ws
                          [] j.op = "kill" -> disk.sessions[j.id] = Gone
                          [] j.op = "create_workspace" ->
                                workspaces[j.ws] = Gone \/ disk.workspaces[j.ws] # Gone
                          [] j.op = "kill_workspace" -> disk.workspaces[j.ws] = Gone
                          [] j.op = "update_layout" ->
                                workspaces[j.ws] = Gone \/ disk.workspaces[j.ws].rev >= j.new.rev
                          [] j.op = "rename" -> workspaces[j.ws] = Gone \/ disk.workspaces[j.ws] # Gone
      BY DEF AckedIsRecorded
    <2>1. Says(k, disk)
      BY DEF AckInv, AckTrail, Applied, Ledgers
    <2>2. job[k].op \in AllOps
      BY DEF AckInv, ServesOp, RecordedInv, TypeOK, Jobs
    <2> QED
      BY <2>1, <2>2 DEF Says, AllOps
  <1> QED
    BY <1>1, AckInvariant, RecordedInvariant, PTL

-----------------------------------------------------------------------------
(* LedgerInv: as long as no write fails, the ledger catches up.             *)

\* A handler that has a snapshot to take keeps the debt.
LEMMA LedgerOwed ==
    ASSUME NEW k \in Workers, NEW pc, NEW d, NEW a, NEW w,
           Moves(k, pc, d, a, w) \/ \E op, v, s : Becomes(k, pc, op, v, s, d, a, w),
           w = "queued" \/ pc \in {"release", "undoing", "killing", "clearing"}
    PROVE  CaughtUp'
  <1>1. Owes(k)'
    BY DEF Moves, Becomes, Owes
  <1> QED
    BY <1>1 DEF CaughtUp

\* A step that changes neither the table nor a ledger, of a handler that
\* neither owes nor writes.
LEMMA LedgerFrame ==
    ASSUME CaughtUp, NEW k \in Workers, NEW pc, NEW d, NEW a,
           Moves(k, pc, d, a, "none") \/ \E op, v, s : Becomes(k, pc, op, v, s, d, a, "none"),
           UNCHANGED <<rows, pending, workspaces, snap, disk>>,
           ~ Owes(k), job[k].write # "writing"
    PROVE  CaughtUp'
  <1>1. /\ \A l \in Workers : l # k => job'[l] = job[l]
        /\ job'[k].write = "none"
    BY DEF Moves, Becomes
  <1>2. \A l \in Workers : Owes(l) => Owes(l)'
    BY <1>1 DEF Owes
  <1>3. \A l \in Workers : job'[l].write = "writing" <=> job[l].write = "writing"
    BY <1>1
  <1>4. \A e : Current(e)' <=> e = Snapshot(rows, pending, workspaces)
    BY DEF Current, Snapshot
  <1> QED
    BY <1>2, <1>3, <1>4 DEF CaughtUp, Current

\* The snapshot is the table.
LEMMA LedgerTakeSnapshot ==
    ASSUME TypeOK, NEW k \in Workers, TakeSnapshot(k)
    PROVE  CaughtUp'
  <1>1. job'[k].write = "writing"
    BY TakeSnapshotDoes DEF Moves, Becomes
  <1>2. snap'[k] = Snapshot(rows, pending, workspaces)
    BY DEF TakeSnapshot, TypeOK
  <1>3. Current(snap[k])'
    BY <1>2 DEF Current, TakeSnapshot, table, Snapshot
  <1> QED
    BY <1>1, <1>3 DEF CaughtUp

\* The one snapshot that is being written becomes the ledger.
LEMMA LedgerSave ==
    ASSUME RecordedInv, WritesCounted, CaughtUp, NEW k \in Workers, Save(k, TRUE)
    PROVE  CaughtUp'
  <1>1. TypeOK /\ persisting = k /\ \A l \in Workers : job[l].write = "writing" => l = k
    BY OnlyWriter DEF RecordedInv, LockHeld, Save
  <1>2. /\ \A l \in Workers : l # k => job'[l] = job[l]
        /\ job'[k].write = "ok" /\ disk' = snap[k]
    BY <1>1, SaveDoes DEF Moves, Becomes, Save
  <1>3. ~ Owes(k)
    BY DEF WritesCounted, Owes, Save
  <1>4. \A l \in Workers : Owes(l) => Owes(l)'
    BY <1>2, <1>3 DEF Owes
  <1>5. \A l \in Workers : job'[l].write # "writing"
    BY <1>1, <1>2
  <1>6. Current(snap[k]) => Current(disk)'
    BY <1>2 DEF Current, Save, table, Snapshot
  <1>7. job[k].write = "writing"
    BY DEF Save
  <1> QED
    BY <1>1, <1>4, <1>5, <1>6, <1>7 DEF CaughtUp

\* A failed write is counted for good.
LEMMA FailuresCount ==
    ASSUME TypeOK, [Next]_vars, failures' = 0
    PROVE  failures = 0
  <1>1. failures' \in {failures, failures + 1}
    <2>1. ASSUME NEW k \in Workers, Step(k) PROVE failures' \in {failures, failures + 1}
      BY <2>1
      DEF Step, Reply, TakeSnapshot, Save, Reserve, Reserved, Spawn, Abandoned, RecordCreated,
          Release, CommitCreated, Undo, KillProcess, Undone, Killed, CommitWorkspace, Retract,
          KillDoomed, Cleared, LayoutWritten, RenameWritten, bounds
    <2>2. ASSUME NEW k \in Workers, Request(k) PROVE failures' = failures
      BY <2>2
      DEF Request, CreateSession, Kill, CreateWorkspace, KillWorkspace, UpdateLayout,
          RenameWorkspace, bounds
    <2>3. CASE Restart
      BY <2>3 DEF Restart
    <2> QED
      BY <2>1, <2>2, <2>3 DEF Next, vars
  <1> QED
    BY <1>1 DEF TypeOK

\* A handler's step keeps the ledger's debts while no write fails.
LEMMA LedgerStep ==
    ASSUME RecordedInv, WritesCounted, CaughtUp, failures = 0, failures' = 0,
           NEW k \in Workers, Step(k)
    PROVE  CaughtUp'
  <1>0. TypeOK /\ job[k].write # "failed"
    BY DEF RecordedInv, WritesCounted, TypeOK
  <1>1. CASE TakeSnapshot(k)
    BY <1>0, <1>1, LedgerTakeSnapshot
  <1>2. CASE \E ok \in BOOLEAN : Save(k, ok)
    <2>1. PICK ok \in BOOLEAN : Save(k, ok)
      BY <1>2
    <2>2. ok
      BY <2>1 DEF Save
    <2>3. Save(k, TRUE)
      BY <2>1, <2>2
    <2> QED
      BY <2>3, LedgerSave
  <1>3. CASE \/ Reserve(k) \/ RecordCreated(k) \/ Release(k) \/ KillProcess(k) \/ KillDoomed(k)
             \/ Spawn(k, TRUE, FALSE) \/ Spawn(k, FALSE, FALSE)
    BY <1>0, <1>3, CreateMoves, KillMoves, LedgerOwed
  <1>4. CASE \/ Reply(k) \/ Reserved(k) \/ Abandoned(k) \/ Undone(k) \/ Killed(k) \/ Cleared(k)
             \/ Retract(k) \/ CommitCreated(k) \/ Spawn(k, TRUE, TRUE)
    <2>1. /\ UNCHANGED <<rows, pending, workspaces, snap, disk>>
      BY <1>0, <1>4
      DEF Reply, Reserved, Abandoned, Undone, Killed, Cleared, Retract, CommitCreated, Spawn, table
    <2>2. job[k].pc \in {"reply", "reserving", "abandon", "undone", "killed", "cleared",
                         "retract", "commit", "spawn"}
      BY <1>4
      DEF Reply, Reserved, Abandoned, Undone, Killed, Cleared, Retract, CommitCreated, Spawn, At
    <2>3. job[k].pc \in {"reply", "retract", "spawn"} \/ job[k].write = "ok"
      BY <1>0, <1>4
      DEF Reply, Reserved, Abandoned, Undone, Killed, Cleared, Retract, CommitCreated, Spawn, At,
          Returned
    <2>4. ~ Owes(k) /\ job[k].write # "writing"
      BY <2>2, <2>3 DEF Owes, WritesCounted
    <2>5. \/ \E op, v, s, a : Becomes(k, "idle", op, v, s, {}, a, "none")
          \/ \E pc, d, a : Moves(k, pc, d, a, "none")
      BY <1>0, <1>4, ReplyDoes, CreateMoves, KillMoves, RetractDoes, CommitCreatedDoes
    <2> QED
      BY <2>1, <2>4, <2>5, LedgerFrame
  <1>5. CASE CommitWorkspace(k)
    <2>1. /\ UNCHANGED <<rows, pending, workspaces, snap, disk>>
          /\ job[k].pc = "opening" /\ job[k].write = "ok"
          /\ \E a : Moves(k, "reply", {}, a, "none")
      BY <1>0, <1>5, CommitWorkspaceDoes DEF CommitWorkspace, At
    <2> QED
      BY <2>1, LedgerFrame DEF Owes
  <1>6. CASE LayoutWritten(k) \/ RenameWritten(k)
    <2>1. job[k].ws \in WorkspaceIds /\ job[k].old \in Info
      BY <1>6 DEF RecordedInv, JobShape, LayoutWritten, RenameWritten, At
    <2>2. /\ UNCHANGED <<rows, pending, workspaces, snap, disk>>
          /\ job[k].pc \in {"layout", "rename"} /\ job[k].write = "ok"
          /\ \E a : Moves(k, "reply", {}, a, "none")
      BY <1>0, <1>6, <2>1, LayoutWrittenDoes, RenameWrittenDoes DEF LayoutWritten, RenameWritten, At
    <2> QED
      BY <2>2, LedgerFrame DEF Owes
  <1>7. CASE Undo(k)
    <2>1. job[k].id \in SessionIds /\ job[k].pc = "undo" /\ job[k].write = "none"
      BY <1>7 DEF Undo, At, RecordedInv, JobShape, Creation, AfterRow, WritesCounted
    <2>2. CASE Moves(k, "undoing", {job[k].id}, job[k].answer, "none")
      BY <2>2, LedgerOwed
    <2>3. CASE /\ UNCHANGED <<rows, workspaces>>
               /\ Moves(k, "reply", {}, job[k].answer, "none")
      BY <1>7, <2>1, <2>3, LedgerFrame DEF Owes, Undo
    <2> QED
      BY <1>0, <1>7, <2>1, <2>2, <2>3, UndoDoes
  <1> QED
    BY <1>1, <1>2, <1>3, <1>4, <1>5, <1>6, <1>7 DEF Step, Spawn

\* So does a new request.
LEMMA LedgerRequest ==
    ASSUME RecordedInv, WritesCounted, CaughtUp, NEW k \in Workers, Request(k)
    PROVE  CaughtUp'
  <1>0. /\ TypeOK /\ job[k].pc = "idle" /\ snap' = snap /\ disk' = disk
        /\ ~ Owes(k) /\ job[k].write # "writing"
    BY DEF RecordedInv, Request, CreateSession, Kill, CreateWorkspace, KillWorkspace, UpdateLayout,
           RenameWorkspace, At, WritesCounted, Owes
  <1>r. ASSUME NEW op, NEW v, NEW s, NEW a, Becomes(k, "reply", op, v, s, {}, a, "none"),
               UNCHANGED <<rows, pending, workspaces>>
        PROVE  CaughtUp'
    BY <1>0, <1>r, LedgerFrame
  <1>o. ASSUME NEW pc, NEW op, NEW v, NEW s, NEW d, NEW a, NEW w,
               Becomes(k, pc, op, v, s, d, a, w),
               w = "queued" \/ pc \in {"killing", "clearing"}
        PROVE  CaughtUp'
    BY <1>o, LedgerOwed
  <1>1. ASSUME NEW w \in WorkspaceIds, NEW s \in SessionIds, CreateSession(k, w, s)
        PROVE  CaughtUp'
    <2>1. UNCHANGED <<rows, pending, workspaces>>
      BY <1>1 DEF CreateSession, table
    <2>2. CASE Becomes(k, "reserve", "create", w, s, {}, "none", "none")
      BY <1>0, <2>1, <2>2, LedgerFrame
    <2> QED
      BY <1>0, <1>1, <1>r, <2>1, <2>2, CreateSessionDoes
  <1>2. ASSUME NEW s \in SessionIds, Kill(k, s) PROVE CaughtUp'
    BY <1>0, <1>2, <1>r, <1>o, KillDoes DEF Kill
  <1>3. ASSUME NEW w \in WorkspaceIds, NEW m \in Names, CreateWorkspace(k, w, m)
        PROVE  CaughtUp'
    BY <1>0, <1>3, <1>o, CreateWorkspaceDoes
  <1>4. ASSUME NEW w \in WorkspaceIds, KillWorkspace(k, w) PROVE CaughtUp'
    BY <1>0, <1>4, <1>r, <1>o, KillWorkspaceDoes DEF table
  <1>5. ASSUME NEW w \in WorkspaceIds, NEW doc \in SUBSET SessionIds, NEW rev \in 1..MaxRev,
               UpdateLayout(k, w, doc, rev)
        PROVE  CaughtUp'
    BY <1>0, <1>5, <1>r, <1>o, UpdateLayoutDoes DEF UpdateLayout
  <1>6. ASSUME NEW w \in WorkspaceIds, NEW m \in Names, RenameWorkspace(k, w, m)
        PROVE  CaughtUp'
    BY <1>0, <1>6, <1>r, <1>o, RenameWorkspaceDoes DEF RenameWorkspace
  <1> QED
    BY <1>1, <1>2, <1>3, <1>4, <1>5, <1>6 DEF Request

\* load leaves the ledger of the table it built, unless its write failed.
LEMMA LoadedCurrent ==
    ASSUME NEW d \in Ledger, NEW used, NEW t \in Loaded(d, used)
    PROVE  Rewritten(d, t, TRUE) = Snapshot(t.rows, NoPending, t.workspaces)
  <1>1. CASE Rewrites(d, t)
    BY <1>1 DEF Rewritten, NoPending
  <1>2. CASE ~ Rewrites(d, t)
    <2>1. /\ \A s \in SessionIds : d.sessions[s] = Gone
          /\ t.workspaces = d.workspaces
      BY <1>2 DEF Rewrites, Recorded
    <2>2. \E home : t.rows = LoadedRows(d, home)
      BY DEF Loaded
    <2>3. \A s \in SessionIds : t.rows[s] = Gone
      BY <2>1, <2>2 DEF LoadedRows, Recorded
    <2> DEFINE e == Snapshot(t.rows, NoPending, t.workspaces)
    <2>4. /\ e.sessions = [s \in SessionIds |-> Gone]
          /\ e.workspaces = d.workspaces
      BY <2>1, <2>3 DEF Snapshot, NoPending
    <2>5. d.sessions = [s \in SessionIds |-> Gone]
      BY <2>1 DEF Ledger
    <2>6. d = [sessions |-> d.sessions, workspaces |-> d.workspaces]
      BY DEF Ledger
    <2>7. e = [sessions |-> e.sessions, workspaces |-> e.workspaces]
      BY DEF Snapshot
    <2>8. Rewritten(d, t, TRUE) = d
      BY <1>2 DEF Rewritten
    <2> QED
      BY <2>4, <2>5, <2>6, <2>7, <2>8
  <1> QED
    BY <1>1, <1>2

\* LedgerInv holds at the start and over every step.
LEMMA LedgerInductive ==
    /\ Init => (failures = 0 => CaughtUp)
    /\ RecordedInv /\ WritesCounted /\ (failures = 0 => CaughtUp) /\ [Next]_vars =>
          (failures' = 0 => CaughtUp')
  <1>1. ASSUME Init, failures = 0 PROVE CaughtUp
    <2>1. PICK d \in InitialLedgers, ok \in BOOLEAN : \E t \in Loaded(d, {}) :
             /\ rows = t.rows /\ workspaces = t.workspaces /\ disk = Rewritten(d, t, ok)
             /\ failures = IF ok THEN 0 ELSE 1
      BY <1>1 DEF Init
    <2>2. PICK t \in Loaded(d, {}) :
             /\ rows = t.rows /\ workspaces = t.workspaces /\ disk = Rewritten(d, t, ok)
             /\ failures = IF ok THEN 0 ELSE 1
      BY <2>1
    <2>3. disk = Rewritten(d, t, TRUE)
      <3>1. ok
        BY <1>1, <2>2
      <3> QED
        BY <2>2, <3>1 DEF Rewritten
    <2>4. Current(disk)
      <3>1. Rewritten(d, t, TRUE) = Snapshot(t.rows, NoPending, t.workspaces)
        BY LoadedCurrent, ConstantsAssumption
      <3>2. pending = NoPending
        BY <1>1 DEF Init
      <3> QED
        BY <2>2, <2>3, <3>1, <3>2 DEF Current
    <2>5. \A k \in Workers : job[k].write = "none"
      BY <1>1, IdleJob DEF Init
    <2> QED
      BY <2>4, <2>5 DEF CaughtUp
  <1>2. ASSUME RecordedInv, WritesCounted, failures = 0 => CaughtUp, [Next]_vars, failures' = 0
        PROVE  CaughtUp'
    <2>0. failures = 0 /\ CaughtUp /\ TypeOK
      BY <1>2, FailuresCount DEF RecordedInv
    <2>1. ASSUME NEW k \in Workers, Step(k) PROVE CaughtUp'
      BY <1>2, <2>0, <2>1, LedgerStep
    <2>2. ASSUME NEW k \in Workers, Request(k) PROVE CaughtUp'
      BY <1>2, <2>0, <2>2, LedgerRequest
    <2>3. CASE Restart
      <3>1. PICK t \in Loaded(disk, minted), ok \in BOOLEAN :
               /\ rows' = t.rows /\ workspaces' = t.workspaces /\ disk' = Rewritten(disk, t, ok)
               /\ failures' = IF ok THEN failures ELSE failures + 1
        BY <2>3 DEF Restart
      <3>2. disk' = Rewritten(disk, t, TRUE)
        <4>1. ok
          BY <1>2, <2>0, <3>1
        <4> QED
          BY <3>1, <4>1 DEF Rewritten
      <3>3. Rewritten(disk, t, TRUE) = Snapshot(t.rows, NoPending, t.workspaces)
        BY <2>0, LoadedCurrent DEF TypeOK
      <3>4. Current(disk)'
        <4>1. pending' = NoPending
          BY <2>3 DEF Restart
        <4>2. disk' = Snapshot(rows', pending', workspaces')
          BY <3>1, <3>2, <3>3, <4>1
        <4> QED
          BY <4>2 DEF Current, Snapshot
      <3>5. \A k \in Workers : job'[k].write = "none"
        BY <2>3, IdleJob DEF Restart
      <3> QED
        BY <3>4, <3>5 DEF CaughtUp
    <2>4. CASE UNCHANGED vars
      BY <2>0, <2>4 DEF vars, CaughtUp, Owes, Current, Snapshot
    <2> QED
      BY <1>2, <2>1, <2>2, <2>3, <2>4 DEF Next
  <1> QED
    BY <1>1, <1>2

\* Whoever leaves the ledger behind the table has a snapshot to take.
THEOREM LedgerInvariant == Spec => []LedgerInv
  <1>1. Init /\ WritesCounted => LedgerInv
    BY LedgerInductive DEF LedgerInv
  <1>2. RecordedInv /\ WritesCounted' /\ LedgerInv /\ [Next]_vars => LedgerInv'
    BY LedgerInductive DEF LedgerInv
  <1> QED
    BY <1>1, <1>2, AckInvariant, RecordedInvariant, PTL DEF Spec

\* persisting: with no write failed, sessions.json is the table whenever no
\* handler is half way, whatever order the writers came in.
THEOREM LedgerMatches == Spec => []LedgerIsTable
  <1>1. LedgerInv => LedgerIsTable
    <2> SUFFICES ASSUME LedgerInv, Quiet, failures = 0 PROVE Current(disk)
      BY DEF LedgerIsTable, Current
    <2>1. \A k \in Workers : job[k].pc \in {"idle", "reply"} /\ job[k].write = "none"
      BY DEF LedgerInv, WritesCounted, Quiet
    <2> QED
      BY <2>1 DEF LedgerInv, CaughtUp, Owes
  <1> QED
    BY <1>1, LedgerInvariant, PTL

-----------------------------------------------------------------------------
(* One worker: the table as the daemon's default executor serves it.        *)

-----------------------------------------------------------------------------
(* What a frame of the event hub adds to a picture.                         *)

\* A workspace record is its three fields.
LEMMA InfoEqual ==
    ASSUME NEW i \in Info, NEW o \in Info,
           i.layout = o.layout, i.rev = o.rev, i.name = o.name
    PROVE  i = o
  BY DEF Info

\* A newer layout under the same name is taken as it is.
LEMMA ShowLayoutIs ==
    ASSUME NEW w \in WorkspaceIds, NEW i \in Info, shown[w] \in Info,
           i.rev > shown[w].rev, i.name = shown[w].name
    PROVE  ShowLayout(w, i) = [shown EXCEPT ![w] = i]
  <1> DEFINE was == shown[w]
             e == [was EXCEPT !.layout = i.layout, !.rev = i.rev]
  <1>1. i.layout \in SUBSET SessionIds /\ i.rev \in Nat
    BY DEF Info
  <1>2. was \in Info /\ i.name = was.name
    OBVIOUS
  <1> HIDE DEF was
  <1>3. e \in Info /\ e.layout = i.layout /\ e.rev = i.rev /\ e.name = was.name
    BY <1>1, <1>2 DEF Info
  <1>4. e = i
    BY <1>2, <1>3, InfoEqual
  <1>5. Newest(shown[w], i) = e
    BY DEF Newest, was
  <1>6. shown[w] # Gone
    BY ConstantsAssumption
  <1> QED
    BY <1>4, <1>5, <1>6 DEF ShowLayout

\* A workspace that is new, or known with the same layout, is taken as it is.
LEMMA ShowWorkspaceIs ==
    ASSUME NEW w \in WorkspaceIds, NEW i \in Info,
           \/ shown[w] = Gone
           \/ shown[w] \in Info /\ i.rev = shown[w].rev /\ i.layout = shown[w].layout
    PROVE  ShowWorkspace(w, i) = [shown EXCEPT ![w] = i]
  <1>1. CASE shown[w] = Gone
    BY <1>1 DEF ShowWorkspace
  <1>2. CASE shown[w] \in Info /\ i.rev = shown[w].rev /\ i.layout = shown[w].layout
    <2> DEFINE was == shown[w]
               e == [was EXCEPT !.name = i.name]
    <2>1. i.name \in Names /\ was \in Info /\ i.layout = was.layout /\ i.rev = was.rev
      BY <1>2 DEF Info
    <2>2. shown[w] # Gone /\ ~ (i.rev > shown[w].rev)
      BY <1>2, ConstantsAssumption DEF Info
    <2>3. ShowWorkspace(w, i) = [shown EXCEPT ![w] = e]
      BY <2>2 DEF ShowWorkspace, Newest
    <2> HIDE DEF was
    <2>4. e \in Info /\ e.layout = was.layout /\ e.rev = was.rev /\ e.name = i.name
      BY <2>1 DEF Info
    <2>5. e = i
      BY <2>1, <2>4, InfoEqual
    <2> QED
      BY <2>3, <2>5
  <1> QED
    BY <1>1, <1>2

-----------------------------------------------------------------------------
(* Loading a ledger.                                                        *)

\* load gives every row a workspace and leaves no tab without a row of its
\* workspace.
LEMMA LoadedHomed ==
    ASSUME NEW d \in Ledger, NEW used, NEW t \in Loaded(d, used)
    PROVE  /\ \A s \in SessionIds : t.rows[s] # Gone =>
                 t.rows[s].home \in WorkspaceIds /\ t.workspaces[t.rows[s].home] # Gone
           /\ \A w \in WorkspaceIds : t.workspaces[w] # Gone =>
                 t.workspaces[w].layout \subseteq
                    {s \in SessionIds : t.rows[s] # Gone /\ t.rows[s].home = w}
  <1>1. PICK wrap \in Wrappings(d, used) :
           \E first \in FirstTabs(d, HomeOf(d, wrap)), n \in Names :
              t = [rows       |-> LoadedRows(d, HomeOf(d, wrap)),
                   workspaces |-> LoadedWorkspaces(d, HomeOf(d, wrap), first, n)]
    BY DEF Loaded
  <1> DEFINE home == HomeOf(d, wrap)
  <1>2. PICK first \in FirstTabs(d, home), n \in Names :
           t = [rows       |-> LoadedRows(d, home),
                workspaces |-> LoadedWorkspaces(d, home, first, n)]
    BY <1>1
  <1>3. \A s \in Recorded(d) : home[s] \in WorkspaceIds
    BY DEF HomeOf, Recorded, Wrappings, Ledger
  <1>4. t.workspaces \in [WorkspaceIds -> Info \cup {Gone}]
    BY LoadedTyped
  <1> HIDE DEF home
  <1>5. /\ t.rows = LoadedRows(d, home)
        /\ t.workspaces = LoadedWorkspaces(d, home, first, n)
    BY <1>2
  <1>6. \A s \in SessionIds :
           /\ t.rows[s] # Gone => s \in Recorded(d) /\ t.rows[s].home = home[s]
           /\ s \in Recorded(d) => t.rows[s] # Gone /\ t.rows[s].home = home[s]
    <2>1. \A s \in Recorded(d) : [home |-> home[s], lost |-> TRUE] \in Row
      BY <1>3 DEF Row
    <2> QED
      BY <1>5, <2>1, ConstantsAssumption DEF LoadedRows
  <1>7. ASSUME NEW w \in Adopted(d, home)
        PROVE  /\ t.workspaces[w] # Gone
               /\ t.workspaces[w].layout = {first[w]}
               /\ first[w] \in Recorded(d) /\ home[first[w]] = w
    <2> DEFINE e == [layout |-> {first[w]}, rev |-> 1, name |-> n]
    <2>1. first[w] \in Recorded(d) /\ home[first[w]] = w
      BY DEF FirstTabs
    <2>2. e \in Info /\ e.layout = {first[w]}
      BY <2>1 DEF Info, Recorded
    <2>3. t.workspaces[w] = e
      BY <1>5 DEF LoadedWorkspaces, Adopted
    <2> HIDE DEF e
    <2> QED
      BY <2>1, <2>2, <2>3, ConstantsAssumption
  <1>8. ASSUME NEW w \in WorkspaceIds, w \notin Adopted(d, home)
        PROVE  /\ d.workspaces[w] = Gone => t.workspaces[w] = Gone
               /\ d.workspaces[w] # Gone =>
                     /\ t.workspaces[w] # Gone
                     /\ \A s \in t.workspaces[w].layout : s \in Recorded(d) /\ home[s] = w
    <2>1. CASE d.workspaces[w] = Gone
      BY <1>5, <1>8, <2>1 DEF LoadedWorkspaces
    <2>2. CASE d.workspaces[w] # Gone
      <3> DEFINE kept == {s \in d.workspaces[w].layout : s \in Recorded(d) /\ home[s] = w}
      <3>1. PICK i \in Info : i = d.workspaces[w]
        BY <2>2 DEF Ledger
      <3>2. kept \in SUBSET SessionIds
        BY DEF Recorded
      <3>3. t.workspaces[w] = [i EXCEPT !.layout = kept]
        BY <1>5, <1>8, <2>2, <3>1 DEF LoadedWorkspaces
      <3>4. \A s \in kept : s \in Recorded(d) /\ home[s] = w
        OBVIOUS
      <3> HIDE DEF kept
      <3>5. [i EXCEPT !.layout = kept] \in Info /\ [i EXCEPT !.layout = kept].layout = kept
        BY <3>2 DEF Info
      <3> QED
        BY <2>2, <3>3, <3>4, <3>5, ConstantsAssumption
    <2> QED
      BY <2>1, <2>2
  <1>9. \A s \in Recorded(d) : s \in SessionIds
    BY DEF Recorded
  <1>10. ASSUME NEW s \in Recorded(d) PROVE t.workspaces[home[s]] # Gone
    BY <1>3, <1>7, <1>8, <1>10 DEF Adopted
  <1> QED
    BY <1>3, <1>6, <1>7, <1>8, <1>9, <1>10

-----------------------------------------------------------------------------
(* The one handler.                                                         *)

\* What SerialInv says of a table whose one worker is k.
SerialAt(k) == Homed /\ LayoutsNameOwnSessions /\ Pictured(k) /\ Undisturbed(k)

\* The handler goes by the table and has told all it did.
Plain == {"idle", "undoing", "undone", "killing", "killed", "clearing", "cleared", "reply"}

\* A picture that is the table again.
LEMMA SerialPlain ==
    ASSUME NEW k \in Workers, job'[k].pc \in Plain, Homed', LayoutsNameOwnSessions',
           announced' = Live', \A w \in WorkspaceIds : shown'[w] = workspaces'[w]
    PROVE  SerialAt(k)'
  <1>1. job'[k].pc \notin AfterRow \cup BeforeRow \cup Untold
    BY DEF Plain, AfterRow, BeforeRow, Untold
  <1>2. Pictured(k)'
    BY <1>1 DEF Pictured
  <1>3. Undisturbed(k)'
    BY <1>1 DEF Undisturbed, Untold, AfterRow, Plain
  <1> QED
    BY <1>2, <1>3 DEF SerialAt

\* A step that leaves the table and its picture alone.
LEMMA SerialFrame ==
    ASSUME NEW k \in Workers, SerialAt(k),
           UNCHANGED <<rows, workspaces, announced, shown>>, minted \subseteq minted',
           \/ /\ job'[k].pc = job[k].pc /\ job'[k].id = job[k].id /\ job'[k].ws = job[k].ws
              /\ job'[k].new = job[k].new /\ job'[k].old = job[k].old
           \/ /\ job[k].pc \in Plain \cup BeforeRow /\ job'[k].pc \in Plain
           \/ /\ job[k].pc \in Plain \cup BeforeRow /\ job'[k].pc \in BeforeRow
              /\ workspaces[job'[k].ws] # Gone
           \/ /\ job[k].pc \in AfterRow /\ job'[k].pc = "undo" /\ job'[k].id = job[k].id
           \/ /\ job[k].pc = "release" /\ job'[k].pc = "commit"
              /\ job'[k].id = job[k].id /\ job'[k].ws = job[k].ws
    PROVE  SerialAt(k)'
  <1>1. Homed' /\ LayoutsNameOwnSessions' /\ Live' = Live
        /\ \A w : SessionsIn(w)' = SessionsIn(w)
    BY DEF SerialAt, Homed, LayoutsNameOwnSessions, SessionsIn, Live
  <1>2. Pictured(k) /\ Undisturbed(k)
    BY DEF SerialAt
  <1>3. CASE /\ job'[k].pc = job[k].pc /\ job'[k].id = job[k].id /\ job'[k].ws = job[k].ws
             /\ job'[k].new = job[k].new /\ job'[k].old = job[k].old
    <2>1. Pictured(k)'
      BY <1>1, <1>2, <1>3 DEF Pictured
    <2>2. Undisturbed(k)'
      BY <1>1, <1>2, <1>3 DEF Undisturbed
    <2> QED
      BY <1>1, <2>1, <2>2 DEF SerialAt
  <1>4. CASE job[k].pc \in Plain \cup BeforeRow /\ job'[k].pc \in Plain
    <2>1. announced = Live /\ \A w \in WorkspaceIds : shown[w] = workspaces[w]
      BY <1>2, <1>4 DEF Pictured, Plain, BeforeRow, AfterRow, Untold
    <2> QED
      BY <1>1, <1>4, <2>1, SerialPlain
  <1>5. CASE /\ job[k].pc \in Plain \cup BeforeRow /\ job'[k].pc \in BeforeRow
             /\ workspaces[job'[k].ws] # Gone
    <2>1. Pictured(k)'
      BY <1>1, <1>2, <1>5 DEF Pictured, Plain, BeforeRow, AfterRow, Untold
    <2>2. Undisturbed(k)'
      BY <1>1, <1>2, <1>5 DEF Undisturbed, Plain, BeforeRow, AfterRow
    <2> QED
      BY <1>1, <2>1, <2>2 DEF SerialAt
  <1>6. CASE /\ job[k].pc \in AfterRow /\ job'[k].pc = "undo" /\ job'[k].id = job[k].id
    <2>1. Pictured(k)'
      BY <1>1, <1>2, <1>6 DEF Pictured, AfterRow, Untold
    <2>2. Undisturbed(k)'
      BY <1>1, <1>2, <1>6 DEF Undisturbed, BeforeRow, AfterRow
    <2> QED
      BY <1>1, <2>1, <2>2 DEF SerialAt
  <1>7. CASE /\ job[k].pc = "release" /\ job'[k].pc = "commit"
             /\ job'[k].id = job[k].id /\ job'[k].ws = job[k].ws
    <2>1. Pictured(k)'
      BY <1>1, <1>2, <1>7 DEF Pictured, AfterRow, Untold
    <2>2. Undisturbed(k)'
      BY <1>1, <1>2, <1>7 DEF Undisturbed, BeforeRow, AfterRow
    <2> QED
      BY <1>1, <2>1, <2>2 DEF SerialAt
  <1> QED
    BY <1>3, <1>4, <1>5, <1>6, <1>7

\* remove_session: the row goes from the table, from its workspace's layout
\* and from the picture of both.
LEMMA SerialRemoves ==
    ASSUME TypeOK, Homed, LayoutsNameOwnSessions,
           \A w \in WorkspaceIds : shown[w] = workspaces[w],
           NEW s \in SessionIds, rows[s] # Gone, RemoveRow(s), minted' = minted,
           announced \cup {s} = Live \cup {s}
    PROVE  /\ Homed' /\ LayoutsNameOwnSessions' /\ announced' = Live'
           /\ \A w \in WorkspaceIds : shown'[w] = workspaces'[w]
  <1>1. \A t \in SessionIds : rows'[t] = IF t = s THEN Gone ELSE rows[t]
    BY RemoveRowRevs
  <1>2. \A w \in WorkspaceIds :
           \/ workspaces'[w] = workspaces[w]
           \/ /\ w = rows[s].home /\ workspaces[w] # Gone
              /\ s \in workspaces[w].layout
              /\ workspaces'[w] = Scrubbed(w, s)
              /\ workspaces'[w] \in Info
              /\ workspaces'[w].layout = workspaces[w].layout \ {s}
              /\ workspaces'[w].rev = workspaces[w].rev + 1
              /\ workspaces'[w].name = workspaces[w].name
    BY RemoveRowRevs
  <1>3. \A w \in WorkspaceIds : workspaces'[w] # Gone <=> workspaces[w] # Gone
    BY <1>2, ConstantsAssumption
  <1>4. \A t \in SessionIds : rows[t] # Gone => rows[t].home \in WorkspaceIds
    BY DEF TypeOK, Row
  <1>5. Homed'
    BY <1>1, <1>3, <1>4 DEF Homed
  <1>6. announced' = Live'
    BY <1>1 DEF RemoveRow, Live
  <1>7. \A w \in WorkspaceIds : SessionsIn(w)' = SessionsIn(w) \ {s}
    BY <1>1 DEF SessionsIn
  <1>8. LayoutsNameOwnSessions'
    <2> SUFFICES ASSUME NEW w \in WorkspaceIds, workspaces'[w] # Gone
                 PROVE  workspaces'[w].layout \subseteq SessionsIn(w)'
      BY DEF LayoutsNameOwnSessions
    <2>1. workspaces[w].layout \subseteq SessionsIn(w)
      BY <1>3 DEF LayoutsNameOwnSessions
    <2>2. CASE workspaces'[w].layout = workspaces[w].layout \ {s}
      BY <1>7, <2>1, <2>2
    <2>3. CASE workspaces'[w] = workspaces[w] /\ s \notin workspaces[w].layout
      BY <1>7, <2>1, <2>3
    <2>4. CASE workspaces'[w] = workspaces[w] /\ s \in workspaces[w].layout
      <3>1. w = rows[s].home
        BY <2>1, <2>4 DEF SessionsIn
      <3>2. workspaces'[w] = Scrubbed(w, s)
        BY <1>3, <2>4, <3>1 DEF RemoveRow, TypeOK
      <3>3. Scrubbed(w, s).layout = workspaces[w].layout \ {s}
        <4>1. PICK i \in Info : i = workspaces[w]
          BY <1>3 DEF TypeOK
        <4>2. i.layout \ {s} \in SUBSET SessionIds /\ i.rev + 1 \in Nat
          BY DEF Info
        <4>3. [i EXCEPT !.layout = i.layout \ {s}, !.rev = i.rev + 1].layout = i.layout \ {s}
          BY <4>2 DEF Info
        <4> QED
          BY <4>1, <4>3 DEF Scrubbed
      <3> QED
        BY <2>2, <3>2, <3>3
    <2> QED
      BY <1>2, <2>2, <2>3, <2>4
  <1>9. ASSUME NEW w \in WorkspaceIds PROVE shown'[w] = workspaces'[w]
    <2> DEFINE h == rows[s].home
               tab == workspaces[h] # Gone /\ s \in workspaces[h].layout
    <2>1. h \in WorkspaceIds
      BY <1>4
    <2>2. CASE ~ tab
      BY <2>2 DEF RemoveRow
    <2>3. CASE tab
      <3>1. /\ workspaces' = [workspaces EXCEPT ![h] = Scrubbed(h, s)]
            /\ shown' = ShowLayout(h, Scrubbed(h, s))
        BY <2>3 DEF RemoveRow
      <3>2. workspaces'[h] = Scrubbed(h, s)
        BY <2>1, <3>1 DEF TypeOK
      <3>3. workspaces[h] \in Info /\ workspaces[h].rev \in Nat
        BY <2>1, <2>3 DEF TypeOK, Info
      <3>4. Scrubbed(h, s) # workspaces[h] =>
            /\ Scrubbed(h, s) \in Info /\ Scrubbed(h, s).rev = workspaces[h].rev + 1
            /\ Scrubbed(h, s).name = workspaces[h].name
        BY <1>2, <2>1, <3>2
      <3>5. Scrubbed(h, s) # workspaces[h]
        <4>1. PICK i \in Info : i = workspaces[h]
          BY <3>3
        <4>2. i.layout \ {s} \in SUBSET SessionIds /\ i.rev + 1 \in Nat
          BY DEF Info
        <4>3. [i EXCEPT !.layout = i.layout \ {s}, !.rev = i.rev + 1].rev = i.rev + 1
          BY <4>2 DEF Info
        <4>4. Scrubbed(h, s) = [i EXCEPT !.layout = i.layout \ {s}, !.rev = i.rev + 1]
          BY <4>1 DEF Scrubbed
        <4>5. Scrubbed(h, s).rev = i.rev + 1
          BY <4>3, <4>4, Zenon
        <4>6. i.rev + 1 # i.rev
          BY DEF Info
        <4> QED
          BY <4>1, <4>5, <4>6, Zenon
      <3>6. shown[h] = workspaces[h]
        BY <2>1
      <3>7. ShowLayout(h, Scrubbed(h, s)) = [shown EXCEPT ![h] = Scrubbed(h, s)]
        <4>1. PICK n \in Info : n = Scrubbed(h, s)
          BY <3>4, <3>5
        <4>2. n.rev > shown[h].rev /\ n.name = shown[h].name /\ shown[h] \in Info
          BY <3>3, <3>4, <3>5, <3>6, <4>1
        <4>3. ShowLayout(h, n) = [shown EXCEPT ![h] = n]
          BY <2>1, <4>2, ShowLayoutIs
        <4> QED
          BY <4>1, <4>3
      <3> QED
        BY <2>1, <3>1, <3>7 DEF TypeOK
    <2> QED
      BY <2>2, <2>3
  <1> QED
    BY <1>5, <1>6, <1>8, <1>9

\* The steps of a create.
LEMMA SerialCreates ==
    ASSUME RecordedInv, RecordedInv', NEW k \in Workers, SerialAt(k),
           \/ Reserve(k) \/ Reserved(k) \/ Abandoned(k) \/ RecordCreated(k) \/ Release(k)
           \/ CommitCreated(k) \/ Undo(k) \/ Undone(k)
           \/ \E spawned, handles \in BOOLEAN : Spawn(k, spawned, handles)
    PROVE  SerialAt(k)'
  <1>0. /\ TypeOK /\ Homed /\ LayoutsNameOwnSessions /\ Pictured(k) /\ Undisturbed(k)
        /\ minted' = minted
    BY DEF RecordedInv, SerialAt, Reserve, Reserved, Abandoned, RecordCreated, Release, CommitCreated,
           Undo, Undone, Spawn
  <1>1. CASE \/ Reserve(k) \/ Reserved(k) \/ \E spawned, handles \in BOOLEAN : Spawn(k, spawned, handles)
             \/ Abandoned(k) \/ Undone(k)
    <2>1. /\ UNCHANGED <<rows, workspaces, announced, shown>>
          /\ job[k].pc \in {"reserve", "reserving", "spawn", "abandon", "undone"}
      BY <1>1 DEF Reserve, Reserved, Abandoned, Undone, Spawn, table, events, At
    <2>2. /\ job'[k].pc \in {"reserving", "spawn", "record", "abandon", "reply"}
          /\ job'[k].ws = job[k].ws
          /\ job[k].pc = "undone" => job'[k].pc = "reply"
      <3>1. CASE Undone(k)
        BY <1>0, <3>1, CreateMoves DEF Moves, Becomes
      <3>2. CASE ~ Undone(k)
        <4>1. /\ job'[k].pc \in {"reserving", "spawn", "record", "abandon", "reply"}
              /\ job'[k].ws = job[k].ws
          BY <1>0, <1>1, <3>2, CreateMoves DEF Moves, Becomes
        <4>2. job[k].pc # "undone"
          BY <1>1, <3>2 DEF Reserve, Reserved, Abandoned, Spawn, At
        <4> QED
          BY <4>1, <4>2
      <3> QED
        BY <3>1, <3>2
    <2>3. CASE job'[k].pc = "reply"
      BY <1>0, <2>1, <2>3, SerialFrame DEF Plain, BeforeRow
    <2>4. CASE job'[k].pc # "reply"
      <3>1. job[k].pc \in BeforeRow /\ job'[k].pc \in BeforeRow
        BY <2>1, <2>2, <2>4 DEF BeforeRow
      <3>2. workspaces[job'[k].ws] # Gone
        BY <1>0, <2>2, <3>1 DEF Undisturbed
      <3> QED
        BY <1>0, <2>1, <3>1, <3>2, SerialFrame
    <2> QED
      BY <2>3, <2>4
  <1>2. CASE Release(k)
    <2>1. /\ UNCHANGED <<rows, workspaces, announced, shown>>
          /\ job[k].pc = "release" /\ job'[k].pc = "commit"
          /\ job'[k].id = job[k].id /\ job'[k].ws = job[k].ws
      BY <1>0, <1>2, CreateMoves DEF Release, events, At, Moves, Becomes
    <2> QED
      BY <1>0, <2>1, SerialFrame
  <1>3. CASE RecordCreated(k)
    <2> DEFINE s == job[k].id
               new == [home |-> job[k].ws, lost |-> FALSE]
    <2>1. /\ s \in SessionIds /\ job[k].ws \in WorkspaceIds /\ rows[s] = Gone
          /\ workspaces[job[k].ws] # Gone /\ job[k].pc = "record"
      BY <1>0, <1>3
      DEF RecordCreated, At, RecordedInv, JobShape, RowOfCreation, Creation, BeforeRow, Undisturbed
    <2>2. /\ job'[k].pc = "release" /\ job'[k].id = s /\ job'[k].ws = job[k].ws
          /\ UNCHANGED <<workspaces, announced, shown>> /\ rows' = [rows EXCEPT ![s] = new]
      BY <1>0, <1>3, CreateMoves DEF RecordCreated, events, Moves, Becomes
    <2>3. new # Gone /\ new.home = job[k].ws
      <3>1. new \in Row /\ new.home = job[k].ws
        BY <2>1 DEF Row
      <3> QED
        BY <3>1, ConstantsAssumption
    <2> HIDE DEF new
    <2>4. /\ rows'[s] = new
          /\ \A t \in SessionIds : t # s => rows'[t] = rows[t]
      BY <1>0, <2>1, <2>2 DEF TypeOK
    <2>5. Homed'
      BY <1>0, <2>1, <2>2, <2>3, <2>4 DEF Homed
    <2>6. \A w \in WorkspaceIds : SessionsIn(w) \subseteq SessionsIn(w)'
      BY <2>1, <2>4 DEF SessionsIn
    <2>7. LayoutsNameOwnSessions'
      BY <1>0, <2>2, <2>6 DEF LayoutsNameOwnSessions
    <2>8. Live' = Live \cup {s} /\ s \notin Live
      BY <2>1, <2>3, <2>4 DEF Live
    <2>9. announced = Live /\ \A w \in WorkspaceIds : shown[w] = workspaces[w]
      BY <1>0, <2>1 DEF Pictured, AfterRow, Untold
    <2>10. Pictured(k)'
      BY <2>2, <2>8, <2>9 DEF Pictured, AfterRow, Untold
    <2>11. Undisturbed(k)'
      BY <2>1, <2>2, <2>3, <2>4 DEF Undisturbed
    <2> QED
      BY <2>5, <2>7, <2>10, <2>11 DEF SerialAt
  <1>4. CASE CommitCreated(k)
    <2>1. /\ UNCHANGED <<rows, workspaces, shown>> /\ job[k].pc = "commit"
          /\ job[k].id \in SessionIds
      BY <1>4 DEF CommitCreated, table, At, RecordedInv, JobShape, Creation, AfterRow
    <2>2. rows[job[k].id] # Gone /\ announced = Live \ {job[k].id}
          /\ \A w \in WorkspaceIds : shown[w] = workspaces[w]
      BY <1>0, <2>1 DEF Undisturbed, Pictured, AfterRow, Untold
    <2>3. CASE \E a : Moves(k, "undo", job[k].doomed, a, "none") /\ announced' = announced
      BY <1>0, <2>1, <2>3, SerialFrame DEF Moves, Becomes, AfterRow
    <2>4. CASE /\ Moves(k, "reply", {}, "ok", "none")
               /\ announced' = IF rows[job[k].id] = Gone THEN announced
                               ELSE announced \cup {job[k].id}
      <3>1. announced' = Live' /\ job'[k].pc = "reply"
        BY <2>1, <2>2, <2>4 DEF Live, Moves, Becomes
      <3>2. Homed' /\ LayoutsNameOwnSessions'
        BY <1>0, <2>1 DEF Homed, LayoutsNameOwnSessions, SessionsIn
      <3> QED
        BY <2>1, <2>2, <3>1, <3>2, SerialPlain DEF Plain
    <2> QED
      BY <1>0, <1>4, <2>3, <2>4, CommitCreatedDoes
  <1>5. CASE Undo(k)
    <2>1. job[k].pc = "undo" /\ job[k].id \in SessionIds
      BY <1>5 DEF Undo, At, RecordedInv, JobShape, Creation, AfterRow
    <2>2. rows[job[k].id] # Gone /\ announced = Live \ {job[k].id}
          /\ \A w \in WorkspaceIds : shown[w] = workspaces[w]
      BY <1>0, <2>1 DEF Undisturbed, Pictured, AfterRow, Untold
    <2>3. RemoveRow(job[k].id) /\ job'[k].pc = "undoing"
      BY <1>0, <1>5, <2>1, <2>2, UndoDoes DEF Moves, Becomes
    <2>4. /\ Homed' /\ LayoutsNameOwnSessions' /\ announced' = Live'
          /\ \A w \in WorkspaceIds : shown'[w] = workspaces'[w]
      <3>1. announced \cup {job[k].id} = Live \cup {job[k].id}
        BY <2>2
      <3> QED
        BY <1>0, <2>1, <2>2, <2>3, <3>1, SerialRemoves
    <2> QED
      BY <2>3, <2>4, SerialPlain DEF Plain
  <1> QED
    BY <1>1, <1>2, <1>3, <1>4, <1>5

\* The steps of a handler that ends in an announcement or in a rollback.
LEMMA SerialWritten ==
    ASSUME RecordedInv, RecordedInv', NEW k \in Workers, SerialAt(k),
           CommitWorkspace(k) \/ Retract(k) \/ LayoutWritten(k) \/ RenameWritten(k)
    PROVE  SerialAt(k)'
  <1> DEFINE w == job[k].ws
             new == job[k].new
             old == job[k].old
  <1>0. /\ TypeOK /\ TypeOK' /\ Homed /\ LayoutsNameOwnSessions /\ Pictured(k) /\ Undisturbed(k)
        /\ UNCHANGED <<rows, announced, minted>>
    BY DEF RecordedInv, SerialAt, CommitWorkspace, Retract, LayoutWritten, RenameWritten, table
  <1>1. /\ job[k].pc \in {"opening", "retract", "layout", "rename"} /\ w \in WorkspaceIds
        /\ job[k].pc \in {"opening", "layout", "rename"} => new \in Info
        /\ job[k].pc \in {"layout", "rename"} => old \in Info
    BY DEF RecordedInv, JobShape, CommitWorkspace, Retract, LayoutWritten, RenameWritten, At
  <1>2. /\ announced = Live /\ announced' = Live'
        /\ \A v \in WorkspaceIds : v # w => shown[v] = workspaces[v]
        /\ \A v \in WorkspaceIds : SessionsIn(v)' = SessionsIn(v)
    BY <1>0, <1>1 DEF Pictured, AfterRow, Live, SessionsIn
  <1>3. ASSUME \A v \in WorkspaceIds : v # w => workspaces'[v] = workspaces[v] /\ shown'[v] = shown[v],
               shown'[w] = workspaces'[w],
               \/ workspaces'[w] = Gone /\ SessionsIn(w) = {}
               \/ /\ workspaces[w] # Gone /\ workspaces'[w] # Gone
                  /\ workspaces'[w].layout \subseteq SessionsIn(w),
               job'[k].pc \in Plain
        PROVE  SerialAt(k)'
    <2>1. \A v \in WorkspaceIds : shown'[v] = workspaces'[v]
      BY <1>2, <1>3
    <2>2. LayoutsNameOwnSessions'
      BY <1>0, <1>2, <1>3 DEF LayoutsNameOwnSessions
    <2>3. Homed'
      <3>1. \A v \in WorkspaceIds : workspaces'[v] # Gone => v \in minted
        BY <1>0, <1>3 DEF Homed
      <3>2. ASSUME NEW s \in SessionIds, rows[s] # Gone PROVE workspaces'[rows[s].home] # Gone
        <4>1. rows[s].home \in WorkspaceIds /\ workspaces[rows[s].home] # Gone
          BY <1>0, <3>2 DEF TypeOK, Row, Homed
        <4>2. s \in SessionsIn(rows[s].home)
          BY <3>2 DEF SessionsIn
        <4> QED
          BY <1>3, <4>1, <4>2
      <3> QED
        BY <1>0, <3>1, <3>2 DEF Homed
    <2> QED
      BY <1>2, <1>3, <2>1, <2>2, <2>3, SerialPlain
  <1>4. CASE CommitWorkspace(k)
    <2>1. /\ job[k].pc = "opening" /\ new \in Info /\ workspaces[w] = new /\ new # Gone
          /\ shown[w] = Gone /\ new.layout = {} /\ SessionsIn(w) = {}
      BY <1>0, <1>1, <1>4, ConstantsAssumption
      DEF CommitWorkspace, At, Pictured, Undisturbed, Untold
    <2>2. CASE /\ shown' = ShowWorkspace(w, new) /\ workspaces' = workspaces
               /\ Moves(k, "reply", {}, "ok", "none")
      <3>1. shown' = [shown EXCEPT ![w] = new]
        BY <1>1, <2>1, <2>2, ShowWorkspaceIs
      <3>2. shown'[w] = new /\ \A v \in WorkspaceIds : v # w => shown'[v] = shown[v]
        BY <1>0, <1>1, <3>1 DEF TypeOK
      <3>3. job'[k].pc \in Plain
        BY <2>2 DEF Moves, Becomes, Plain
      <3> QED
        BY <1>3, <2>1, <2>2, <3>2, <3>3
    <2>3. CASE /\ workspaces' = [workspaces EXCEPT ![w] = Gone] /\ shown' = shown
               /\ Moves(k, "retract", job[k].doomed, job[k].answer, "none")
      <3>1. /\ workspaces'[w] = Gone
            /\ \A v \in WorkspaceIds : v # w => workspaces'[v] = workspaces[v]
        BY <1>0, <1>1, <2>3 DEF TypeOK
      <3>2. job'[k].pc = "retract" /\ job'[k].ws = w
        BY <2>3 DEF Moves, Becomes
      <3>3. LayoutsNameOwnSessions'
        BY <1>0, <1>2, <3>1 DEF LayoutsNameOwnSessions
      <3>4. Homed'
        <4>1. \A s \in SessionIds : rows[s] # Gone => rows[s].home # w /\ rows[s].home \in WorkspaceIds
          BY <1>0, <2>1 DEF SessionsIn, TypeOK, Row
        <4> QED
          BY <1>0, <3>1, <4>1 DEF Homed
      <3>5. Pictured(k)'
        BY <1>2, <2>1, <2>3, <3>1, <3>2 DEF Pictured, AfterRow, Untold
      <3>6. Undisturbed(k)'
        BY <3>1, <3>2 DEF Undisturbed, AfterRow, BeforeRow
      <3> QED
        BY <3>3, <3>4, <3>5, <3>6 DEF SerialAt
    <2> QED
      BY <1>0, <1>4, <2>1, <2>2, <2>3, CommitWorkspaceDoes
  <1>5. CASE Retract(k)
    <2>1. /\ workspaces' = workspaces /\ shown' = [shown EXCEPT ![w] = Gone]
          /\ workspaces[w] = Gone /\ job'[k].pc = "reply"
      BY <1>0, <1>5, RetractDoes DEF Retract, table, At, Undisturbed, Moves, Becomes
    <2>2. shown'[w] = Gone /\ \A v \in WorkspaceIds : v # w => shown'[v] = shown[v]
      BY <1>0, <1>1, <2>1 DEF TypeOK
    <2>3. SessionsIn(w) = {}
      BY <1>0, <2>1 DEF SessionsIn, Homed
    <2> QED
      BY <1>3, <2>1, <2>2, <2>3 DEF Plain
  <1>6. CASE LayoutWritten(k)
    <2>1. /\ job[k].pc = "layout" /\ new \in Info /\ old \in Info
          /\ workspaces[w] = new /\ new # Gone /\ old # Gone
          /\ shown[w] = old /\ old.layout \subseteq SessionsIn(w)
          /\ new.rev > old.rev /\ new.name = old.name
      BY <1>0, <1>1, <1>6, ConstantsAssumption
      DEF LayoutWritten, At, Pictured, Undisturbed, Untold
    <2>2. CASE /\ workspaces' = workspaces /\ shown' = ShowLayout(w, new)
               /\ Moves(k, "reply", {}, "ok", "none")
      <3>1. shown' = [shown EXCEPT ![w] = new]
        BY <1>1, <2>1, <2>2, ShowLayoutIs
      <3>2. shown'[w] = new /\ \A v \in WorkspaceIds : v # w => shown'[v] = shown[v]
        BY <1>0, <1>1, <3>1 DEF TypeOK
      <3>3. job'[k].pc \in Plain /\ workspaces[w].layout \subseteq SessionsIn(w)
        BY <1>0, <1>1, <2>1, <2>2 DEF Moves, Becomes, Plain, LayoutsNameOwnSessions
      <3> QED
        BY <1>3, <2>1, <2>2, <3>2, <3>3
    <2>3. CASE /\ shown' = shown /\ Moves(k, "reply", {}, "persist_failed", "none")
               /\ \A v \in WorkspaceIds : v # w => workspaces'[v] = workspaces[v]
               /\ workspaces'[w] \in Info /\ workspaces'[w].layout = old.layout
               /\ workspaces'[w].rev = old.rev /\ workspaces'[w].name = workspaces[w].name
      <3>1. workspaces'[w] = old
        BY <2>1, <2>3, InfoEqual
      <3>2. job'[k].pc \in Plain
        BY <2>3 DEF Moves, Becomes, Plain
      <3> QED
        BY <1>3, <2>1, <2>3, <3>1, <3>2
    <2> QED
      BY <1>0, <1>1, <1>6, <2>1, <2>2, <2>3, LayoutWrittenDoes
  <1>7. CASE RenameWritten(k)
    <2>1. /\ job[k].pc = "rename" /\ new \in Info /\ old \in Info
          /\ workspaces[w] = new /\ new # Gone /\ old # Gone
          /\ shown[w] = old /\ old.layout \subseteq SessionsIn(w)
          /\ new.rev = old.rev /\ new.layout = old.layout
      BY <1>0, <1>1, <1>7, ConstantsAssumption
      DEF RenameWritten, At, Pictured, Undisturbed, Untold
    <2>2. CASE /\ workspaces' = workspaces /\ shown' = ShowWorkspace(w, new)
               /\ Moves(k, "reply", {}, "ok", "none")
      <3>1. shown' = [shown EXCEPT ![w] = new]
        BY <1>1, <2>1, <2>2, ShowWorkspaceIs
      <3>2. shown'[w] = new /\ \A v \in WorkspaceIds : v # w => shown'[v] = shown[v]
        BY <1>0, <1>1, <3>1 DEF TypeOK
      <3>3. job'[k].pc \in Plain
        BY <2>2 DEF Moves, Becomes, Plain
      <3> QED
        BY <1>3, <2>1, <2>2, <3>2, <3>3
    <2>3. CASE /\ shown' = shown /\ Moves(k, "reply", {}, "persist_failed", "none")
               /\ \A v \in WorkspaceIds : v # w => workspaces'[v] = workspaces[v]
               /\ workspaces'[w] \in Info /\ workspaces'[w].layout = workspaces[w].layout
               /\ workspaces'[w].rev = workspaces[w].rev /\ workspaces'[w].name = old.name
      <3>1. workspaces'[w] = old
        BY <2>1, <2>3, InfoEqual
      <3>2. job'[k].pc \in Plain
        BY <2>3 DEF Moves, Becomes, Plain
      <3> QED
        BY <1>3, <2>1, <2>3, <3>1, <3>2
    <2> QED
      BY <1>0, <1>1, <1>7, <2>1, <2>2, <2>3, RenameWrittenDoes
  <1> QED
    BY <1>4, <1>5, <1>6, <1>7

\* Every step of the handler.
LEMMA SerialStep ==
    ASSUME RecordedInv, RecordedInv', NEW k \in Workers, SerialAt(k), Step(k)
    PROVE  SerialAt(k)'
  <1>0. TypeOK
    BY DEF RecordedInv
  <1>1. CASE TakeSnapshot(k) \/ \E ok \in BOOLEAN : Save(k, ok)
    <2>1. UNCHANGED <<rows, workspaces, announced, shown, minted>>
      BY <1>1 DEF TakeSnapshot, Save, table, events
    <2>2. /\ job'[k].pc = job[k].pc /\ job'[k].id = job[k].id /\ job'[k].ws = job[k].ws
          /\ job'[k].new = job[k].new /\ job'[k].old = job[k].old
      BY <1>0, <1>1, TakeSnapshotDoes, SaveDoes DEF Moves, Becomes
    <2> QED
      BY <2>1, <2>2, SerialFrame
  <1>2. CASE Reply(k) \/ KillProcess(k) \/ Killed(k) \/ KillDoomed(k) \/ Cleared(k)
    <2>1. /\ UNCHANGED <<rows, workspaces, announced, shown, minted>>
          /\ job[k].pc \in {"reply", "undoing", "killing", "killed", "clearing", "cleared"}
      BY <1>2 DEF Reply, KillProcess, Killed, KillDoomed, Cleared, table, events, At
    <2>2. job'[k].pc \in {"idle", "undone", "killed", "cleared", "reply"}
      BY <1>0, <1>2, ReplyDoes, KillMoves DEF Moves, Becomes
    <2> QED
      BY <2>1, <2>2, SerialFrame DEF Plain
  <1> QED
    BY <1>1, <1>2, SerialCreates, SerialWritten DEF Step

\* Every new request.
LEMMA SerialRequest ==
    ASSUME RecordedInv, RecordedInv', NEW k \in Workers, SerialAt(k), Request(k)
    PROVE  SerialAt(k)'
  <1>0. /\ TypeOK /\ TypeOK' /\ Homed /\ LayoutsNameOwnSessions /\ Pictured(k) /\ Undisturbed(k)
        /\ job[k].pc = "idle" /\ minted \subseteq minted'
    BY DEF RecordedInv, SerialAt, Request, CreateSession, Kill, CreateWorkspace, KillWorkspace,
           UpdateLayout, RenameWorkspace, At
  <1>i. announced = Live /\ \A w \in WorkspaceIds : shown[w] = workspaces[w]
    BY <1>0 DEF Pictured, AfterRow, Untold
  <1>r. ASSUME NEW op, NEW v, NEW s, NEW a, Becomes(k, "reply", op, v, s, {}, a, "none"),
               UNCHANGED <<rows, workspaces, announced, shown>>
        PROVE  SerialAt(k)'
    BY <1>0, <1>r, SerialFrame DEF Becomes, Plain
  <1>1. ASSUME NEW w \in WorkspaceIds, NEW s \in SessionIds, CreateSession(k, w, s)
        PROVE  SerialAt(k)'
    <2>1. UNCHANGED <<rows, workspaces, announced, shown>>
      BY <1>1 DEF CreateSession, table, events
    <2>2. CASE Becomes(k, "reserve", "create", w, s, {}, "none", "none") /\ workspaces[w] # Gone
      BY <1>0, <2>1, <2>2, SerialFrame DEF Becomes, Plain, BeforeRow
    <2> QED
      BY <1>0, <1>1, <1>r, <2>1, <2>2, CreateSessionDoes
  <1>2. ASSUME NEW s \in SessionIds, Kill(k, s) PROVE SerialAt(k)'
    <2>1. CASE rows[s] # Gone /\ RemoveRow(s)
               /\ Becomes(k, "killing", "kill", Gone, s, {s}, "none", "none")
      <3>1. minted' = minted
        BY <1>2 DEF Kill
      <3>2. /\ Homed' /\ LayoutsNameOwnSessions' /\ announced' = Live'
            /\ \A w \in WorkspaceIds : shown'[w] = workspaces'[w]
        BY <1>0, <1>i, <2>1, <3>1, SerialRemoves
      <3>3. job'[k].pc \in Plain
        BY <2>1 DEF Becomes, Plain
      <3> QED
        BY <3>2, <3>3, SerialPlain
    <2> QED
      BY <1>0, <1>2, <1>r, <2>1, KillDoes DEF events
  <1>3. ASSUME NEW w \in WorkspaceIds, NEW m \in Names, CreateWorkspace(k, w, m)
        PROVE  SerialAt(k)'
    <2> DEFINE new == NewWorkspace(m)
    <2>1. workspaces[w] = Gone /\ w \notin minted /\ minted' = minted \cup {w}
          /\ UNCHANGED <<rows, announced, shown>>
      BY <1>0, <1>3 DEF CreateWorkspace, Homed, events
    <2>2. new \in Info /\ new.layout = {} /\ new # Gone
      BY NewWorkspaceTyped, ConstantsAssumption DEF NewWorkspace
    <2>3. workspaces' = [workspaces EXCEPT ![w] = new]
      BY <1>3 DEF CreateWorkspace
    <2>4. job'[k].pc = "opening" /\ job'[k].ws = w /\ job'[k].new = new
      BY <1>0, <1>3, CreateWorkspaceDoes DEF Becomes
    <2> HIDE DEF new
    <2>5. workspaces'[w] = new /\ \A v \in WorkspaceIds : v # w => workspaces'[v] = workspaces[v]
      BY <1>0, <2>3 DEF TypeOK
    <2>6. SessionsIn(w) = {} /\ \A v \in WorkspaceIds : SessionsIn(v)' = SessionsIn(v)
      BY <1>0, <2>1 DEF SessionsIn, Homed
    <2>7. LayoutsNameOwnSessions'
      BY <1>0, <2>2, <2>5, <2>6 DEF LayoutsNameOwnSessions
    <2>8. Homed'
      <3>1. \A s \in SessionIds : rows[s] # Gone => rows[s].home \in WorkspaceIds
        BY <1>0 DEF TypeOK, Row
      <3> QED
        BY <1>0, <2>1, <2>2, <2>5, <3>1 DEF Homed
    <2>9. Pictured(k)'
      BY <1>i, <2>1, <2>4, <2>5 DEF Pictured, Live, AfterRow, Untold
    <2>10. Undisturbed(k)'
      BY <1>i, <2>1, <2>2, <2>4, <2>6 DEF Undisturbed, BeforeRow, AfterRow
    <2> QED
      BY <2>7, <2>8, <2>9, <2>10 DEF SerialAt
  <1>4. ASSUME NEW w \in WorkspaceIds, KillWorkspace(k, w) PROVE SerialAt(k)'
    <2>1. CASE /\ workspaces' = [workspaces EXCEPT ![w] = Gone]
               /\ rows' = [s \in SessionIds |-> IF s \in SessionsIn(w) THEN Gone ELSE rows[s]]
               /\ announced' = announced \ SessionsIn(w)
               /\ shown' = [shown EXCEPT ![w] = Gone]
               /\ Becomes(k, "clearing", "kill_workspace", w, Gone, SessionsIn(w), "none", "none")
      <3>1. /\ workspaces'[w] = Gone /\ shown'[w] = Gone
            /\ \A v \in WorkspaceIds : v # w =>
                  workspaces'[v] = workspaces[v] /\ shown'[v] = shown[v]
        BY <1>0, <2>1 DEF TypeOK
      <3>2. \A s \in SessionIds :
               rows'[s] = IF rows[s] # Gone /\ rows[s].home = w THEN Gone ELSE rows[s]
        BY <2>1 DEF SessionsIn
      <3>3. announced' = Live'
        BY <1>i, <2>1, <3>2 DEF Live, SessionsIn
      <3>4. \A v \in WorkspaceIds : v # w => SessionsIn(v)' = SessionsIn(v)
        BY <3>2 DEF SessionsIn
      <3>5. LayoutsNameOwnSessions'
        BY <1>0, <3>1, <3>4 DEF LayoutsNameOwnSessions
      <3>6. Homed'
        <4>1. \A s \in SessionIds : rows[s] # Gone => rows[s].home \in WorkspaceIds
          BY <1>0 DEF TypeOK, Row
        <4> QED
          BY <1>0, <3>1, <3>2, <4>1 DEF Homed
      <3>7. job'[k].pc \in Plain
        BY <2>1 DEF Becomes, Plain
      <3> QED
        BY <1>i, <3>1, <3>3, <3>5, <3>6, <3>7, SerialPlain
    <2> QED
      BY <1>0, <1>4, <1>r, <2>1, KillWorkspaceDoes DEF table, events
  <1>s. ASSUME NEW w \in WorkspaceIds, NEW new \in Info, workspaces[w] # Gone,
               workspaces' = [workspaces EXCEPT ![w] = new], UNCHANGED <<rows, announced, shown, minted>>,
               new.layout \subseteq SessionsIn(w), job'[k].ws = w, job'[k].new = new,
               job'[k].old = workspaces[w],
               \/ job'[k].pc = "layout" /\ new.rev > workspaces[w].rev /\ new.name = workspaces[w].name
               \/ job'[k].pc = "rename" /\ new.rev = workspaces[w].rev
                  /\ new.layout = workspaces[w].layout
        PROVE  SerialAt(k)'
    <2>1. workspaces'[w] = new /\ \A v \in WorkspaceIds : v # w => workspaces'[v] = workspaces[v]
      BY <1>0, <1>s DEF TypeOK
    <2>2. \A v \in WorkspaceIds : SessionsIn(v)' = SessionsIn(v)
      BY <1>s DEF SessionsIn
    <2>3. LayoutsNameOwnSessions'
      BY <1>0, <1>s, <2>1, <2>2 DEF LayoutsNameOwnSessions
    <2>4. Homed'
      <3>1. \A s \in SessionIds : rows[s] # Gone => rows[s].home \in WorkspaceIds
        BY <1>0 DEF TypeOK, Row
      <3> QED
        BY <1>0, <1>s, <2>1, <3>1, ConstantsAssumption DEF Homed
    <2>5. Pictured(k)'
      BY <1>i, <1>s, <2>1 DEF Pictured, Live, AfterRow, Untold
    <2>6. workspaces[w].layout \subseteq SessionsIn(w)
      BY <1>0, <1>s DEF LayoutsNameOwnSessions
    <2>7. Undisturbed(k)'
      BY <1>i, <1>s, <2>2, <2>6 DEF Undisturbed, BeforeRow, AfterRow
    <2> QED
      BY <2>3, <2>4, <2>5, <2>7 DEF SerialAt
  <1>5. ASSUME NEW w \in WorkspaceIds, NEW doc \in SUBSET SessionIds, NEW rev \in 1..MaxRev,
               UpdateLayout(k, w, doc, rev)
        PROVE  SerialAt(k)'
    <2>1. UNCHANGED <<rows, announced, shown, minted>>
      BY <1>5 DEF UpdateLayout, events
    <2>2. CASE /\ workspaces[w] # Gone /\ rev > workspaces[w].rev /\ doc \subseteq SessionsIn(w)
               /\ Becomes(k, "layout", "update_layout", w, Gone, {}, "none", "queued")
               /\ job'[k].old = workspaces[w] /\ job'[k].new \in Info
               /\ job'[k].new.rev = rev /\ job'[k].new.layout = doc
               /\ job'[k].new.name = workspaces[w].name
               /\ workspaces' = [workspaces EXCEPT ![w] = job'[k].new]
      <3>1. PICK new \in Info : new = job'[k].new
        BY <2>2
      <3>2. job'[k].pc = "layout" /\ job'[k].ws = w
        BY <2>2 DEF Becomes
      <3> QED
        BY <1>s, <2>1, <2>2, <3>1, <3>2
    <2> QED
      BY <1>0, <1>5, <1>r, <2>1, <2>2, UpdateLayoutDoes
  <1>6. ASSUME NEW w \in WorkspaceIds, NEW m \in Names, RenameWorkspace(k, w, m)
        PROVE  SerialAt(k)'
    <2>1. UNCHANGED <<rows, announced, shown, minted>>
      BY <1>6 DEF RenameWorkspace, events
    <2>2. CASE /\ workspaces[w] # Gone
               /\ Becomes(k, "rename", "rename", w, Gone, {}, "none", "queued")
               /\ job'[k].old = workspaces[w] /\ job'[k].new \in Info
               /\ job'[k].new.rev = workspaces[w].rev
               /\ job'[k].new.layout = workspaces[w].layout
               /\ workspaces' = [workspaces EXCEPT ![w] = job'[k].new]
      <3>1. PICK new \in Info : new = job'[k].new
        BY <2>2
      <3>2. job'[k].pc = "rename" /\ job'[k].ws = w
        BY <2>2 DEF Becomes
      <3>3. new.layout \subseteq SessionsIn(w)
        BY <1>0, <2>2, <3>1 DEF LayoutsNameOwnSessions
      <3> QED
        BY <1>s, <2>1, <2>2, <3>1, <3>2, <3>3
    <2> QED
      BY <1>0, <1>6, <1>r, <2>1, <2>2, RenameWorkspaceDoes
  <1> QED
    BY <1>1, <1>2, <1>3, <1>4, <1>5, <1>6 DEF Request

\* A subscriber starts from the listing of the table that load built.
LEMMA SerialFresh ==
    ASSUME NEW k \in Workers, NEW d \in Ledger, NEW used, NEW t \in Loaded(d, used),
           rows = t.rows, workspaces = t.workspaces, shown = t.workspaces,
           announced = {s \in SessionIds : t.rows[s] # Gone},
           {w \in WorkspaceIds : t.workspaces[w] # Gone} \subseteq minted,
           job = [l \in Workers |-> Idle]
    PROVE  SerialAt(k)
  <1>1. Homed /\ LayoutsNameOwnSessions
    BY LoadedHomed DEF Homed, LayoutsNameOwnSessions, SessionsIn
  <1>2. job[k].pc = "idle"
    BY IdleJob
  <1>3. Pictured(k) /\ Undisturbed(k)
    BY <1>2 DEF Pictured, Undisturbed, Live, AfterRow, BeforeRow, Untold
  <1> QED
    BY <1>1, <1>3 DEF SerialAt

\* SerialInv holds at the start and over every step of the one worker.
LEMMA SerialInductive ==
    ASSUME OneWorker
    PROVE  /\ Init => SerialInv
           /\ RecordedInv /\ RecordedInv' /\ SerialInv /\ [Next]_vars => SerialInv'
  <1>0. PICK k \in Workers : Workers = {k}
    BY DEF OneWorker
  <1>s. (SerialInv <=> SerialAt(k)) /\ (SerialInv' <=> SerialAt(k)')
    BY <1>0 DEF SerialInv, SerialAt
  <1>1. ASSUME Init PROVE SerialAt(k)
    <2>1. PICK d \in InitialLedgers : \E t \in Loaded(d, {}) :
             /\ rows = t.rows /\ workspaces = t.workspaces /\ shown = t.workspaces
             /\ announced = {s \in SessionIds : t.rows[s] # Gone}
             /\ minted = {s \in SessionIds : t.rows[s] # Gone}
                         \cup {w \in WorkspaceIds : t.workspaces[w] # Gone}
      BY <1>1 DEF Init
    <2>2. d \in Ledger /\ job = [l \in Workers |-> Idle]
      BY <1>1, ConstantsAssumption DEF Init
    <2> QED
      BY <2>1, <2>2, SerialFresh
  <1>2. ASSUME RecordedInv, RecordedInv', SerialAt(k), [Next]_vars PROVE SerialAt(k)'
    <2>1. CASE Step(k)
      BY <1>2, <2>1, SerialStep
    <2>2. CASE Request(k)
      BY <1>2, <2>2, SerialRequest
    <2>3. CASE Restart
      <3>1. PICK t \in Loaded(disk, minted) :
               /\ rows' = t.rows /\ workspaces' = t.workspaces /\ shown' = t.workspaces
               /\ announced' = {s \in SessionIds : t.rows[s] # Gone}
               /\ minted' = minted \cup {s \in SessionIds : t.rows[s] # Gone}
                                   \cup {w \in WorkspaceIds : t.workspaces[w] # Gone}
        BY <2>3 DEF Restart
      <3>2. job'[k].pc = "idle"
        BY <2>3, IdleJob DEF Restart
      <3>3. disk \in Ledger
        BY <1>2 DEF RecordedInv, TypeOK
      <3>4. Homed' /\ LayoutsNameOwnSessions'
        BY <3>1, <3>3, LoadedHomed DEF Homed, LayoutsNameOwnSessions, SessionsIn
      <3> QED
        BY <3>1, <3>2, <3>4, SerialPlain DEF Plain, Live
    <2>4. CASE UNCHANGED vars
      BY <1>2, <2>4, SerialFrame DEF vars
    <2> QED
      BY <1>0, <1>2, <2>1, <2>2, <2>3, <2>4 DEF Next
  <1> QED
    BY <1>s, <1>1, <1>2

-----------------------------------------------------------------------------
(* The invariant, and what follows from it.                                 *)

\* With one worker, a subscriber's picture lacks only what the handler that
\* runs has not told, and nothing the handler goes by changes under it.
THEOREM SerialInvariant ==
    ASSUME OneWorker
    PROVE  Spec => []SerialInv
  BY SerialInductive, RecordedInvariant, PTL DEF Spec

\* "every session belongs to a workspace": create_session's recheck, the
\* undo of a create and kill_workspace's sweep leave no row without one.
THEOREM SessionsHaveWorkspaces ==
    ASSUME OneWorker
    PROVE  Spec => []NoFreeFloatingSessions
  <1>1. SerialInv => NoFreeFloatingSessions
    BY DEF SerialInv, Homed, NoFreeFloatingSessions
  <1> QED
    BY <1>1, SerialInvariant, PTL

\* load, update_layout and scrub_layout: no tab names a session that is not a
\* row of the tab's workspace.
THEOREM TabsNameRows ==
    ASSUME OneWorker
    PROVE  Spec => []LayoutsNameOwnSessions
  <1>1. SerialInv => LayoutsNameOwnSessions
    BY DEF SerialInv
  <1> QED
    BY <1>1, SerialInvariant, PTL

\* Section 8.3: a layout that is rolled back was never announced.
THEOREM RollbackUnseen ==
    ASSUME OneWorker
    PROVE  Spec => []SubscribersNeverAhead
  <1>1. SerialInv /\ RecordedInv => SubscribersNeverAhead
    <2> SUFFICES ASSUME SerialInv, RecordedInv, NEW w \in WorkspaceIds,
                        shown[w] # Gone, workspaces[w] # Gone
                 PROVE  shown[w].rev <= workspaces[w].rev
      BY DEF SubscribersNeverAhead
    <2>1. PICK k \in Workers : Pictured(k) /\ Undisturbed(k)
      BY DEF OneWorker, SerialInv
    <2>2. workspaces[w].rev \in Nat /\ shown[w].rev \in Nat
      BY DEF RecordedInv, TypeOK, Info
    <2>3. CASE shown[w] = workspaces[w]
      BY <2>2, <2>3
    <2>4. CASE job[k].pc \in Untold /\ job[k].ws = w
      <3>1. workspaces[w] = job[k].new
        BY <2>1, <2>4 DEF Pictured
      <3>2. job[k].pc \in {"layout", "rename"} /\ shown[w] = job[k].old
        BY <2>1, <2>4 DEF Undisturbed, Untold
      <3>3. job[k].new.rev > job[k].old.rev \/ job[k].new.rev = job[k].old.rev
        BY <2>1, <3>2 DEF Undisturbed
      <3> QED
        BY <2>2, <3>1, <3>2, <3>3
    <2> QED
      BY <2>1, <2>3, <2>4 DEF Pictured
  <1> QED
    BY <1>1, SerialInvariant, RecordedInvariant, PTL

\* The frames of the event hub add up to the table: between requests a
\* subscriber knows exactly the sessions, workspaces, names and layouts there
\* are.
THEOREM PictureIsTable ==
    ASSUME OneWorker
    PROVE  Spec => []TableShown
  <1>1. SerialInv /\ RecordedInv => TableShown
    <2> SUFFICES ASSUME SerialInv, RecordedInv, Quiet
                 PROVE  shown = workspaces /\ announced = {s \in SessionIds : rows[s] # Gone}
      BY DEF TableShown
    <2>1. PICK k \in Workers : Pictured(k)
      BY DEF OneWorker, SerialInv
    <2>2. job[k].pc \in {"idle", "reply"}
      BY DEF Quiet
    <2>3. announced = Live /\ \A w \in WorkspaceIds : shown[w] = workspaces[w]
      BY <2>1, <2>2 DEF Pictured, AfterRow, Untold
    <2> QED
      BY <2>3 DEF Live, RecordedInv, TypeOK
  <1> QED
    BY <1>1, SerialInvariant, RecordedInvariant, PTL

-----------------------------------------------------------------------------
(***************************************************************************)
(* The promise: SessionTable implements SessionPromise under the mapping   *)
(* of Phase and AckedKill.  Nearly every step only withdraws: it gives no  *)
(* session a row, a reservation, an entry in the ledger or an announcement *)
(* that it had not (Withdraws), and so each session withdraws or stays as  *)
(* it is.  What is left are a create's minting of an id, the commit that   *)
(* announces, the answer to a kill and the crash.                          *)
(***************************************************************************)

\* A create that has not inserted its row, before its shell can have failed.
Early == {"reserve", "reserving", "spawn", "record"}

\* What the daemon still names was opened, and what is being created was not
\* announced yet.
Traced ==
    /\ \A s \in SessionIds : Named(s) => s \in minted
    /\ \A k \in Workers : job[k].pc \in Creation => job[k].id \notin announced

\* What a step of worker k does to any session, unless it opens or announces one.
Withdraws(k) ==
    /\ \A l \in Workers : l # k => job'[l] = job[l]
    /\ \A s \in SessionIds :
          /\ s \in minted' <=> s \in minted
          /\ s \in announced' => s \in announced /\ rows'[s] = rows[s]
          /\ rows'[s] # Gone => rows[s] # Gone \/ (job[k].pc = "record" /\ s = job[k].id)
          /\ pending'[s] # Gone => pending[s] # Gone \/ (job[k].pc = "reserve" /\ s = job[k].id)
          /\ disk'.sessions[s] # Gone => Named(s)
          /\ \A l \in Workers :
                job'[l].write = "writing" /\ snap'[l].sessions[s] # Gone => Named(s)
    /\ job'[k].pc \in Creation => job[k].pc \in Creation /\ job'[k].id = job[k].id
    /\ job'[k].pc \in Early => job[k].pc \in Early
    /\ job'[k].pc \in {"release", "commit"} => job[k].pc \in {"record", "release", "commit"}
    /\ AckedKill(k)' = AckedKill(k)

\* Then no session opens, and nothing names one that nothing named.
LEMMA WithdrawsNothingNew ==
    ASSUME RecordedInv, NEW k \in Workers, Withdraws(k), NEW s \in SessionIds
    PROVE  /\ \A l \in Workers : Opening(l, s)' => Opening(l, s)
           /\ Named(s)' => Named(s) \/ \E l \in Workers : Opening(l, s)
  <1>c. /\ {"reserve", "reserving", "spawn", "record", "release", "commit"} \subseteq Creation
        /\ Early = {"reserve", "reserving", "spawn", "record"}
    BY DEF Creation, BeforeRow, AfterRow, Early
  <1>1. job[k].pc = "record" /\ s = job[k].id => Opening(k, s)
    BY DEF Opening
  <1>2. job[k].pc = "reserve" /\ s = job[k].id => Opening(k, s)
    BY DEF Opening
  <1>3. ASSUME NEW l \in Workers, Opening(l, s)' PROVE Opening(l, s)
    <2>1. CASE l = k
      <3>1. job'[k].pc \in Early \cup {"release", "commit"} /\ job'[k].id = s
        BY <1>3, <2>1, <1>c DEF Opening
      <3>2. job[k].id = s
        BY <1>c, <3>1 DEF Withdraws
      <3>3. CASE job'[k].pc \in Early
        BY <1>c, <2>1, <3>2, <3>3 DEF Withdraws, Opening
      <3>4. CASE job'[k].pc \in {"release", "commit"}
        <4>1. rows'[s] # Gone /\ job[k].pc \in {"record", "release", "commit"}
          BY <1>3, <2>1, <3>4 DEF Withdraws, Opening
        <4>2. rows[s] # Gone \/ job[k].pc = "record"
          BY <4>1 DEF Withdraws
        <4> QED
          BY <2>1, <3>2, <4>1, <4>2 DEF Opening
      <3> QED
        BY <3>1, <3>3, <3>4
    <2>2. CASE l # k
      <3>1. job'[l] = job[l]
        BY <2>2 DEF Withdraws
      <3>2. CASE rows[s] # Gone \/ rows'[s] = Gone
        BY <1>3, <3>1, <3>2 DEF Opening
      <3>3. CASE rows[s] = Gone /\ rows'[s] # Gone
        <4>1. job[k].pc = "record" /\ s = job[k].id
          BY <3>3 DEF Withdraws
        <4>2. job[l].pc \in Creation /\ job[l].id = s
          BY <1>3, <1>c, <3>1 DEF Opening
        <4> QED
          BY <1>c, <2>2, <4>1, <4>2 DEF RecordedInv, OneCreator
      <3> QED
        BY <3>2, <3>3
    <2> QED
      BY <2>1, <2>2
  <1>4. ASSUME Named(s)' PROVE Named(s) \/ \E l \in Workers : Opening(l, s)
    <2>1. CASE rows'[s] # Gone
      BY <1>1, <2>1 DEF Withdraws, Named
    <2>2. CASE pending'[s] # Gone
      BY <1>2, <2>2 DEF Withdraws, Named
    <2>3. CASE disk'.sessions[s] # Gone
      BY <2>3 DEF Withdraws
    <2>4. CASE \E l \in Workers : job'[l].write = "writing" /\ snap'[l].sessions[s] # Gone
      BY <2>4 DEF Withdraws
    <2> QED
      BY <1>4, <2>1, <2>2, <2>3, <2>4 DEF Named
  <1> QED
    BY <1>3, <1>4

\* A create that is under way has an id.
LEMMA OpeningMinted ==
    ASSUME RecordedInv, NEW s \in SessionIds, NEW k \in Workers, Opening(k, s)
    PROVE  s \in minted /\ job[k].pc \in Creation /\ job[k].id = s
  <1>1. job[k].pc \in Creation /\ job[k].id = s
    BY DEF Opening, Creation, BeforeRow, AfterRow
  <1> QED
    BY <1>1 DEF RecordedInv, JobShape

\* Such a step withdraws sessions in the sense of the promise.
LEMMA WithdrawsKeeps ==
    ASSUME RecordedInv, Traced, NEW k \in Workers, Withdraws(k)
    PROVE  Traced' /\ Promise!Withdraw
  <1>1. Traced'
    <2>1. ASSUME NEW s \in SessionIds, Named(s)' PROVE s \in minted'
      <3>1. Named(s) \/ \E l \in Workers : Opening(l, s)
        BY <2>1, WithdrawsNothingNew
      <3>2. s \in minted
        BY <3>1, OpeningMinted DEF Traced
      <3> QED
        BY <3>2 DEF Withdraws
    <2>2. ASSUME NEW l \in Workers, job'[l].pc \in Creation PROVE job'[l].id \notin announced'
      <3>1. job[l].pc \in Creation /\ job'[l].id = job[l].id
        BY <2>2 DEF Withdraws
      <3>2. job[l].id \notin announced /\ job[l].id \in SessionIds
        BY <3>1 DEF Traced, RecordedInv, JobShape
      <3> QED
        BY <3>1, <3>2 DEF Withdraws
    <2> QED
      BY <2>1, <2>2 DEF Traced
  <1>2. ASSUME NEW s \in SessionIds PROVE Phase(s)' \in Promise!Withdrawn(Phase(s))
    <2>1. CASE s \in announced'
      <3>1. s \in announced /\ rows'[s] = rows[s]
        BY <2>1 DEF Withdraws
      <3>2. Phase(s)' = Phase(s) /\ Phase(s) \in {"live", "lost"}
        BY <2>1, <3>1 DEF Phase
      <3> QED
        BY <3>2 DEF Promise!Withdrawn
    <2>2. CASE s \notin announced' /\ \E l \in Workers : Opening(l, s)'
      <3>1. PICK l \in Workers : Opening(l, s)
        BY <2>2, WithdrawsNothingNew
      <3>2. s \notin announced
        BY <3>1, OpeningMinted DEF Traced
      <3>3. Phase(s) = "opening" /\ Phase(s)' = "opening"
        BY <2>2, <3>1, <3>2 DEF Phase
      <3> QED
        BY <3>3 DEF Promise!Withdrawn
    <2>3. CASE s \notin announced' /\ ~ \E l \in Workers : Opening(l, s)'
      <3>1. Phase(s)' = IF Named(s)' THEN "closing" ELSE IF s \in minted THEN "ended" ELSE "unborn"
        BY <2>3 DEF Phase, Withdraws
      <3>2. Named(s)' => Named(s) \/ \E l \in Workers : Opening(l, s)
        BY WithdrawsNothingNew
      <3>3. Named(s) \/ (\E l \in Workers : Opening(l, s)) \/ s \in announced => s \in minted
        BY OpeningMinted DEF Traced, RecordedInv, AnnouncedIsRecorded, RowsMinted
      <3>4. s \in announced => Phase(s) \in {"live", "lost"}
        BY DEF Phase
      <3>5. s \notin announced /\ (\E l \in Workers : Opening(l, s)) => Phase(s) = "opening"
        BY DEF Phase
      <3>6. s \notin announced /\ ~ (\E l \in Workers : Opening(l, s)) =>
               Phase(s) = IF Named(s) THEN "closing" ELSE IF s \in minted THEN "ended" ELSE "unborn"
        BY DEF Phase
      <3> HIDE DEF Phase
      <3> QED
        BY <3>1, <3>2, <3>3, <3>4, <3>5, <3>6 DEF Promise!Withdrawn
    <2> QED
      BY <2>1, <2>2, <2>3
  <1>3. \A l \in Workers : AckedKill(l)' = AckedKill(l)
    BY DEF Withdraws, AckedKill
  <1>4. \A s \in SessionIds : Phase(s)' \in Promise!Phases
    BY DEF Phase, Promise!Phases
  <1> QED
    BY <1>1, <1>2, <1>3, <1>4 DEF Promise!Withdraw

\* A step of worker k that touches no write and withdraws sessions at most.
LEMMA PlainWithdraws ==
    ASSUME RecordedInv, NEW k \in Workers,
           NEW pc, NEW op, NEW ws, NEW id, NEW d, NEW a, NEW w,
           Becomes(k, pc, op, ws, id, d, a, w), w # "writing",
           snap' = snap, disk' = disk,
           \A s \in SessionIds :
              /\ s \in minted' <=> s \in minted
              /\ s \in announced' => s \in announced /\ rows'[s] = rows[s]
              /\ rows'[s] # Gone => rows[s] # Gone \/ (job[k].pc = "record" /\ s = job[k].id)
              /\ pending'[s] # Gone =>
                    pending[s] # Gone \/ (job[k].pc = "reserve" /\ s = job[k].id),
           pc \in Creation => job[k].pc \in Creation /\ id = job[k].id,
           pc \in Early => job[k].pc \in Early,
           pc \in {"release", "commit"} => job[k].pc \in {"record", "release", "commit"},
           job[k].pc # "reply",
           pc = "reply" /\ op = "kill" => a # "ok"
    PROVE  Withdraws(k)
  <1>1. /\ job'[k].pc = pc /\ job'[k].op = op /\ job'[k].id = id
        /\ job'[k].answer = a /\ job'[k].write = w
        /\ \A l \in Workers : l # k => job'[l] = job[l]
    BY DEF Becomes
  <1>2. AckedKill(k)' = AckedKill(k)
    BY <1>1 DEF AckedKill
  <1>3. ASSUME NEW s \in SessionIds, NEW l \in Workers,
               job'[l].write = "writing", snap'[l].sessions[s] # Gone
        PROVE  Named(s)
    BY <1>1, <1>3 DEF Named
  <1>4. \A s \in SessionIds : disk'.sessions[s] # Gone => Named(s)
    BY DEF Named
  <1> QED
    BY <1>1, <1>2, <1>3, <1>4 DEF Withdraws

\* A snapshot names what the table or a reservation names.
LEMMA SnapshotNamed ==
    ASSUME NEW s \in SessionIds, Snapshot(rows, pending, workspaces).sessions[s] # Gone
    PROVE  rows[s] # Gone \/ pending[s] # Gone
  BY DEF Snapshot

\* The shared write.
LEMMA WritesWithdraw ==
    ASSUME RecordedInv, NEW k \in Workers
    PROVE  /\ TakeSnapshot(k) => Withdraws(k)
           /\ \A ok \in BOOLEAN : Save(k, ok) => Withdraws(k)
  <1>0. TypeOK
    BY DEF RecordedInv
  <1>m. ASSUME NEW w, Moves(k, job[k].pc, job[k].doomed, job[k].answer, w)
        PROVE  /\ \A l \in Workers : l # k => job'[l] = job[l]
               /\ job'[k].write = w
               /\ job'[k].pc = job[k].pc /\ job'[k].id = job[k].id
               /\ AckedKill(k)' = AckedKill(k)
    BY <1>m DEF Moves, Becomes, AckedKill
  <1>1. ASSUME TakeSnapshot(k) PROVE Withdraws(k)
    <2>1. Moves(k, job[k].pc, job[k].doomed, job[k].answer, "writing")
      BY <1>0, <1>1, TakeSnapshotDoes
    <2>2. /\ UNCHANGED <<rows, pending, disk, minted, announced>>
          /\ snap' = [snap EXCEPT ![k] = Snapshot(rows, pending, workspaces)]
      BY <1>1 DEF TakeSnapshot, table, events
    <2>3. ASSUME NEW s \in SessionIds, NEW l \in Workers,
                 job'[l].write = "writing", snap'[l].sessions[s] # Gone
          PROVE  Named(s)
      <3>1. CASE l = k
        <4>1. snap'[l] = Snapshot(rows, pending, workspaces)
          BY <1>0, <2>2, <3>1 DEF TypeOK
        <4> QED
          BY <2>3, <4>1, SnapshotNamed DEF Named
      <3>2. CASE l # k
        BY <1>0, <1>m, <2>1, <2>2, <2>3, <3>2 DEF TypeOK, Named
      <3> QED
        BY <3>1, <3>2
    <2>4. \A s \in SessionIds : disk'.sessions[s] # Gone => Named(s)
      BY <2>2 DEF Named
    <2> QED
      BY <1>m, <2>1, <2>2, <2>3, <2>4 DEF Withdraws
  <1>2. ASSUME NEW ok \in BOOLEAN, Save(k, ok) PROVE Withdraws(k)
    <2>1. \E w \in {"ok", "failed"} : Moves(k, job[k].pc, job[k].doomed, job[k].answer, w)
      BY <1>0, <1>2, SaveDoes
    <2>2. /\ UNCHANGED <<rows, pending, minted, announced>>
          /\ snap' = [snap EXCEPT ![k] = Gone] /\ disk' \in {disk, snap[k]}
          /\ job[k].write = "writing"
      BY <1>2 DEF Save, table, events
    <2>3. ASSUME NEW s \in SessionIds, NEW l \in Workers,
                 job'[l].write = "writing", snap'[l].sessions[s] # Gone
          PROVE  Named(s)
      <3>1. l # k /\ job'[l] = job[l]
        BY <1>m, <2>1, <2>3
      <3> QED
        BY <1>0, <2>2, <2>3, <3>1 DEF TypeOK, Named
    <2>4. \A s \in SessionIds : disk'.sessions[s] # Gone => Named(s)
      BY <2>2 DEF Named
    <2> QED
      BY <1>m, <2>1, <2>2, <2>3, <2>4 DEF Withdraws
  <1> QED
    BY <1>1, <1>2

\* remove_session takes a row and its announcement away.
LEMMA RemovedRow ==
    ASSUME TypeOK, NEW s \in SessionIds, rows[s] # Gone, RemoveRow(s), NEW t \in SessionIds
    PROVE  /\ t \in announced' => t \in announced /\ rows'[t] = rows[t]
           /\ rows'[t] # Gone => rows[t] # Gone
  BY RemoveRowRevs DEF RemoveRow

\* A handler that goes on and leaves rows, announcements and ids alone.
LEMMA StillWithdraws ==
    ASSUME RecordedInv, NEW k \in Workers, NEW pc, NEW d, NEW a, NEW w,
           Moves(k, pc, d, a, w), w # "writing",
           UNCHANGED <<rows, announced, minted, snap, disk>>,
           \A s \in SessionIds : pending'[s] # Gone =>
              pending[s] # Gone \/ (job[k].pc = "reserve" /\ s = job[k].id),
           pc \in Creation => job[k].pc \in Creation,
           pc \in Early => job[k].pc \in Early,
           pc \in {"release", "commit"} => job[k].pc \in {"record", "release", "commit"},
           job[k].pc # "reply",
           pc = "reply" => a # "ok" \/ job[k].op # "kill"
    PROVE  Withdraws(k)
  <1>1. Becomes(k, pc, job[k].op, job[k].ws, job[k].id, d, a, w)
    BY DEF Moves
  <1> QED
    BY <1>1, PlainWithdraws

\* Which request a handler serves tells which handler it is.
LEMMA ServesAsNamed ==
    ASSUME CreatesApart, ServesOp, NEW k \in Workers
    PROVE  /\ job[k].pc \in Creation => job[k].op = "create"
           /\ job[k].pc \in {"opening", "clearing", "cleared", "layout", "rename"} =>
                 job[k].op # "kill"
  BY DEF CreatesApart, Creator, ServesOp

\* The handlers of a create, up to its commit.
LEMMA CreatesWithdraw ==
    ASSUME RecordedInv, CreatesApart, ServesOp, NEW k \in Workers
    PROVE  /\ Reserve(k) \/ Reserved(k) \/ Abandoned(k) \/ Release(k) \/ Undone(k) => Withdraws(k)
           /\ \A spawned, handles \in BOOLEAN : Spawn(k, spawned, handles) => Withdraws(k)
           /\ RecordCreated(k) => Withdraws(k)
  <1>0. TypeOK
    BY DEF RecordedInv
  <1>c. /\ Creation = {"reserve", "reserving", "spawn", "abandon", "record", "release",
                       "commit", "undo", "undoing", "undone"}
        /\ Early = {"reserve", "reserving", "spawn", "record"}
    BY DEF Creation, BeforeRow, AfterRow, Early
  <1>1. ASSUME Reserve(k) PROVE Withdraws(k)
    <2>1. Moves(k, "reserving", job[k].doomed, job[k].answer, "queued")
      BY <1>0, <1>1, CreateMoves
    <2>2. /\ UNCHANGED <<rows, announced, minted, snap, disk>> /\ job[k].pc = "reserve"
          /\ \A s \in SessionIds : pending'[s] # Gone => pending[s] # Gone \/ s = job[k].id
      BY <1>0, <1>1 DEF Reserve, At, events, TypeOK
    <2> QED
      BY <1>c, <2>1, <2>2, StillWithdraws
  <1>2. ASSUME Reserved(k) PROVE Withdraws(k)
    <2>1. \/ Moves(k, "spawn", job[k].doomed, job[k].answer, "none")
          \/ Moves(k, "reply", {}, "persist_failed", "none")
      BY <1>0, <1>2, CreateMoves
    <2>2. /\ UNCHANGED <<rows, announced, minted, snap, disk>> /\ job[k].pc = "reserving"
          /\ \A s \in SessionIds : pending'[s] # Gone => pending[s] # Gone
      BY <1>0, <1>2 DEF Reserved, At, events, TypeOK
    <2> QED
      BY <1>c, <2>1, <2>2, StillWithdraws
  <1>3. ASSUME Abandoned(k) \/ Undone(k) PROVE Withdraws(k)
    <2>1. \E a : Moves(k, "reply", {}, a, "none")
      BY <1>0, <1>3, CreateMoves
    <2>2. /\ UNCHANGED <<rows, announced, minted, snap, disk, pending>>
          /\ job[k].pc \in {"abandon", "undone"}
      BY <1>3 DEF Abandoned, Undone, At, events, table
    <2>3. job[k].op # "kill"
      BY <1>c, <2>2, ServesAsNamed
    <2> QED
      BY <1>c, <2>1, <2>2, <2>3, StillWithdraws
  <1>4. ASSUME Release(k) PROVE Withdraws(k)
    <2>1. Moves(k, "commit", job[k].doomed, job[k].answer, "queued")
      BY <1>0, <1>4, CreateMoves
    <2>2. /\ UNCHANGED <<rows, announced, minted, snap, disk>> /\ job[k].pc = "release"
          /\ \A s \in SessionIds : pending'[s] # Gone => pending[s] # Gone
      BY <1>0, <1>4 DEF Release, At, events, TypeOK
    <2> QED
      BY <1>c, <2>1, <2>2, StillWithdraws
  <1>5. ASSUME NEW spawned \in BOOLEAN, NEW handles \in BOOLEAN, Spawn(k, spawned, handles)
        PROVE  Withdraws(k)
    <2>1. \/ Moves(k, "record", job[k].doomed, job[k].answer, "none")
          \/ Moves(k, "abandon", job[k].doomed, job[k].answer, "queued")
      BY <1>0, <1>5, CreateMoves
    <2>2. /\ UNCHANGED <<rows, announced, minted, snap, disk>> /\ job[k].pc = "spawn"
          /\ \A s \in SessionIds : pending'[s] # Gone => pending[s] # Gone
      BY <1>0, <1>5 DEF Spawn, At, events, TypeOK
    <2> QED
      BY <1>c, <2>1, <2>2, StillWithdraws
  <1>6. ASSUME RecordCreated(k) PROVE Withdraws(k)
    <2>1. Becomes(k, "release", job[k].op, job[k].ws, job[k].id, job[k].doomed, job[k].answer, "none")
      BY <1>0, <1>6, CreateMoves DEF Moves
    <2>2. /\ UNCHANGED <<announced, minted, snap, disk, pending>> /\ job[k].pc = "record"
          /\ \A s \in SessionIds : s # job[k].id => rows'[s] = rows[s]
      BY <1>0, <1>6 DEF RecordCreated, At, events, TypeOK
    <2>3. job[k].id \notin announced
      BY <1>c, <2>2 DEF RecordedInv, AnnouncedIsRecorded, RowOfCreation, BeforeRow
    <2> QED
      BY <1>c, <2>1, <2>2, <2>3, PlainWithdraws
  <1> QED
    BY <1>1, <1>2, <1>3, <1>4, <1>5, <1>6

\* The handlers that take rows away, and what follows them.
LEMMA RemovalsWithdraw ==
    ASSUME RecordedInv, CreatesApart, ServesOp, NEW k \in Workers
    PROVE  /\ Undo(k) => Withdraws(k)
           /\ KillProcess(k) \/ KillDoomed(k) \/ Cleared(k) => Withdraws(k)
           /\ Killed(k) /\ job[k].write # "ok" => Withdraws(k)
  <1>0. TypeOK
    BY DEF RecordedInv
  <1>c. /\ Creation = {"reserve", "reserving", "spawn", "abandon", "record", "release",
                       "commit", "undo", "undoing", "undone"}
        /\ Early = {"reserve", "reserving", "spawn", "record"}
    BY DEF Creation, BeforeRow, AfterRow, Early
  <1>1. ASSUME Undo(k) PROVE Withdraws(k)
    <2>1. /\ UNCHANGED <<minted, snap, disk, pending>> /\ job[k].pc = "undo"
      BY <1>1 DEF Undo, At
    <2>2. job[k].id \in SessionIds /\ job[k].op # "kill"
      BY <1>c, <2>1, ServesAsNamed DEF RecordedInv, JobShape
    <2>3. CASE /\ rows[job[k].id] # Gone /\ RemoveRow(job[k].id)
               /\ Moves(k, "undoing", {job[k].id}, job[k].answer, "none")
      <3>1. Becomes(k, "undoing", job[k].op, job[k].ws, job[k].id, {job[k].id}, job[k].answer, "none")
        BY <2>3 DEF Moves
      <3>2. \A t \in SessionIds : /\ t \in announced' => t \in announced /\ rows'[t] = rows[t]
                                  /\ rows'[t] # Gone => rows[t] # Gone
        BY <1>0, <2>2, <2>3, RemovedRow
      <3> QED
        BY <1>c, <2>1, <3>1, <3>2, PlainWithdraws
    <2>4. CASE /\ UNCHANGED <<rows, workspaces, events>>
               /\ Moves(k, "reply", {}, job[k].answer, "none")
      BY <1>c, <2>1, <2>2, <2>4, StillWithdraws DEF events
    <2> QED
      BY <1>0, <1>1, <2>2, <2>3, <2>4, UndoDoes
  <1>2. ASSUME KillProcess(k) PROVE Withdraws(k)
    <2>1. \E pc \in {"undone", "killed"} :
             /\ Moves(k, pc, {}, job[k].answer, "queued")
             /\ pc = "undone" => job[k].pc \in Creation
      BY <1>0, <1>2, <1>c, KillMoves
    <2>2. /\ UNCHANGED <<rows, announced, minted, snap, disk>>
          /\ job[k].pc \in {"undoing", "killing"}
          /\ \A s \in SessionIds : pending'[s] # Gone => pending[s] # Gone
      BY <1>0, <1>2 DEF KillProcess, events, TypeOK
    <2> QED
      BY <1>c, <2>1, <2>2, StillWithdraws
  <1>3. ASSUME KillDoomed(k) PROVE Withdraws(k)
    <2>1. Moves(k, "cleared", {}, job[k].answer, "queued")
      BY <1>0, <1>3, KillMoves
    <2>2. UNCHANGED <<rows, announced, minted, snap, disk, pending>> /\ job[k].pc = "clearing"
      BY <1>3 DEF KillDoomed, At, events, table
    <2> QED
      BY <1>c, <2>1, <2>2, StillWithdraws
  <1>4. ASSUME Cleared(k) \/ (Killed(k) /\ job[k].write # "ok") PROVE Withdraws(k)
    <2>1. \E a : /\ Moves(k, "reply", {}, a, "none")
                 /\ Cleared(k) \/ a # "ok"
      BY <1>0, <1>4, KillMoves
    <2>2. /\ UNCHANGED <<rows, announced, minted, snap, disk, pending>>
          /\ job[k].pc \in {"cleared", "killed"}
          /\ Cleared(k) => job[k].pc = "cleared"
      BY <1>4 DEF Killed, Cleared, At, events, table
    <2>3. Cleared(k) => job[k].op # "kill"
      BY <2>2, ServesAsNamed
    <2> QED
      BY <1>c, <2>1, <2>2, <2>3, StillWithdraws
  <1> QED
    BY <1>1, <1>2, <1>3, <1>4

\* The handlers of workspaces.
LEMMA WorkspacesWithdraw ==
    ASSUME RecordedInv, CreatesApart, ServesOp, NEW k \in Workers,
           CommitWorkspace(k) \/ Retract(k) \/ LayoutWritten(k) \/ RenameWritten(k)
    PROVE  Withdraws(k)
  <1>0. TypeOK
    BY DEF RecordedInv
  <1>c. "reply" \notin Creation /\ "reply" \notin Early /\ "retract" \notin Creation
        /\ "retract" \notin Early
    BY DEF Creation, BeforeRow, AfterRow, Early
  <1>1. /\ UNCHANGED <<rows, announced, minted, snap, disk, pending>>
        /\ job[k].pc \in {"opening", "retract", "layout", "rename"}
        /\ ~ Retract(k) => job[k].pc \in {"opening", "layout", "rename"}
    BY DEF CommitWorkspace, Retract, LayoutWritten, RenameWritten, At, events, table
  <1>2. ~ Retract(k) => job[k].op # "kill"
    BY <1>1, ServesAsNamed
  <1>3. job[k].pc \in {"layout", "rename"} => job[k].ws \in WorkspaceIds /\ job[k].old \in Info
    BY DEF RecordedInv, JobShape
  <1>4. \E pc \in {"reply", "retract"} : \E d, a :
           /\ Moves(k, pc, d, a, "none")
           /\ Retract(k) => a # "ok"
    <2>1. CASE CommitWorkspace(k) /\ ~ Retract(k)
      BY <1>0, <2>1, CommitWorkspaceDoes
    <2>2. CASE Retract(k)
      BY <1>0, <2>2, RetractDoes
    <2>3. CASE LayoutWritten(k) /\ ~ Retract(k)
      <3>1. job[k].pc = "layout"
        BY <2>3 DEF LayoutWritten, At
      <3> QED
        BY <1>0, <1>3, <2>3, <3>1, LayoutWrittenDoes
    <2>4. CASE RenameWritten(k) /\ ~ Retract(k)
      <3>1. job[k].pc = "rename"
        BY <2>4 DEF RenameWritten, At
      <3> QED
        BY <1>0, <1>3, <2>4, <3>1, RenameWrittenDoes
    <2> QED
      BY <2>1, <2>2, <2>3, <2>4
  <1> QED
    BY <1>1, <1>2, <1>4, <1>c, StillWithdraws

\* A new request of an idle worker, other than a create that mints an id.
LEMMA RequestsWithdraw ==
    ASSUME RecordedInv, NEW k \in Workers
    PROVE  /\ \A s \in SessionIds : Kill(k, s) => Withdraws(k)
           /\ \A w \in WorkspaceIds, n \in Names : CreateWorkspace(k, w, n) => Withdraws(k)
           /\ \A w \in WorkspaceIds : KillWorkspace(k, w) => Withdraws(k)
           /\ \A w \in WorkspaceIds, doc \in SUBSET SessionIds, rev \in 1..MaxRev :
                 UpdateLayout(k, w, doc, rev) => Withdraws(k)
           /\ \A w \in WorkspaceIds, n \in Names : RenameWorkspace(k, w, n) => Withdraws(k)
  <1>0. TypeOK
    BY DEF RecordedInv
  <1>c. \A pc \in {"reply", "killing", "opening", "clearing", "layout", "rename"} :
           pc \notin Creation /\ pc \notin Early
    BY DEF Creation, BeforeRow, AfterRow, Early
  <1>m. ASSUME NEW pc \in {"reply", "killing", "opening", "clearing", "layout", "rename"},
               NEW op, NEW ws, NEW id, NEW d, NEW a, NEW w \in {"none", "queued"},
               Becomes(k, pc, op, ws, id, d, a, w), job[k].pc = "idle",
               pc = "reply" => op # "kill" \/ a # "ok",
               UNCHANGED <<snap, disk>>,
               \A s \in SessionIds :
                  /\ s \in minted' <=> s \in minted
                  /\ s \in announced' => s \in announced /\ rows'[s] = rows[s]
                  /\ rows'[s] # Gone => rows[s] # Gone
                  /\ pending'[s] # Gone => pending[s] # Gone
        PROVE  Withdraws(k)
    BY <1>c, <1>m, PlainWithdraws
  <1>1. ASSUME NEW s \in SessionIds, Kill(k, s) PROVE Withdraws(k)
    <2>1. UNCHANGED <<minted, snap, disk, pending>> /\ job[k].pc = "idle"
      BY <1>1 DEF Kill, At
    <2>2. CASE /\ UNCHANGED <<rows, workspaces, events>>
               /\ Becomes(k, "reply", "kill", Gone, s, {}, "not_found", "none")
      BY <1>m, <2>1, <2>2 DEF events
    <2>3. CASE /\ rows[s] # Gone /\ RemoveRow(s)
               /\ Becomes(k, "killing", "kill", Gone, s, {s}, "none", "none")
      <3>2. \A t \in SessionIds : /\ t \in announced' => t \in announced /\ rows'[t] = rows[t]
                                  /\ rows'[t] # Gone => rows[t] # Gone
        BY <1>0, <2>3, RemovedRow
      <3> QED
        BY <1>m, <2>1, <2>3, <3>2
    <2> QED
      BY <1>0, <1>1, <2>2, <2>3, KillDoes
  <1>2. ASSUME NEW w \in WorkspaceIds, NEW n \in Names, CreateWorkspace(k, w, n) PROVE Withdraws(k)
    <2>1. UNCHANGED <<rows, announced, snap, disk, pending>> /\ job[k].pc = "idle"
          /\ minted' = minted \cup {w}
      BY <1>2 DEF CreateWorkspace, At, events
    <2>2. \A s \in SessionIds : s \in minted' <=> s \in minted
      BY <2>1, ConstantsAssumption
    <2> QED
      BY <1>0, <1>2, <1>m, <2>1, <2>2, CreateWorkspaceDoes
  <1>3. ASSUME NEW w \in WorkspaceIds, KillWorkspace(k, w) PROVE Withdraws(k)
    <2>1. UNCHANGED <<minted, snap, disk>> /\ job[k].pc = "idle"
      BY <1>3 DEF KillWorkspace, At
    <2>2. CASE /\ UNCHANGED <<table, events>>
               /\ Becomes(k, "reply", "kill_workspace", w, Gone, {}, "not_found", "none")
      BY <1>m, <2>1, <2>2 DEF table, events
    <2>3. CASE /\ rows' = [s \in SessionIds |-> IF s \in SessionsIn(w) THEN Gone ELSE rows[s]]
               /\ pending' = [s \in SessionIds |-> IF pending[s] = w THEN Gone ELSE pending[s]]
               /\ announced' = announced \ SessionsIn(w)
               /\ Becomes(k, "clearing", "kill_workspace", w, Gone, SessionsIn(w), "none", "none")
      <3>1. \A t \in SessionIds : /\ t \in announced' => t \in announced /\ rows'[t] = rows[t]
                                  /\ rows'[t] # Gone => rows[t] # Gone
                                  /\ pending'[t] # Gone => pending[t] # Gone
        BY <2>3
      <3> QED
        BY <1>m, <2>1, <2>3, <3>1
    <2> QED
      BY <1>0, <1>3, <2>2, <2>3, KillWorkspaceDoes
  <1>4. ASSUME NEW w \in WorkspaceIds, NEW doc \in SUBSET SessionIds, NEW rev \in 1..MaxRev,
               UpdateLayout(k, w, doc, rev)
        PROVE  Withdraws(k)
    <2>1. UNCHANGED <<rows, pending, snap, disk, minted, announced>> /\ job[k].pc = "idle"
      BY <1>4 DEF UpdateLayout, At, events
    <2>2. \/ \E a : Becomes(k, "reply", "update_layout", w, Gone, {}, a, "none")
          \/ Becomes(k, "layout", "update_layout", w, Gone, {}, "none", "queued")
      BY <1>0, <1>4, UpdateLayoutDoes
    <2> QED
      BY <1>m, <2>1, <2>2
  <1>5. ASSUME NEW w \in WorkspaceIds, NEW n \in Names, RenameWorkspace(k, w, n) PROVE Withdraws(k)
    <2>1. UNCHANGED <<rows, pending, snap, disk, minted, announced>> /\ job[k].pc = "idle"
      BY <1>5 DEF RenameWorkspace, At, events
    <2>2. \/ Becomes(k, "reply", "rename", w, Gone, {}, "not_found", "none")
          \/ Becomes(k, "rename", "rename", w, Gone, {}, "none", "queued")
      BY <1>0, <1>5, RenameWorkspaceDoes
    <2> QED
      BY <1>m, <2>1, <2>2
  <1> QED
    BY <1>1, <1>2, <1>3, <1>4, <1>5

\* A handler that moves on outside its create leaves a session where it is.
LEMMA PhaseStays ==
    ASSUME NEW s \in SessionIds, NEW k \in Workers,
           \A l \in Workers : l # k => job'[l] = job[l],
           ~ Opening(k, s), ~ Opening(k, s)',
           job[k].write # "writing", job'[k].write # "writing",
           rows'[s] = rows[s], pending'[s] = pending[s], disk'.sessions[s] = disk.sessions[s],
           snap' = snap, s \in announced' <=> s \in announced, s \in minted' <=> s \in minted
    PROVE  Phase(s)' = Phase(s) /\ (Named(s)' <=> Named(s))
  <1>1. \A l \in Workers : Opening(l, s)' <=> Opening(l, s)
    BY DEF Opening
  <1>2. Named(s)' <=> Named(s)
    <2>1. \A l \in Workers : job'[l].write = "writing" <=> job[l].write = "writing"
      OBVIOUS
    <2> QED
      BY <2>1 DEF Named
  <1> QED
    BY <1>1, <1>2 DEF Phase

\* The answer goes out.
LEMMA ReplyAnswers ==
    ASSUME RecordedInv, WritesCounted, Traced, NEW k \in Workers, Reply(k)
    PROVE  Traced' /\ Promise!Answered(k)
  <1>0. TypeOK
    BY DEF RecordedInv
  <1>1. /\ \A l \in Workers : l # k => job'[l] = job[l]
        /\ job'[k].pc = "idle" /\ job'[k].write = "none"
    BY <1>0, ReplyDoes DEF Becomes
  <1>2. /\ UNCHANGED <<rows, pending, disk, snap, announced, minted>>
        /\ job[k].pc = "reply" /\ job[k].write = "none"
    BY DEF Reply, At, table, events, WritesCounted
  <1>3. \A s \in SessionIds : Phase(s)' = Phase(s) /\ (Named(s)' <=> Named(s))
    BY <1>1, <1>2, PhaseStays DEF Opening
  <1>4. Traced'
    BY <1>1, <1>2, <1>3 DEF Traced, Creation, BeforeRow, AfterRow
  <1>5. /\ AckedKill(k)' = Gone
        /\ \A l \in Workers : l # k => AckedKill(l)' = AckedKill(l)
    BY <1>1 DEF AckedKill
  <1> QED
    BY <1>3, <1>4, <1>5 DEF Promise!Answered

\* A kill that was recorded is answered "ok": nothing names the session.
LEMMA KilledAcks ==
    ASSUME RecordedInv, AckInv, Traced, NEW k \in Workers, Killed(k), job[k].write = "ok"
    PROVE  Traced' /\ \E s \in SessionIds : Promise!Ack(k, s)
  <1> DEFINE s == job[k].id
  <1>0. TypeOK
    BY DEF RecordedInv
  <1>1. /\ UNCHANGED <<rows, pending, disk, snap, announced, minted>> /\ job[k].pc = "killed"
    BY DEF Killed, At, table, events
  <1>2. Moves(k, "reply", {}, "ok", "none")
    BY <1>0, KillMoves
  <1>3. /\ \A l \in Workers : l # k => job'[l] = job[l]
        /\ job'[k].pc = "reply" /\ job'[k].write = "none" /\ job'[k].answer = "ok"
        /\ job'[k].op = job[k].op /\ job'[k].id = s
    BY <1>2 DEF Moves, Becomes
  <1>4. job[k].op = "kill" /\ Applied(k) /\ InMemory(k) /\ \A d \in Ledgers : Says(k, d)
    BY <1>1 DEF AckInv, ServesOp, AckTrail, Applied
  <1>5. /\ s \in SessionIds /\ s \in minted /\ rows[s] = Gone /\ pending[s] = Gone
        /\ \A l \in Workers : job[l].pc \in BeforeRow => job[l].id # s
    BY <1>1, <1>4 DEF InMemory
  <1>6. \A d \in Ledgers : d.sessions[s] = Gone
    BY <1>4 DEF Says
  <1>7. ~ Named(s)
    BY <1>5, <1>6 DEF Named, Ledgers
  <1>8. ~ \E l \in Workers : Opening(l, s)
    BY <1>5 DEF Opening, BeforeRow
  <1>9. s \notin announced
    BY <1>5 DEF RecordedInv, AnnouncedIsRecorded
  <1>10. Phase(s) = "ended"
    BY <1>5, <1>7, <1>8, <1>9 DEF Phase
  <1>11. \A t \in SessionIds : Phase(t)' = Phase(t) /\ (Named(t)' <=> Named(t))
    BY <1>1, <1>3, PhaseStays DEF Opening
  <1>12. Traced'
    BY <1>1, <1>3, <1>11 DEF Traced, Creation, BeforeRow, AfterRow
  <1>13. /\ AckedKill(k)' = s
         /\ \A l \in Workers : l # k => AckedKill(l)' = AckedKill(l)
    BY <1>3, <1>4 DEF AckedKill
  <1>14. Promise!Ack(k, s)
    BY <1>5, <1>10, <1>11, <1>13 DEF Promise!Ack
  <1> QED
    BY <1>5, <1>12, <1>14

\* A commit that finds its workspace and its row announces the session; any other
\* is on its way to take it back, or leaves it to the kill that did.
LEMMA CommitAnnounces ==
    ASSUME RecordedInv, CreatesApart, ServesOp, Traced, NEW k \in Workers, CommitCreated(k)
    PROVE  Withdraws(k) \/ (Traced' /\ \E s \in SessionIds : Promise!Announce(s))
  <1>0. TypeOK
    BY DEF RecordedInv
  <1>c. /\ Creation = {"reserve", "reserving", "spawn", "abandon", "record", "release",
                       "commit", "undo", "undoing", "undone"}
        /\ Early = {"reserve", "reserving", "spawn", "record"}
    BY DEF Creation, BeforeRow, AfterRow, Early
  <1>1. UNCHANGED <<rows, pending, disk, snap, minted>> /\ job[k].pc = "commit"
    BY DEF CommitCreated, At, table
  <1> PICK s \in SessionIds : s = job[k].id
    BY <1>1, <1>c DEF RecordedInv, JobShape
  <1>2. s \in SessionIds /\ s \notin announced /\ job[k].op # "kill"
    BY <1>1, <1>c, ServesAsNamed DEF Traced
  <1>3. CASE \E a : Moves(k, "undo", job[k].doomed, a, "none") /\ announced' = announced
    BY <1>1, <1>c, <1>3, StillWithdraws
  <1>4. CASE /\ Moves(k, "reply", {}, "ok", "none") /\ rows[s] = Gone
             /\ announced' = announced
    BY <1>1, <1>2, <1>c, <1>4, StillWithdraws
  <1>5. CASE /\ Moves(k, "reply", {}, "ok", "none") /\ rows[s] # Gone /\ job[k].write = "ok"
             /\ announced' = announced \cup {s}
    <2>1. /\ \A l \in Workers : l # k => job'[l] = job[l]
          /\ job'[k].pc = "reply" /\ job'[k].write = "none" /\ job'[k].op = job[k].op
      BY <1>5 DEF Moves, Becomes
    <2>2. ~ rows[s].lost
      <3>1. rows[s] = [home |-> job[k].ws, lost |-> FALSE]
        BY <1>1, <1>5 DEF RecordedInv, RowOfCreation, AfterRow
      <3> QED
        BY <3>1
    <2>3. Phase(s) = "opening" /\ Phase(s)' = "live"
      <3>1. Opening(k, s)
        BY <1>1, <1>5 DEF Opening
      <3>2. s \in announced' /\ ~ rows'[s].lost
        BY <1>1, <1>5, <2>2
      <3> QED
        BY <1>2, <3>1, <3>2 DEF Phase
    <2>4. \A t \in SessionIds : t # s => Phase(t)' = Phase(t)
      BY <1>1, <1>5, <2>1, PhaseStays DEF Opening
    <2>5. \A t \in SessionIds : Named(t)' => Named(t)
      BY <1>1, <1>5, <2>1 DEF Named
    <2>6. Traced'
      <3>1. ASSUME NEW l \in Workers, job'[l].pc \in Creation PROVE job'[l].id \notin announced'
        <4>1. l # k /\ job'[l] = job[l]
          BY <1>c, <2>1, <3>1
        <4>2. job[l].id \notin announced /\ job[l].id # s
          BY <1>1, <1>c, <3>1, <4>1 DEF Traced, RecordedInv, OneCreator
        <4> QED
          BY <1>5, <4>1, <4>2
      <3> QED
        BY <1>1, <2>5, <3>1 DEF Traced
    <2>7. \A l \in Workers : AckedKill(l)' = AckedKill(l)
      BY <1>1, <1>2, <2>1 DEF AckedKill
    <2>8. Promise!Announce(s)
      BY <1>2, <2>3, <2>4, <2>7 DEF Promise!Announce
    <2> QED
      BY <1>2, <2>6, <2>8
  <1> QED
    BY <1>0, <1>3, <1>4, <1>5, CommitCreatedDoes

\* A create that mints an id opens a session.
LEMMA CreateOpens ==
    ASSUME RecordedInv, Traced, NEW k \in Workers, NEW w \in WorkspaceIds, NEW s \in SessionIds,
           CreateSession(k, w, s), WritesCounted
    PROVE  Withdraws(k) \/ (Traced' /\ Promise!Open(s))
  <1>0. TypeOK
    BY DEF RecordedInv
  <1>c. "reply" \notin Creation /\ "reply" \notin Early
    BY DEF Creation, BeforeRow, AfterRow, Early
  <1>1. /\ UNCHANGED <<rows, pending, disk, snap, announced>> /\ job[k].pc = "idle"
        /\ s \notin minted /\ job[k].write = "none"
    BY DEF CreateSession, At, table, events, WritesCounted
  <1>2. CASE /\ \E a : Becomes(k, "reply", "create", w, Gone, {}, a, "none")
             /\ minted' = minted
    BY <1>1, <1>c, <1>2, PlainWithdraws
  <1>3. CASE /\ Becomes(k, "reserve", "create", w, s, {}, "none", "none")
             /\ minted' = minted \cup {s}
    <2>1. /\ \A l \in Workers : l # k => job'[l] = job[l]
          /\ job'[k].pc = "reserve" /\ job'[k].write = "none" /\ job'[k].id = s
      BY <1>3 DEF Becomes
    <2>2. /\ s \notin announced /\ ~ Named(s) /\ ~ \E l \in Workers : Opening(l, s)
      BY <1>1, OpeningMinted DEF Traced, RecordedInv, AnnouncedIsRecorded, RowsMinted
    <2>3. Phase(s) = "unborn"
      BY <1>1, <2>2 DEF Phase
    <2>4. Phase(s)' = "opening"
      BY <1>1, <2>1, <2>2 DEF Phase, Opening
    <2>5. \A t \in SessionIds : t # s => Phase(t)' = Phase(t)
      BY <1>1, <1>3, <2>1, PhaseStays DEF Opening
    <2>6. Traced'
      <3>1. \A t \in SessionIds : Named(t)' => Named(t)
        BY <1>1, <2>1 DEF Named
      <3> QED
        BY <1>1, <1>3, <2>1, <2>2, <3>1 DEF Traced
    <2>7. \A l \in Workers : AckedKill(l)' = AckedKill(l)
      BY <1>1, <2>1 DEF AckedKill
    <2>8. Promise!Open(s)
      BY <2>3, <2>4, <2>5, <2>7 DEF Promise!Open
    <2> QED
      BY <2>6, <2>8
  <1> QED
    BY <1>0, <1>2, <1>3, CreateSessionDoes

\* A load makes lost rows of what the ledger names, and leaves nothing else named.
LEMMA LoadedRowsLost ==
    ASSUME NEW d \in Ledger, NEW used, NEW t \in Loaded(d, used), NEW ok \in BOOLEAN,
           NEW s \in SessionIds
    PROVE  /\ t.rows[s] # Gone <=> d.sessions[s] # Gone
           /\ t.rows[s] # Gone => t.rows[s].lost = TRUE
           /\ Rewritten(d, t, ok).sessions[s] # Gone => t.rows[s] # Gone
  <1>1. PICK wrap \in Wrappings(d, used) : t.rows = LoadedRows(d, HomeOf(d, wrap))
    BY DEF Loaded
  <1> DEFINE home == HomeOf(d, wrap)
             r == LoadedRows(d, home)
  <1>2. s \in Recorded(d) <=> d.sessions[s] # Gone
    BY DEF Recorded
  <1>3. s \in Recorded(d) => home[s] \in WorkspaceIds
    BY DEF HomeOf, Recorded, Wrappings, Ledger
  <1> HIDE DEF home
  <1>4. /\ s \in Recorded(d) => r[s] = [home |-> home[s], lost |-> TRUE]
        /\ s \notin Recorded(d) => r[s] = Gone
    BY DEF LoadedRows
  <1>5. s \in Recorded(d) => [home |-> home[s], lost |-> TRUE] \in Row
    BY <1>3 DEF Row
  <1>6. r[s] # Gone <=> d.sessions[s] # Gone
    BY <1>2, <1>4, <1>5, ConstantsAssumption
  <1>7. r[s] # Gone => r[s].lost = TRUE
    BY <1>4
  <1>8. t.rows = r
    BY <1>1 DEF home
  <1> HIDE DEF r
  <1>9. Rewritten(d, t, ok).sessions[s] # Gone => r[s] # Gone
    <2>1. CASE ok /\ Rewrites(d, t)
      <3>1. Rewritten(d, t, ok).sessions[s]
              = IF r[s] = Gone THEN Gone ELSE IF r[s].lost THEN Gone ELSE r[s].home
        BY <1>8, <2>1 DEF Rewritten, Snapshot
      <3> QED
        BY <1>7, <3>1
    <2>2. CASE ~ (ok /\ Rewrites(d, t))
      <3>1. Rewritten(d, t, ok) = d
        BY <2>2 DEF Rewritten
      <3> QED
        BY <1>6, <3>1
    <2> QED
      BY <2>1, <2>2
  <1> QED
    BY <1>6, <1>7, <1>8, <1>9

\* A daemon that has just loaded ledger d serves nobody, and every session is lost
\* or not named.
LEMMA FreshPhases ==
    ASSUME RecordedInv,
           job = [k \in Workers |-> Idle], pending = NoPending,
           announced = {s \in SessionIds : rows[s] # Gone},
           \A s \in SessionIds : /\ rows[s] # Gone => rows[s].lost = TRUE
                                 /\ disk.sessions[s] # Gone => rows[s] # Gone
    PROVE  /\ Traced
           /\ \A s \in SessionIds :
                 Phase(s) = IF rows[s] # Gone THEN "lost" ELSE IF s \in minted THEN "ended" ELSE "unborn"
           /\ \A k \in Workers : AckedKill(k) = Gone
  <1>1. \A k \in Workers : job[k].pc = "idle" /\ job[k].write = "none"
    BY IdleJob
  <1>2. \A s \in SessionIds : Named(s) => rows[s] # Gone
    BY <1>1 DEF Named, NoPending
  <1>3. \A s \in SessionIds, k \in Workers : ~ Opening(k, s)
    BY <1>1 DEF Opening
  <1>4. Traced
    BY <1>1, <1>2 DEF Traced, RecordedInv, RowsMinted, Creation, BeforeRow, AfterRow
  <1>5. ASSUME NEW s \in SessionIds
        PROVE  Phase(s) = IF rows[s] # Gone THEN "lost" ELSE IF s \in minted THEN "ended" ELSE "unborn"
    BY <1>2, <1>3 DEF Phase
  <1>6. \A k \in Workers : AckedKill(k) = Gone
    BY <1>1 DEF AckedKill
  <1> QED
    BY <1>4, <1>5, <1>6

\* The first daemon has opened nothing yet and reports what its ledger names.
LEMMA PromiseInit ==
    ASSUME Init
    PROVE  Traced /\ Promise!Init
  <1>0. RecordedInv
    BY InitInv
  <1>1. PICK d \in InitialLedgers, ok \in BOOLEAN : \E t \in Loaded(d, {}) :
          /\ rows = t.rows /\ disk = Rewritten(d, t, ok)
          /\ announced = {s \in SessionIds : t.rows[s] # Gone}
          /\ minted = {s \in SessionIds : t.rows[s] # Gone}
                      \cup {w \in WorkspaceIds : t.workspaces[w] # Gone}
    BY DEF Init
  <1>2. PICK t \in Loaded(d, {}) :
          /\ rows = t.rows /\ disk = Rewritten(d, t, ok)
          /\ announced = {s \in SessionIds : t.rows[s] # Gone}
          /\ minted = {s \in SessionIds : t.rows[s] # Gone}
                      \cup {w \in WorkspaceIds : t.workspaces[w] # Gone}
    BY <1>1
  <1>3. d \in Ledger
    BY ConstantsAssumption
  <1>4. \A s \in SessionIds : /\ rows[s] # Gone => rows[s].lost = TRUE
                              /\ disk.sessions[s] # Gone => rows[s] # Gone
    BY <1>2, <1>3, LoadedRowsLost
  <1>5. job = [k \in Workers |-> Idle] /\ pending = NoPending
    BY DEF Init
  <1>6. /\ Traced
        /\ \A s \in SessionIds :
              Phase(s) = IF rows[s] # Gone THEN "lost" ELSE IF s \in minted THEN "ended" ELSE "unborn"
        /\ \A k \in Workers : AckedKill(k) = Gone
    BY <1>0, <1>2, <1>4, <1>5, FreshPhases
  <1>7. \A s \in SessionIds : rows[s] = Gone => s \notin minted
    BY <1>2, ConstantsAssumption
  <1>8. \A s \in SessionIds : Phase(s) \in {"unborn", "lost"}
    BY <1>6, <1>7
  <1> QED
    BY <1>6, <1>8 DEF Promise!Init

\* The daemon dies in the middle of anything and another takes over.
LEMMA RestartCrashes ==
    ASSUME RecordedInv, RecordedInv', Traced, Restart
    PROVE  Traced' /\ Promise!Crash
  <1>1. PICK t \in Loaded(disk, minted), ok \in BOOLEAN :
          /\ rows' = t.rows /\ disk' = Rewritten(disk, t, ok)
          /\ announced' = {s \in SessionIds : t.rows[s] # Gone}
          /\ minted' = minted \cup {s \in SessionIds : t.rows[s] # Gone}
                              \cup {w \in WorkspaceIds : t.workspaces[w] # Gone}
    BY DEF Restart
  <1>2. disk \in Ledger
    BY DEF RecordedInv, TypeOK
  <1>3. \A s \in SessionIds : /\ rows'[s] # Gone <=> disk.sessions[s] # Gone
                              /\ rows'[s] # Gone => rows'[s].lost = TRUE
                              /\ disk'.sessions[s] # Gone => rows'[s] # Gone
    BY <1>1, <1>2, LoadedRowsLost
  <1>4. job' = [k \in Workers |-> Idle] /\ pending' = NoPending
    BY DEF Restart
  <1>5. /\ Traced'
        /\ \A s \in SessionIds :
              Phase(s)' = IF rows'[s] # Gone THEN "lost"
                          ELSE IF s \in minted' THEN "ended" ELSE "unborn"
        /\ \A k \in Workers : AckedKill(k)' = Gone
    <2>1. /\ \A k \in Workers : job'[k].pc = "idle" /\ job'[k].write = "none"
      BY <1>4, IdleJob
    <2>2. \A s \in SessionIds : Named(s)' => rows'[s] # Gone
      BY <1>3, <1>4, <2>1 DEF Named, NoPending
    <2>3. \A s \in SessionIds, k \in Workers : ~ Opening(k, s)'
      BY <2>1 DEF Opening
    <2>4. Traced'
      BY <2>1, <2>2 DEF Traced, RecordedInv, RowsMinted, Creation, BeforeRow, AfterRow
    <2>5. ASSUME NEW s \in SessionIds
          PROVE  Phase(s)' = IF rows'[s] # Gone THEN "lost"
                             ELSE IF s \in minted' THEN "ended" ELSE "unborn"
      BY <1>1, <1>3, <2>2, <2>3 DEF Phase
    <2>6. \A k \in Workers : AckedKill(k)' = Gone
      BY <2>1 DEF AckedKill
    <2> QED
      BY <2>4, <2>5, <2>6
  <1>6. ASSUME NEW s \in SessionIds PROVE Phase(s)' \in Promise!Survives(Phase(s))
    <2>1. s \in minted' <=> s \in minted \/ rows'[s] # Gone
      BY <1>1, ConstantsAssumption
    <2>2. disk.sessions[s] # Gone => Named(s)
      BY DEF Named
    <2>3. Named(s) \/ (\E k \in Workers : Opening(k, s)) \/ s \in announced => s \in minted
      BY OpeningMinted DEF Traced, RecordedInv, AnnouncedIsRecorded, RowsMinted
    <2>4. CASE s \in announced
      <3>1. s \in minted
        BY <2>3, <2>4
      <3>2. ~ rows[s].lost => rows'[s] # Gone
        <4>1. rows[s] # Gone /\ (~ rows[s].lost => disk.sessions[s] = rows[s].home)
          BY <2>4 DEF RecordedInv, AnnouncedIsRecorded
        <4>2. rows[s].home # Gone
          BY <4>1, ConstantsAssumption DEF RecordedInv, TypeOK, Row
        <4> QED
          BY <1>3, <4>1, <4>2
      <3>3. Phase(s) = IF rows[s].lost THEN "lost" ELSE "live"
        BY <2>4 DEF Phase
      <3>4. Phase(s)' \in {"lost", "ended"} /\ (rows'[s] # Gone => Phase(s)' = "lost")
        BY <1>5, <2>1, <3>1
      <3> QED
        BY <3>2, <3>3, <3>4 DEF Promise!Survives
    <2>5. CASE s \notin announced /\ ((\E k \in Workers : Opening(k, s)) \/ Named(s))
      <3>1. Phase(s) \in {"opening", "closing"}
        BY <2>5 DEF Phase
      <3>2. Phase(s)' \in {"lost", "ended"}
        BY <1>5, <2>1, <2>3, <2>5
      <3> QED
        BY <3>1, <3>2 DEF Promise!Survives
    <2>6. CASE s \notin announced /\ ~ (\E k \in Workers : Opening(k, s)) /\ ~ Named(s)
      <3>1. Phase(s) = IF s \in minted THEN "ended" ELSE "unborn"
        BY <2>6 DEF Phase
      <3>2. rows'[s] = Gone
        BY <1>3, <2>2, <2>6
      <3>3. Phase(s)' = IF s \in minted THEN "ended" ELSE "unborn"
        BY <1>5, <2>1, <3>2
      <3> QED
        BY <3>1, <3>3 DEF Promise!Survives
    <2> QED
      BY <2>4, <2>5, <2>6
  <1>7. \A s \in SessionIds : Phase(s)' \in Promise!Phases
    BY <1>5 DEF Promise!Phases
  <1> QED
    BY <1>5, <1>6, <1>7 DEF Promise!Crash

\* Every step of the table is one of the promise, or none.
LEMMA PromiseNext ==
    ASSUME RecordedInv, RecordedInv', CreatesApart, AckInv, WritesCounted, Traced, [Next]_vars
    PROVE  Traced' /\ [Promise!Next]_<<[s \in SessionIds |-> Phase(s)],
                                       [k \in Workers |-> AckedKill(k)]>>
  <1>s. ServesOp
    BY DEF AckInv
  <1>1. ASSUME NEW k \in Workers, Withdraws(k) PROVE Traced' /\ Promise!Next
    BY <1>1, WithdrawsKeeps DEF Promise!Next
  <1>2. ASSUME NEW k \in Workers, Step(k) PROVE Traced' /\ Promise!Next
    <2>1. CASE Reply(k)
      BY <2>1, ReplyAnswers DEF Promise!Next
    <2>2. CASE CommitCreated(k)
      BY <1>1, <1>s, <2>2, CommitAnnounces DEF Promise!Next
    <2>3. CASE Killed(k) /\ job[k].write = "ok"
      BY <2>3, KilledAcks DEF Promise!Next
    <2>4. CASE ~ Reply(k) /\ ~ CommitCreated(k) /\ ~ (Killed(k) /\ job[k].write = "ok")
      <3>1. Withdraws(k)
        BY <1>2, <1>s, <2>4, WritesWithdraw, CreatesWithdraw, RemovalsWithdraw, WorkspacesWithdraw
        DEF Step
      <3> QED
        BY <1>1, <3>1
    <2> QED
      BY <2>1, <2>2, <2>3, <2>4
  <1>3. ASSUME NEW k \in Workers, Request(k) PROVE Traced' /\ Promise!Next
    <2>1. ASSUME NEW w \in WorkspaceIds, NEW s \in SessionIds, CreateSession(k, w, s)
          PROVE  Traced' /\ Promise!Next
      BY <1>1, <2>1, CreateOpens DEF Promise!Next
    <2>2. CASE ~ \E w \in WorkspaceIds, s \in SessionIds : CreateSession(k, w, s)
      <3>1. Withdraws(k)
        BY <1>3, <2>2, RequestsWithdraw DEF Request
      <3> QED
        BY <1>1, <3>1
    <2> QED
      BY <2>1, <2>2
  <1>4. CASE Restart
    BY <1>4, RestartCrashes DEF Promise!Next
  <1>5. CASE UNCHANGED vars
    <2>1. \A s \in SessionIds : /\ Named(s)' <=> Named(s)
                                /\ \A k \in Workers : Opening(k, s)' <=> Opening(k, s)
      BY <1>5 DEF vars, Named, Opening
    <2>2. \A s \in SessionIds : Phase(s)' = Phase(s)
      BY <1>5, <2>1 DEF vars, Phase
    <2>3. \A k \in Workers : AckedKill(k)' = AckedKill(k)
      BY <1>5 DEF vars, AckedKill
    <2>4. Traced'
      BY <1>5, <2>1 DEF vars, Traced
    <2> QED
      BY <2>2, <2>3, <2>4
  <1> QED
    BY <1>2, <1>3, <1>4, <1>5 DEF Next

\* SessionPromise: a session is opened, announced and withdrawn once each, only live
\* sessions that a crash interrupted come back, as lost rows, and a kill answered
\* "ok" is final, whatever write, worker or crash comes after it.
THEOREM TableKeepsPromise == Spec => KeepsPromise
  <1>1. Init => Traced /\ Promise!Init
    BY PromiseInit
  <1>2. /\ RecordedInv /\ RecordedInv' /\ ShellInv /\ AckInv /\ WritesCounted /\ Traced
        /\ [Next]_vars
        => Traced' /\ [Promise!Next]_<<[s \in SessionIds |-> Phase(s)],
                                       [k \in Workers |-> AckedKill(k)]>>
    BY PromiseNext DEF ShellInv
  <1> QED
    BY <1>1, <1>2, RecordedInvariant, ShellInvariant, AckInvariant, PTL
    DEF Spec, KeepsPromise, Promise!Spec
=============================================================================
