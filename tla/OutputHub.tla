------------------------------ MODULE OutputHub ------------------------------
(***************************************************************************)
(* One session's byte stream: crates/ade_session_daemon, sessions.rs       *)
(* (Ring, OutputHub, Outbound, the drain thread) over grid.rs              *)
(* (SessionGrid).                                                          *)
(*                                                                         *)
(* The drain thread reads the pty, records what it read in a bounded ring  *)
(* and in the screen, and hands it to every attached connection.  An       *)
(* attach queues a replay (the newest ring bytes and a repaint of the      *)
(* screen) and then streams.  A connection whose outbound queue is over    *)
(* its byte bound is closed, never waited for.                             *)
(*                                                                         *)
(* Pty bytes are numbered from 1 and a frame carries an interval of them.  *)
(* The screen is abstracted to what decides a repaint: whether the         *)
(* alternate screen is on, how often it was left, whether a repair is      *)
(* latched and whether one may be spliced in at this point of the stream.  *)
(***************************************************************************)
EXTENDS Integers, Sequences, FiniteSets

CONSTANTS
    Conns,        \* client connections
    Ops,          \* what happens besides a first attach: see AllOps
    RingCap,      \* bytes the ring retains
    MaxBytes,     \* Outbound.max_bytes
    Reserve,      \* ATTACH_RESERVE_BYTES
    Overhead,     \* frame_bytes' flat charge
    ScreenBytes,  \* what a repaint costs
    OtherBytes,   \* payload of a frame from elsewhere on the connection
    MaxProduced,  \* bound: bytes the child writes
    MaxExits,     \* bound: times the alternate screen is left
    MaxOthers     \* bound: frames from elsewhere queued on a connection

AllOps == {"reattach", "detach", "hangup", "kill", "repaint", "sweep", "other"}

ASSUME HubAssumption ==
    /\ Ops \subseteq AllOps
    /\ RingCap \in Nat \ {0} /\ MaxBytes \in Nat
    /\ Overhead \in Nat \ {0} /\ ScreenBytes \in Nat \ {0} /\ OtherBytes \in Nat
    /\ Reserve \in Nat /\ Reserve >= 2 * Overhead
    /\ MaxProduced \in Nat /\ MaxExits \in Nat /\ MaxOthers \in Nat

VARIABLES
    child,     \* the process: "running" or "exited"
    reaped,    \* the reaper has waited and sent the exit code to the drain
    produced,  \* bytes the child has written to the pty
    fed,       \* bytes the drain has recorded (Ring.push)
    dropped,   \* bytes the ring has let go of
    drain,     \* where the drain thread is in its loop
    grid,      \* SessionGrid
    present,   \* the session's row is in the table
    ending,    \* OutputHub.ending
    subs,      \* OutputHub.subscribers
    conn,      \* Outbound of each connection
    job,       \* the attach or detach each connection's handler is in
    attached,  \* connections whose last attach was answered and not undone
    view       \* what each connection's client has received of the stream

process == <<child, reaped, produced>>
stream == <<fed, dropped, drain>>
vars == <<child, reaped, produced, fed, dropped, drain, grid, present, ending,
          subs, conn, job, attached, view>>

-----------------------------------------------------------------------------
(* Frames and outbound queues.                                              *)

Endings == {"exited", "removed"}

\* paint is 0, or one more than the number of alternate-screen exits the
\* painted screen has seen.
Frames == [kind : {"replay", "output", "other"} \cup Endings,
           from : Nat, to : Nat, paint : Nat]

Raw(a, b) == [kind |-> "output", from |-> a, to |-> b, paint |-> 0]
Painted(f, g) == [f EXCEPT !.paint = g.exits + 1]
Ending(e) == [kind |-> e, from |-> 0, to |-> 0, paint |-> 0]
Other == [kind |-> "other", from |-> 0, to |-> OtherBytes, paint |-> 0]

\* frame_bytes.
Cost(f) == Overhead + (f.to - f.from) + (IF f.paint > 0 THEN ScreenBytes ELSE 0)

Fresh == [queue |-> <<>>, queued |-> 0, closed |-> FALSE]

Queue(n, f) == [n EXCEPT !.queue = Append(@, f), !.queued = @ + Cost(f)]

\* Outbound::push says whether the connection is worth keeping; one over its
\* bound is closed.
Kept(n, f) == ~ n.closed /\ n.queued + Cost(f) <= MaxBytes

Push(n, f) == IF Kept(n, f) THEN Queue(n, f) ELSE [n EXCEPT !.closed = TRUE]

\* Outbound::try_push queues only if Reserve is left, and closes nothing.
Fits(n, f) == ~ n.closed /\ n.queued + Cost(f) + Reserve <= MaxBytes

\* Outbound::free_bytes.
Free(n) == IF n.queued > MaxBytes THEN 0 ELSE MaxBytes - n.queued

\* subscribers.retain(push) of one frame.
PushAll(f) == /\ conn' = [c \in Conns |-> IF c \in subs THEN Push(conn[c], f) ELSE conn[c]]
              /\ subs' = {c \in subs : Kept(conn[c], f)}

-----------------------------------------------------------------------------
(* The screen.                                                              *)

\* What parsing output may do: enter the alternate screen, which drops a
\* latched repair, leave it, which latches one (note_exit), or neither; and the
\* stream may end up at a safe splice point or not (sync_pending, stream_clean).
Advance(g) ==
    UNION {
        {[g EXCEPT !.alt = TRUE, !.latch = FALSE, !.ready = r],
         IF g.alt THEN [g EXCEPT !.ready = r, !.latch = FALSE] ELSE [g EXCEPT !.ready = r]}
        \cup (IF g.exits < MaxExits
              THEN {[g EXCEPT !.alt = FALSE, !.latch = TRUE, !.ready = r, !.exits = @ + 1]}
              ELSE {})
        : r \in BOOLEAN}

\* flush_expired_sync: an update that is still open may be ended, which applies
\* what it held back.
Flushed(g) == {g} \cup (IF g.ready THEN {} ELSE Advance(g))

\* take_pending_repair.
Takes(g) == g.latch /\ g.ready
Taken(g) == [g EXCEPT !.latch = @ /\ ~ g.ready]

-----------------------------------------------------------------------------
Idle == [pc |-> "idle", frame |-> Ending("exited"), free |-> 0]

\* The hub's mutex is held from one step to the next by a publish and by an
\* attach that has read its budget.
Locked == drain.pc = "publish" \/ \E c \in Conns : job[c].pc = "replaying"

Nothing == [to |-> 0, paint |-> 0, end |-> "none"]

\* What the variables range over, but for the byte count of a queue.
Shape ==
    /\ child \in {"running", "exited"} /\ reaped \in BOOLEAN
    /\ produced \in Nat /\ fed \in Nat /\ dropped \in Nat
    /\ drain \in [pc : {"read", "publish", "eof", "done"}, at : Nat,
                  synthesized : BOOLEAN, deferred : BOOLEAN]
    /\ grid \in [alt : BOOLEAN, latch : BOOLEAN, ready : BOOLEAN, exits : Nat]
    /\ present \in BOOLEAN /\ ending \in {"none"} \cup Endings
    /\ subs \subseteq Conns
    /\ conn \in [Conns -> [queue : Seq(Frames), queued : Int, closed : BOOLEAN]]
    /\ job \in [Conns -> [pc : {"idle", "attaching", "replaying", "detaching"},
                          frame : Frames, free : Nat]]
    /\ attached \subseteq Conns
    /\ view \in [Conns -> [to : Nat, paint : Nat, end : {"none"} \cup Endings]]

\* A queue never gives back more bytes than it was charged for.
TypeOK == Shape /\ \A c \in Conns : conn[c].queued \in Nat

Init ==
    /\ child = "running" /\ reaped = FALSE /\ produced = 0
    /\ fed = 0 /\ dropped = 0
    /\ drain = [pc |-> "read", at |-> 0, synthesized |-> FALSE, deferred |-> FALSE]
    /\ grid = [alt |-> FALSE, latch |-> FALSE, ready |-> TRUE, exits |-> 0]
    /\ present = TRUE /\ ending = "none"
    /\ subs = {}
    /\ conn = [c \in Conns |-> Fresh]
    /\ job = [c \in Conns |-> Idle]
    /\ attached = {}
    /\ view = [c \in Conns |-> Nothing]

-----------------------------------------------------------------------------
(* The child and its reaper.                                                *)

Write ==
    /\ child = "running" /\ produced < MaxProduced
    /\ produced' = produced + 1
    /\ UNCHANGED <<child, reaped, stream, grid, present, ending, subs, conn, job,
                   attached, view>>

\* The child ends, on its own or because the session was killed.
Exit ==
    /\ child = "running"
    /\ child' = "exited"
    /\ UNCHANGED <<reaped, produced, stream, grid, present, ending, subs, conn, job,
                   attached, view>>

\* Mutant: the reaper announces the exit itself.
ReapReports ==
    /\ child = "exited" /\ ~ reaped /\ ~ Locked
    /\ reaped' = TRUE
    /\ IF present
       THEN ending' = "exited" /\ PushAll(Ending("exited"))
       ELSE UNCHANGED <<ending, subs, conn>>
    /\ UNCHANGED <<child, produced, stream, grid, present, job, attached, view>>

\* spawn_reaper: wait, mark_dead, hand the exit code to the drain.
Reap ==
    /\ child = "exited" /\ ~ reaped
    /\ reaped' = TRUE
    /\ UNCHANGED <<child, produced, stream, grid, present, ending, subs, conn, job,
                   attached, view>>

-----------------------------------------------------------------------------
(* The drain thread.                                                        *)

\* A read of the pty, and publish up to its loop: the whole chunk goes into the
\* ring first.
Read(m) ==
    /\ drain.pc = "read" /\ ~ Locked
    /\ fed + m <= produced
    /\ fed' = fed + m
    /\ dropped' = IF fed + m > dropped + RingCap THEN fed + m - RingCap ELSE dropped
    /\ drain' = [pc |-> "publish", at |-> fed, synthesized |-> FALSE, deferred |-> FALSE]
    /\ UNCHANGED <<process, grid, present, ending, subs, conn, job, attached, view>>

\* publish's loop ends with the chunk; a deferred repair is latched again.
Loop(g, u, synthesized, deferred) ==
    IF u < fed
    THEN /\ drain' = [pc |-> "publish", at |-> u, synthesized |-> synthesized,
                      deferred |-> deferred]
         /\ grid' = g
    ELSE /\ drain' = [drain EXCEPT !.pc = "read", !.at = u]
         /\ grid' = [g EXCEPT !.latch = @ \/ deferred]

\* feed_until_primary reaches no splice point in what is left of the chunk.
PublishRest ==
    /\ drain.pc = "publish"
    /\ \E g \in Advance(grid) :
          /\ ~ Takes(g)
          /\ Loop(g, fed, drain.synthesized, drain.deferred)
    /\ PushAll(Raw(drain.at, fed))
    /\ UNCHANGED <<process, fed, dropped, present, ending, job, attached, view>>

\* Mutant: a connection with no room for the repair gets nothing.
PublishSpliceLost(u) ==
    /\ drain.pc = "publish" /\ u \in (drain.at + 1) .. fed
    /\ \E g \in Advance(grid) :
          LET raw == Raw(drain.at, u)
              spliced == Painted(raw, g)
          IN  /\ Takes(g)
              /\ conn' = [c \in Conns |->
                            IF c \in subs /\ Fits(conn[c], spliced)
                            THEN Queue(conn[c], spliced) ELSE conn[c]]
              /\ Loop(Taken(g), u, TRUE, \E c \in subs : ~ Fits(conn[c], spliced))
    /\ UNCHANGED <<process, fed, dropped, present, ending, subs, job, attached, view>>

\* feed_until_primary stops at u, where a latched repair may be spliced in: the
\* bytes up to u and the repaint go as one frame to every connection with room
\* for it, the bytes alone to the others.  One splice per chunk; a later one,
\* or one that found no room, is put off.
PublishSplice(u) ==
    /\ drain.pc = "publish" /\ u \in (drain.at + 1) .. fed
    /\ \E g \in Advance(grid) :
          LET raw == Raw(drain.at, u)
              spliced == Painted(raw, g)
              fits == {c \in subs : ~ drain.synthesized /\ Fits(conn[c], spliced)}
          IN  /\ Takes(g)
              /\ conn' = [c \in Conns |->
                            IF c \in fits THEN Queue(conn[c], spliced)
                            ELSE IF c \in subs THEN Push(conn[c], raw) ELSE conn[c]]
              /\ subs' = fits \cup {c \in subs : Kept(conn[c], raw)}
              /\ Loop(Taken(g), u, drain.synthesized \/ subs # {},
                      drain.deferred \/ subs # fits)
    /\ UNCHANGED <<process, fed, dropped, present, ending, job, attached, view>>

\* End of output: the child is gone and the pty is empty, or the row was removed
\* and its master closed.
Eof ==
    /\ drain.pc = "read"
    /\ (child = "exited" /\ fed = produced) \/ ~ present
    /\ drain' = [drain EXCEPT !.pc = "eof"]
    /\ UNCHANGED <<process, fed, dropped, grid, present, ending, subs, conn, job,
                   attached, view>>

\* Mutant: an exit that nobody is attached to hear is not recorded.
ReportExitHeard ==
    /\ drain.pc = "eof" /\ reaped /\ ~ Locked
    /\ drain' = [drain EXCEPT !.pc = "done"]
    /\ IF present /\ subs # {}
       THEN ending' = "exited" /\ PushAll(Ending("exited"))
       ELSE UNCHANGED <<ending, subs, conn>>
    /\ UNCHANGED <<process, fed, dropped, grid, present, job, attached, view>>

\* report_exit, once the reaper's code is in: nothing for a row that is gone.
ReportExit ==
    /\ drain.pc = "eof" /\ reaped /\ ~ Locked
    /\ drain' = [drain EXCEPT !.pc = "done"]
    /\ IF present
       THEN ending' = "exited" /\ PushAll(Ending("exited"))
       ELSE UNCHANGED <<ending, subs, conn>>
    /\ UNCHANGED <<process, fed, dropped, grid, present, job, attached, view>>

-----------------------------------------------------------------------------
(* Requests of the connections.                                             *)

\* remove_session: the row goes and the stream's readers are told.
Kill ==
    /\ "kill" \in Ops /\ present /\ ~ Locked
    /\ present' = FALSE
    /\ ending' = "removed"
    /\ PushAll(Ending("removed"))
    /\ UNCHANGED <<process, stream, grid, job, attached, view>>

\* SessionTable::attach finds the row and lets the table's lock go.
Attach(c) ==
    /\ job[c].pc = "idle" /\ present
    /\ "reattach" \in Ops \/ c \notin attached
    /\ job' = [job EXCEPT ![c].pc = "attaching"]
    /\ UNCHANGED <<process, stream, grid, present, ending, subs, conn, attached, view>>

\* Mutant: the replay is cut to half the queue, whatever is queued already.
AttachReplayHalf(c) ==
    /\ job[c].pc = "attaching" /\ ~ Locked
    /\ subs' = subs \ {c}
    /\ \E g \in Flushed(grid) :
          LET len == IF fed - dropped < MaxBytes \div 2 THEN fed - dropped
                     ELSE MaxBytes \div 2
          IN  /\ grid' = IF subs \ {c} = {} THEN Taken(g) ELSE g
              /\ job' = [job EXCEPT ![c] =
                           [pc |-> "replaying",
                            frame |-> Painted([kind |-> "replay", from |-> fed - len,
                                               to |-> fed, paint |-> 0], g),
                            free |-> Free(conn[c])]]
    /\ UNCHANGED <<process, stream, present, ending, conn, attached, view>>

\* OutputHub::attach up to its push: the old subscription goes, the screen is
\* flushed, a repair nobody else waits for is dropped, and the replay is cut to
\* what the queue has room for.
AttachReplay(c) ==
    /\ job[c].pc = "attaching" /\ ~ Locked
    /\ subs' = subs \ {c}
    /\ \E g \in Flushed(grid) :
          LET free == Free(conn[c])
              paints == ScreenBytes + Reserve <= free
              spent == Reserve + (IF paints THEN ScreenBytes ELSE 0)
              room == IF free > spent THEN free - spent ELSE 0
              budget == IF MaxBytes \div 2 < room THEN MaxBytes \div 2 ELSE room
              len == IF fed - dropped < budget THEN fed - dropped ELSE budget
              history == [kind |-> "replay", from |-> fed - len, to |-> fed, paint |-> 0]
          IN  /\ grid' = IF subs \ {c} = {} THEN Taken(g) ELSE g
              /\ job' = [job EXCEPT ![c] =
                           [pc |-> "replaying",
                            frame |-> IF paints THEN Painted(history, g) ELSE history,
                            free |-> free]]
    /\ UNCHANGED <<process, stream, present, ending, conn, attached, view>>

\* Mutant: an ended stream is subscribed to like a live one.
AttachForever(c) ==
    /\ job[c].pc = "replaying"
    /\ job' = [job EXCEPT ![c] = Idle]
    /\ attached' = attached \cup {c}
    /\ conn' = [conn EXCEPT ![c] = Push(@, job[c].frame)]
    /\ subs' = IF Kept(conn[c], job[c].frame) THEN subs \cup {c} ELSE subs
    /\ UNCHANGED <<process, stream, grid, present, ending, view>>

\* The replay is queued; a stream that has ended ends here too, a live one is
\* subscribed to.
AttachPush(c) ==
    /\ job[c].pc = "replaying"
    /\ job' = [job EXCEPT ![c] = Idle]
    /\ attached' = attached \cup {c}
    /\ LET kept == Kept(conn[c], job[c].frame)
           replayed == Push(conn[c], job[c].frame)
       IN  /\ conn' = [conn EXCEPT ![c] =
                         IF kept /\ ending # "none" THEN Push(replayed, Ending(ending))
                         ELSE replayed]
           /\ subs' = IF kept /\ ending = "none" THEN subs \cup {c} ELSE subs
    /\ UNCHANGED <<process, stream, grid, present, ending, view>>

\* SessionTable::detach: a no-op for a row that is gone.
Detach(c) ==
    /\ "detach" \in Ops /\ job[c].pc = "idle" /\ c \in attached
    /\ IF present
       THEN job' = [job EXCEPT ![c].pc = "detaching"] /\ UNCHANGED attached
       ELSE attached' = attached \ {c} /\ UNCHANGED job
    /\ UNCHANGED <<process, stream, grid, present, ending, subs, conn, view>>

DetachHub(c) ==
    /\ job[c].pc = "detaching" /\ ~ Locked
    /\ subs' = subs \ {c}
    /\ attached' = attached \ {c}
    /\ job' = [job EXCEPT ![c] = Idle]
    /\ UNCHANGED <<process, stream, grid, present, ending, conn, view>>

\* OutputHub::repaint, for a resize or a focus claim that found the row.
Repaint ==
    /\ "repaint" \in Ops /\ ~ Locked /\ subs # {}
    /\ \E g \in Flushed(grid) :
          /\ grid' = g
          /\ PushAll(Painted(Raw(fed, fed), g))
    /\ UNCHANGED <<process, stream, present, ending, job, attached, view>>

\* Mutant: a repair that some connection has no room for is not put back.
FlushStalledOnce ==
    /\ "sweep" \in Ops /\ present /\ ~ Locked
    /\ \E g \in Flushed(grid) :
          LET paint == Painted(Raw(fed, fed), g)
              open == {c \in subs : ~ conn[c].closed}
          IN  IF ~ Takes(g) THEN grid' = g /\ UNCHANGED <<subs, conn>>
              ELSE /\ subs' = open
                   /\ conn' = [c \in Conns |->
                                 IF c \in open /\ Fits(conn[c], paint)
                                 THEN Queue(conn[c], paint) ELSE conn[c]]
                   /\ grid' = Taken(g)
    /\ UNCHANGED <<process, stream, present, ending, job, attached, view>>

\* OutputHub::flush_stalled, from the sweep: a repair the screen owes goes to
\* everyone with room for it, and is latched again if someone had none.
FlushStalled ==
    /\ "sweep" \in Ops /\ present /\ ~ Locked
    /\ \E g \in Flushed(grid) :
          LET paint == Painted(Raw(fed, fed), g)
              open == {c \in subs : ~ conn[c].closed}
              fits == {c \in open : Fits(conn[c], paint)}
          IN  IF ~ Takes(g) THEN grid' = g /\ UNCHANGED <<subs, conn>>
              ELSE /\ subs' = open
                   /\ conn' = [c \in Conns |-> IF c \in fits THEN Queue(conn[c], paint)
                                               ELSE conn[c]]
                   /\ grid' = [Taken(g) EXCEPT !.latch = @ \/ open # fits]
    /\ UNCHANGED <<process, stream, present, ending, job, attached, view>>

\* Another session's output, or an event, on the same connection.
OtherPush(c) ==
    /\ "other" \in Ops
    /\ Len(SelectSeq(conn[c].queue, LAMBDA f : f.kind = "other")) < MaxOthers
    /\ conn' = [conn EXCEPT ![c] = Push(@, Other)]
    /\ UNCHANGED <<process, stream, grid, present, ending, subs, job, attached, view>>

-----------------------------------------------------------------------------
(* The writer task and the client.                                          *)

Seen(v, f) ==
    CASE f.kind = "replay" -> [to |-> f.to, paint |-> f.paint, end |-> "none"]
      [] f.kind = "output" -> [v EXCEPT !.to = f.to,
                                        !.paint = IF f.paint > @ THEN f.paint ELSE @]
      [] f.kind \in Endings -> [v EXCEPT !.end = f.kind]
      [] OTHER -> v

\* OutboundQueue::recv, and the frame reaches the client.  A closed queue is
\* still drained.
Recv(c) ==
    /\ conn[c].queue # <<>>
    /\ LET f == Head(conn[c].queue)
       IN  /\ conn' = [conn EXCEPT ![c].queue = Tail(@), ![c].queued = @ - Cost(f)]
           /\ view' = [view EXCEPT ![c] = Seen(@, f)]
    /\ UNCHANGED <<process, stream, grid, present, ending, subs, job, attached>>

\* The connection ends (detach_all) and its client comes back on a new one.  A
\* subscription left behind in the hub of a removed row is inert: its queue has
\* no receiver.
Hangup(c) ==
    /\ "hangup" \in Ops /\ job[c].pc = "idle" /\ ~ Locked
    /\ conn[c] # Fresh \/ c \in attached
    /\ subs' = subs \ {c}
    /\ attached' = attached \ {c}
    /\ conn' = [conn EXCEPT ![c] = Fresh]
    /\ view' = [view EXCEPT ![c] = Nothing]
    /\ UNCHANGED <<process, stream, grid, present, ending, job>>

Drain == \/ \E m \in 1 .. (produced - fed) : Read(m)
         \/ PublishRest
         \/ \E u \in 1 .. fed : PublishSplice(u)
         \/ Eof
         \/ ReportExit

Serve(c) == AttachReplay(c) \/ AttachPush(c) \/ DetachHub(c)

Next ==
    \/ Write \/ Exit \/ Reap \/ Drain
    \/ Kill \/ Repaint \/ FlushStalled
    \/ \E c \in Conns : Attach(c) \/ Serve(c) \/ Detach(c) \/ OtherPush(c) \/ Recv(c)
                        \/ Hangup(c)

Spec == Init /\ [][Next]_vars

\* The daemon's threads run, and a handler that has begun goes on.
FairSpec == /\ Spec
            /\ WF_vars(Reap) /\ WF_vars(Drain)
            /\ \A c \in Conns : WF_vars(Serve(c))

-----------------------------------------------------------------------------
(* Properties.                                                              *)

\* A frame of the session's stream.
Streamed(f) == f.kind \in {"replay", "output"}

\* Of the first n frames of queue q the last of the stream ends at byte x, or
\* there is none and the client, with view v, has seen up to x.
Reaches(q, v, n, x) ==
    \/ \E i \in 1 .. n : /\ Streamed(q[i]) /\ q[i].to = x
                         /\ \A m \in i + 1 .. n : ~ Streamed(q[m])
    \/ v.to = x /\ \A m \in 1 .. n : ~ Streamed(q[m])

\* How far the hub has published.
Published == IF drain.pc = "publish" THEN drain.at ELSE fed

\* Ring, grid and subscriber list share one mutex "so no output can slip
\* between the replay and the live stream": a live frame goes on exactly where
\* the frame before it ended, and a subscriber of an idle hub has been sent
\* every byte that was recorded.
NoByteSlips ==
    \A c \in Conns :
        LET q == conn[c].queue IN
        /\ \A i \in 1 .. Len(q) : q[i].kind = "output" => Reaches(q, view[c], i - 1, q[i].from)
        /\ c \in subs /\ ~ conn[c].closed => Reaches(q, view[c], Len(q), Published)

\* The ending has been, or will be, received after the last replay.
Ended(q, v) ==
    LET replays == {i \in 1 .. Len(q) : q[i].kind = "replay"}
    IN  \/ v.end # "none" /\ replays = {}
        \/ \E i \in 1 .. Len(q) : q[i].kind \in Endings /\ \A j \in replays : j < i

\* attach: "a late attacher gets it right after the replay instead of waiting on
\* a dead stream".  Once the stream has ended, every connection that is attached
\* has its ending frame behind its last replay, however attach, exit and kill
\* interleaved.
NobodyWaitsOnADeadStream ==
    \A c \in attached :
        ending # "none" /\ job[c].pc = "idle" /\ ~ conn[c].closed =>
            Ended(conn[c].queue, view[c])

\* spawn_drain: the exit is announced by the thread that has read the last byte,
\* so a client that is told of it has been sent all the output there was.
ExitedAfterTheLastByte == ending = "exited" => fed = produced /\ drain.pc = "done"

\* ATTACH_RESERVE_BYTES: an attach that found the reserve free does not close the
\* connection its replay was for, even when another session's output and the
\* ending frame come in before the client has read anything.
ReplayFits ==
    [][\A c \in Conns :
          job[c].pc = "replaying" /\ job'[c].pc = "idle"
          /\ job[c].free >= Reserve /\ ~ conn[c].closed => ~ conn'[c].closed]_vars

\* The repaints a client has been sent since its last replay, each one more
\* than the exits it has seen; 0 stands for a frame that paints nothing.
Paints(q, v) ==
    LET replays == {i \in 1 .. Len(q) : q[i].kind = "replay"}
    IN  {q[i].paint : i \in {n \in 1 .. Len(q) : Streamed(q[n]) /\ \A j \in replays : j <= n}}
        \cup (IF replays = {} THEN {v.paint} ELSE {})

\* The client was painted, and never since the alternate screen was left the
\* e-th time.
Stale(q, v, e) == /\ \E p \in Paints(q, v) : p > 0
                  /\ \A p \in Paints(q, v) : p <= e

\* publish, attach and flush_stalled together: once the alternate screen was
\* left, a subscriber that has been painted at all is repainted, or a repair is
\* latched for it, however its queue stood and whoever else was attached.
RepairOwed ==
    \A c \in subs :
        ~ conn[c].closed /\ ~ grid.alt /\ ~ Locked
        /\ Stale(conn[c].queue, view[c], grid.exits) => grid.latch

\* The child's exit ends the stream.
ExitEndsStream == child = "exited" ~> ending # "none"

-----------------------------------------------------------------------------
(* The inductive invariant behind NoByteSlips, NobodyWaitsOnADeadStream,    *)
(* ExitedAfterTheLastByte and RepairOwed.                                   *)

\* The drain is past the last byte once it is past reading, unless the row was
\* removed under it.
DrainOrder ==
    /\ drain.pc = "publish" => drain.at <= fed
    /\ drain.pc \in {"eof", "done"} /\ present => child = "exited" /\ fed = produced
    /\ ending = "exited" => present

\* The replay of an attach that holds the mutex is still the end of the stream.
ReplayCurrent ==
    \A c \in Conns : job[c].pc = "replaying" =>
        /\ drain.pc # "publish"
        /\ job[c].frame.kind = "replay" /\ job[c].frame.to = fed
        /\ job[c].frame.paint \in {0, grid.exits + 1}

\* While the stream lives, whoever is attached is subscribed.
AttachedListens ==
    \A c \in attached :
        ending = "none" /\ job[c].pc = "idle" /\ ~ conn[c].closed => c \in subs

\* A repair is owed in the middle of a publish too.
RepairKept ==
    \A c \in subs :
        ~ conn[c].closed /\ ~ grid.alt /\ Stale(conn[c].queue, view[c], grid.exits) =>
            grid.latch \/ (drain.pc = "publish" /\ drain.deferred)

HubInv ==
    /\ Shape
    /\ DrainOrder
    /\ ReplayCurrent
    /\ AttachedListens
    /\ RepairKept
    /\ NoByteSlips
    /\ NobodyWaitsOnADeadStream
    /\ ExitedAfterTheLastByte
=============================================================================
