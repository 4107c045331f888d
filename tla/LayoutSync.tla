----------------------------- MODULE LayoutSync -----------------------------
(***************************************************************************)
(* Windows that show one workspace, kept in step with the layout the       *)
(* daemon stores: crates/ade_workspaces, layout.rs (LayoutSync,            *)
(* AdeLayouts) and daemon_backend.rs (stream_status), composed with the    *)
(* daemon's layout record (sessions.rs: update_layout, scrub_layout, load, *)
(* kill_workspace; modelled in full in SessionTable).                      *)
(*                                                                         *)
(* A window captures what its user arranged, pushes it one revision past   *)
(* its own, and takes what the event stream or a re-read says is newer.    *)
(* Requests and events travel on different connections.  Each window is a  *)
(* client of its own, with its own event stream.                           *)
(*                                                                         *)
(* A layout document is the set of sessions its tabs name (its structure)  *)
(* and which tab is in front (what same_layout_structure leaves out).      *)
(***************************************************************************)
EXTENDS Naturals, Sequences, FiniteSets

CONSTANTS
    Windows,      \* windows showing the workspace
    Sessions,     \* sessions that may live in it
    First,        \* the one it starts with
    None,         \* no record, no render, nothing queued
    MaxInFlight,  \* bound: writes of one window that overlap
    MaxEdits,     \* bound: things the users do
    MaxRev,       \* bound: revisions windows claim; no run reaches it at rest
    MaxFaults     \* bound: requests, replies and streams that are lost,
                  \* restarts of the daemon, and writes sent over another

Docs == [tabs : SUBSET Sessions, front : BOOLEAN]
Layouts == [rev : Nat, doc : Docs]
Records == [rev : Nat, doc : Docs, alive : SUBSET Sessions]
Renders == [to : Docs, from : Docs]
Writes == [at : {"sent", "stored", "refused", "reading", "read"}, rev : Nat, doc : Docs,
           wasRev : Nat, wasKnown : Docs, base : Nat]
Events == [kind : {"layout", "reset", "removed"}, rev : Nat, doc : Docs]
Syncs == [open : BOOLEAN, local : Docs, rev : Nat, known : Docs, pending : BOOLEAN,
          render : Renders \cup {None}, queued : Layouts \cup {None}, reset : BOOLEAN,
          told : Layouts, refused : BOOLEAN, overtaken : BOOLEAN, unsent : BOOLEAN,
          stranded : BOOLEAN, lapped : BOOLEAN]

ASSUME SyncAssumption ==
    /\ First \in Sessions
    /\ None \notin Layouts \cup Records \cup Renders \cup Writes
    /\ MaxInFlight \in Nat \ {0}
    /\ MaxEdits \in Nat /\ MaxRev \in Nat /\ MaxFaults \in Nat

VARIABLES
    store,    \* the daemon's record of the workspace, and its sessions
    ledger,   \* the same as sessions.json has it
    win,      \* LayoutSync of each window, and what the window shows
    flight,   \* the writes of each window, until their re-reads are done
    dying,    \* sessions whose tab was closed and whose kill is on its way
    stream,   \* the event stream of each window: "up" or "down"
    seen,     \* known_workspaces: the newest revision the stream forwarded
    inbox,    \* events forwarded and not yet handled
    born,     \* sessions created so far
    edited,   \* the window shows what its own user arranged
    spent     \* how much of each bound is used up

\* What the variables range over.
TypeOK ==
    /\ store \in Records \cup {None} /\ ledger \in Records \cup {None}
    /\ win \in [Windows -> Syncs]
    /\ flight \in [Windows -> [1 .. MaxInFlight -> Writes \cup {None}]]
    /\ dying \subseteq Sessions /\ born \subseteq Sessions
    /\ stream \in [Windows -> {"up", "down"}]
    /\ seen \in [Windows -> Layouts \cup {None}]
    /\ inbox \in [Windows -> Seq(Events)]
    /\ edited \in [Windows -> BOOLEAN]
    /\ spent \in [edits : Nat, faults : Nat]

daemon == <<store, ledger, born>>
events == <<stream, seen, inbox>>
vars == <<store, ledger, win, flight, dying, stream, seen, inbox, born, edited, spent>>

-----------------------------------------------------------------------------
\* same_layout_structure.
SameStructure(a, b) == a.tabs = b.tabs

Acts == spent.edits < MaxEdits /\ spent' = [spent EXCEPT !.edits = @ + 1]
Fault == spent.faults < MaxFaults /\ spent' = [spent EXCEPT !.faults = @ + 1]

NewDoc == [tabs |-> {First}, front |-> FALSE]

\* LayoutSync::new, for a window rendered from the stored layout.  Six fields
\* are not in the code.  `told` is the layout the window last confirmed with the
\* daemon or heard from it; `refused` that the last write was refused, or a re-read
\* passed over, and nothing has settled the matter since; `overtaken` that a reset
\* was replaced in the queue, or confirmed a write that was then taken back, and
\* nothing was rendered since; `unsent` that the user changed something since the
\* last capture; `stranded` that a restart took back what the window had been told
\* in a way its stream does not notice; `lapped` that the window has sent a write
\* while another of its own was on its way.
Installed == [open |-> TRUE, local |-> NewDoc, rev |-> 0, known |-> NewDoc,
              pending |-> FALSE, render |-> None, queued |-> None, reset |-> FALSE,
              told |-> [rev |-> 0, doc |-> NewDoc], refused |-> FALSE,
              overtaken |-> FALSE, unsent |-> FALSE, stranded |-> FALSE,
              lapped |-> FALSE]

Slots == 1 .. MaxInFlight

At(w, i, at) == flight[w][i] # None /\ flight[w][i].at = at

Init ==
    /\ store = [rev |-> 0, doc |-> NewDoc, alive |-> {First}]
    /\ ledger = store
    /\ win = [w \in Windows |-> Installed]
    /\ flight = [w \in Windows |-> [i \in Slots |-> None]]
    /\ dying = {}
    /\ stream = [w \in Windows |-> "up"]
    /\ seen = [w \in Windows |-> [rev |-> 0, doc |-> NewDoc]]
    /\ inbox = [w \in Windows |-> <<>>]
    /\ born = {First}
    /\ edited = [w \in Windows |-> FALSE]
    /\ spent = [edits |-> 0, faults |-> 0]

-----------------------------------------------------------------------------
(* The daemon's side of the event stream.                                   *)

LayoutEvent(rev, doc) == [kind |-> "layout", rev |-> rev, doc |-> doc]
ResetEvent(rev, doc) == [kind |-> "reset", rev |-> rev, doc |-> doc]
RemovedEvent == [kind |-> "removed", rev |-> 0, doc |-> NewDoc]

\* accept_workspace_event: a layout frame goes on only if it is newer than what
\* the stream has forwarded.
Forwards(w, rev) == stream[w] = "up" /\ (seen[w] = None \/ seen[w].rev < rev)

\* LayoutChanged goes to every subscriber.
Broadcast(rev, doc) ==
    /\ seen' = [w \in Windows |-> IF Forwards(w, rev) THEN [rev |-> rev, doc |-> doc]
                                  ELSE seen[w]]
    /\ inbox' = [w \in Windows |-> IF Forwards(w, rev)
                                   THEN Append(inbox[w], LayoutEvent(rev, doc))
                                   ELSE inbox[w]]
    /\ UNCHANGED stream

\* Mutant: what is no newer is never forwarded from a snapshot.
SnapshotNewer(w) ==
    IF store = None
    THEN IF seen[w] = None THEN <<>> ELSE <<RemovedEvent>>
    ELSE <<LayoutEvent(store.rev, store.doc)>>

\* workspace_snapshot_events: what a listing tells a stream that comes back.
Snapshot(w) ==
    IF store = None
    THEN IF seen[w] = None THEN <<>> ELSE <<RemovedEvent>>
    ELSE IF seen[w] # None
            /\ (store.rev < seen[w].rev
                \/ (store.rev = seen[w].rev /\ store.doc # seen[w].doc))
         THEN <<ResetEvent(store.rev, store.doc)>>
         ELSE <<LayoutEvent(store.rev, store.doc)>>

\* stream_status_once, up to its loop: subscribe, then list.  Frames that come
\* in before the listing are held and replayed behind it; they are never newer
\* than the listing, so the filter drops them all.  stream_status sleeps for
\* FIRST_RESUBSCRIBE_DELAY before it tries: the error of a request that failed
\* with the connection has reached the window by then.
Resubscribe(w) ==
    /\ stream[w] = "down"
    /\ \A i \in Slots : ~ At(w, i, "refused")
    /\ stream' = [stream EXCEPT ![w] = "up"]
    /\ inbox' = [inbox EXCEPT ![w] = @ \o Snapshot(w)]
    /\ seen' = [seen EXCEPT ![w] = IF store = None THEN None
                                   ELSE [rev |-> store.rev, doc |-> store.doc]]
    /\ UNCHANGED <<daemon, win, flight, dying, edited, spent>>

\* The connection ends; what was forwarded already is still handled.
StreamBreaks(w) ==
    /\ stream[w] = "up"
    /\ Fault
    /\ stream' = [stream EXCEPT ![w] = "down"]
    /\ UNCHANGED <<daemon, win, flight, dying, seen, inbox, edited>>

-----------------------------------------------------------------------------
(* A window's handlers, as functions of its LayoutSync.                     *)

\* schedule: no capture is armed while a layout is being rendered.
Schedule(v) == IF v.render = None THEN [v EXCEPT !.pending = TRUE] ELSE v

\* apply: the render remembers what the window showed when it began.
Apply(v, doc, rev) ==
    [v EXCEPT !.rev = rev, !.told = [rev |-> rev, doc |-> doc], !.known = doc,
              !.pending = FALSE, !.refused = FALSE, !.overtaken = FALSE,
              !.render = [to |-> doc, from |-> v.local]]

\* accept: news is queued behind a render; the same structure is taken without
\* one; anything else is rendered.
Accept(v, doc, rev) ==
    IF rev <= v.rev THEN v
    ELSE IF v.render # None
    THEN IF v.queued = None \/ rev > v.queued.rev
         THEN [v EXCEPT !.queued = [doc |-> doc, rev |-> rev], !.reset = FALSE,
                        !.overtaken = @ \/ v.reset]
         ELSE v
    ELSE IF SameStructure(doc, v.known)
    THEN [v EXCEPT !.rev = rev, !.told = [rev |-> rev, doc |-> doc], !.known = v.local,
                   !.refused = ~ SameStructure(v.local, doc)]
    ELSE Apply(v, doc, rev)

\* on_layout_event: what the user changed since the last capture wins, and is
\* pushed past the news.
OnLayoutEvent(v, doc, rev) ==
    IF rev <= v.rev THEN v
    ELSE IF v.render = None /\ v.local # v.known
    THEN Schedule([v EXCEPT !.rev = rev, !.told = [rev |-> rev, doc |-> doc], !.known = doc,
                            !.unsent = @ /\ v.local # doc])
    ELSE Accept(v, doc, rev)

\* on_workspace_reset: an older revision is taken too.
OnWorkspaceReset(v, doc, rev) ==
    LET taken == [v EXCEPT !.pending = FALSE, !.rev = rev, !.known = doc,
                           !.told = [rev |-> rev, doc |-> doc], !.unsent = FALSE,
                           !.stranded = FALSE]
    IN  IF v.render # None
        THEN [taken EXCEPT !.queued = [doc |-> doc, rev |-> rev], !.reset = TRUE]
        ELSE Apply(taken, doc, rev)

\* AdeLayouts::forget.  The sync is dropped, with every task that holds it.
Forgotten(v) == [Installed EXCEPT !.open = FALSE, !.lapped = v.lapped]

-----------------------------------------------------------------------------
(* What users do.                                                           *)

\* What the panes show if the user has done nothing since.
Shows(v) == IF v.render = None THEN v.known ELSE v.render.from

Rearrange(w, doc) ==
    /\ win' = [win EXCEPT ![w] = Schedule([@ EXCEPT !.local = doc,
                                                    !.unsent = doc # Shows(win[w])])]
    /\ edited' = [edited EXCEPT ![w] = TRUE]

\* A new terminal: its session is created, then its tab is opened.
NewTerminal(w, s) ==
    /\ win[w].open /\ store # None /\ s \notin born
    /\ Acts
    /\ born' = born \cup {s}
    /\ store' = [store EXCEPT !.alive = @ \cup {s}]
    /\ ledger' = store'
    /\ Rearrange(w, [win[w].local EXCEPT !.tabs = @ \cup {s}])
    /\ UNCHANGED <<flight, dying, events>>

\* on_workspace_event: a closed tab's session is killed one turn later.
CloseTab(w, s) ==
    /\ win[w].open /\ s \in win[w].local.tabs
    /\ Acts
    /\ dying' = dying \cup {s}
    /\ Rearrange(w, [win[w].local EXCEPT !.tabs = @ \ {s}])
    /\ UNCHANGED <<daemon, flight, events>>

SwitchTab(w) ==
    /\ win[w].open
    /\ Acts
    /\ Rearrange(w, [win[w].local EXCEPT !.front = ~ @])
    /\ UNCHANGED <<daemon, flight, dying, events>>

-----------------------------------------------------------------------------
(* push and refetch.                                                        *)

\* Slot i is the first that no write of window w is in.
Free(w, i) == flight[w][i] = None /\ \A j \in 1 .. i - 1 : flight[w][j] # None

\* The write goes out one past the window's revision, which the window takes at
\* once.  Nothing waits for a write that is still on its way.
Send(w, i) ==
    LET v == win[w] IN
    /\ flight' = [flight EXCEPT ![w][i] =
          [at |-> "sent", rev |-> v.rev + 1, doc |-> v.local,
           wasRev |-> v.rev, wasKnown |-> v.known, base |-> v.told.rev]]
    /\ win' = [win EXCEPT ![w].pending = FALSE, ![w].unsent = FALSE,
                          ![w].rev = @ + 1, ![w].known = v.local,
                          ![w].lapped = @ \/ i # 1]
    /\ IF i = 1 THEN UNCHANGED spent ELSE Fault

\* Mutant: the capture is not compared with what is known.
PushAlways(w) ==
    LET v == win[w] IN
    /\ v.open /\ v.pending
    /\ v.rev < MaxRev
    /\ \E i \in Slots : Free(w, i) /\ Send(w, i)
    /\ UNCHANGED <<daemon, dying, events, edited>>

\* The debounce fires.
Push(w) ==
    LET v == win[w] IN
    /\ v.open /\ v.pending
    /\ IF v.local = v.known
       THEN /\ win' = [win EXCEPT ![w].pending = FALSE, ![w].unsent = FALSE]
            /\ UNCHANGED <<flight, spent>>
       ELSE v.rev < MaxRev /\ \E i \in Slots : Free(w, i) /\ Send(w, i)
    /\ UNCHANGED <<daemon, dying, events, edited>>

Land(w, i, at) == flight' = [flight EXCEPT ![w][i].at = at]

Clear(w, i) == flight' = [flight EXCEPT ![w][i] = None]

\* Mutant: any revision from the stored one on is accepted.
AcceptsAny(p) == store # None /\ p.rev >= store.rev /\ p.doc.tabs \subseteq store.alive

\* update_layout's guards in the daemon: a newer revision, naming only sessions
\* of the workspace.
Accepts(p) == store # None /\ p.rev > store.rev /\ p.doc.tabs \subseteq store.alive

\* UpdateLayout reaches the daemon.
Arrives(w, i) ==
    LET p == flight[w][i] IN
    /\ At(w, i, "sent")
    /\ IF Accepts(p)
       THEN /\ store' = [store EXCEPT !.rev = p.rev, !.doc = p.doc]
            /\ ledger' = store'
            /\ Broadcast(p.rev, p.doc)
            /\ Land(w, i, "stored")
       ELSE Land(w, i, "refused") /\ UNCHANGED <<store, ledger, events>>
    /\ UNCHANGED <<win, dying, born, edited, spent>>

\* The connection fails under the request, or before its reply: an error either
\* way, and no retry.
WriteLost(w, i) ==
    /\ At(w, i, "sent") \/ At(w, i, "stored")
    /\ Fault
    /\ Land(w, i, "refused")
    /\ UNCHANGED <<daemon, win, dying, events, edited>>

Acked(w, i) ==
    LET p == flight[w][i] IN
    /\ At(w, i, "stored")
    /\ Clear(w, i)
    /\ win' = IF ~ win[w].open THEN win
              ELSE [win EXCEPT ![w].told = IF win[w].rev = p.rev /\ win[w].known = p.doc
                                           THEN [rev |-> p.rev, doc |-> p.doc] ELSE @,
                               ![w].refused = FALSE]
    /\ UNCHANGED <<daemon, dying, events, edited, spent>>

\* The error reaches the window: the claim is taken back if nothing has come
\* after it, and the stored layout is asked for.
Refused(w, i) ==
    LET p == flight[w][i]
        v == win[w]
        back == [v EXCEPT !.rev = p.wasRev, !.known = p.wasKnown, !.refused = TRUE,
                          !.overtaken = @ \/ v.told.rev >= p.rev]
    IN  /\ At(w, i, "refused")
        /\ IF v.open THEN Land(w, i, "reading") ELSE Clear(w, i)
        /\ win' = IF ~ v.open THEN win
                  ELSE IF v.rev = p.rev /\ v.known = p.doc
                  THEN [win EXCEPT ![w] = [back EXCEPT !.unsent = @ /\ v.local # Shows(back)]]
                  ELSE [win EXCEPT ![w].refused = TRUE]
        /\ UNCHANGED <<daemon, dying, events, edited, spent>>

\* OpenWorkspace is answered; a workspace that is gone is an error, which is
\* logged.
Reads(w, i) ==
    /\ At(w, i, "reading")
    /\ IF store = None THEN Clear(w, i)
       ELSE flight' = [flight EXCEPT ![w][i] = [@ EXCEPT !.at = "read", !.rev = store.rev,
                                                         !.doc = store.doc]]
    /\ UNCHANGED <<daemon, win, dying, events, edited, spent>>

ReadLost(w, i) ==
    /\ At(w, i, "reading")
    /\ Fault
    /\ Clear(w, i)
    /\ UNCHANGED <<daemon, win, dying, events, edited>>

\* refetch's answer: taken only if it is past the window's revision, and then over
\* whatever the user did since the refused write.
Refetched(w, i) ==
    LET p == flight[w][i] IN
    /\ At(w, i, "read")
    /\ Clear(w, i)
    /\ win' = IF ~ win[w].open THEN win
              ELSE [win EXCEPT ![w] = Accept([@ EXCEPT !.unsent = FALSE], p.doc, p.rev)]
    /\ UNCHANGED <<daemon, dying, events, edited, spent>>

-----------------------------------------------------------------------------
(* Events and renders.                                                      *)

HandleEvent(w) ==
    LET e == Head(inbox[w])
        v == win[w]
    IN  /\ inbox[w] # <<>>
        /\ inbox' = [inbox EXCEPT ![w] = Tail(@)]
        /\ win' = [win EXCEPT ![w] =
                     IF ~ v.open THEN v
                     ELSE CASE e.kind = "layout" -> OnLayoutEvent(v, e.doc, e.rev)
                            [] e.kind = "reset" -> OnWorkspaceReset(v, e.doc, e.rev)
                            [] e.kind = "removed" -> Forgotten(v)]
        /\ UNCHANGED <<daemon, flight, dying, stream, seen, edited, spent>>

\* Mutant: the render does not look at what the user did meanwhile.
Committed(v) == v.render.to

\* render_layout_if_unchanged: the new panes replace the old ones only if the
\* window still shows what it did when the render began.
Rendered(v) == IF v.local = v.render.from THEN v.render.to ELSE v.local

\* The end of apply's task: what was queued meanwhile is handled, and a capture
\* is armed.
RenderDone(w) ==
    LET v == win[w]
        idle == [v EXCEPT !.local = Rendered(v), !.render = None, !.queued = None,
                          !.reset = FALSE, !.unsent = @ /\ Rendered(v) # v.known]
        next == IF v.queued = None THEN idle
                ELSE IF v.reset
                THEN Apply([idle EXCEPT !.unsent = FALSE], v.queued.doc, v.queued.rev)
                ELSE OnLayoutEvent(idle, v.queued.doc, v.queued.rev)
    IN  /\ v.open /\ v.render # None
        /\ win' = [win EXCEPT ![w] = Schedule(next)]
        /\ edited' = [edited EXCEPT ![w] = @ /\ v.local # v.render.from]
        /\ UNCHANGED <<daemon, flight, dying, events, spent>>

-----------------------------------------------------------------------------
(* The rest of the daemon.                                                  *)

\* kill: the session leaves the table and its tab the layout, announced before
\* it is written; a kill whose write fails is an error the client only logs.
KillSession(s, saved) ==
    /\ s \in dying
    /\ dying' = dying \ {s}
    /\ UNCHANGED spent
    /\ IF store # None /\ s \in store.alive
       THEN LET tab == s \in store.doc.tabs
                rev == IF tab THEN store.rev + 1 ELSE store.rev
                doc == [store.doc EXCEPT !.tabs = @ \ {s}]
            IN  /\ store' = [rev |-> rev, doc |-> doc, alive |-> store.alive \ {s}]
                /\ ledger' = IF saved THEN store' ELSE ledger
                /\ IF tab THEN Broadcast(rev, doc) ELSE UNCHANGED events
       ELSE UNCHANGED <<store, ledger, events>>
    /\ UNCHANGED <<win, flight, born, edited>>

\* kill_workspace, from anywhere.
KillWorkspace ==
    /\ store # None
    /\ Acts
    /\ store' = None /\ ledger' = None
    /\ inbox' = [w \in Windows |-> IF stream[w] = "up" THEN Append(inbox[w], RemovedEvent)
                                   ELSE inbox[w]]
    /\ seen' = [w \in Windows |-> IF stream[w] = "up" THEN None ELSE seen[w]]
    /\ UNCHANGED <<win, flight, dying, stream, born, edited>>

\* The daemon has lost layout x, and window w's stream never forwarded it: unless
\* the stream is past the ledger too, it will not see that anything was lost.
TakenBack(w, x) ==
    /\ ledger.rev < x.rev
    /\ \/ seen[w].rev < x.rev
       \/ seen[w].rev = x.rev /\ ~ SameStructure(seen[w].doc, x.doc)

\* The daemon dies and another loads the ledger.  Every stream ends with it.  A
\* request on its way fails, or is sent again by the connection that was waiting
\* to send it; an answer on its way is lost, or was handled already: the streams
\* are back only after FIRST_RESUBSCRIBE_DELAY.
Restart ==
    /\ Fault
    /\ store' = ledger
    /\ stream' = [w \in Windows |-> "down"]
    /\ \E fails \in SUBSET Windows :
          flight' = [w \in Windows |-> [i \in Slots |->
                        IF At(w, i, "stored") \/ (At(w, i, "sent") /\ w \in fails)
                        THEN [flight[w][i] EXCEPT !.at = "refused"]
                        ELSE IF At(w, i, "read") THEN None ELSE flight[w][i]]]
    /\ win' = [w \in Windows |-> [win[w] EXCEPT !.stranded =
                  \/ @
                  \/ /\ ledger # None /\ seen[w] # None
                     /\ \/ TakenBack(w, win[w].told)
                        \/ win[w].queued # None /\ TakenBack(w, win[w].queued)]]
    /\ UNCHANGED <<ledger, dying, seen, inbox, born, edited>>

Edit(w) ==
    \/ \E s \in Sessions : NewTerminal(w, s) \/ CloseTab(w, s)
    \/ SwitchTab(w)

Goes(w) ==
    \/ Resubscribe(w) \/ Push(w) \/ HandleEvent(w) \/ RenderDone(w)
    \/ \E i \in Slots : \/ Arrives(w, i) \/ Acked(w, i) \/ Refused(w, i)
                        \/ Reads(w, i) \/ Refetched(w, i)

Fails(w) ==
    \/ StreamBreaks(w)
    \/ \E i \in Slots : WriteLost(w, i) \/ ReadLost(w, i)

Next ==
    \/ \E w \in Windows : Edit(w) \/ Goes(w) \/ Fails(w)
    \/ \E s \in Sessions, saved \in BOOLEAN : KillSession(s, saved)
    \/ KillWorkspace
    \/ Restart

Spec == Init /\ [][Next]_vars

-----------------------------------------------------------------------------
(* Properties.                                                              *)

\* Nothing is on its way to or from window w.
AtRest(w) ==
    /\ ~ win[w].pending /\ win[w].render = None
    /\ stream[w] = "up" /\ inbox[w] = <<>>
    /\ \A i \in Slots : flight[w][i] = None

\* Window w has never had two writes on their way at once.  push sends a capture
\* without waiting for the answer to the one before; when the first is then
\* refused, the second is sent past a revision the daemon never stored, and the
\* two properties that speak of what is stored are false of such a window.
Alone(w) == ~ win[w].lapped

\* Reconnects, resets, renders and lost replies together: a window at rest whose
\* last write was not refused shows the stored tabs at the stored revision; one
\* whose write was refused is never ahead of the daemon, so that it still hears
\* what comes next; and no window syncs a workspace that was killed.  Two kinds
\* of window are excepted: one whose own writes overlapped, and one that a restart
\* left stranded: it had been told of a layout that the restart took back, and its
\* stream had not, so that nothing resets it.
SettlesOnStored ==
    \A w \in Windows : AtRest(w) /\ win[w].open /\ ~ win[w].stranded /\ Alone(w) =>
        /\ store # None
        /\ win[w].rev <= store.rev
        /\ ~ win[w].refused => /\ win[w].rev = store.rev
                              /\ SameStructure(win[w].local, store.doc)

\* "It must be one past the revision last seen, and losing that race is answered
\* by re-fetching": the daemon accepts a write only from a window that had been
\* told of the layout the write replaces.  The other windows' writes may overlap;
\* this one's have not.
NoLostUpdate ==
    [][\A w \in Windows, i \in Slots :
          Alone(w) /\ At(w, i, "sent") /\ At(w, i, "stored")' => flight[w][i].base >= store.rev]_vars

\* apply: "the rebuild is a mutation like any other, and would otherwise be
\* captured and pushed straight back".  A window writes only what its own user
\* arranged, never what it was told to render.
OnlyEditsAreStored ==
    [][\A w \in Windows, i \in Slots :
          flight[w][i] = None /\ flight'[w][i] # None => edited[w] \/ win[w].overtaken]_vars

\* "A local edit still waiting for its capture wins", and a render replaces the
\* panes only if they did not change under it: what the user did since the last
\* capture is never rendered over, but by a reset or after a refused write.
UnsentEditsStay ==
    [][\A w \in Windows :
          win[w].open /\ win'[w].open /\ win'[w].local # win[w].local
             /\ spent'.edits = spent.edits => ~ win[w].unsent]_vars

-----------------------------------------------------------------------------
(* The invariants behind the four properties.                               *)

\* What the user changed since the last capture shows.
KeepsUnsent == \A w \in Windows : win[w].unsent => win[w].local # Shows(win[w])

\* A render is under way, or nothing waits for one; while it is, no capture is
\* armed and the window claims nothing.
RendersFirst(v) ==
    /\ v.render = None => v.queued = None /\ ~ v.reset
    /\ v.render # None => ~ v.pending /\ v.rev <= v.told.rev

\* What the window believes is stored, once its renders are done.
Becomes(v) == IF v.queued # None /\ v.reset THEN v.queued.doc ELSE v.render.to

\* Unless its user arranged something, a window shows what it was told: what it
\* knows, or what it showed when the render began.  A window that claims a
\* revision does so for its user.
ShowsAsTold(v, e) ==
    v.open /\ ~ v.overtaken =>
        /\ v.render # None => v.known = Becomes(v)
        /\ ~ e => v.local = Shows(v)
        /\ v.rev > v.told.rev => e

\* The write p is not yet answered for.
Active(p) == p # None /\ p.at \in {"sent", "stored", "refused"}

\* A write goes out one past the revision it was captured at.
OnePast == \A w \in Windows, i \in Slots :
    Active(flight[w][i]) => flight[w][i].rev = flight[w][i].wasRev + 1

WritesEdits ==
    \A w \in Windows : RendersFirst(win[w]) /\ ShowsAsTold(win[w], edited[w])

\* The window is where the daemon last told it to be.
Agrees(v) == v.rev = v.told.rev /\ SameStructure(v.known, v.told.doc)

\* While its writes do not overlap, a window claims a revision it has not been told of only
\* while its write p is on its way.
Claims(v, p) ==
    IF Active(p)
    THEN /\ p.wasRev <= p.base
         /\ v.open => \/ v.rev = p.rev /\ v.known = p.doc /\ p.wasRev <= v.told.rev
                      \/ Agrees(v)
    ELSE v.open => Agrees(v) \/ (v.refused /\ v.rev <= v.told.rev)

\* Window w uses one slot.
Single(w) == \A i \in Slots \ {1} : flight[w][i] = None

OneClaim == \A w \in Windows : Alone(w) => Single(w) /\ Claims(win[w], flight[w][1])

\* What is shown and not captured is what is known, unless a write was refused.
CapturesAll(v, p) ==
    v.open /\ v.render = None /\ ~ v.pending
        => v.local = v.known \/ (v.refused /\ ~ Active(p))

\* A layout x of d's revision is d.
SameAs(x, d) == x.rev = d.rev => x.doc = d.doc

\* The ledger is the table as it was.
LedgerBehind ==
    /\ store = None <=> ledger = None
    /\ store # None => ledger.rev <= store.rev /\ SameAs(ledger, store)

\* What an answer on its way says of the daemon's layout.
AnswersTrue ==
    store # None => \A w \in Windows, i \in Slots :
        LET p == flight[w][i] IN
        /\ At(w, i, "stored") => p.rev <= ledger.rev
        /\ At(w, i, "read") => p.rev <= store.rev
        /\ At(w, i, "stored") \/ At(w, i, "read") => SameAs(p, store) /\ SameAs(p, ledger)

\* The stream has forwarded the daemon's layout while it is up; what is still to
\* be handled behind the last reset leads up to it.
Forwarded(w) ==
    LET n == Len(inbox[w])
        e(i) == inbox[w][i]
    IN  /\ stream[w] = "up" => IF store = None THEN seen[w] = None
                               ELSE seen[w] = [rev |-> store.rev, doc |-> store.doc]
        /\ seen[w] = None => /\ store = None
                             /\ IF n = 0 THEN ~ win[w].open ELSE e(n).kind = "removed"
        /\ seen[w] # None =>
              /\ n > 0 => e(n).rev = seen[w].rev
              /\ \A i \in 1 .. n : (\A j \in i + 1 .. n : e(j).kind # "reset") =>
                    e(i).rev <= seen[w].rev /\ SameAs(e(i), seen[w])

\* All that was forwarded to window w has been handled.
Listens(w) == win[w].open /\ stream[w] = "up" /\ store # None /\ inbox[w] = <<>>

\* The window, with slot p, has revision r or will have it when its render or its
\* re-read is done, unless it was refused.
Heard(v, p, r) ==
    IF v.queued # None THEN v.queued.rev >= r
    ELSE /\ ~ v.refused => v.rev >= r
         /\ p # None /\ p.at = "stored" => v.rev >= r
         /\ p # None /\ p.at = "read" => v.rev >= r \/ p.rev >= r

HasHeard(w) == Listens(w) => Heard(win[w], flight[w][1], store.rev)

\* No reset is on its way to window w.
Clean(w) == store # None /\ \A i \in 1 .. Len(inbox[w]) : inbox[w][i].kind # "reset"

\* Layout x is one that a window can be holding when s is stored, l is in the ledger
\* and n was forwarded: it is no newer than what is stored or was forwarded, and
\* where it is the same layout it has the same structure.
Fits(x, s, l, n) ==
    /\ x.rev <= s.rev \/ x.rev <= n.rev
    /\ x.rev > s.rev /\ x.rev = n.rev => SameStructure(x.doc, n.doc)
    /\ \A d \in {s, l} :
          x.rev = d.rev /\ (d.rev > n.rev \/ (d.rev = n.rev /\ d.doc = n.doc))
              => SameStructure(x.doc, d.doc)

\* So is every layout window v may come to show.
Holding(v, s, l, n) ==
    Fits(v.told, s, l, n) /\ (v.queued # None => Fits(v.queued, s, l, n))

HoldsStored(w) ==
    win[w].open /\ ~ win[w].stranded /\ Clean(w) => Holding(win[w], store, ledger, seen[w])

\* What waits behind a render is not older than what the window has.
QueuedAhead(v) == v.queued # None => v.queued.rev >= v.rev

StreamTrue == LedgerBehind /\ AnswersTrue /\ \A w \in Windows : Forwarded(w)

\* The invariant of one window whose writes have not overlapped.
WindowInv(w) ==
    /\ QueuedAhead(win[w]) /\ HasHeard(w) /\ HoldsStored(w)
    /\ CapturesAll(win[w], flight[w][1])

SettleInv == \A w \in Windows : Alone(w) => WindowInv(w)
=============================================================================
