-------------------------- MODULE LayoutSyncProofs --------------------------
(***************************************************************************)
(* Proofs about LayoutSync, for any number of windows, of sessions, of     *)
(* edits and of faults.                                                    *)
(*                                                                         *)
(* EditInv follows one window by itself: what its user arranged, what it   *)
(* was told and what it renders.  It holds however many writes overlap,    *)
(* and so do the two properties read off it, UnsentEditsStay and           *)
(* OnlyEditsAreStored.  OneClaim ties the revision a window claims to its  *)
(* write; it, and all that follows, is about each window whose own writes  *)
(* have not overlapped so far (Alone), whatever those of the others do.    *)
(* StreamTrue ties the events and answers on their way to the daemon's     *)
(* layout and its ledger.  SettleInv says of     *)
(* each window that it has heard of what is stored or will, and of what it *)
(* holds that it is the stored layout, or an older one, or one that a      *)
(* restart takes back and the next event replaces.                         *)
(***************************************************************************)
EXTENDS LayoutSync, SequenceTheorems, TLAPS

-----------------------------------------------------------------------------
(* Types.                                                                   *)

\* A document is a document.
LEMMA NewDocType == NewDoc \in Docs
  BY SyncAssumption DEF NewDoc, Docs

\* LayoutSync::new and forget give a sync.
LEMMA InstalledType == Installed \in Syncs /\ \A v \in Syncs : Forgotten(v) \in Syncs
  BY NewDocType DEF Installed, Forgotten, Syncs, Layouts

\* Nothing that a None stands for is None.
LEMMA NoneIsNone ==
    /\ \A x \in Layouts : x # None
    /\ \A x \in Records : x # None
    /\ \A x \in Renders : x # None
    /\ \A x \in Writes : x # None
  BY SyncAssumption

\* schedule changes a sync into a sync.
LEMMA ScheduleType ==
    ASSUME NEW v \in Syncs
    PROVE  Schedule(v) \in Syncs
  BY DEF Schedule, Syncs

\* So does apply.
LEMMA ApplyType ==
    ASSUME NEW v \in Syncs, NEW doc \in Docs, NEW rev \in Nat
    PROVE  Apply(v, doc, rev) \in Syncs
  BY DEF Apply, Syncs, Layouts, Renders

\* So does accept.
LEMMA AcceptType ==
    ASSUME NEW v \in Syncs, NEW doc \in Docs, NEW rev \in Nat
    PROVE  Accept(v, doc, rev) \in Syncs
  <1>1. Apply(v, doc, rev) \in Syncs
    BY ApplyType
  <1>2. [v EXCEPT !.queued = [doc |-> doc, rev |-> rev], !.reset = FALSE,
                  !.overtaken = @ \/ v.reset] \in Syncs
    <2> DEFINE b == v.overtaken \/ v.reset
    <2>1. b \in BOOLEAN
      OBVIOUS
    <2> HIDE DEF b
    <2>2. [v EXCEPT !.queued = [doc |-> doc, rev |-> rev], !.reset = FALSE,
                    !.overtaken = b] \in Syncs
      BY <2>1 DEF Syncs, Layouts
    <2> QED BY <2>2 DEF b
  <1>3. [v EXCEPT !.rev = rev, !.told = [rev |-> rev, doc |-> doc], !.known = v.local,
                  !.refused = ~ SameStructure(v.local, doc)] \in Syncs
    BY DEF Syncs, Layouts, SameStructure
  <1> QED BY <1>1, <1>2, <1>3 DEF Accept

\* So does on_layout_event.
LEMMA OnLayoutEventType ==
    ASSUME NEW v \in Syncs, NEW doc \in Docs, NEW rev \in Nat
    PROVE  OnLayoutEvent(v, doc, rev) \in Syncs
  <1>1. [v EXCEPT !.rev = rev, !.told = [rev |-> rev, doc |-> doc], !.known = doc,
                  !.unsent = @ /\ v.local # doc] \in Syncs
    BY DEF Syncs, Layouts
  <1> QED BY <1>1, AcceptType, ScheduleType DEF OnLayoutEvent

\* So does on_workspace_reset.
LEMMA OnWorkspaceResetType ==
    ASSUME NEW v \in Syncs, NEW doc \in Docs, NEW rev \in Nat
    PROVE  OnWorkspaceReset(v, doc, rev) \in Syncs
  <1> DEFINE taken == [v EXCEPT !.pending = FALSE, !.rev = rev, !.known = doc,
                           !.told = [rev |-> rev, doc |-> doc], !.unsent = FALSE,
                           !.stranded = FALSE]
  <1>1. taken \in Syncs
    BY DEF Syncs, Layouts
  <1>2. [taken EXCEPT !.queued = [doc |-> doc, rev |-> rev], !.reset = TRUE] \in Syncs
    BY <1>1 DEF Syncs, Layouts
  <1> QED BY <1>1, <1>2, ApplyType DEF OnWorkspaceReset

\* Before a render's end is handled the sync holds what the panes now show.
Idle(v) == [v EXCEPT !.local = Rendered(v), !.render = None, !.queued = None,
                     !.reset = FALSE, !.unsent = @ /\ Rendered(v) # v.known]

\* The sync after a render.
AfterRender(v) ==
    Schedule(IF v.queued = None THEN Idle(v)
             ELSE IF v.reset
             THEN Apply([Idle(v) EXCEPT !.unsent = FALSE], v.queued.doc, v.queued.rev)
             ELSE OnLayoutEvent(Idle(v), v.queued.doc, v.queued.rev))

\* The end of apply's task leaves a sync.
LEMMA AfterRenderType ==
    ASSUME NEW v \in Syncs, v.render # None
    PROVE  AfterRender(v) \in Syncs
  <1>1. Rendered(v) \in Docs
    BY DEF Rendered, Syncs, Renders
  <1>2. Idle(v) \in Syncs /\ [Idle(v) EXCEPT !.unsent = FALSE] \in Syncs
    BY <1>1 DEF Idle, Syncs
  <1>3. CASE v.queued = None
    BY <1>2, <1>3, ScheduleType DEF AfterRender
  <1>4. CASE v.queued # None
    <2>1. v.queued.doc \in Docs /\ v.queued.rev \in Nat
      BY <1>4 DEF Syncs, Layouts
    <2> QED BY <1>2, <1>4, <2>1, ScheduleType, ApplyType, OnLayoutEventType DEF AfterRender
  <1> QED BY <1>3, <1>4

\* RenderDone in these terms.
LEMMA RenderDoneIs ==
    ASSUME NEW w \in Windows, RenderDone(w)
    PROVE  /\ win[w].open /\ win[w].render # None
           /\ win' = [win EXCEPT ![w] = AfterRender(win[w])]
           /\ edited' = [edited EXCEPT ![w] = @ /\ win[w].local # win[w].render.from]
           /\ UNCHANGED <<daemon, flight, dying, events, spent>>
  BY DEF RenderDone, AfterRender, Idle

-----------------------------------------------------------------------------
(* Every action keeps the types.                                            *)

\* What a user's edit leaves alone, and what it changes.
LEMMA RearrangeType ==
    ASSUME TypeOK, NEW w \in Windows, NEW doc \in Docs, Rearrange(w, doc)
    PROVE  win' \in [Windows -> Syncs] /\ edited' \in [Windows -> BOOLEAN]
  <1> DEFINE v == [win[w] EXCEPT !.local = doc, !.unsent = doc # Shows(win[w])]
  <1>1. win[w] \in Syncs
    BY DEF TypeOK
  <1>2. v \in Syncs
    BY <1>1 DEF Syncs
  <1>3. Schedule(v) \in Syncs
    BY <1>2, ScheduleType
  <1> HIDE DEF v
  <1>4. win' = [win EXCEPT ![w] = Schedule(v)]
    BY DEF Rearrange, v
  <1> QED BY <1>3, <1>4 DEF Rearrange, TypeOK

\* What is used up of the bounds.
LEMMA SpentType ==
    ASSUME TypeOK
    PROVE  Acts \/ Fault => spent' \in [edits : Nat, faults : Nat]
  BY DEF Acts, Fault, TypeOK

\* Users.
LEMMA EditType ==
    ASSUME TypeOK, NEW w \in Windows, Edit(w)
    PROVE  TypeOK'
  <1>0. win[w].local \in Docs
    BY DEF TypeOK, Syncs
  <1>1. ASSUME NEW s \in Sessions, NewTerminal(w, s) PROVE TypeOK'
    <2>1. [win[w].local EXCEPT !.tabs = @ \cup {s}] \in Docs
      BY <1>0 DEF Docs
    <2>2. store' \in Records
      BY <1>1 DEF NewTerminal, TypeOK, Records
    <2> QED BY <1>1, SpentType, <2>1, <2>2, RearrangeType DEF NewTerminal, TypeOK, events
  <1>2. ASSUME NEW s \in Sessions, CloseTab(w, s) PROVE TypeOK'
    <2>1. [win[w].local EXCEPT !.tabs = @ \ {s}] \in Docs
      BY <1>0 DEF Docs
    <2> QED BY <1>2, SpentType, <2>1, RearrangeType DEF CloseTab, TypeOK, events, daemon
  <1>3. ASSUME SwitchTab(w) PROVE TypeOK'
    <2>1. [win[w].local EXCEPT !.front = ~ @] \in Docs
      BY <1>0 DEF Docs
    <2> QED BY <1>3, SpentType, <2>1, RearrangeType DEF SwitchTab, TypeOK, events, daemon
  <1> QED BY <1>1, <1>2, <1>3 DEF Edit

\* A stream forwards layouts.
LEMMA BroadcastType ==
    ASSUME TypeOK, NEW doc \in Docs, NEW rev \in Nat, Broadcast(rev, doc)
    PROVE  /\ seen' \in [Windows -> Layouts \cup {None}] /\ inbox' \in [Windows -> Seq(Events)]
           /\ stream' = stream
  <1>1. [rev |-> rev, doc |-> doc] \in Layouts
    BY DEF Layouts
  <1>2. LayoutEvent(rev, doc) \in Events
    BY DEF LayoutEvent, Events
  <1>3. \A w \in Windows : Append(inbox[w], LayoutEvent(rev, doc)) \in Seq(Events)
    BY <1>2, AppendProperties DEF TypeOK
  <1> QED BY <1>1, <1>3 DEF Broadcast, TypeOK

\* A stream that comes back hears of layouts.
LEMMA SnapshotType ==
    ASSUME TypeOK, NEW w \in Windows
    PROVE  Snapshot(w) \in Seq(Events)
  <1>1. RemovedEvent \in Events
    BY NewDocType DEF RemovedEvent, Events
  <1>2. store # None => /\ ResetEvent(store.rev, store.doc) \in Events
                        /\ LayoutEvent(store.rev, store.doc) \in Events
    BY DEF ResetEvent, LayoutEvent, Events, TypeOK, Records
  <1> QED BY <1>1, <1>2 DEF Snapshot

\* A write of a window, or a slot that is free.
LEMMA FlightType ==
    ASSUME TypeOK, NEW w \in Windows, NEW i \in Slots
    PROVE  /\ flight[w][i] \in Writes \cup {None}
           /\ flight[w][i] # None => flight[w][i] \in Writes
           /\ \A p \in Writes \cup {None} :
                 [flight EXCEPT ![w][i] = p] \in [Windows -> [1 .. MaxInFlight -> Writes \cup {None}]]
  <1>1. flight[w] \in [1 .. MaxInFlight -> Writes \cup {None}]
    BY DEF TypeOK
  <1>2. flight[w][i] \in Writes \cup {None}
    BY <1>1 DEF Slots
  <1>3. ASSUME NEW p \in Writes \cup {None}
        PROVE  [flight EXCEPT ![w][i] = p] \in [Windows -> [1 .. MaxInFlight -> Writes \cup {None}]]
    <2>1. [flight[w] EXCEPT ![i] = p] \in [1 .. MaxInFlight -> Writes \cup {None}]
      BY <1>1 DEF Slots
    <2> QED BY <2>1 DEF TypeOK
  <1> QED BY <1>2, <1>3

\* A write that changes where it is.
LEMMA LandType ==
    ASSUME TypeOK, NEW w \in Windows, NEW i \in Slots, flight[w][i] # None,
           NEW at \in {"sent", "stored", "refused", "reading", "read"}
    PROVE  Land(w, i, at) => flight' \in [Windows -> [1 .. MaxInFlight -> Writes \cup {None}]]
  <1>1. flight[w][i] \in Writes
    BY FlightType
  <1>2. [flight[w][i] EXCEPT !.at = at] \in Writes
    BY <1>1 DEF Writes
  <1> QED BY <1>2, FlightType DEF Land, TypeOK, Slots

\* A slot that is freed.
LEMMA ClearType ==
    ASSUME TypeOK, NEW w \in Windows, NEW i \in Slots
    PROVE  Clear(w, i) => flight' \in [Windows -> [1 .. MaxInFlight -> Writes \cup {None}]]
  BY FlightType DEF Clear

\* The daemon's answers and the window's requests.
LEMMA WriteType ==
    ASSUME TypeOK, NEW w \in Windows, NEW i \in Slots,
           Arrives(w, i) \/ Acked(w, i) \/ Refused(w, i) \/ Reads(w, i) \/ Refetched(w, i)
             \/ WriteLost(w, i) \/ ReadLost(w, i)
    PROVE  TypeOK'
  <1> DEFINE p == flight[w][i]
             v == win[w]
  <1>0. v \in Syncs /\ p # None /\ p \in Writes
    BY FlightType DEF TypeOK, Arrives, Acked, Refused, Reads, Refetched, WriteLost, ReadLost, At
  <1>p. p.rev \in Nat /\ p.doc \in Docs /\ p.wasRev \in Nat /\ p.wasKnown \in Docs
    BY <1>0 DEF Writes
  <1> HIDE DEF p, v
  <1>1. CASE Arrives(w, i)
    <2>1. CASE Accepts(p)
      <3>1. store' \in Records /\ ledger' = store'
        <4>1. store \in Records /\ store' = [store EXCEPT !.rev = p.rev, !.doc = p.doc]
          BY <1>1, <2>1 DEF Arrives, Accepts, TypeOK, p
        <4>2. ledger' = store'
          BY <1>1, <2>1 DEF Arrives, p
        <4> QED BY <1>p, <4>1, <4>2 DEF Records
      <3>2. Broadcast(p.rev, p.doc) /\ Land(w, i, "stored")
        BY <1>1, <2>1 DEF Arrives, p
      <3> QED BY <1>1, <1>0, <1>p, <3>1, <3>2, LandType, BroadcastType DEF Arrives, TypeOK, p
    <2>2. CASE ~ Accepts(p)
      BY <1>1, <1>0, <2>2, LandType DEF Arrives, TypeOK, events, p
    <2> QED BY <2>1, <2>2
  <1>2. CASE Acked(w, i)
    <2>1. [v EXCEPT !.told = IF v.rev = p.rev /\ v.known = p.doc
                             THEN [rev |-> p.rev, doc |-> p.doc] ELSE @,
                    !.refused = FALSE] \in Syncs
      BY <1>0, <1>p DEF Syncs, Layouts
    <2>2. win' \in [Windows -> Syncs]
      BY <1>2, <2>1 DEF Acked, TypeOK, p, v
    <2> QED BY <1>2, <2>2, ClearType DEF Acked, TypeOK, daemon, events
  <1>3. CASE Refused(w, i)
    <2> DEFINE back == [v EXCEPT !.rev = p.wasRev, !.known = p.wasKnown, !.refused = TRUE,
                                 !.overtaken = @ \/ v.told.rev >= p.rev]
               b == v.overtaken \/ v.told.rev >= p.rev
    <2>1. b \in BOOLEAN
      OBVIOUS
    <2>2. back \in Syncs
      <3> HIDE DEF b
      <3>1. [v EXCEPT !.rev = p.wasRev, !.known = p.wasKnown, !.refused = TRUE,
                      !.overtaken = b] \in Syncs
        BY <1>0, <1>p, <2>1 DEF Syncs
      <3> QED BY <3>1 DEF b
    <2> HIDE DEF back, b
    <2>3. [back EXCEPT !.unsent = @ /\ v.local # Shows(back)] \in Syncs
      BY <2>2 DEF Syncs
    <2>4. [v EXCEPT !.refused = TRUE] \in Syncs
      BY <1>0 DEF Syncs
    <2>5. \/ win' = win
          \/ win' = [win EXCEPT ![w] = [back EXCEPT !.unsent = @ /\ v.local # Shows(back)]]
          \/ win' = [win EXCEPT ![w] = [v EXCEPT !.refused = TRUE]]
      BY <1>3 DEF Refused, back, v, p
    <2>6. win' \in [Windows -> Syncs]
      BY <2>3, <2>4, <2>5 DEF TypeOK
    <2>7. flight' \in [Windows -> [1 .. MaxInFlight -> Writes \cup {None}]]
      BY <1>3, <1>0, LandType, ClearType DEF Refused, p
    <2> QED BY <1>3, <2>6, <2>7 DEF Refused, TypeOK, daemon, events
  <1>4. CASE Reads(w, i)
    <2> DEFINE q == [p EXCEPT !.at = "read", !.rev = store.rev, !.doc = store.doc]
    <2>1. store # None => q \in Writes
      BY <1>0 DEF Writes, TypeOK, Records
    <2>2. store # None =>
            flight' = [flight EXCEPT ![w][i] = q]
      BY <1>4 DEF Reads, p, TypeOK, Slots
    <2> HIDE DEF q
    <2>3. flight' \in [Windows -> [1 .. MaxInFlight -> Writes \cup {None}]]
      <3>1. CASE store = None
        BY <1>4, <3>1, ClearType DEF Reads
      <3>2. CASE store # None
        <4>1. q \in Writes \cup {None}
          BY <2>1, <3>2
        <4>2. [flight EXCEPT ![w][i] = q] \in [Windows -> [1 .. MaxInFlight -> Writes \cup {None}]]
          BY <4>1, FlightType
        <4> QED BY <2>2, <3>2, <4>2
      <3> QED BY <3>1, <3>2
    <2> QED BY <1>4, <2>3 DEF Reads, TypeOK, daemon, events
  <1>5. CASE Refetched(w, i)
    <2> DEFINE c == [v EXCEPT !.unsent = FALSE]
    <2>1. c \in Syncs
      BY <1>0 DEF Syncs
    <2>2. Accept(c, p.doc, p.rev) \in Syncs
      BY <2>1, <1>p, AcceptType
    <2> HIDE DEF c
    <2>3. win' = win \/ win' = [win EXCEPT ![w] = Accept(c, p.doc, p.rev)]
      BY <1>5 DEF Refetched, c, p, v
    <2>4. win' \in [Windows -> Syncs]
      BY <2>2, <2>3 DEF TypeOK
    <2> QED BY <1>5, <2>4, ClearType DEF Refetched, TypeOK, daemon, events
  <1>6. CASE WriteLost(w, i)
    BY <1>6, <1>0, SpentType, LandType DEF WriteLost, TypeOK, daemon, events, p
  <1>7. CASE ReadLost(w, i)
    BY <1>7, SpentType, ClearType DEF ReadLost, TypeOK, daemon, events
  <1> QED BY <1>1, <1>2, <1>3, <1>4, <1>5, <1>6, <1>7

\* push.
LEMMA PushType ==
    ASSUME TypeOK, NEW w \in Windows, Push(w)
    PROVE  TypeOK'
  <1> DEFINE v == win[w]
  <1>0. v \in Syncs
    BY DEF TypeOK
  <1>1. CASE v.local = v.known
    <2>1. [v EXCEPT !.pending = FALSE, !.unsent = FALSE] \in Syncs
      BY <1>0 DEF Syncs
    <2>2. win' = [win EXCEPT ![w] = [v EXCEPT !.pending = FALSE, !.unsent = FALSE]]
      BY <1>1 DEF Push, TypeOK
    <2> HIDE DEF v
    <2>3. win' \in [Windows -> Syncs]
      BY <2>1, <2>2 DEF TypeOK
    <2> QED BY <1>1, <2>3 DEF Push, TypeOK, daemon, events, v
  <1>2. CASE v.local # v.known
    <2> DEFINE q == [at |-> "sent", rev |-> v.rev + 1, doc |-> v.local,
                     wasRev |-> v.rev, wasKnown |-> v.known, base |-> v.told.rev]
    <2>1. PICK i \in Slots : Send(w, i)
      BY <1>2 DEF Push
    <2> DEFINE n == [v EXCEPT !.pending = FALSE, !.unsent = FALSE, !.rev = @ + 1, !.known = v.local,
                              !.lapped = @ \/ i # 1]
    <2>2. n \in Syncs
      <3> DEFINE r == v.rev + 1
                 b == v.lapped \/ i # 1
      <3>1. r \in Nat /\ v.local \in Docs
        BY <1>0 DEF Syncs
      <3>2. b \in BOOLEAN
        OBVIOUS
      <3> HIDE DEF r, b, v
      <3>3. [v EXCEPT !.pending = FALSE, !.unsent = FALSE, !.rev = r, !.known = v.local,
                      !.lapped = b] \in Syncs
        BY <1>0, <3>1, <3>2 DEF Syncs
      <3> QED BY <3>3 DEF r, b
    <2>3. q \in Writes
      BY <1>0 DEF Syncs, Writes, Layouts
    <2>4. win' = [win EXCEPT ![w] = n] /\ flight' = [flight EXCEPT ![w][i] = q]
      BY <2>1 DEF Send, TypeOK
    <2> HIDE DEF n, q, v
    <2>5. win' \in [Windows -> Syncs]
      BY <2>2, <2>4 DEF TypeOK
    <2>6. flight' \in [Windows -> [1 .. MaxInFlight -> Writes \cup {None}]]
      BY <2>3, <2>4, FlightType
    <2>7. spent' \in [edits : Nat, faults : Nat]
      BY <2>1, SpentType DEF Send, TypeOK
    <2> QED BY <2>5, <2>6, <2>7 DEF Push, TypeOK, daemon, events
  <1> QED BY <1>1, <1>2

\* Streams, events and renders.
LEMMA StreamType ==
    ASSUME TypeOK, NEW w \in Windows,
           Resubscribe(w) \/ StreamBreaks(w) \/ HandleEvent(w) \/ RenderDone(w)
    PROVE  TypeOK'
  <1>1. CASE Resubscribe(w)
    <2>1. inbox[w] \o Snapshot(w) \in Seq(Events)
      BY SnapshotType, ConcatProperties DEF TypeOK
    <2>2. store # None => [rev |-> store.rev, doc |-> store.doc] \in Layouts
      BY DEF TypeOK, Records, Layouts
    <2> QED BY <1>1, <2>1, <2>2 DEF Resubscribe, TypeOK, daemon
  <1>2. CASE StreamBreaks(w)
    BY <1>2, SpentType DEF StreamBreaks, TypeOK, daemon
  <1>3. CASE HandleEvent(w)
    <2> DEFINE e == Head(inbox[w])
               v == win[w]
    <2>1. e \in Events /\ Tail(inbox[w]) \in Seq(Events)
      BY <1>3, HeadTailProperties DEF HandleEvent, TypeOK
    <2>2. e.doc \in Docs /\ e.rev \in Nat /\ e.kind \in {"layout", "reset", "removed"}
      BY <2>1 DEF Events
    <2>3. v \in Syncs
      BY DEF TypeOK
    <2> HIDE DEF e, v
    <2>4. \/ win' = [win EXCEPT ![w] = v]
          \/ win' = [win EXCEPT ![w] = OnLayoutEvent(v, e.doc, e.rev)]
          \/ win' = [win EXCEPT ![w] = OnWorkspaceReset(v, e.doc, e.rev)]
          \/ win' = [win EXCEPT ![w] = Forgotten(v)]
      BY <1>3, <2>2 DEF HandleEvent, e, v
    <2>5. win' \in [Windows -> Syncs]
      <3>1. /\ OnLayoutEvent(v, e.doc, e.rev) \in Syncs
            /\ OnWorkspaceReset(v, e.doc, e.rev) \in Syncs
        BY <2>2, <2>3, OnLayoutEventType, OnWorkspaceResetType
      <3> QED BY <2>3, <2>4, <3>1, InstalledType DEF TypeOK
    <2> QED BY <1>3, <2>1, <2>5 DEF HandleEvent, TypeOK, daemon
  <1>4. CASE RenderDone(w)
    <2>1. AfterRender(win[w]) \in Syncs
      BY <1>4, RenderDoneIs, AfterRenderType DEF TypeOK
    <2>2. win' \in [Windows -> Syncs] /\ edited' \in [Windows -> BOOLEAN]
      BY <1>4, <2>1, RenderDoneIs DEF TypeOK
    <2> QED BY <1>4, <2>2, RenderDoneIs DEF TypeOK, daemon, events
  <1> QED BY <1>1, <1>2, <1>3, <1>4

\* The rest of the daemon.
LEMMA DaemonType ==
    ASSUME TypeOK,
           (\E s \in Sessions, saved \in BOOLEAN : KillSession(s, saved)) \/ KillWorkspace \/ Restart
    PROVE  TypeOK'
  <1>1. ASSUME NEW s \in Sessions, NEW saved \in BOOLEAN, KillSession(s, saved)
        PROVE  TypeOK'
    <2>1. CASE store # None /\ s \in store.alive
      <3> DEFINE tab == s \in store.doc.tabs
                 rev == IF tab THEN store.rev + 1 ELSE store.rev
                 doc == [store.doc EXCEPT !.tabs = @ \ {s}]
      <3>1. rev \in Nat /\ doc \in Docs
        <4>1. store.rev \in Nat /\ store.doc \in Docs
          BY <2>1 DEF TypeOK, Records
        <4>2. doc \in Docs
          BY <4>1 DEF Docs
        <4> QED BY <4>1, <4>2
      <3>2. store' = [rev |-> rev, doc |-> doc, alive |-> store.alive \ {s}]
        BY <1>1, <2>1 DEF KillSession
      <3>3. store' \in Records
        BY <2>1, <3>1, <3>2 DEF TypeOK, Records
      <3>4. IF tab THEN Broadcast(rev, doc) ELSE UNCHANGED events
        BY <1>1, <2>1 DEF KillSession
      <3>5. ledger' = store' \/ ledger' = ledger
        BY <1>1, <2>1 DEF KillSession
      <3> HIDE DEF rev, doc
      <3> QED BY <1>1, <3>1, <3>3, <3>4, <3>5, BroadcastType DEF KillSession, TypeOK, events
    <2>2. CASE ~ (store # None /\ s \in store.alive)
      BY <1>1, <2>2 DEF KillSession, TypeOK, events
    <2> QED BY <2>1, <2>2
  <1>2. CASE KillWorkspace
    <2>1. \A w \in Windows : Append(inbox[w], RemovedEvent) \in Seq(Events)
      BY NewDocType, AppendProperties DEF RemovedEvent, Events, TypeOK
    <2> QED BY <1>2, <2>1, SpentType DEF KillWorkspace, TypeOK
  <1>3. CASE Restart
    <2>2. \A w \in Windows, b \in BOOLEAN : [win[w] EXCEPT !.stranded = b] \in Syncs
      <3> SUFFICES ASSUME NEW w \in Windows, NEW b \in BOOLEAN
                   PROVE  [win[w] EXCEPT !.stranded = b] \in Syncs
        OBVIOUS
      <3>1. win[w] \in Syncs
        BY DEF TypeOK
      <3> QED BY <3>1 DEF Syncs
    <2>3. win' \in [Windows -> Syncs]
      BY <1>3, <2>2 DEF Restart
    <2>4. \A w \in Windows, i \in Slots : flight[w][i] # None =>
             [flight[w][i] EXCEPT !.at = "refused"] \in Writes
      <3> SUFFICES ASSUME NEW w \in Windows, NEW i \in Slots, flight[w][i] # None
                   PROVE  [flight[w][i] EXCEPT !.at = "refused"] \in Writes
        OBVIOUS
      <3>1. flight[w][i] \in Writes
        BY FlightType
      <3> QED BY <3>1 DEF Writes
    <2>5. flight' \in [Windows -> [1 .. MaxInFlight -> Writes \cup {None}]]
      BY <1>3, <2>4, FlightType DEF Restart, At, Slots
    <2> QED BY <1>3, SpentType, <2>3, <2>5 DEF Restart, TypeOK
  <1> QED BY <1>1, <1>2, <1>3

\* The types are kept.
LEMMA TypeNext ==
    ASSUME TypeOK, [Next]_vars
    PROVE  TypeOK'
  <1>1. ASSUME NEW w \in Windows, Edit(w) \/ Goes(w) \/ Fails(w) PROVE TypeOK'
    BY <1>1, EditType, WriteType, PushType, StreamType DEF Goes, Fails
  <1>2. CASE UNCHANGED vars
    BY <1>2 DEF vars, TypeOK
  <1> QED BY <1>1, <1>2, DaemonType DEF Next

\* What every variable holds at first.
LEMMA TypeInit == Init => TypeOK
  <1> SUFFICES ASSUME Init PROVE TypeOK
    OBVIOUS
  <1>1. store \in Records /\ ledger \in Records
    BY NewDocType, SyncAssumption DEF Init, Records
  <1>2. [rev |-> 0, doc |-> NewDoc] \in Layouts
    BY NewDocType DEF Layouts
  <1> QED BY <1>1, <1>2, InstalledType, SyncAssumption DEF Init, TypeOK, Slots

-----------------------------------------------------------------------------
(* What a window shows, knows and claims, by itself.                        *)

\* KeepsUnsent and WritesEdits of one window; e says that it shows what its user
\* arranged.
Local(v, e) ==
    /\ v.unsent => v.local # Shows(v)
    /\ RendersFirst(v)
    /\ ShowsAsTold(v, e)

\* schedule arms a capture and changes nothing else.
LEMMA ScheduleLocal ==
    ASSUME NEW v \in Syncs, NEW e \in BOOLEAN, Local(v, e)
    PROVE  Local(Schedule(v), e)
  BY DEF Local, Schedule, Shows, RendersFirst, ShowsAsTold, Becomes, Syncs

\* apply: a render starts from what the window shows.
LEMMA ApplyLocal ==
    ASSUME NEW v \in Syncs, NEW doc \in Docs, NEW rev \in Nat, NEW e \in BOOLEAN,
           ~ v.unsent, v.queued = None
    PROVE  Local(Apply(v, doc, rev), e)
  <1> DEFINE r == [to |-> doc, from |-> v.local]
             n == Apply(v, doc, rev)
  <1>1. r # None
    BY NoneIsNone DEF r, Renders, Syncs
  <1>2. /\ n.render = r /\ n.known = doc /\ n.rev = rev /\ n.told.rev = rev
        /\ n.local = v.local /\ n.pending = FALSE
        /\ n.unsent = FALSE /\ n.queued = None
    BY DEF Apply, Syncs, n, r
  <1>3. r.to = doc /\ r.from = v.local
    OBVIOUS
  <1> HIDE DEF r, n
  <1> QED BY <1>1, <1>2, <1>3 DEF Local, Shows, RendersFirst, ShowsAsTold, Becomes, n

\* accept, of news that finds no edit to be kept.
LEMMA AcceptLocal ==
    ASSUME NEW v \in Syncs, NEW doc \in Docs, NEW rev \in Nat, NEW e \in BOOLEAN,
           Local(v, e), v.render = None => ~ v.unsent
    PROVE  Local(Accept(v, doc, rev), e)
  <1>1. CASE rev <= v.rev
    BY <1>1 DEF Accept
  <1>2. CASE rev > v.rev /\ v.render # None
    <2> DEFINE q == [doc |-> doc, rev |-> rev]
               n == [v EXCEPT !.queued = q, !.reset = FALSE, !.overtaken = @ \/ v.reset]
    <2>1. Accept(v, doc, rev) = n \/ Accept(v, doc, rev) = v
      BY <1>2 DEF Accept, Syncs
    <2>2. /\ n.render = v.render /\ n.known = v.known /\ n.rev = v.rev /\ n.told = v.told
          /\ n.local = v.local /\ n.pending = v.pending /\ n.unsent = v.unsent
          /\ n.reset = FALSE /\ n.open = v.open
          /\ ~ n.overtaken => ~ v.overtaken /\ ~ v.reset
      BY DEF Syncs
    <2> HIDE DEF n
    <2>3. Local(n, e)
      BY <1>2, <2>2 DEF Local, Shows, RendersFirst, ShowsAsTold, Becomes
    <2> QED BY <2>1, <2>3
  <1>3. CASE rev > v.rev /\ v.render = None /\ SameStructure(doc, v.known)
    <2> DEFINE n == Accept(v, doc, rev)
    <2>1. n = [v EXCEPT !.rev = rev, !.told = [rev |-> rev, doc |-> doc], !.known = v.local,
                        !.refused = ~ SameStructure(v.local, doc)]
      BY <1>3 DEF Accept, Syncs
    <2>2. /\ n.render = None /\ n.known = v.local /\ n.rev = rev /\ n.told.rev = rev
          /\ n.local = v.local /\ n.pending = v.pending /\ n.unsent = v.unsent
          /\ n.queued = v.queued /\ n.reset = v.reset
      BY <1>3, <2>1 DEF Syncs
    <2> HIDE DEF n
    <2>3. Local(n, e)
      BY <1>3, <2>2 DEF Local, Shows, RendersFirst, ShowsAsTold
    <2> QED BY <2>3 DEF n
  <1>4. CASE rev > v.rev /\ v.render = None /\ ~ SameStructure(doc, v.known)
    <2>1. Accept(v, doc, rev) = Apply(v, doc, rev)
      BY <1>4 DEF Accept, Syncs
    <2> QED BY <1>4, <2>1, ApplyLocal DEF Local, RendersFirst
  <1> QED BY <1>1, <1>2, <1>3, <1>4 DEF Syncs

\* on_layout_event: an edit that waits for its capture wins.
LEMMA OnLayoutEventLocal ==
    ASSUME NEW v \in Syncs, NEW doc \in Docs, NEW rev \in Nat, NEW e \in BOOLEAN, Local(v, e)
    PROVE  Local(OnLayoutEvent(v, doc, rev), e)
  <1>1. CASE rev <= v.rev
    BY <1>1 DEF OnLayoutEvent
  <1>2. CASE rev > v.rev /\ v.render = None /\ v.local # v.known
    <2> DEFINE n == [v EXCEPT !.rev = rev, !.told = [rev |-> rev, doc |-> doc], !.known = doc,
                              !.unsent = @ /\ v.local # doc]
    <2>1. n \in Syncs
      BY DEF Syncs, Layouts
    <2>2. /\ n.render = None /\ n.known = doc /\ n.rev = rev /\ n.told.rev = rev
          /\ n.local = v.local /\ (n.unsent => v.local # doc)
          /\ n.queued = v.queued /\ n.reset = v.reset /\ n.open = v.open
          /\ n.overtaken = v.overtaken
      BY <1>2 DEF Syncs
    <2>3. OnLayoutEvent(v, doc, rev) = Schedule(n)
      BY <1>2 DEF OnLayoutEvent, Syncs
    <2> HIDE DEF n
    <2>4. v.open /\ ~ v.overtaken => e
      BY <1>2 DEF Local, ShowsAsTold, Shows
    <2>5. Local(n, e)
      BY <1>2, <2>2, <2>4 DEF Local, Shows, RendersFirst, ShowsAsTold
    <2> QED BY <2>1, <2>3, <2>5, ScheduleLocal
  <1>3. CASE rev > v.rev /\ ~ (v.render = None /\ v.local # v.known)
    <2>1. v.render = None => ~ v.unsent
      BY <1>3 DEF Local, Shows
    <2>2. OnLayoutEvent(v, doc, rev) = Accept(v, doc, rev)
      BY <1>3 DEF OnLayoutEvent, Syncs
    <2> QED BY <2>1, <2>2, AcceptLocal
  <1> QED BY <1>1, <1>2, <1>3 DEF Syncs

\* on_workspace_reset: what the user did goes with it.
LEMMA OnWorkspaceResetLocal ==
    ASSUME NEW v \in Syncs, NEW doc \in Docs, NEW rev \in Nat, NEW e \in BOOLEAN, Local(v, e)
    PROVE  Local(OnWorkspaceReset(v, doc, rev), e)
  <1> DEFINE q == [doc |-> doc, rev |-> rev]
             taken == [v EXCEPT !.pending = FALSE, !.rev = rev, !.known = doc,
                           !.told = [rev |-> rev, doc |-> doc], !.unsent = FALSE,
                           !.stranded = FALSE]
             n == [taken EXCEPT !.queued = q, !.reset = TRUE]
  <1>1. taken \in Syncs
    BY DEF Syncs, Layouts
  <1>2. CASE v.render = None
    <2>1. OnWorkspaceReset(v, doc, rev) = Apply(taken, doc, rev)
      BY <1>2 DEF OnWorkspaceReset
    <2>2. ~ taken.unsent /\ taken.queued = None
      BY <1>2 DEF Local, RendersFirst, Syncs
    <2> QED BY <1>1, <2>1, <2>2, ApplyLocal
  <1>3. CASE v.render # None
    <2>1. OnWorkspaceReset(v, doc, rev) = n
      BY <1>3 DEF OnWorkspaceReset
    <2>2. /\ n.render = v.render /\ n.known = doc /\ n.rev = rev /\ n.told.rev = rev
          /\ n.local = v.local /\ n.pending = FALSE /\ n.unsent = FALSE
          /\ n.queued = q /\ n.reset = TRUE /\ n.open = v.open /\ n.overtaken = v.overtaken
      BY DEF Syncs
    <2>3. q # None /\ q.doc = doc
      BY NoneIsNone DEF Layouts
    <2> HIDE DEF n, q
    <2>4. Local(n, e)
      BY <1>3, <2>2, <2>3 DEF Local, Shows, RendersFirst, ShowsAsTold, Becomes
    <2> QED BY <2>1, <2>4
  <1> QED BY <1>2, <1>3

\* A render that is done shows what it rendered, or what the user did meanwhile.
LEMMA IdleLocal ==
    ASSUME NEW v \in Syncs, NEW e \in BOOLEAN, v.render # None, Local(v, e),
           v.queued = None \/ ~ v.reset
    PROVE  Local(Idle(v), e /\ v.local # v.render.from)
  <1> DEFINE n == Idle(v)
  <1>1. /\ n.render = None /\ n.known = v.known /\ n.rev = v.rev /\ n.told = v.told
        /\ n.local = Rendered(v) /\ (n.unsent => Rendered(v) # v.known)
        /\ n.queued = None /\ n.reset = FALSE /\ n.open = v.open /\ n.overtaken = v.overtaken
    BY DEF Idle, Syncs
  <1> HIDE DEF n
  <1>2. v.open /\ ~ v.overtaken => v.known = v.render.to
    BY DEF Local, ShowsAsTold, Becomes
  <1>3. v.open /\ ~ v.overtaken /\ ~ (e /\ v.local # v.render.from) => Rendered(v) = v.render.to
    BY DEF Local, ShowsAsTold, Shows, Rendered
  <1>4. v.rev <= v.told.rev
    BY DEF Local, RendersFirst
  <1>5. v.rev \in Nat /\ v.told.rev \in Nat
    BY DEF Syncs, Layouts
  <1>6. Local(n, e /\ v.local # v.render.from)
    BY <1>1, <1>2, <1>3, <1>4, <1>5 DEF Local, Shows, RendersFirst, ShowsAsTold
  <1> QED BY <1>6 DEF n

\* The end of apply's task.
LEMMA AfterRenderLocal ==
    ASSUME NEW v \in Syncs, NEW e \in BOOLEAN, v.render # None, Local(v, e)
    PROVE  Local(AfterRender(v), e /\ v.local # v.render.from)
  <1> DEFINE f == e /\ v.local # v.render.from
             i == Idle(v)
             c == [i EXCEPT !.unsent = FALSE]
  <1>1. Rendered(v) \in Docs
    BY DEF Rendered, Syncs, Renders
  <1>2. i \in Syncs /\ c \in Syncs /\ c.queued = None /\ ~ c.unsent
    BY <1>1 DEF Idle, Syncs
  <1>3. f \in BOOLEAN
    OBVIOUS
  <1>4. v.queued = None \/ ~ v.reset => Local(i, f)
    BY IdleLocal
  <1> HIDE DEF f, i, c
  <1>5. CASE v.queued = None
    BY <1>2, <1>3, <1>4, <1>5, ScheduleLocal DEF AfterRender, i, f
  <1>6. CASE v.queued # None
    <2> DEFINE doc == v.queued.doc
               rev == v.queued.rev
    <2>1. doc \in Docs /\ rev \in Nat
      BY <1>6 DEF Syncs, Layouts
    <2> HIDE DEF doc, rev
    <2>2. CASE v.reset
      <3>1. Apply(c, doc, rev) \in Syncs /\ Local(Apply(c, doc, rev), f)
        BY <1>2, <1>3, <2>1, ApplyType, ApplyLocal
      <3>2. AfterRender(v) = Schedule(Apply(c, doc, rev))
        BY <1>6, <2>2 DEF AfterRender, c, i, doc, rev
      <3>3. Local(Schedule(Apply(c, doc, rev)), f)
        BY <3>1, <1>3, ScheduleLocal
      <3> QED BY <3>2, <3>3 DEF f
    <2>3. CASE ~ v.reset
      <3>1. OnLayoutEvent(i, doc, rev) \in Syncs /\ Local(OnLayoutEvent(i, doc, rev), f)
        BY <1>2, <1>3, <1>4, <2>1, <2>3, OnLayoutEventType, OnLayoutEventLocal
      <3>2. AfterRender(v) = Schedule(OnLayoutEvent(i, doc, rev))
        BY <1>6, <2>3 DEF AfterRender, i, doc, rev
      <3>3. Local(Schedule(OnLayoutEvent(i, doc, rev)), f)
        BY <3>1, <1>3, ScheduleLocal
      <3> QED BY <3>2, <3>3 DEF f
    <2> QED BY <2>2, <2>3
  <1> QED BY <1>5, <1>6

-----------------------------------------------------------------------------
(* What the steps do to the writes in flight.                               *)

\* Where a write is changes nothing else of it, and no other write.
LEMMA LandDoes ==
    ASSUME TypeOK, NEW w \in Windows, NEW i \in Slots, flight[w][i] # None,
           NEW at \in {"sent", "stored", "refused", "reading", "read"}, Land(w, i, at)
    PROVE  /\ flight'[w][i] # None /\ flight'[w][i].at = at
           /\ flight'[w][i].rev = flight[w][i].rev /\ flight'[w][i].doc = flight[w][i].doc
           /\ flight'[w][i].wasRev = flight[w][i].wasRev
           /\ flight'[w][i].wasKnown = flight[w][i].wasKnown
           /\ flight'[w][i].base = flight[w][i].base
           /\ \A x \in Windows, j \in Slots : x # w \/ j # i => flight'[x][j] = flight[x][j]
  <1> DEFINE p == flight[w][i]
             q == [p EXCEPT !.at = at]
  <1>1. p \in Writes
    BY FlightType
  <1>2. q \in Writes
    BY <1>1 DEF Writes
  <1>3. /\ q.at = at /\ q.rev = p.rev /\ q.doc = p.doc /\ q.wasRev = p.wasRev
        /\ q.wasKnown = p.wasKnown /\ q.base = p.base
    BY <1>1 DEF Writes
  <1>4. flight'[w][i] = q /\ \A x \in Windows, j \in Slots : x # w \/ j # i => flight'[x][j] = flight[x][j]
    BY DEF Land, TypeOK, Slots
  <1> HIDE DEF q
  <1> QED BY <1>2, <1>3, <1>4, NoneIsNone

\* A slot is freed, and no other changes.
LEMMA ClearDoes ==
    ASSUME TypeOK, NEW w \in Windows, NEW i \in Slots, Clear(w, i)
    PROVE  /\ flight'[w][i] = None
           /\ \A x \in Windows, j \in Slots : x # w \/ j # i => flight'[x][j] = flight[x][j]
  BY DEF Clear, TypeOK, Slots

\* What a capture that found something sends and claims.
LEMMA PushDoes ==
    ASSUME TypeOK, NEW w \in Windows, Push(w), win[w].local # win[w].known
    PROVE  LET v == win[w]
               n == win'[w]
           IN  \E i \in Slots :
                /\ flight[w][i] = None
                /\ \A x \in Windows, j \in Slots : x # w \/ j # i => flight'[x][j] = flight[x][j]
                /\ flight'[w][i] =
                     [at |-> "sent", rev |-> v.rev + 1, doc |-> v.local,
                      wasRev |-> v.rev, wasKnown |-> v.known, base |-> v.told.rev]
                /\ flight'[w][i] # None
                /\ n = [v EXCEPT !.pending = FALSE, !.unsent = FALSE, !.rev = @ + 1,
                                 !.known = v.local, !.lapped = @ \/ i # 1]
  <1> DEFINE v == win[w]
             q == [at |-> "sent", rev |-> v.rev + 1, doc |-> v.local,
                   wasRev |-> v.rev, wasKnown |-> v.known, base |-> v.told.rev]
  <1>1. v \in Syncs
    BY DEF TypeOK
  <1>2. q \in Writes
    BY <1>1 DEF Syncs, Writes, Layouts
  <1>3. PICK i \in Slots : Free(w, i) /\ Send(w, i)
    BY DEF Push
  <1>4. /\ flight[w][i] = None /\ flight' = [flight EXCEPT ![w][i] = q]
        /\ win'[w] = [v EXCEPT !.pending = FALSE, !.unsent = FALSE, !.rev = @ + 1, !.known = v.local,
                               !.lapped = @ \/ i # 1]
    BY <1>3 DEF Free, Send, TypeOK
  <1>5. q # None
    BY <1>2, NoneIsNone
  <1> HIDE DEF q, v
  <1>6. flight'[w][i] = q /\ \A x \in Windows, j \in Slots : x # w \/ j # i => flight'[x][j] = flight[x][j]
    BY <1>4 DEF TypeOK, Slots
  <1> QED BY <1>4, <1>5, <1>6 DEF q, v

\* What one window does leaves the others' syncs and writes alone.
LEMMA OthersStay ==
    ASSUME TypeOK, NEW w \in Windows, NEW u \in Windows, u # w, Edit(u) \/ Goes(u) \/ Fails(u)
    PROVE  win'[w] = win[w] /\ flight'[w] = flight[w]
  <1>1. ASSUME NEW doc, Rearrange(u, doc) PROVE win'[w] = win[w]
    BY <1>1 DEF Rearrange, TypeOK
  <1>2. CASE Edit(u)
    BY <1>1, <1>2 DEF Edit, NewTerminal, CloseTab, SwitchTab
  <1>3. CASE Push(u)
    <2>1. \/ UNCHANGED flight /\ win' = [win EXCEPT ![u].pending = FALSE, ![u].unsent = FALSE]
          \/ \E i \in Slots : Send(u, i)
      BY <1>3 DEF Push
    <2> QED BY <2>1 DEF Send, TypeOK
  <1>4. CASE HandleEvent(u) \/ RenderDone(u) \/ Resubscribe(u) \/ StreamBreaks(u)
    BY <1>4 DEF HandleEvent, RenderDone, Resubscribe, StreamBreaks, TypeOK
  <1>5. ASSUME NEW i \in Slots, Acked(u, i) \/ Refused(u, i) \/ Refetched(u, i)
        PROVE  win'[w] = win[w] /\ flight'[w] = flight[w]
    BY <1>5 DEF Acked, Refused, Refetched, Clear, Land, TypeOK
  <1>6. ASSUME NEW i \in Slots, Arrives(u, i) \/ Reads(u, i) \/ WriteLost(u, i) \/ ReadLost(u, i)
        PROVE  win'[w] = win[w] /\ flight'[w] = flight[w]
    BY <1>6 DEF Arrives, Reads, WriteLost, ReadLost, Clear, Land, TypeOK
  <1> QED BY <1>2, <1>3, <1>4, <1>5, <1>6 DEF Goes, Fails

\* A write of a window whose own slot is one past the revision it was captured at.
LEMMA OnePastNext ==
    ASSUME TypeOK, OnePast, [Next]_vars
    PROVE  OnePast'
  <1> SUFFICES ASSUME NEW x \in Windows, NEW j \in Slots, Active(flight'[x][j])
               PROVE  flight'[x][j].rev = flight'[x][j].wasRev + 1
    BY DEF OnePast
  <1> DEFINE Same == flight'[x][j] = flight[x][j]
  <1>0. Same => flight'[x][j].rev = flight'[x][j].wasRev + 1
    BY DEF OnePast
  <1>1. ASSUME NEW w \in Windows, Push(w) PROVE flight'[x][j].rev = flight'[x][j].wasRev + 1
    <2>1. CASE win[w].local = win[w].known
      BY <1>0, <1>1, <2>1 DEF Push
    <2>2. CASE win[w].local # win[w].known
      <3>1. PICK i \in Slots :
              /\ \A y \in Windows, k \in Slots : y # w \/ k # i => flight'[y][k] = flight[y][k]
              /\ flight'[w][i] =
                   [at |-> "sent", rev |-> win[w].rev + 1, doc |-> win[w].local,
                    wasRev |-> win[w].rev, wasKnown |-> win[w].known, base |-> win[w].told.rev]
        BY <1>1, <2>2, PushDoes
      <3> QED BY <1>0, <3>1
    <2> QED BY <2>1, <2>2
  <1>2. ASSUME NEW w \in Windows, NEW i \in Slots,
               Arrives(w, i) \/ Acked(w, i) \/ Refused(w, i) \/ Reads(w, i) \/ Refetched(w, i)
                 \/ WriteLost(w, i) \/ ReadLost(w, i)
        PROVE  flight'[x][j].rev = flight'[x][j].wasRev + 1
    <2> DEFINE p == flight[w][i]
    <2>1. p # None
      BY <1>2 DEF Arrives, Acked, Refused, Reads, Refetched, WriteLost, ReadLost, At
    <2>2. CASE Arrives(w, i) \/ WriteLost(w, i)
      <3>1. Active(p)
        BY <2>2 DEF Arrives, WriteLost, At, Active
      <3>2. Land(w, i, "stored") \/ Land(w, i, "refused")
        BY <2>2 DEF Arrives, WriteLost
      <3> QED BY <1>0, <2>1, <3>1, <3>2, LandDoes DEF OnePast
    <2>3. CASE Acked(w, i) \/ Refetched(w, i) \/ ReadLost(w, i)
      BY <1>0, <2>3, ClearDoes DEF Acked, Refetched, ReadLost, Active
    <2>4. CASE Refused(w, i)
      <3>1. Land(w, i, "reading") \/ Clear(w, i)
        BY <2>4 DEF Refused
      <3> QED BY <1>0, <2>1, <3>1, LandDoes, ClearDoes DEF Active
    <2>5. CASE Reads(w, i)
      <3>1. CASE store = None
        BY <1>0, <2>5, <3>1, ClearDoes DEF Reads, Active
      <3>2. CASE store # None
        <4>1. p \in Writes
          BY <2>1, FlightType
        <4>2. flight' = [flight EXCEPT ![w][i] = [p EXCEPT !.at = "read", !.rev = store.rev,
                                                          !.doc = store.doc]]
          BY <2>5, <3>2 DEF Reads, TypeOK, Slots
        <4>3. [p EXCEPT !.at = "read", !.rev = store.rev, !.doc = store.doc].at = "read"
          BY <4>1 DEF Writes
        <4> QED BY <1>0, <4>2, <4>3 DEF TypeOK, Slots, Active
      <3> QED BY <3>1, <3>2
    <2> QED BY <1>2, <2>2, <2>3, <2>4, <2>5
  <1>3. ASSUME Restart PROVE flight'[x][j].rev = flight'[x][j].wasRev + 1
    <2> DEFINE p == flight[x][j]
    <2>1. \/ flight'[x][j] = p
          \/ flight'[x][j] = None
          \/ p # None /\ Active(p) /\ flight'[x][j] = [p EXCEPT !.at = "refused"]
      BY <1>3 DEF Restart, At, Active
    <2>2. p # None => p \in Writes
      BY FlightType
    <2> QED BY <1>0, <2>1, <2>2 DEF Active, OnePast, Writes
  <1>4. ASSUME NEW w \in Windows,
               Edit(w) \/ Resubscribe(w) \/ StreamBreaks(w) \/ HandleEvent(w) \/ RenderDone(w)
        PROVE  Same
    BY <1>4 DEF Edit, NewTerminal, CloseTab, SwitchTab, Resubscribe, StreamBreaks, HandleEvent,
                RenderDone
  <1>5. ASSUME (\E s \in Sessions, saved \in BOOLEAN : KillSession(s, saved)) \/ KillWorkspace
                 \/ UNCHANGED vars
        PROVE  Same
    BY <1>5 DEF KillSession, KillWorkspace, vars
  <1> QED BY <1>0, <1>1, <1>2, <1>3, <1>4, <1>5 DEF Next, Goes, Fails

-----------------------------------------------------------------------------
(* KeepsUnsent and WritesEdits are inductive.                               *)

\* The invariant of every window by itself, whatever the others do.
EditInv == TypeOK /\ KeepsUnsent /\ WritesEdits /\ OnePast

\* Window by window.
LEMMA EditInvIs ==
    EditInv <=> TypeOK /\ OnePast /\ \A w \in Windows : Local(win[w], edited[w])
  BY DEF EditInv, KeepsUnsent, WritesEdits, Local

\* One window's sync changes; every other, and what is said of it, stays.
LEMMA LocalStep ==
    ASSUME TypeOK, \A w \in Windows : Local(win[w], edited[w]),
           NEW w \in Windows, NEW n \in Syncs, win' = [win EXCEPT ![w] = n],
           edited' \in [Windows -> BOOLEAN], \A x \in Windows : x # w => edited'[x] = edited[x],
           Local(n, edited'[w])
    PROVE  \A x \in Windows : Local(win'[x], edited'[x])
  <1> TAKE x \in Windows
  <1>1. CASE x = w
    BY <1>1 DEF TypeOK
  <1>2. CASE x # w
    <2>1. win'[x] = win[x] /\ edited'[x] = edited[x]
      BY <1>2 DEF TypeOK
    <2> QED BY <2>1
  <1> QED BY <1>1, <1>2

\* What the user did shows.
LEMMA EditLocal ==
    ASSUME EditInv, NEW w \in Windows, Edit(w)
    PROVE  \A x \in Windows : Local(win'[x], edited'[x])
  <1>1. \E doc \in Docs : Rearrange(w, doc)
    <2>0. win[w].local \in Docs
      BY DEF EditInv, TypeOK, Syncs
    <2>1. ASSUME NEW s \in Sessions PROVE [win[w].local EXCEPT !.tabs = @ \cup {s}] \in Docs
      BY <2>0 DEF Docs
    <2>2. ASSUME NEW s \in Sessions PROVE [win[w].local EXCEPT !.tabs = @ \ {s}] \in Docs
      BY <2>0 DEF Docs
    <2>3. [win[w].local EXCEPT !.front = ~ @] \in Docs
      BY <2>0 DEF Docs
    <2> QED BY <2>1, <2>2, <2>3 DEF Edit, NewTerminal, CloseTab, SwitchTab
  <1>2. PICK doc \in Docs : Rearrange(w, doc)
    BY <1>1
  <1> DEFINE v == win[w]
             n == [v EXCEPT !.local = doc, !.unsent = doc # Shows(v)]
  <1>3. v \in Syncs /\ Local(v, edited[w])
    BY EditInvIs DEF TypeOK
  <1>4. n \in Syncs
    BY <1>3 DEF Syncs
  <1>5. /\ n.render = v.render /\ n.known = v.known /\ n.rev = v.rev /\ n.told = v.told
        /\ n.local = doc /\ n.pending = v.pending /\ (n.unsent <=> doc # Shows(v))
        /\ n.queued = v.queued /\ n.reset = v.reset /\ n.open = v.open
        /\ n.overtaken = v.overtaken
    BY <1>3 DEF Syncs
  <1>6. win' = [win EXCEPT ![w] = Schedule(n)] /\ edited' = [edited EXCEPT ![w] = TRUE]
    BY <1>2 DEF Rearrange
  <1> HIDE DEF n, v
  <1>7. Local(n, TRUE)
    BY <1>3, <1>5 DEF Local, Shows, RendersFirst, ShowsAsTold, Becomes
  <1>8. Schedule(n) \in Syncs /\ Local(Schedule(n), TRUE)
    BY <1>4, <1>7, ScheduleType, ScheduleLocal
  <1> QED BY <1>6, <1>8, LocalStep, EditInvIs DEF EditInv, TypeOK

\* push claims a revision only for what the user arranged.
LEMMA PushLocal ==
    ASSUME EditInv, NEW w \in Windows, Push(w)
    PROVE  \A x \in Windows : Local(win'[x], edited'[x])
  <1> DEFINE v == win[w]
             e == edited[w]
  <1>0. TypeOK /\ v \in Syncs /\ Local(v, e) /\ e \in BOOLEAN /\ v.open /\ v.pending
    BY EditInvIs DEF TypeOK, Push
  <1>a. edited' = edited
    BY DEF Push
  <1>1. v.render = None
    BY <1>0 DEF Local, RendersFirst
  <1>2. CASE v.local = v.known
    <2> DEFINE n == [v EXCEPT !.pending = FALSE, !.unsent = FALSE]
    <2>1. win' = [win EXCEPT ![w] = n]
      BY <1>0, <1>2 DEF Push, TypeOK
    <2>2. n \in Syncs /\ Local(n, e)
      BY <1>0 DEF Local, Shows, RendersFirst, ShowsAsTold, Becomes, Syncs
    <2> HIDE DEF n, v
    <2> QED BY <1>0, <1>a, <2>1, <2>2, LocalStep, EditInvIs DEF TypeOK
  <1>3. CASE v.local # v.known
    <2>0. PICK i \in Slots : Send(w, i)
      BY <1>3 DEF Push
    <2> DEFINE n == [v EXCEPT !.pending = FALSE, !.unsent = FALSE, !.rev = @ + 1, !.known = v.local,
                              !.lapped = @ \/ i # 1]
    <2>1. win' = [win EXCEPT ![w] = n]
      BY <1>0, <2>0 DEF Send, TypeOK
    <2>2. n = win'[w]
      BY <2>1 DEF TypeOK, EditInv
    <2>3. n \in Syncs
      BY <2>2, PushType DEF TypeOK, EditInv
    <2>4. /\ n.render = None /\ n.known = v.local /\ n.rev = v.rev + 1 /\ n.told = v.told
          /\ n.local = v.local /\ n.pending = FALSE /\ n.unsent = FALSE
          /\ n.queued = v.queued /\ n.reset = v.reset /\ n.open = v.open
          /\ n.overtaken = v.overtaken
      BY <1>0, <1>1 DEF Syncs
    <2>5. ~ v.overtaken => e
      BY <1>0, <1>1, <1>3 DEF Local, Shows, ShowsAsTold
    <2> HIDE DEF n, v
    <2>6. Local(n, e)
      BY <1>0, <1>1, <2>4, <2>5 DEF Local, Shows, RendersFirst, ShowsAsTold
    <2> QED BY <1>0, <1>a, <2>1, <2>3, <2>6, LocalStep, EditInvIs DEF TypeOK
  <1> QED BY <1>2, <1>3

\* A confirmed write is one the daemon has told of.
LEMMA AckedLocal ==
    ASSUME EditInv, NEW w \in Windows, NEW i \in Slots, Acked(w, i)
    PROVE  \A x \in Windows : Local(win'[x], edited'[x])
  <1> DEFINE p == flight[w][i]
             v == win[w]
             e == edited[w]
             t == IF v.rev = p.rev /\ v.known = p.doc THEN [rev |-> p.rev, doc |-> p.doc] ELSE v.told
             n == [v EXCEPT !.told = t, !.refused = FALSE]
  <1>0. TypeOK /\ v \in Syncs /\ Local(v, e) /\ e \in BOOLEAN /\ edited' = edited
    BY EditInvIs DEF TypeOK, Acked
  <1>1. p.rev \in Nat /\ p.doc \in Docs
    BY <1>0, FlightType DEF Acked, At, Writes
  <1>2. t \in Layouts /\ (t = v.told \/ t.rev = v.rev)
    BY <1>0, <1>1 DEF Syncs, Layouts
  <1>3. CASE ~ v.open
    <2>1. win' = win
      BY <1>3 DEF Acked
    <2> QED BY <1>0, <2>1, EditInvIs
  <1>4. CASE v.open
    <2>1. win' = [win EXCEPT ![w] = n]
      BY <1>0, <1>4 DEF Acked, TypeOK
    <2> HIDE DEF t
    <2>2. n \in Syncs
      BY <1>0, <1>2 DEF Syncs
    <2>3. /\ n.render = v.render /\ n.known = v.known /\ n.rev = v.rev /\ n.told = t
          /\ n.local = v.local /\ n.pending = v.pending /\ n.unsent = v.unsent
          /\ n.queued = v.queued /\ n.reset = v.reset /\ n.open = v.open
          /\ n.overtaken = v.overtaken
      BY <1>0 DEF Syncs
    <2>4. v.rev \in Nat
      BY <1>0 DEF Syncs
    <2> HIDE DEF n, v, e
    <2>5. Local(n, e)
      BY <1>0, <1>2, <2>3, <2>4 DEF Local, Shows, RendersFirst, ShowsAsTold, Becomes
    <2> QED BY <1>0, <2>1, <2>2, <2>5, LocalStep, EditInvIs DEF TypeOK, e
  <1> QED BY <1>3, <1>4

\* A refused write's claim is taken back: the edit it was for is still one.
LEMMA RefusedLocal ==
    ASSUME EditInv, NEW w \in Windows, NEW i \in Slots, Refused(w, i)
    PROVE  \A x \in Windows : Local(win'[x], edited'[x])
  <1> DEFINE p == flight[w][i]
             v == win[w]
             e == edited[w]
             o == v.overtaken \/ v.told.rev >= p.rev
             back == [v EXCEPT !.rev = p.wasRev, !.known = p.wasKnown, !.refused = TRUE,
                               !.overtaken = @ \/ v.told.rev >= p.rev]
             n == [back EXCEPT !.unsent = @ /\ v.local # Shows(back)]
             m == [v EXCEPT !.refused = TRUE]
  <1>0. /\ TypeOK /\ v \in Syncs /\ Local(v, e) /\ e \in BOOLEAN /\ edited' = edited
        /\ win' \in [Windows -> Syncs]
    BY EditInvIs, WriteType DEF TypeOK, Refused
  <1>1. /\ p.rev \in Nat /\ p.doc \in Docs /\ p.wasRev \in Nat /\ p.wasKnown \in Docs
        /\ p.rev = p.wasRev + 1
    BY <1>0, FlightType DEF Refused, At, Writes, EditInv, OnePast, Active
  <1>2. CASE ~ v.open
    <2>1. win' = win
      BY <1>2 DEF Refused
    <2> QED BY <1>0, <2>1, EditInvIs
  <1>3. CASE v.open /\ v.rev = p.rev /\ v.known = p.doc
    <2>1. win' = [win EXCEPT ![w] = n]
      BY <1>3 DEF Refused
    <2>2. n \in Syncs
      <3> HIDE DEF n
      <3>1. win'[w] = n
        BY <2>1 DEF TypeOK, EditInv
      <3> QED BY <1>0, <3>1
    <2>3. /\ back.render = v.render /\ back.known = p.wasKnown /\ back.rev = p.wasRev
          /\ back.told = v.told /\ back.local = v.local /\ back.pending = v.pending
          /\ back.unsent = v.unsent /\ back.queued = v.queued /\ back.reset = v.reset
          /\ back.open = v.open /\ (back.overtaken <=> o) /\ DOMAIN back = DOMAIN v
      BY <1>0 DEF Syncs
    <2> HIDE DEF back
    <2>4. /\ n.render = v.render /\ n.known = p.wasKnown /\ n.rev = p.wasRev
          /\ n.told = v.told /\ n.local = v.local /\ n.pending = v.pending
          /\ (n.unsent => v.unsent /\ v.local # Shows(back)) /\ n.queued = v.queued
          /\ n.reset = v.reset /\ n.open = v.open /\ (n.overtaken <=> o)
      BY <1>0, <2>3 DEF Syncs
    <2>5. Shows(back) = Shows(n)
      BY <2>3, <2>4 DEF Shows
    <2>6. v.rev \in Nat /\ v.told.rev \in Nat
      BY <1>0 DEF Syncs, Layouts
    <2> HIDE DEF n, v, e, p
    <2>7. RendersFirst(n)
      BY <1>0, <1>1, <1>3, <2>4, <2>6 DEF Local, RendersFirst
    <2>8. ~ o => e /\ v.render = None
      BY <1>0, <1>3, <2>6, <1>1 DEF Local, RendersFirst, ShowsAsTold
    <2>9. ShowsAsTold(n, e)
      BY <2>4, <2>8 DEF ShowsAsTold
    <2>10. Local(n, e)
      BY <2>4, <2>5, <2>7, <2>9 DEF Local
    <2> QED BY <1>0, <2>1, <2>2, <2>10, LocalStep, EditInvIs DEF TypeOK, e
  <1>4. CASE v.open /\ ~ (v.rev = p.rev /\ v.known = p.doc)
    <2>1. win' = [win EXCEPT ![w] = m]
      BY <1>4 DEF Refused
    <2>2. m \in Syncs
      BY <1>0 DEF Syncs
    <2>3. Local(m, e)
      BY <1>0 DEF Local, Shows, RendersFirst, ShowsAsTold, Becomes, Syncs
    <2> HIDE DEF m
    <2> QED BY <1>0, <2>1, <2>2, <2>3, LocalStep, EditInvIs DEF TypeOK
  <1> QED BY <1>2, <1>3, <1>4

\* A re-read is taken over what the user did.
LEMMA RefetchedLocal ==
    ASSUME EditInv, NEW w \in Windows, NEW i \in Slots, Refetched(w, i)
    PROVE  \A x \in Windows : Local(win'[x], edited'[x])
  <1> DEFINE p == flight[w][i]
             v == win[w]
             e == edited[w]
             c == [v EXCEPT !.unsent = FALSE]
  <1>0. TypeOK /\ v \in Syncs /\ Local(v, e) /\ e \in BOOLEAN /\ edited' = edited
    BY EditInvIs DEF TypeOK, Refetched
  <1>1. p.rev \in Nat /\ p.doc \in Docs
    BY <1>0, FlightType DEF Refetched, At, Writes
  <1>2. CASE ~ v.open
    <2>1. win' = win
      BY <1>2 DEF Refetched
    <2> QED BY <1>0, <2>1, EditInvIs
  <1>3. CASE v.open
    <2>1. c \in Syncs /\ Local(c, e) /\ ~ c.unsent
      BY <1>0 DEF Local, Shows, RendersFirst, ShowsAsTold, Becomes, Syncs
    <2>2. win' = [win EXCEPT ![w] = Accept(c, p.doc, p.rev)]
      BY <1>3 DEF Refetched
    <2> HIDE DEF c, v, e, p
    <2>3. Accept(c, p.doc, p.rev) \in Syncs /\ Local(Accept(c, p.doc, p.rev), e)
      BY <1>0, <1>1, <2>1, AcceptType, AcceptLocal
    <2> QED BY <1>0, <2>2, <2>3, LocalStep, EditInvIs DEF TypeOK, e
  <1> QED BY <1>2, <1>3

\* handle_event.
LEMMA HandleEventLocal ==
    ASSUME EditInv, NEW w \in Windows, HandleEvent(w)
    PROVE  \A x \in Windows : Local(win'[x], edited'[x])
  <1> DEFINE m == Head(inbox[w])
             v == win[w]
             e == edited[w]
  <1>0. TypeOK /\ v \in Syncs /\ Local(v, e) /\ e \in BOOLEAN /\ edited' = edited
    BY EditInvIs DEF TypeOK, HandleEvent
  <1>1. m.rev \in Nat /\ m.doc \in Docs /\ m.kind \in {"layout", "reset", "removed"}
    <2>1. m \in Events
      BY <1>0, HeadTailProperties DEF HandleEvent, TypeOK
    <2> QED BY <2>1 DEF Events
  <1>2. \E n \in {v, OnLayoutEvent(v, m.doc, m.rev), OnWorkspaceReset(v, m.doc, m.rev),
                  Forgotten(v)} :
           win' = [win EXCEPT ![w] = n]
    BY <1>1 DEF HandleEvent
  <1> HIDE DEF m, v, e
  <1>3. /\ OnLayoutEvent(v, m.doc, m.rev) \in Syncs /\ Local(OnLayoutEvent(v, m.doc, m.rev), e)
    BY <1>0, <1>1, OnLayoutEventType, OnLayoutEventLocal
  <1>4. /\ OnWorkspaceReset(v, m.doc, m.rev) \in Syncs
        /\ Local(OnWorkspaceReset(v, m.doc, m.rev), e)
    BY <1>0, <1>1, OnWorkspaceResetType, OnWorkspaceResetLocal
  <1>5. Forgotten(v) \in Syncs /\ Local(Forgotten(v), e)
    BY <1>0, InstalledType DEF Forgotten, Installed, Local, Shows, RendersFirst, ShowsAsTold
  <1>6. PICK n \in Syncs : win' = [win EXCEPT ![w] = n] /\ Local(n, e)
    BY <1>0, <1>2, <1>3, <1>4, <1>5
  <1> QED BY <1>0, <1>6, LocalStep, EditInvIs DEF TypeOK, e

\* The end of a render.
LEMMA RenderDoneLocal ==
    ASSUME EditInv, NEW w \in Windows, RenderDone(w)
    PROVE  \A x \in Windows : Local(win'[x], edited'[x])
  <1> DEFINE v == win[w]
             e == edited[w]
  <1>0. TypeOK /\ v \in Syncs /\ Local(v, e) /\ e \in BOOLEAN
    BY EditInvIs DEF TypeOK
  <1>1. /\ v.render # None /\ win' = [win EXCEPT ![w] = AfterRender(v)]
        /\ edited' = [edited EXCEPT ![w] = @ /\ v.local # v.render.from]
    BY RenderDoneIs
  <1>2. AfterRender(v) \in Syncs /\ Local(AfterRender(v), e /\ v.local # v.render.from)
    BY <1>0, <1>1, AfterRenderType, AfterRenderLocal
  <1>3. /\ edited'[w] = (e /\ v.local # v.render.from)
        /\ edited' \in [Windows -> BOOLEAN]
        /\ \A x \in Windows : x # w => edited'[x] = edited[x]
    BY <1>0, <1>1 DEF TypeOK
  <1> HIDE DEF v, e
  <1> QED BY <1>0, <1>1, <1>2, <1>3, LocalStep, EditInvIs

\* A restart touches no window.
LEMMA RestartLocal ==
    ASSUME EditInv, Restart
    PROVE  \A x \in Windows : Local(win'[x], edited'[x])
  <1> TAKE x \in Windows
  <1> DEFINE v == win[x]
             n == win'[x]
  <1>1. v \in Syncs /\ Local(v, edited[x]) /\ edited' = edited
    BY EditInvIs DEF TypeOK, Restart
  <1>2. \E b : n = [v EXCEPT !.stranded = b]
    BY DEF Restart
  <1>3. /\ n.render = v.render /\ n.known = v.known /\ n.rev = v.rev /\ n.told = v.told
        /\ n.local = v.local /\ n.pending = v.pending /\ n.unsent = v.unsent
        /\ n.queued = v.queued /\ n.reset = v.reset /\ n.open = v.open
        /\ n.overtaken = v.overtaken
    BY <1>1, <1>2 DEF Syncs
  <1> HIDE DEF n, v
  <1>4. Local(n, edited[x])
    BY <1>1, <1>3 DEF Local, Shows, RendersFirst, ShowsAsTold, Becomes
  <1> QED BY <1>1, <1>4 DEF n

\* Every step keeps every window's own invariant.
LEMMA EditInvNext ==
    ASSUME EditInv, [Next]_vars
    PROVE  EditInv'
  <1>0. TypeOK' /\ OnePast'
    BY TypeNext, OnePastNext DEF EditInv
  <1>1. ASSUME UNCHANGED <<win, edited>> PROVE \A x \in Windows : Local(win'[x], edited'[x])
    BY <1>1, EditInvIs
  <1>2. ASSUME NEW w \in Windows, Edit(w) \/ Goes(w) \/ Fails(w)
        PROVE  \A x \in Windows : Local(win'[x], edited'[x])
    <2>1. ASSUME NEW i \in Slots, Arrives(w, i) \/ Reads(w, i) \/ WriteLost(w, i) \/ ReadLost(w, i)
          PROVE  UNCHANGED <<win, edited>>
      BY <2>1 DEF Arrives, Reads, WriteLost, ReadLost
    <2>2. ASSUME Resubscribe(w) \/ StreamBreaks(w) PROVE UNCHANGED <<win, edited>>
      BY <2>2 DEF Resubscribe, StreamBreaks
    <2> QED BY <1>1, <1>2, <2>1, <2>2, EditLocal, PushLocal, AckedLocal, RefusedLocal, RefetchedLocal,
               HandleEventLocal, RenderDoneLocal DEF Goes, Fails
  <1>3. ASSUME (\E s \in Sessions, saved \in BOOLEAN : KillSession(s, saved)) \/ KillWorkspace
                 \/ UNCHANGED vars
        PROVE  UNCHANGED <<win, edited>>
    BY <1>3 DEF KillSession, KillWorkspace, vars
  <1>4. \A x \in Windows : Local(win'[x], edited'[x])
    BY <1>1, <1>2, <1>3, RestartLocal DEF Next
  <1>5. KeepsUnsent' /\ WritesEdits'
    BY <1>4 DEF KeepsUnsent, WritesEdits, Local
  <1> QED BY <1>0, <1>5 DEF EditInv

\* It holds at first.
LEMMA EditInvInit == Init => EditInv
  <1> SUFFICES ASSUME Init PROVE EditInv
    OBVIOUS
  <1>1. \A w \in Windows : Local(win[w], edited[w])
    BY DEF Init, Installed, Local, Shows, RendersFirst, ShowsAsTold
  <1>2. OnePast
    BY DEF Init, OnePast, Active
  <1> QED BY <1>1, <1>2, TypeInit, EditInvIs

-----------------------------------------------------------------------------
(* What the handlers do, for the invariants that follow.                    *)

\* Two syncs that agree on what the window shows.
SameShown(n, v) == n.open = v.open /\ n.local = v.local

\* Two syncs that agree on what the window has been told and claims.
SameClaim(n, v) ==
    /\ n.rev = v.rev /\ n.known = v.known /\ n.told = v.told /\ n.refused = v.refused
    /\ n.stranded = v.stranded

\* News x has been put behind the render, unless later news was there.
Queues(n, v, x) ==
    /\ SameClaim(n, v) /\ n.render = v.render /\ n.queued # None
    /\ \/ n.queued = x /\ (v.queued # None => x.rev > v.queued.rev)
       \/ n.queued = v.queued /\ v.queued.rev >= x.rev

\* News x has been taken.
Takes(n, v, x) ==
    n.rev = x.rev /\ n.told = x /\ n.queued = v.queued /\ n.stranded = v.stranded

\* Layout x has been taken for what is stored, and will be rendered.
Resets(n, v, x) ==
    /\ n.rev = x.rev /\ n.told = x /\ n.render # None /\ ~ n.stranded
    /\ n.queued = IF v.render = None THEN v.queued ELSE x

\* What is shown is known, or will be captured.
Armed(n) == n.render # None \/ n.pending \/ n.local = n.known

\* The render is over, and what was queued behind it has been taken or passed over.
Finishes(n, v) ==
    /\ n.open = v.open /\ n.local = Rendered(v)
    /\ n.queued = None /\ n.stranded = v.stranded
    /\ \/ SameClaim(n, v) /\ (v.queued # None => ~ v.reset /\ v.queued.rev <= v.rev)
       \/ /\ v.queued # None /\ (v.reset \/ v.queued.rev > v.rev)
          /\ n.told = v.queued /\ n.rev = v.queued.rev /\ Agrees(n)

\* schedule.
LEMMA ScheduleDoes ==
    ASSUME NEW v \in Syncs
    PROVE  LET n == Schedule(v)
           IN  /\ n \in Syncs /\ SameClaim(n, v) /\ SameShown(n, v)
               /\ n.render = v.render /\ n.queued = v.queued /\ Armed(n)
  BY DEF Schedule, Syncs, SameClaim, SameShown, Armed

\* apply.
LEMMA ApplyDoes ==
    ASSUME NEW v \in Syncs, NEW doc \in Docs, NEW rev \in Nat
    PROVE  LET n == Apply(v, doc, rev)
           IN  /\ n \in Syncs /\ Agrees(n) /\ SameShown(n, v) /\ n.render # None
               /\ Takes(n, v, [rev |-> rev, doc |-> doc])
  <1> DEFINE n == Apply(v, doc, rev)
             x == [rev |-> rev, doc |-> doc]
  <1>1. [to |-> doc, from |-> v.local] # None
    BY NoneIsNone DEF Renders, Syncs
  <1>2. /\ n.known = doc /\ n.rev = rev /\ n.told = x
        /\ n.open = v.open /\ n.local = v.local /\ n.render = [to |-> doc, from |-> v.local]
        /\ n.queued = v.queued /\ n.stranded = v.stranded
    BY DEF Apply, Syncs
  <1>3. n \in Syncs
    BY ApplyType
  <1>4. x.rev = rev /\ x.doc = doc
    OBVIOUS
  <1> HIDE DEF n, x
  <1>5. Agrees(n) /\ SameShown(n, v) /\ Takes(n, v, x)
    BY <1>2, <1>4 DEF Agrees, SameStructure, SameShown, Takes
  <1> QED BY <1>1, <1>2, <1>3, <1>5 DEF n, x

\* accept: nothing, a place in the queue, or the news is taken.
LEMMA AcceptDoes ==
    ASSUME NEW v \in Syncs, NEW doc \in Docs, NEW rev \in Nat
    PROVE  LET n == Accept(v, doc, rev)
               x == [rev |-> rev, doc |-> doc]
           IN  /\ n \in Syncs /\ SameShown(n, v)
               /\ rev <= v.rev => n = v
               /\ rev > v.rev /\ v.render # None => Queues(n, v, x)
               /\ rev > v.rev /\ v.render = None =>
                     Takes(n, v, x) /\ Armed(n) /\ (Agrees(n) \/ (n.refused /\ v.local # v.known))
  <1> DEFINE n == Accept(v, doc, rev)
             x == [rev |-> rev, doc |-> doc]
  <1>0. n \in Syncs
    BY AcceptType
  <1>x. /\ x.rev = rev /\ x.doc = doc /\ x = [doc |-> doc, rev |-> rev] /\ x \in Layouts
        /\ v.rev \in Nat
    BY DEF Layouts, Syncs
  <1>1. CASE rev <= v.rev
    <2>1. n = v
      BY <1>1 DEF Accept
    <2>2. SameShown(v, v)
      BY DEF SameShown
    <2> HIDE DEF n
    <2> QED BY <1>1, <1>x, <2>1, <2>2 DEF n
  <1>2. CASE rev > v.rev /\ v.render # None
    <2> DEFINE q == [v EXCEPT !.queued = [doc |-> doc, rev |-> rev], !.reset = FALSE,
                              !.overtaken = @ \/ v.reset]
    <2>1. \/ n = q /\ (v.queued # None => rev > v.queued.rev)
          \/ n = v /\ v.queued # None /\ ~ (rev > v.queued.rev)
      BY <1>2 DEF Accept, Syncs
    <2>2. /\ SameShown(q, v) /\ q.queued = x /\ SameClaim(q, v) /\ q.render = v.render
      BY DEF Syncs, SameClaim, SameShown
    <2>3. v.queued # None => v.queued.rev \in Nat
      BY DEF Syncs, Layouts
    <2> HIDE DEF n, x, q
    <2>4. x # None
      BY <1>x, NoneIsNone
    <2>5. Queues(n, v, x) /\ SameShown(n, v)
      BY <1>x, <2>1, <2>2, <2>3, <2>4 DEF Queues, SameClaim, SameShown
    <2> QED BY <1>0, <1>x, <1>2, <2>5 DEF n, x
  <1>3. CASE rev > v.rev /\ v.render = None /\ SameStructure(doc, v.known)
    <2>1. n = [v EXCEPT !.rev = rev, !.told = [rev |-> rev, doc |-> doc], !.known = v.local,
                        !.refused = ~ SameStructure(v.local, doc)]
      BY <1>3 DEF Accept, Syncs
    <2>2. /\ n.open = v.open /\ n.local = v.local /\ n.rev = rev /\ n.told = x
          /\ n.known = v.local /\ n.queued = v.queued /\ n.stranded = v.stranded
          /\ n.refused = ~ SameStructure(v.local, doc)
      BY <2>1 DEF Syncs
    <2> HIDE DEF n, x
    <2>3. Agrees(n) \/ (n.refused /\ v.local # v.known)
      BY <1>3, <1>x, <2>2 DEF Agrees, SameStructure
    <2>4. SameShown(n, v) /\ Takes(n, v, x) /\ Armed(n)
      BY <1>x, <2>2 DEF SameShown, Takes, Armed
    <2> QED BY <1>0, <1>x, <1>3, <2>3, <2>4 DEF n, x
  <1>4. CASE rev > v.rev /\ v.render = None /\ ~ SameStructure(doc, v.known)
    <2>1. n = Apply(v, doc, rev)
      BY <1>x, <1>4 DEF Accept
    <2> HIDE DEF n
    <2>2. Takes(n, v, x) /\ SameShown(n, v) /\ Agrees(n) /\ n.render # None
      BY <2>1, ApplyDoes
    <2>3. Armed(n)
      BY <2>2 DEF Armed
    <2> QED BY <1>0, <1>x, <1>4, <2>2, <2>3 DEF n
  <1> QED BY <1>x, <1>1, <1>2, <1>3, <1>4

\* on_layout_event: nothing, a place in the queue, or the news is taken.
LEMMA OnLayoutEventDoes ==
    ASSUME NEW v \in Syncs, NEW doc \in Docs, NEW rev \in Nat
    PROVE  LET n == OnLayoutEvent(v, doc, rev)
               x == [rev |-> rev, doc |-> doc]
           IN  /\ n \in Syncs /\ SameShown(n, v)
               /\ rev <= v.rev => n = v
               /\ rev > v.rev /\ v.render # None => Queues(n, v, x)
               /\ rev > v.rev /\ v.render = None => Takes(n, v, x) /\ Agrees(n) /\ Armed(n)
  <1> DEFINE n == OnLayoutEvent(v, doc, rev)
             x == [rev |-> rev, doc |-> doc]
  <1>0. n \in Syncs
    BY OnLayoutEventType
  <1>x. x.rev = rev /\ x.doc = doc /\ v.rev \in Nat
    BY DEF Syncs
  <1>1. CASE rev <= v.rev
    <2>1. n = v
      BY <1>1 DEF OnLayoutEvent
    <2>2. SameShown(v, v)
      BY DEF SameShown
    <2> HIDE DEF n
    <2> QED BY <1>1, <1>x, <2>1, <2>2 DEF n
  <1>2. CASE rev > v.rev /\ v.render = None /\ v.local # v.known
    <2> DEFINE m == [v EXCEPT !.rev = rev, !.told = [rev |-> rev, doc |-> doc], !.known = doc,
                              !.unsent = @ /\ v.local # doc]
    <2>1. n = Schedule(m)
      BY <1>2, <1>x DEF OnLayoutEvent
    <2>2. m \in Syncs
      BY DEF Syncs, Layouts
    <2>3. /\ m.open = v.open /\ m.local = v.local /\ m.stranded = v.stranded
          /\ m.rev = rev /\ m.told = x /\ m.queued = v.queued /\ m.known = doc
          /\ m.render = v.render
      BY DEF Syncs
    <2> HIDE DEF m, n, x
    <2>4. /\ SameClaim(n, m) /\ SameShown(n, m) /\ n.queued = m.queued /\ Armed(n)
      BY <2>1, <2>2, ScheduleDoes
    <2>5. Agrees(n) /\ Takes(n, v, x) /\ SameShown(n, v)
      BY <1>x, <2>3, <2>4 DEF Agrees, SameStructure, SameClaim, Takes, SameShown
    <2> QED BY <1>0, <1>x, <1>2, <2>4, <2>5 DEF n, x
  <1>3. CASE rev > v.rev /\ ~ (v.render = None /\ v.local # v.known)
    <2>1. n = Accept(v, doc, rev)
      BY <1>3, <1>x DEF OnLayoutEvent
    <2> HIDE DEF n
    <2> QED BY <1>0, <1>x, <1>3, <2>1, AcceptDoes DEF n
  <1> QED BY <1>x, <1>1, <1>2, <1>3

\* on_workspace_reset: the stored layout is taken and will be rendered.
LEMMA OnWorkspaceResetDoes ==
    ASSUME NEW v \in Syncs, NEW doc \in Docs, NEW rev \in Nat
    PROVE  LET n == OnWorkspaceReset(v, doc, rev)
               x == [rev |-> rev, doc |-> doc]
           IN  /\ n \in Syncs /\ SameShown(n, v)
               /\ Agrees(n) /\ Resets(n, v, x)
  <1> DEFINE n == OnWorkspaceReset(v, doc, rev)
             x == [rev |-> rev, doc |-> doc]
             taken == [v EXCEPT !.pending = FALSE, !.rev = rev, !.known = doc,
                           !.told = [rev |-> rev, doc |-> doc], !.unsent = FALSE,
                           !.stranded = FALSE]
             m == [taken EXCEPT !.queued = [doc |-> doc, rev |-> rev], !.reset = TRUE]
  <1>0. n \in Syncs
    BY OnWorkspaceResetType
  <1>1. taken \in Syncs
    BY DEF Syncs, Layouts
  <1>2. /\ taken.open = v.open /\ taken.local = v.local /\ taken.rev = rev /\ taken.known = doc
        /\ taken.told = x /\ taken.render = v.render /\ taken.queued = v.queued
        /\ taken.stranded = FALSE
    BY DEF Syncs
  <1>3. n = IF v.render # None THEN m ELSE Apply(taken, doc, rev)
    BY DEF OnWorkspaceReset
  <1>x. x.rev = rev /\ x.doc = doc /\ x = [doc |-> doc, rev |-> rev]
    OBVIOUS
  <1> HIDE DEF taken, n
  <1>4. /\ m.open = v.open /\ m.local = v.local /\ m.rev = rev /\ m.known = doc
        /\ m.told = x /\ m.render = v.render /\ m.queued = [doc |-> doc, rev |-> rev]
        /\ m.stranded = FALSE
    BY <1>1, <1>2 DEF Syncs
  <1> HIDE DEF m, x
  <1>5. CASE v.render # None
    <2>1. Agrees(n) /\ SameShown(n, v) /\ Resets(n, v, x)
      BY <1>3, <1>4, <1>5, <1>x DEF Agrees, SameStructure, SameShown, Resets
    <2> QED BY <1>0, <2>1 DEF n, x
  <1>6. CASE v.render = None
    <2>1. /\ Agrees(n) /\ SameShown(n, taken) /\ n.render # None
          /\ Takes(n, taken, x)
      BY <1>1, <1>3, <1>6, ApplyDoes DEF x
    <2>2. SameShown(n, v) /\ Resets(n, v, x)
      BY <1>2, <1>x, <1>6, <2>1 DEF Takes, SameShown, Resets
    <2> QED BY <1>0, <2>1, <2>2 DEF n, x
  <1> QED BY <1>5, <1>6

\* The end of a render: what was queued is handled as it is then.
LEMMA AfterRenderDoes ==
    ASSUME NEW v \in Syncs, v.render # None
    PROVE  LET n == AfterRender(v)
           IN  n \in Syncs /\ Armed(n) /\ Finishes(n, v)
  <1> DEFINE i == Idle(v)
             c == [i EXCEPT !.unsent = FALSE]
             n == AfterRender(v)
             doc == v.queued.doc
             rev == v.queued.rev
             m == IF v.queued = None THEN i
                  ELSE IF v.reset THEN Apply(c, doc, rev) ELSE OnLayoutEvent(i, doc, rev)
  <1>1. Rendered(v) \in Docs
    BY DEF Rendered, Syncs, Renders
  <1>2. i \in Syncs /\ c \in Syncs
    BY <1>1 DEF Idle, Syncs
  <1>3. /\ i.open = v.open /\ i.local = Rendered(v) /\ i.render = None /\ i.queued = None
        /\ SameClaim(i, v)
    BY DEF Idle, SameClaim, Syncs
  <1>4. n = Schedule(m)
    BY DEF AfterRender
  <1> HIDE DEF i
  <1>5. SameShown(c, i) /\ c.render = i.render /\ c.queued = i.queued /\ SameClaim(c, i)
    BY <1>2 DEF SameClaim, SameShown, Syncs
  <1>6. v.queued # None => /\ doc \in Docs /\ rev \in Nat
                           /\ v.queued = [rev |-> rev, doc |-> doc]
    BY DEF Syncs, Layouts
  <1>r. v.rev \in Nat /\ i.rev = v.rev
    BY <1>3 DEF Syncs, SameClaim
  <1> HIDE DEF c, n
  <1>7. /\ m \in Syncs /\ SameShown(m, i) /\ m.queued = None /\ m.stranded = v.stranded
        /\ \/ SameClaim(m, v) /\ (v.queued # None => ~ v.reset /\ v.queued.rev <= v.rev)
           \/ /\ v.queued # None /\ (v.reset \/ v.queued.rev > v.rev)
              /\ m.told = v.queued /\ m.rev = v.queued.rev /\ Agrees(m)
    <2>1. CASE v.queued = None
      <3>1. m = i
        BY <2>1
      <3> QED BY <1>2, <1>3, <2>1, <3>1 DEF SameShown, SameClaim
    <2>2. CASE v.queued # None /\ v.reset
      <3>1. m = Apply(c, doc, rev)
        BY <2>2
      <3> HIDE DEF m, doc, rev
      <3>2. /\ m \in Syncs /\ Agrees(m) /\ SameShown(m, c)
            /\ Takes(m, c, [rev |-> rev, doc |-> doc])
        BY <1>2, <1>6, <2>2, <3>1, ApplyDoes
      <3>3. Takes(m, c, v.queued)
        BY <1>6, <2>2, <3>2
      <3> QED BY <1>3, <1>5, <2>2, <3>2, <3>3 DEF Takes, SameShown, SameClaim
    <2>3. CASE v.queued # None /\ ~ v.reset /\ rev <= v.rev
      <3>1. m = i
        BY <1>r, <2>3 DEF OnLayoutEvent
      <3> QED BY <1>2, <1>3, <2>3, <3>1 DEF SameShown, SameClaim
    <2>4. CASE v.queued # None /\ ~ v.reset /\ rev > v.rev
      <3>1. m = OnLayoutEvent(i, doc, rev)
        BY <2>4
      <3> HIDE DEF m, doc, rev
      <3>0. i \in Syncs /\ doc \in Docs /\ rev \in Nat /\ rev > i.rev /\ i.render = None
        BY <1>2, <1>3, <1>6, <1>r, <2>4
      <3>2. /\ m \in Syncs /\ Agrees(m) /\ SameShown(m, i)
            /\ Takes(m, i, [rev |-> rev, doc |-> doc])
        BY <3>0, <3>1, OnLayoutEventDoes
      <3>3. Takes(m, i, v.queued)
        BY <1>6, <2>4, <3>2
      <3> QED BY <1>3, <2>4, <3>2, <3>3 DEF Takes, SameShown, SameClaim, rev
    <2> QED BY <1>6, <1>r, <2>1, <2>2, <2>3, <2>4
  <1> HIDE DEF m
  <1>8. /\ n \in Syncs /\ SameClaim(n, m) /\ SameShown(n, m) /\ n.queued = m.queued /\ Armed(n)
    BY <1>4, <1>7, ScheduleDoes
  <1>9. Agrees(m) => Agrees(n)
    BY <1>8 DEF Agrees, SameClaim
  <1>10. Finishes(n, v)
    BY <1>3, <1>7, <1>8, <1>9 DEF SameClaim, SameShown, Finishes
  <1> QED BY <1>8, <1>10 DEF n

-----------------------------------------------------------------------------
(* The properties of one window.                                            *)

\* What a window shows changes by its user or by a render that found nothing done.
LEMMA ShownStays ==
    ASSUME EditInv, [Next]_vars, NEW w \in Windows,
           win[w].open, win'[w].open, win'[w].local # win[w].local, spent'.edits = spent.edits
    PROVE  ~ win[w].unsent
  <1> DEFINE v == win[w]
  <1>0. TypeOK /\ v \in Syncs /\ Local(v, edited[w])
    BY EditInvIs DEF TypeOK
  <1>1. ASSUME NEW u \in Windows, Edit(u) PROVE FALSE
    <2>1. Acts
      BY <1>1 DEF Edit, NewTerminal, CloseTab, SwitchTab
    <2> QED BY <1>0, <2>1 DEF Acts, TypeOK
  <1>2. ASSUME NEW u \in Windows, Push(u) PROVE win'[w].local = v.local
    <2>1. win'[w] = v \/ u = w
      BY <1>0, <1>2, OthersStay DEF Goes
    <2>2. CASE u = w /\ v.local = v.known
      BY <1>0, <1>2, <2>2 DEF Push, TypeOK, Syncs
    <2>3. CASE u = w /\ v.local # v.known
      <3>1. PICK i \in Slots :
              win'[w] = [v EXCEPT !.pending = FALSE, !.unsent = FALSE, !.rev = @ + 1,
                                  !.known = v.local, !.lapped = @ \/ i # 1]
        BY <1>0, <1>2, <2>3, PushDoes
      <3> QED BY <1>0, <3>1 DEF Syncs
    <2> QED BY <2>1, <2>2, <2>3
  <1>3. ASSUME NEW u \in Windows, HandleEvent(u) PROVE win'[w].local = v.local
    <2> DEFINE m == Head(inbox[u])
    <2>1. m.rev \in Nat /\ m.doc \in Docs /\ m.kind \in {"layout", "reset", "removed"}
      <3>1. m \in Events
        BY <1>0, <1>3, HeadTailProperties DEF HandleEvent, TypeOK
      <3> QED BY <3>1 DEF Events
    <2>2. ~ Forgotten(v).open
      BY DEF Forgotten, Installed
    <2>3. CASE u # w
      BY <1>0, <1>3, <2>3 DEF HandleEvent, TypeOK
    <2>4. CASE u = w
      <3>1. \/ win'[w] = v
            \/ win'[w] = OnLayoutEvent(v, m.doc, m.rev)
            \/ win'[w] = OnWorkspaceReset(v, m.doc, m.rev)
            \/ win'[w] = Forgotten(v)
        BY <1>0, <1>3, <2>1, <2>4 DEF HandleEvent, TypeOK
      <3> HIDE DEF m, v
      <3>2. CASE win'[w] = OnLayoutEvent(v, m.doc, m.rev)
        <4>1. SameShown(win'[w], v)
          BY <1>0, <2>1, <3>2, OnLayoutEventDoes
        <4> QED BY <4>1 DEF SameShown
      <3>3. CASE win'[w] = OnWorkspaceReset(v, m.doc, m.rev)
        <4>1. SameShown(win'[w], v)
          BY <1>0, <2>1, <3>3, OnWorkspaceResetDoes
        <4> QED BY <4>1 DEF SameShown
      <3> QED BY <2>2, <3>1, <3>2, <3>3
    <2> QED BY <2>3, <2>4
  <1>4. ASSUME NEW u \in Windows, RenderDone(u) PROVE ~ v.unsent
    <2>1. u = w
      <3> SUFFICES ASSUME u # w PROVE FALSE
        OBVIOUS
      <3>1. win'[w] = win[w]
        BY <1>0, <1>4, RenderDoneIs DEF TypeOK
      <3> QED BY <3>1
    <2>2. v.render # None /\ win'[w] = AfterRender(v)
      BY <1>0, <1>4, <2>1, RenderDoneIs DEF TypeOK
    <2>3. win'[w].local = Rendered(v)
      BY <1>0, <2>2, AfterRenderDoes DEF Finishes
    <2>4. v.local = v.render.from
      BY <2>3 DEF Rendered
    <2> QED BY <1>0, <2>2, <2>4 DEF Local, Shows
  <1>5. ASSUME NEW u \in Windows, NEW i \in Slots, Acked(u, i) \/ Refused(u, i) \/ Refetched(u, i)
        PROVE  win'[w].local = v.local
    <2> DEFINE p == flight[u][i]
    <2>1. p \in Writes
      BY <1>0, <1>5, FlightType DEF Acked, Refused, Refetched, At
    <2>2. CASE Acked(u, i)
      BY <1>0, <2>2 DEF Acked, TypeOK, Syncs
    <2>3. CASE Refused(u, i)
      <3> DEFINE y == win[u]
                 back == [y EXCEPT !.rev = p.wasRev, !.known = p.wasKnown, !.refused = TRUE,
                                   !.overtaken = @ \/ y.told.rev >= p.rev]
                 n == [back EXCEPT !.unsent = @ /\ y.local # Shows(back)]
      <3>1. \/ win' = win
            \/ win' = [win EXCEPT ![u] = n]
            \/ win' = [win EXCEPT ![u] = [y EXCEPT !.refused = TRUE]]
        BY <2>3 DEF Refused
      <3>2. y \in Syncs
        BY <1>0 DEF TypeOK
      <3>3. back.local = y.local /\ DOMAIN back = DOMAIN y
        BY <3>2 DEF Syncs
      <3> HIDE DEF back
      <3>4. n.local = y.local
        BY <3>2, <3>3 DEF Syncs
      <3>5. [y EXCEPT !.refused = TRUE].local = y.local
        BY <3>2 DEF Syncs
      <3> HIDE DEF n
      <3> QED BY <1>0, <3>1, <3>4, <3>5 DEF TypeOK
    <2>4. CASE Refetched(u, i)
      <3> DEFINE c == [win[u] EXCEPT !.unsent = FALSE]
      <3>1. c \in Syncs /\ c.local = win[u].local
        BY <1>0 DEF TypeOK, Syncs
      <3>2. win' = win \/ win' = [win EXCEPT ![u] = Accept(c, p.doc, p.rev)]
        BY <2>4 DEF Refetched
      <3>3. p.doc \in Docs /\ p.rev \in Nat
        BY <2>1 DEF Writes
      <3> HIDE DEF c, p
      <3>5. SameShown(Accept(c, p.doc, p.rev), c)
        BY <3>1, <3>3, AcceptDoes
      <3>4. Accept(c, p.doc, p.rev).local = c.local
        BY <3>5 DEF SameShown
      <3> QED BY <1>0, <3>1, <3>2, <3>4 DEF TypeOK
    <2> QED BY <1>5, <2>2, <2>3, <2>4
  <1>6. ASSUME NEW u \in Windows, NEW i \in Slots,
               Arrives(u, i) \/ Reads(u, i) \/ WriteLost(u, i) \/ ReadLost(u, i)
        PROVE  win' = win
    BY <1>6 DEF Arrives, Reads, WriteLost, ReadLost
  <1>7. ASSUME NEW u \in Windows, Resubscribe(u) \/ StreamBreaks(u) PROVE win' = win
    BY <1>7 DEF Resubscribe, StreamBreaks
  <1>8. ASSUME (\E s \in Sessions, saved \in BOOLEAN : KillSession(s, saved)) \/ KillWorkspace
                 \/ UNCHANGED vars
        PROVE  win' = win
    BY <1>8 DEF KillSession, KillWorkspace, vars
  <1>9. ASSUME Restart PROVE win'[w].local = v.local
    BY <1>0, <1>9 DEF Restart, Syncs
  <1> QED BY <1>1, <1>2, <1>3, <1>4, <1>5, <1>6, <1>7, <1>8, <1>9 DEF Next, Goes, Fails

\* Only a capture fills a slot.
LEMMA PushFills ==
    ASSUME TypeOK, [Next]_vars, NEW w \in Windows, NEW i \in Slots,
           flight[w][i] = None, flight'[w][i] # None
    PROVE  /\ Push(w) /\ win[w].local # win[w].known
           /\ win'[w].lapped = (win[w].lapped \/ i # 1)
  <1> DEFINE v == win[w]
             Goal == /\ Push(w) /\ v.local # v.known
                     /\ win'[w].lapped = (v.lapped \/ i # 1)
  <1>0. TypeOK /\ v \in Syncs
    BY DEF TypeOK
  <1>1. ASSUME NEW u \in Windows, Push(u) PROVE Goal
    <2>1. win[u].local # win[u].known
      BY <1>1 DEF Push
    <2>2. PICK j \in Slots :
            /\ \A x \in Windows, k \in Slots : x # u \/ k # j => flight'[x][k] = flight[x][k]
            /\ win'[u] = [win[u] EXCEPT !.pending = FALSE, !.unsent = FALSE, !.rev = @ + 1,
                                        !.known = win[u].local, !.lapped = @ \/ j # 1]
      BY <1>0, <1>1, <2>1, PushDoes
    <2>3. u = w /\ j = i
      BY <2>2
    <2>4. win'[w].lapped = (v.lapped \/ i # 1)
      BY <1>0, <2>2, <2>3 DEF Syncs
    <2> QED BY <1>1, <2>1, <2>3, <2>4
  <1>2. ASSUME NEW u \in Windows, NEW j \in Slots,
               Arrives(u, j) \/ Acked(u, j) \/ Refused(u, j) \/ Reads(u, j) \/ Refetched(u, j)
                 \/ WriteLost(u, j) \/ ReadLost(u, j)
        PROVE  FALSE
    <2>1. flight[u][j] # None
      BY <1>2 DEF Arrives, Acked, Refused, Reads, Refetched, WriteLost, ReadLost, At
    <2>2. \/ Clear(u, j)
          \/ \E at \in {"sent", "stored", "refused", "reading", "read"} : Land(u, j, at)
          \/ flight' = [flight EXCEPT ![u][j] = [@ EXCEPT !.at = "read", !.rev = store.rev,
                                                          !.doc = store.doc]]
      BY <1>2 DEF Arrives, Acked, Refused, Reads, Refetched, WriteLost, ReadLost
    <2>3. u # w \/ j # i
      BY <2>1
    <2>4. CASE Clear(u, j) \/ \E at \in {"sent", "stored", "refused", "reading", "read"} : Land(u, j, at)
      BY <1>0, <2>1, <2>3, <2>4, ClearDoes, LandDoes
    <2>5. CASE flight' = [flight EXCEPT ![u][j] = [@ EXCEPT !.at = "read", !.rev = store.rev,
                                                          !.doc = store.doc]]
      BY <1>0, <2>3, <2>5 DEF TypeOK, Slots
    <2> QED BY <2>2, <2>4, <2>5
  <1>3. ASSUME Restart PROVE FALSE
    BY <1>3 DEF Restart, At
  <1>4. ASSUME NEW u \in Windows,
               Edit(u) \/ Resubscribe(u) \/ StreamBreaks(u) \/ HandleEvent(u) \/ RenderDone(u)
        PROVE  FALSE
    BY <1>4 DEF Edit, NewTerminal, CloseTab, SwitchTab, Resubscribe, StreamBreaks, HandleEvent,
                RenderDone
  <1>5. ASSUME (\E s \in Sessions, saved \in BOOLEAN : KillSession(s, saved)) \/ KillWorkspace
                 \/ UNCHANGED vars
        PROVE  FALSE
    BY <1>5 DEF KillSession, KillWorkspace, vars
  <1> QED BY <1>1, <1>2, <1>3, <1>4, <1>5 DEF Next, Goes, Fails

\* A write begins with a capture.
LEMMA WritesBegin ==
    ASSUME EditInv, [Next]_vars, NEW w \in Windows, NEW i \in Slots,
           flight[w][i] = None, flight'[w][i] # None
    PROVE  edited[w] \/ win[w].overtaken
  <1> DEFINE v == win[w]
  <1>1. TypeOK /\ v \in Syncs /\ Local(v, edited[w])
    BY EditInvIs DEF TypeOK
  <1>2. Push(w) /\ v.local # v.known
    BY <1>1, PushFills
  <1>3. v.open /\ v.pending
    BY <1>2 DEF Push
  <1>4. v.render = None
    BY <1>1, <1>3 DEF Local, RendersFirst
  <1> QED BY <1>1, <1>2, <1>3, <1>4 DEF Local, ShowsAsTold, Shows

\* LayoutSync keeps its types, whatever the users, the connections and the daemon
\* do.
THEOREM SyncTypes == Spec => []TypeOK
  BY TypeInit, TypeNext, PTL DEF Spec

\* Every window's own invariant, for any number of windows, of sessions and of
\* writes that overlap, of edits and of faults.
THEOREM EditInvariant == Spec => []EditInv
  BY EditInvInit, EditInvNext, PTL DEF Spec

\* on_layout_event, apply and render_layout_if_unchanged: what the user did since
\* the last capture is never rendered over, but by a reset or after a refused write.
THEOREM UnsentStays == Spec => UnsentEditsStay
  <1> DEFINE A == \A w \in Windows :
                    win[w].open /\ win'[w].open /\ win'[w].local # win[w].local
                      /\ spent'.edits = spent.edits => ~ win[w].unsent
  <1>1. EditInv /\ [Next]_vars => A
    BY ShownStays
  <1>2. EditInv /\ [Next]_vars => [A]_vars
    BY <1>1
  <1> QED BY <1>2, EditInvariant, PTL DEF UnsentEditsStay, Spec

\* push: a window writes only what its own user arranged, or, when a reset was
\* overtaken, what it had rendered.
THEOREM PushesEdits == Spec => OnlyEditsAreStored
  <1> DEFINE A == \A w \in Windows, i \in Slots :
                    flight[w][i] = None /\ flight'[w][i] # None => edited[w] \/ win[w].overtaken
  <1>1. EditInv /\ [Next]_vars => A
    BY WritesBegin
  <1>2. EditInv /\ [Next]_vars => [A]_vars
    BY <1>1
  <1> QED BY <1>2, EditInvariant, PTL DEF OnlyEditsAreStored, Spec

-----------------------------------------------------------------------------
(* A window whose writes have not overlapped claims no revision but that of *)
(* its write.                                                               *)

\* There is a first slot.
LEMMA FirstSlot == 1 \in Slots
  BY SyncAssumption DEF Slots

\* No handler but push changes whether a window's writes have overlapped.
LEMMA LappedKept ==
    ASSUME NEW v \in Syncs, NEW doc \in Docs, NEW rev \in Nat
    PROVE  /\ Schedule(v).lapped = v.lapped
           /\ Accept(v, doc, rev).lapped = v.lapped
           /\ OnLayoutEvent(v, doc, rev).lapped = v.lapped
           /\ OnWorkspaceReset(v, doc, rev).lapped = v.lapped
           /\ Forgotten(v).lapped = v.lapped
  <1>1. \A u \in Syncs : Schedule(u).lapped = u.lapped
    BY DEF Schedule, Syncs
  <1>2. \A u \in Syncs : Apply(u, doc, rev).lapped = u.lapped
    BY DEF Apply, Syncs
  <1>3. Accept(v, doc, rev).lapped = v.lapped
    BY <1>2 DEF Accept, Syncs
  <1>4. OnLayoutEvent(v, doc, rev).lapped = v.lapped
    <2> DEFINE m == [v EXCEPT !.rev = rev, !.told = [rev |-> rev, doc |-> doc], !.known = doc,
                            !.unsent = @ /\ v.local # doc]
    <2>1. m.lapped = v.lapped /\ DOMAIN m = DOMAIN v
      BY DEF Syncs
    <2>2. Schedule(m).lapped = v.lapped
      BY <2>1 DEF Schedule, Syncs
    <2> HIDE DEF m
    <2> QED BY <1>3, <2>2 DEF OnLayoutEvent, m
  <1>5. OnWorkspaceReset(v, doc, rev).lapped = v.lapped
    <2> DEFINE m == [v EXCEPT !.pending = FALSE, !.rev = rev, !.known = doc,
                              !.told = [rev |-> rev, doc |-> doc], !.unsent = FALSE,
                              !.stranded = FALSE]
    <2>1. m \in Syncs /\ m.lapped = v.lapped
      BY DEF Syncs, Layouts
    <2>2. [m EXCEPT !.queued = [doc |-> doc, rev |-> rev], !.reset = TRUE].lapped = v.lapped
      BY <2>1 DEF Syncs
    <2>3. Apply(m, doc, rev).lapped = v.lapped
      BY <1>2, <2>1
    <2> HIDE DEF m
    <2> QED BY <2>2, <2>3 DEF OnWorkspaceReset, m
  <1>6. Forgotten(v).lapped = v.lapped
    BY DEF Forgotten, Installed
  <1> QED BY <1>1, <1>3, <1>4, <1>5, <1>6

\* Nor does the end of a render.
LEMMA LappedRendered ==
    ASSUME NEW v \in Syncs, v.render # None
    PROVE  AfterRender(v).lapped = v.lapped
  <1> DEFINE quiet == [Idle(v) EXCEPT !.unsent = FALSE]
             q == v.queued
             next == IF q = None THEN Idle(v)
                     ELSE IF v.reset THEN Apply(quiet, q.doc, q.rev)
                     ELSE OnLayoutEvent(Idle(v), q.doc, q.rev)
  <1>1. /\ Idle(v) \in Syncs /\ quiet \in Syncs
        /\ Idle(v).lapped = v.lapped /\ quiet.lapped = v.lapped
    <2>1. Rendered(v) \in Docs
      BY DEF Rendered, Syncs, Renders
    <2>2. Idle(v) \in Syncs /\ quiet \in Syncs
      BY <2>1 DEF Idle, Syncs
    <2>3. Idle(v).lapped = v.lapped
      BY DEF Idle, Syncs
    <2> QED BY <2>2, <2>3 DEF Syncs
  <1> HIDE DEF quiet
  <1>2. q # None => q.doc \in Docs /\ q.rev \in Nat
    BY DEF Syncs, Layouts
  <1>3. q # None => /\ Apply(quiet, q.doc, q.rev) \in Syncs
                    /\ Apply(quiet, q.doc, q.rev).lapped = v.lapped
    <2>1. q # None => Apply(quiet, q.doc, q.rev) \in Syncs
      BY <1>1, <1>2, ApplyType
    <2> QED BY <1>1, <2>1 DEF Apply, Syncs
  <1>4. q # None => /\ OnLayoutEvent(Idle(v), q.doc, q.rev) \in Syncs
                    /\ OnLayoutEvent(Idle(v), q.doc, q.rev).lapped = v.lapped
    BY <1>1, <1>2, OnLayoutEventType, LappedKept
  <1>5. next \in Syncs /\ next.lapped = v.lapped
    BY <1>1, <1>3, <1>4
  <1>6. AfterRender(v) = Schedule(next)
    BY DEF AfterRender, quiet
  <1> HIDE DEF next
  <1> QED BY <1>5, <1>6, NewDocType, LappedKept

\* Nor do the answers.
LEMMA AnswerLapped ==
    ASSUME TypeOK, NEW w \in Windows, NEW i \in Slots,
           Acked(w, i) \/ Refused(w, i) \/ Refetched(w, i)
    PROVE  win'[w].lapped = win[w].lapped
  <1> DEFINE v == win[w]
             n == win'[w]
             p == flight[w][i]
  <1>0. v \in Syncs /\ p \in Writes
    BY FlightType DEF TypeOK, Acked, Refused, Refetched, At
  <1>1. CASE ~ v.open
    BY <1>1 DEF Acked, Refused, Refetched
  <1>2. CASE v.open /\ Acked(w, i)
    <2>1. PICK t : n = [v EXCEPT !.told = t, !.refused = FALSE]
      BY <1>0, <1>2 DEF Acked, TypeOK
    <2> QED BY <1>0, <2>1 DEF Syncs
  <1>3. CASE v.open /\ Refused(w, i)
    <2> DEFINE back == [v EXCEPT !.rev = p.wasRev, !.known = p.wasKnown, !.refused = TRUE,
                                 !.overtaken = @ \/ v.told.rev >= p.rev]
    <2>1. \/ n = [back EXCEPT !.unsent = @ /\ v.local # Shows(back)]
          \/ n = [v EXCEPT !.refused = TRUE]
      BY <1>0, <1>3 DEF Refused, TypeOK
    <2>2. back.lapped = v.lapped /\ DOMAIN back = DOMAIN v
      BY <1>0 DEF Syncs
    <2> HIDE DEF back
    <2> QED BY <1>0, <2>1, <2>2 DEF Syncs
  <1>4. CASE v.open /\ Refetched(w, i)
    <2> DEFINE c == [v EXCEPT !.unsent = FALSE]
    <2>1. n = Accept(c, p.doc, p.rev)
      BY <1>0, <1>4 DEF Refetched, TypeOK
    <2>2. c \in Syncs /\ c.lapped = v.lapped
      BY <1>0 DEF Syncs
    <2>3. p.doc \in Docs /\ p.rev \in Nat
      BY <1>0 DEF Writes
    <2> HIDE DEF c
    <2> QED BY <2>1, <2>2, <2>3, LappedKept
  <1> QED BY <1>1, <1>2, <1>3, <1>4

\* Whose writes have overlapped remains so.
LEMMA AloneBefore ==
    ASSUME TypeOK, [Next]_vars, NEW w \in Windows, Alone(w)'
    PROVE  Alone(w)
  <1> DEFINE v == win[w]
             n == win'[w]
  <1>0. v \in Syncs /\ n \in Syncs
    BY TypeNext DEF TypeOK
  <1> SUFFICES n.lapped = v.lapped \/ n.lapped
    BY <1>0 DEF Alone
  <1>1. ASSUME n = v PROVE n.lapped = v.lapped
    BY <1>1
  <1>2. ASSUME NEW doc, Rearrange(w, doc) PROVE n.lapped = v.lapped
    <2> DEFINE m == [v EXCEPT !.local = doc, !.unsent = doc # Shows(v)]
    <2>1. m.lapped = v.lapped /\ DOMAIN m = DOMAIN v
      BY <1>0 DEF Syncs
    <2>2. n = Schedule(m)
      BY <1>2 DEF Rearrange, TypeOK
    <2> HIDE DEF m
    <2> QED BY <1>0, <2>1, <2>2 DEF Schedule, Syncs
  <1>3. CASE Edit(w)
    BY <1>2, <1>3 DEF Edit, NewTerminal, CloseTab, SwitchTab
  <1>4. CASE Push(w)
    <2>1. CASE v.local = v.known
      <3>1. n = [v EXCEPT !.pending = FALSE, !.unsent = FALSE]
        BY <1>4, <2>1 DEF Push, TypeOK
      <3> QED BY <1>0, <3>1 DEF Syncs
    <2>2. CASE v.local # v.known
      <3>1. PICK i \in Slots :
              n = [v EXCEPT !.pending = FALSE, !.unsent = FALSE, !.rev = @ + 1, !.known = v.local,
                            !.lapped = @ \/ i # 1]
        BY <1>4, <2>2, PushDoes
      <3>2. n.lapped = (v.lapped \/ i # 1)
        BY <1>0, <3>1 DEF Syncs
      <3> QED BY <1>0, <3>2 DEF Syncs
    <2> QED BY <2>1, <2>2
  <1>5. ASSUME NEW i \in Slots, Acked(w, i) \/ Refused(w, i) \/ Refetched(w, i)
        PROVE  n.lapped = v.lapped
    BY <1>5, AnswerLapped
  <1>6. CASE HandleEvent(w)
    <2> DEFINE e == Head(inbox[w])
    <2>1. e.rev \in Nat /\ e.doc \in Docs /\ e.kind \in {"layout", "reset", "removed"}
      <3>1. e \in Events
        BY <1>6, HeadTailProperties DEF HandleEvent, TypeOK
      <3> QED BY <3>1 DEF Events
    <2>2. n \in {v, OnLayoutEvent(v, e.doc, e.rev), OnWorkspaceReset(v, e.doc, e.rev), Forgotten(v)}
      BY <1>6, <2>1 DEF HandleEvent, TypeOK
    <2> HIDE DEF e, n
    <2> QED BY <1>0, <2>1, <2>2, LappedKept
  <1>7. CASE RenderDone(w)
    <2>1. v.render # None /\ n = AfterRender(v)
      BY <1>7, RenderDoneIs DEF TypeOK
    <2> QED BY <1>0, <2>1, LappedRendered
  <1>8. CASE Resubscribe(w) \/ StreamBreaks(w)
    BY <1>8 DEF Resubscribe, StreamBreaks
  <1>9. ASSUME NEW i \in Slots, Arrives(w, i) \/ Reads(w, i) \/ WriteLost(w, i) \/ ReadLost(w, i)
        PROVE  n = v
    BY <1>9 DEF Arrives, Reads, WriteLost, ReadLost
  <1>10. ASSUME NEW u \in Windows, u # w, Edit(u) \/ Goes(u) \/ Fails(u) PROVE n = v
    BY <1>10, OthersStay
  <1>11. ASSUME (\E s \in Sessions, saved \in BOOLEAN : KillSession(s, saved)) \/ KillWorkspace
                  \/ UNCHANGED vars
         PROVE  n = v
    BY <1>11 DEF KillSession, KillWorkspace, vars
  <1>12. CASE Restart
    <2>1. PICK b : n = [v EXCEPT !.stranded = b]
      BY <1>12 DEF Restart
    <2> QED BY <1>0, <2>1 DEF Syncs
  <1> QED BY <1>1, <1>3, <1>4, <1>5, <1>6, <1>7, <1>8, <1>9, <1>10, <1>11, <1>12 DEF Next, Goes, Fails

\* What a window that keeps its claim says of the same write.
LEMMA ClaimsKeep ==
    ASSUME NEW v, NEW n, NEW p, Claims(v, p), SameClaim(n, v), n.open = v.open
    PROVE  Claims(n, p)
  BY DEF Claims, SameClaim, Agrees

\* A window that has taken news claims nothing else.
LEMMA ClaimsAgree ==
    ASSUME NEW v, NEW n, NEW p, Claims(v, p), Agrees(n)
    PROVE  Claims(n, p)
  BY DEF Claims

\* A write that is still on its way.
LEMMA ClaimsLand ==
    ASSUME NEW v, NEW p, NEW q, Claims(v, p), Active(p), Active(q),
           q.rev = p.rev, q.doc = p.doc, q.wasRev = p.wasRev, q.base = p.base
    PROVE  Claims(v, q)
  BY DEF Claims

\* Requests and answers that do not reach the window.
LEMMA ClaimsWrite ==
    ASSUME TypeOK, NEW w \in Windows, NEW i \in Slots, Claims(win[w], flight[w][i]),
           Arrives(w, i) \/ WriteLost(w, i) \/ Reads(w, i) \/ ReadLost(w, i)
    PROVE  Claims(win'[w], flight'[w][i])
  <1> DEFINE p == flight[w][i]
             q == flight'[w][i]
             v == win[w]
  <1>0. p # None /\ p \in Writes /\ Claims(v, p) /\ win' = win
    BY FlightType DEF Arrives, WriteLost, Reads, ReadLost, At
  <1>1. Claims(v, q)
    <2>1. CASE Arrives(w, i) \/ WriteLost(w, i)
      <3>1. PICK at \in {"stored", "refused"} : Land(w, i, at)
        BY <2>1 DEF Arrives, WriteLost
      <3>2. Active(p)
        BY <2>1 DEF Arrives, WriteLost, At, Active
      <3>3. /\ q # None /\ q.at = at
            /\ q.rev = p.rev /\ q.doc = p.doc /\ q.wasRev = p.wasRev /\ q.base = p.base
        BY <1>0, <3>1, LandDoes
      <3>4. Active(q)
        BY <3>3 DEF Active
      <3> QED BY <1>0, <3>2, <3>3, <3>4, ClaimsLand
    <2>2. CASE Reads(w, i) \/ ReadLost(w, i)
      <3>1. p.at = "reading" /\ ~ Active(p)
        BY <2>2 DEF Reads, ReadLost, At, Active
      <3>2. ~ Active(q)
        <4>1. CASE Clear(w, i)
          BY <1>0, <4>1, ClearDoes DEF Active
        <4>2. CASE ~ Clear(w, i)
          <5> DEFINE r == [p EXCEPT !.at = "read", !.rev = store.rev, !.doc = store.doc]
          <5>1. flight' = [flight EXCEPT ![w][i] = r]
            BY <1>0, <2>2, <4>2 DEF Reads, ReadLost, TypeOK, Slots
          <5>2. r.at = "read"
            BY <1>0 DEF Writes
          <5> HIDE DEF r
          <5>3. q = r
            BY <1>0, <5>1 DEF TypeOK, Slots
          <5> QED BY <5>2, <5>3 DEF Active
        <4> QED BY <4>1, <4>2
      <3> QED BY <1>0, <3>1, <3>2 DEF Claims
    <2> QED BY <2>1, <2>2
  <1> QED BY <1>0, <1>1

\* push: a window that claims nothing it has not been told of claims one more.
LEMMA ClaimsPush ==
    ASSUME TypeOK, NEW w \in Windows, Push(w), Alone(w)', Claims(win[w], flight[w][1])
    PROVE  Claims(win'[w], flight'[w][1])
  <1> DEFINE v == win[w]
             n == win'[w]
             p == flight[w][1]
             q == flight'[w][1]
  <1>0. v \in Syncs /\ v.open
    BY DEF TypeOK, Push
  <1>2. CASE v.local = v.known
    <2>1. n = [v EXCEPT !.pending = FALSE, !.unsent = FALSE] /\ flight' = flight
      BY <1>0, <1>2 DEF Push, TypeOK
    <2>2. SameClaim(n, v) /\ n.open = v.open
      BY <1>0, <2>1 DEF SameClaim, Syncs
    <2>3. Claims(n, q)
      BY <1>0, <2>1, <2>2, ClaimsKeep
    <2> QED BY <2>3
  <1>3. CASE v.local # v.known
    <2>1. /\ p = None
          /\ q = [at |-> "sent", rev |-> v.rev + 1, doc |-> v.local,
                  wasRev |-> v.rev, wasKnown |-> v.known, base |-> v.told.rev]
          /\ q # None
          /\ n.rev = v.rev + 1 /\ n.known = v.local /\ n.told = v.told
      <3>1. PICK i \in Slots :
              /\ flight[w][i] = None
              /\ flight'[w][i] = [at |-> "sent", rev |-> v.rev + 1, doc |-> v.local,
                      wasRev |-> v.rev, wasKnown |-> v.known, base |-> v.told.rev]
              /\ flight'[w][i] # None
              /\ n = [v EXCEPT !.pending = FALSE, !.unsent = FALSE, !.rev = @ + 1, !.known = v.local,
                               !.lapped = @ \/ i # 1]
        BY <1>3, PushDoes
      <3>2. n.lapped = (v.lapped \/ i # 1)
        BY <1>0, <3>1 DEF Syncs
      <3>3. i = 1
        BY <3>2 DEF Alone
      <3>4. n.rev = v.rev + 1 /\ n.known = v.local /\ n.told = v.told
        BY <1>0, <3>1 DEF Syncs
      <3> QED BY <3>1, <3>3, <3>4
    <2>3. /\ q.rev = v.rev + 1 /\ q.doc = v.local /\ q.wasRev = v.rev /\ q.base = v.told.rev
          /\ Active(q)
      BY <2>1 DEF Active
    <2>4. v.rev <= v.told.rev
      <3>1. v.rev \in Nat
        BY <1>0 DEF Syncs
      <3> QED BY <1>0, <2>1, <3>1 DEF Claims, Active, Agrees
    <2>5. Claims(n, q)
      BY <2>1, <2>3, <2>4 DEF Claims
    <2> QED BY <2>5
  <1> QED BY <1>2, <1>3

\* The answers that reach the window.
LEMMA ClaimsAnswer ==
    ASSUME EditInv, NEW w \in Windows, Claims(win[w], flight[w][1]),
           Acked(w, 1) \/ Refused(w, 1) \/ Refetched(w, 1)
    PROVE  Claims(win'[w], flight'[w][1])
  <1> DEFINE v == win[w]
             n == win'[w]
             p == flight[w][1]
             q == flight'[w][1]
  <1>0. /\ TypeOK /\ v \in Syncs /\ Claims(v, p) /\ 1 \in Slots
        /\ p # None /\ p \in Writes
    BY FirstSlot, FlightType DEF EditInv, TypeOK, Acked, Refused, Refetched, At
  <1>p. p.rev \in Nat /\ p.doc \in Docs /\ p.wasRev \in Nat /\ v.rev \in Nat /\ v.told.rev \in Nat
    BY <1>0 DEF Writes, Syncs, Layouts
  <1>2. ~ Active(q)
    <2>1. Clear(w, 1) \/ Land(w, 1, "reading")
      BY DEF Acked, Refused, Refetched
    <2> QED BY <1>0, <2>1, ClearDoes, LandDoes DEF Active
  <1>3. CASE ~ v.open
    <2>1. n = v
      BY <1>3 DEF Acked, Refused, Refetched
    <2>2. Claims(n, q)
      BY <1>2, <1>3, <2>1 DEF Claims
    <2> QED BY <2>2
  <1>4. CASE v.open /\ Acked(w, 1)
    <2> DEFINE t == IF v.rev = p.rev /\ v.known = p.doc THEN [rev |-> p.rev, doc |-> p.doc] ELSE v.told
    <2>1. n = [v EXCEPT !.told = t, !.refused = FALSE]
      BY <1>0, <1>4 DEF Acked, TypeOK
    <2>2. n.rev = v.rev /\ n.known = v.known /\ n.told = t
      BY <1>0, <2>1 DEF Syncs
    <2>3. Active(p)
      BY <1>4 DEF Acked, At, Active
    <2>4. Agrees(n)
      BY <1>0, <1>4, <2>2, <2>3 DEF Claims, Agrees, SameStructure
    <2>5. Claims(n, q)
      BY <1>2, <2>4 DEF Claims
    <2> QED BY <2>5
  <1>5. CASE v.open /\ Refused(w, 1)
    <2>1. Active(p) /\ p.rev = p.wasRev + 1
      BY <1>0, <1>5 DEF Refused, At, Active, EditInv, OnePast
    <2>2. CASE v.rev = p.rev /\ v.known = p.doc
      <3> DEFINE back == [v EXCEPT !.rev = p.wasRev, !.known = p.wasKnown, !.refused = TRUE,
                                   !.overtaken = @ \/ v.told.rev >= p.rev]
      <3>1. n = [back EXCEPT !.unsent = @ /\ v.local # Shows(back)]
        BY <1>0, <1>5, <2>2 DEF Refused, TypeOK
      <3>2. back.rev = p.wasRev /\ back.told = v.told /\ back.refused /\ DOMAIN back = DOMAIN v
        BY <1>0 DEF Syncs
      <3> HIDE DEF back
      <3>3. n.rev = p.wasRev /\ n.told = v.told /\ n.refused
        BY <1>0, <3>1, <3>2 DEF Syncs
      <3>4. p.wasRev <= v.told.rev
        BY <1>0, <1>p, <1>5, <2>1, <2>2 DEF Claims, Agrees
      <3>5. Claims(n, q)
        BY <1>2, <3>3, <3>4 DEF Claims
      <3> QED BY <3>5
    <2>3. CASE ~ (v.rev = p.rev /\ v.known = p.doc)
      <3>1. n = [v EXCEPT !.refused = TRUE]
        BY <1>0, <1>5, <2>3 DEF Refused, TypeOK
      <3>2. Agrees(v)
        BY <1>0, <1>5, <2>1, <2>3 DEF Claims
      <3>3. n.rev = v.rev /\ n.told = v.told /\ n.known = v.known
        BY <1>0, <3>1 DEF Syncs
      <3>4. Agrees(n)
        BY <3>2, <3>3 DEF Agrees
      <3>5. Claims(n, q)
        BY <1>2, <3>4 DEF Claims
      <3> QED BY <3>5
    <2> QED BY <2>2, <2>3
  <1>6. CASE v.open /\ Refetched(w, 1)
    <2> DEFINE c == [v EXCEPT !.unsent = FALSE]
               x == [rev |-> p.rev, doc |-> p.doc]
    <2>1. n = Accept(c, p.doc, p.rev)
      BY <1>0, <1>6 DEF Refetched, TypeOK
    <2>2. c \in Syncs /\ SameClaim(c, v) /\ c.open = v.open /\ c.rev = v.rev
      BY <1>0 DEF Syncs, SameClaim
    <2>3. ~ Active(p)
      BY <1>6 DEF Refetched, At, Active
    <2>x. x.rev = p.rev
      OBVIOUS
    <2>4. Claims(c, q)
      <3>1. Claims(c, p)
        BY <1>0, <2>2, ClaimsKeep
      <3> QED BY <1>2, <2>3, <3>1 DEF Claims
    <2> HIDE DEF c, x
    <2>5. CASE p.rev <= c.rev
      <3>1. n = c
        BY <2>1, <2>5 DEF Accept
      <3>2. Claims(n, q)
        BY <2>4, <3>1
      <3> QED BY <3>2
    <2>6. CASE p.rev > c.rev /\ c.render # None
      <3>1. Queues(n, c, x) /\ SameShown(n, c)
        BY <1>p, <2>1, <2>2, <2>6, AcceptDoes DEF x
      <3>2. Claims(n, q)
        BY <2>4, <3>1, ClaimsKeep DEF Queues, SameShown
      <3> QED BY <3>2
    <2>7. CASE p.rev > c.rev /\ c.render = None
      <3>1. Takes(n, c, x) /\ (Agrees(n) \/ n.refused)
        BY <1>p, <2>1, <2>2, <2>7, AcceptDoes DEF x
      <3>2. n.rev = n.told.rev /\ n.rev \in Nat
        BY <1>p, <2>x, <3>1 DEF Takes
      <3>3. Claims(n, q)
        BY <1>2, <3>1, <3>2 DEF Claims
      <3> QED BY <3>3
    <2> QED BY <1>p, <2>2, <2>5, <2>6, <2>7
  <1> QED BY <1>3, <1>4, <1>5, <1>6

\* Edits, events and renders.
LEMMA ClaimsWindow ==
    ASSUME TypeOK, NEW w \in Windows, Claims(win[w], flight[w][1]),
           Edit(w) \/ HandleEvent(w) \/ RenderDone(w)
    PROVE  Claims(win'[w], flight'[w][1])
  <1> DEFINE v == win[w]
             n == win'[w]
             p == flight[w][1]
  <1>0. v \in Syncs /\ Claims(v, p) /\ n \in Syncs
    <2>1. TypeOK'
      BY EditType, StreamType
    <2> QED BY <2>1 DEF TypeOK
  <1>1. flight' = flight
    BY <1>0 DEF Edit, NewTerminal, CloseTab, SwitchTab, HandleEvent, RenderDone
  <1>2. CASE Edit(w)
    <2>1. PICK doc : n = Schedule([v EXCEPT !.local = doc, !.unsent = doc # Shows(v)])
      BY <1>0, <1>2 DEF Edit, NewTerminal, CloseTab, SwitchTab, Rearrange, TypeOK
    <2> DEFINE m == [v EXCEPT !.local = doc, !.unsent = doc # Shows(v)]
    <2>2. SameClaim(m, v) /\ m.open = v.open /\ DOMAIN m = DOMAIN v
      BY <1>0 DEF SameClaim, Syncs
    <2> HIDE DEF m
    <2>3. SameClaim(n, v) /\ n.open = v.open
      BY <1>0, <2>1, <2>2 DEF Schedule, SameClaim, m, Syncs
    <2>4. Claims(n, p)
      BY <1>0, <2>3, ClaimsKeep
    <2> QED BY <1>1, <2>4
  <1>3. CASE HandleEvent(w)
    <2> DEFINE e == Head(inbox[w])
               x == [rev |-> e.rev, doc |-> e.doc]
    <2>1. e.rev \in Nat /\ e.doc \in Docs /\ e.kind \in {"layout", "reset", "removed"}
      <3>1. e \in Events
        BY <1>0, <1>3, HeadTailProperties DEF HandleEvent, TypeOK
      <3> QED BY <3>1 DEF Events
    <2>2. \/ n = v
          \/ n = OnLayoutEvent(v, e.doc, e.rev)
          \/ n = OnWorkspaceReset(v, e.doc, e.rev)
          \/ n = Forgotten(v)
      BY <1>0, <1>3, <2>1 DEF HandleEvent, TypeOK
    <2> HIDE DEF e
    <2>3. CASE n = OnLayoutEvent(v, e.doc, e.rev)
      <3>1. n = v \/ (Queues(n, v, x) /\ SameShown(n, v)) \/ Agrees(n)
        <4>1. v.rev \in Nat
          BY <1>0 DEF Syncs
        <4> QED BY <1>0, <2>1, <2>3, <4>1, OnLayoutEventDoes
      <3>2. Claims(n, p)
        BY <1>0, <3>1, ClaimsKeep, ClaimsAgree DEF Queues, SameShown
      <3> QED BY <1>1, <3>2
    <2>4. CASE n = OnWorkspaceReset(v, e.doc, e.rev)
      <3>1. Agrees(n)
        BY <1>0, <2>1, <2>4, OnWorkspaceResetDoes
      <3>2. Claims(n, p)
        BY <1>0, <3>1, ClaimsAgree
      <3> QED BY <1>1, <3>2
    <2>5. CASE n = Forgotten(v)
      <3>1. ~ n.open
        BY <2>5 DEF Forgotten, Installed
      <3>2. Claims(n, p)
        BY <1>0, <3>1 DEF Claims
      <3> QED BY <1>1, <3>2
    <2>6. CASE n = v
      BY <1>0, <1>1, <2>6
    <2> QED BY <2>2, <2>3, <2>4, <2>5, <2>6
  <1>4. CASE RenderDone(w)
    <2>1. v.render # None /\ n = AfterRender(v)
      BY <1>0, <1>4, RenderDoneIs DEF TypeOK
    <2>2. Finishes(n, v)
      BY <1>0, <2>1, AfterRenderDoes
    <2>3. Claims(n, p)
      BY <1>0, <2>2, ClaimsKeep, ClaimsAgree DEF Finishes
    <2> QED BY <1>1, <2>3
  <1> QED BY <1>2, <1>3, <1>4

\* A restart fails writes and answers none.
LEMMA ClaimsRestart ==
    ASSUME TypeOK, Restart, NEW x \in Windows, Claims(win[x], flight[x][1])
    PROVE  Claims(win'[x], flight'[x][1])
  <1> DEFINE v == win[x]
             n == win'[x]
             p == flight[x][1]
             q == flight'[x][1]
  <1>0. v \in Syncs /\ Claims(v, p) /\ 1 \in Slots
    BY FirstSlot DEF TypeOK
  <1>1. PICK b : n = [v EXCEPT !.stranded = b]
    BY DEF Restart
  <1>2. /\ n.rev = v.rev /\ n.known = v.known /\ n.told = v.told /\ n.refused = v.refused
        /\ n.open = v.open
    BY <1>0, <1>1 DEF Syncs
  <1>3. Claims(n, p)
    BY <1>0, <1>2 DEF Claims, Agrees
  <1>4. \/ q = p
        \/ p # None /\ p.at = "read" /\ q = None
        \/ p # None /\ p.at \in {"sent", "stored"} /\ q = [p EXCEPT !.at = "refused"]
    BY <1>0 DEF Restart, At
  <1>5. p # None => p \in Writes
    BY <1>0, FlightType
  <1> HIDE DEF n, v
  <1>6. CASE p # None /\ p.at = "read" /\ q = None
    <2>1. ~ Active(p) /\ ~ Active(q)
      BY <1>6 DEF Active
    <2>2. Claims(n, q)
      BY <1>3, <2>1 DEF Claims
    <2> QED BY <2>2 DEF n
  <1>7. CASE p # None /\ p.at \in {"sent", "stored"} /\ q = [p EXCEPT !.at = "refused"]
    <2>1. q \in Writes
      BY <1>5, <1>7 DEF Writes
    <2>2. q.at = "refused" /\ q.rev = p.rev /\ q.doc = p.doc /\ q.wasRev = p.wasRev /\ q.base = p.base
      BY <1>5, <1>7 DEF Writes
    <2>3. q # None
      BY <2>1, NoneIsNone
    <2> QED BY <1>3, <1>7, <2>2, <2>3, ClaimsLand DEF Active, n
  <1> QED BY <1>3, <1>4, <1>6, <1>7 DEF n

\* A window of single writes goes on with one slot.
LEMMA SingleNext ==
    ASSUME TypeOK, [Next]_vars, NEW w \in Windows, Alone(w)', Single(w)
    PROVE  Single(w)'
  <1> SUFFICES ASSUME NEW i \in Slots \ {1}, flight'[w][i] # None PROVE FALSE
    BY DEF Single
  <1>1. flight[w][i] = None
    BY DEF Single
  <1>2. win'[w].lapped = (win[w].lapped \/ i # 1)
    BY <1>1, PushFills
  <1> QED BY <1>2 DEF Alone

\* So does its claim.
LEMMA OneClaimNext ==
    ASSUME EditInv, OneClaim, [Next]_vars
    PROVE  OneClaim'
  <1> SUFFICES ASSUME NEW w \in Windows, Alone(w)'
               PROVE  Single(w)' /\ Claims(win'[w], flight'[w][1])
    BY DEF OneClaim, Alone
  <1>0. TypeOK /\ Alone(w)
    BY AloneBefore DEF EditInv
  <1>1. Single(w) /\ Claims(win[w], flight[w][1])
    BY <1>0 DEF OneClaim
  <1>2. Single(w)'
    BY <1>0, <1>1, SingleNext
  <1> DEFINE Goal == Claims(win'[w], flight'[w][1])
  <1>3. ASSUME win'[w] = win[w], flight'[w][1] = flight[w][1] PROVE Goal
    BY <1>1, <1>3
  <1>4. ASSUME NEW i \in Slots, flight[w][i] # None PROVE i = 1
    BY <1>1, <1>4 DEF Single
  <1>5. ASSUME Edit(w) \/ Goes(w) \/ Fails(w) PROVE Goal
    <2>1. CASE Resubscribe(w) \/ StreamBreaks(w)
      BY <1>3, <2>1 DEF Resubscribe, StreamBreaks
    <2>2. ASSUME NEW i \in Slots, Acked(w, i) \/ Refused(w, i) \/ Refetched(w, i)
          PROVE  Goal
      <3>1. i = 1
        BY <1>4, <2>2 DEF Acked, Refused, Refetched, At
      <3> QED BY <1>1, <2>2, <3>1, ClaimsAnswer
    <2>3. ASSUME NEW i \in Slots, Arrives(w, i) \/ WriteLost(w, i) \/ Reads(w, i) \/ ReadLost(w, i)
          PROVE  Goal
      <3>1. i = 1
        BY <1>4, <2>3 DEF Arrives, WriteLost, Reads, ReadLost, At
      <3> QED BY <1>0, <1>1, <2>3, <3>1, ClaimsWrite
    <2>4. CASE Push(w)
      BY <1>0, <1>1, <2>4, ClaimsPush
    <2>5. CASE Edit(w) \/ HandleEvent(w) \/ RenderDone(w)
      BY <1>0, <1>1, <2>5, ClaimsWindow
    <2> QED BY <1>5, <2>1, <2>2, <2>3, <2>4, <2>5 DEF Goes, Fails
  <1>6. ASSUME NEW u \in Windows, u # w, Edit(u) \/ Goes(u) \/ Fails(u) PROVE Goal
    BY <1>0, <1>3, <1>6, OthersStay
  <1>7. ASSUME (\E s \in Sessions, saved \in BOOLEAN : KillSession(s, saved)) \/ KillWorkspace
                 \/ UNCHANGED vars
        PROVE  Goal
    BY <1>3, <1>7 DEF KillSession, KillWorkspace, vars
  <1>8. ASSUME Restart PROVE Goal
    BY <1>0, <1>1, <1>8, ClaimsRestart
  <1> QED BY <1>2, <1>5, <1>6, <1>7, <1>8 DEF Next

\* A write the daemon accepts replaces a layout its window had been told of.
LEMMA TellsFirst ==
    ASSUME EditInv, OneClaim, [Next]_vars, NEW w \in Windows, NEW i \in Slots, Alone(w),
           At(w, i, "sent"), At(w, i, "stored")'
    PROVE  flight[w][i].base >= store.rev
  <1> DEFINE p == flight[w][i]
  <1>0. TypeOK /\ p # None /\ p \in Writes /\ p.at = "sent"
    BY FlightType DEF EditInv, At
  <1>1. ASSUME NEW u \in Windows, NEW j \in Slots, Arrives(u, j)
        PROVE  p.base >= store.rev
    <2>1. u = w /\ j = i /\ Accepts(p)
      <3>0. flight[u][j] # None
        BY <1>1 DEF Arrives, At
      <3>1. PICK at \in {"stored", "refused"} : Land(u, j, at) /\ (at = "stored" => Accepts(flight[u][j]))
        BY <1>1 DEF Arrives
      <3>2. /\ flight'[u][j].at = at
            /\ \A y \in Windows, k \in Slots : y # u \/ k # j => flight'[y][k] = flight[y][k]
        BY <1>0, <3>0, <3>1, LandDoes
      <3>3. flight'[w][i].at = "stored"
        BY DEF At
      <3> QED BY <1>0, <3>1, <3>2, <3>3
    <2>2. p.rev > store.rev /\ store.rev \in Nat
      BY <1>0, <2>1 DEF Accepts, TypeOK, Records
    <2>3. Active(p)
      BY <1>0 DEF Active
    <2>4. p.rev = p.wasRev + 1 /\ p.wasRev <= p.base
      <3>1. i = 1
        BY <1>0 DEF OneClaim, Single
      <3> QED BY <2>3, <3>1 DEF EditInv, OnePast, OneClaim, Claims
    <2>5. p.rev \in Nat /\ p.wasRev \in Nat /\ p.base \in Nat
      BY <1>0 DEF Writes
    <2> QED BY <2>2, <2>4, <2>5
  <1>2. ASSUME NEW u \in Windows, NEW j \in Slots,
               Acked(u, j) \/ Refused(u, j) \/ Reads(u, j) \/ Refetched(u, j)
                 \/ WriteLost(u, j) \/ ReadLost(u, j)
        PROVE  FALSE
    <2>1. flight[u][j] # None
      BY <1>2 DEF Acked, Refused, Reads, Refetched, WriteLost, ReadLost, At
    <2>2. \/ Clear(u, j)
          \/ \E at \in {"refused", "reading"} : Land(u, j, at)
          \/ At(u, j, "reading") /\ flight' = [flight EXCEPT ![u][j] = [@ EXCEPT !.at = "read",
                                                  !.rev = store.rev, !.doc = store.doc]]
      BY <1>2 DEF Acked, Refused, Reads, Refetched, WriteLost, ReadLost
    <2>3. flight'[w][i] # None /\ flight'[w][i].at = "stored"
      BY DEF At
    <2>4. CASE Clear(u, j) \/ \E at \in {"refused", "reading"} : Land(u, j, at)
      BY <1>0, <2>1, <2>3, <2>4, ClearDoes, LandDoes
    <2>5. CASE At(u, j, "reading") /\ flight' = [flight EXCEPT ![u][j] = [@ EXCEPT !.at = "read",
                                                  !.rev = store.rev, !.doc = store.doc]]
      <3>1. u # w \/ j # i
        BY <1>0, <2>5 DEF At
      <3> QED BY <1>0, <2>3, <2>5, <3>1 DEF TypeOK, Slots
    <2> QED BY <2>2, <2>4, <2>5
  <1>3. ASSUME Restart PROVE FALSE
    <2>1. flight'[w][i] = p \/ flight'[w][i] = None \/ flight'[w][i] = [p EXCEPT !.at = "refused"]
      BY <1>3 DEF Restart, At
    <2> QED BY <1>0, <2>1 DEF At, Writes
  <1>4. ASSUME NEW u \in Windows, Push(u) PROVE FALSE
    <2>1. CASE win[u].local = win[u].known
      BY <1>0, <1>4, <2>1 DEF Push, At
    <2>2. CASE win[u].local # win[u].known
      <3>1. PICK j \in Slots :
              /\ flight[u][j] = None
              /\ \A x \in Windows, k \in Slots : x # u \/ k # j => flight'[x][k] = flight[x][k]
        BY <1>0, <1>4, <2>2, PushDoes
      <3> QED BY <1>0, <3>1 DEF At
    <2> QED BY <2>1, <2>2
  <1>5. ASSUME NEW u \in Windows,
               Edit(u) \/ Resubscribe(u) \/ StreamBreaks(u) \/ HandleEvent(u) \/ RenderDone(u)
        PROVE  flight' = flight
    BY <1>5 DEF Edit, NewTerminal, CloseTab, SwitchTab, Resubscribe, StreamBreaks, HandleEvent,
                RenderDone
  <1>6. ASSUME (\E s \in Sessions, saved \in BOOLEAN : KillSession(s, saved)) \/ KillWorkspace
                 \/ UNCHANGED vars
        PROVE  flight' = flight
    BY <1>6 DEF KillSession, KillWorkspace, vars
  <1>7. flight' # flight
    BY <1>0 DEF At
  <1> QED BY <1>1, <1>2, <1>3, <1>4, <1>5, <1>6, <1>7 DEF Next, Goes, Fails

\* push, refetch and the events: a window whose own writes have not overlapped
\* claims, beyond what it has been told, only the revision of the write it waits
\* for, whatever the other windows' writes do.
THEOREM OneClaimInvariant == Spec => []OneClaim
  <1>1. Init => OneClaim
    BY FirstSlot DEF Init, Installed, OneClaim, Single, Claims, Active, Agrees, SameStructure
  <1>2. EditInv /\ OneClaim /\ [Next]_vars => OneClaim'
    BY OneClaimNext
  <1> QED BY <1>1, <1>2, EditInvariant, PTL DEF Spec

\* update_layout: no write replaces a layout its window had not been told of, by
\* an event, an answer or a confirmation, whatever was lost, overtaken or rolled
\* back on the way, as long as its own writes have not overlapped.
THEOREM NothingLost == Spec => NoLostUpdate
  <1> DEFINE A == \A w \in Windows, i \in Slots :
                    Alone(w) /\ At(w, i, "sent") /\ At(w, i, "stored")'
                      => flight[w][i].base >= store.rev
  <1>1. EditInv /\ OneClaim /\ [Next]_vars => A
    BY TellsFirst
  <1>2. EditInv /\ OneClaim /\ [Next]_vars => [A]_vars
    BY <1>1
  <1> QED BY <1>2, EditInvariant, OneClaimInvariant, PTL DEF NoLostUpdate, Spec

-----------------------------------------------------------------------------
(* What the daemon and the streams do.                                      *)

\* The events q lead up to layout s, from the last reset on.
Leads(q, s) ==
    /\ Len(q) > 0 => q[Len(q)].rev = s.rev
    /\ \A i \in 1 .. Len(q) : (\A j \in i + 1 .. Len(q) : q[j].kind # "reset") =>
          q[i].rev <= s.rev /\ SameAs(q[i], s)

\* An event of layout t leads up to it, if t is no older than s or comes by a reset.
LEMMA AppendLeads ==
    ASSUME NEW q \in Seq(Events), NEW s \in Layouts, NEW t \in Layouts, NEW e \in Events,
           Leads(q, s), e.rev = t.rev, e.doc = t.doc,
           e.kind = "reset" \/ s.rev < t.rev \/ s = t
    PROVE  Leads(Append(q, e), t)
  <1> DEFINE r == Append(q, e)
             n == Len(q)
  <1>1. /\ r \in Seq(Events) /\ Len(r) = n + 1 /\ n \in Nat /\ r[n + 1] = e
        /\ \A i \in 1 .. n : r[i] = q[i] /\ q[i] \in Events
    BY AppendProperties, ElementOfSeq, LenProperties
  <1>2. s.rev \in Nat /\ t.rev \in Nat
    BY DEF Layouts
  <1> HIDE DEF r, n
  <1>3. ASSUME NEW i \in 1 .. n + 1, \A j \in i + 1 .. n + 1 : r[j].kind # "reset"
        PROVE  r[i].rev <= t.rev /\ SameAs(r[i], t)
    <2>1. CASE i = n + 1
      BY <1>1, <1>2, <2>1 DEF SameAs
    <2>2. CASE i \in 1 .. n
      <3>1. e.kind # "reset"
        BY <1>1, <1>3, <2>2
      <3>2. \A j \in i + 1 .. n : q[j].kind # "reset"
        BY <1>1, <1>3, <2>2
      <3>3. q[i].rev <= s.rev /\ SameAs(q[i], s)
        BY <2>2, <3>2 DEF Leads, n
      <3>4. q[i].rev \in Nat
        BY <1>1, <2>2 DEF Events
      <3> QED BY <1>1, <1>2, <2>2, <3>1, <3>3, <3>4 DEF SameAs
    <2> QED BY <1>1, <2>1, <2>2
  <1>4. Leads(r, t)
    BY <1>1, <1>3 DEF Leads
  <1> QED BY <1>4 DEF r

\* What is left once the first event is handled still does.
LEMMA TailLeads ==
    ASSUME NEW q \in Seq(Events), NEW s, Leads(q, s), q # <<>>
    PROVE  Leads(Tail(q), s)
  <1> DEFINE r == Tail(q)
             n == Len(q)
  <1>1. /\ Len(r) = n - 1 /\ n \in Nat /\ n > 0
        /\ \A i \in 1 .. n - 1 : r[i] = q[i + 1]
    BY HeadTailProperties, EmptySeq, LenProperties
  <1> HIDE DEF r, n
  <1>2. ASSUME NEW i \in 1 .. n - 1, \A j \in i + 1 .. n - 1 : r[j].kind # "reset"
        PROVE  r[i].rev <= s.rev /\ SameAs(r[i], s)
    <2>1. ASSUME NEW j \in i + 2 .. n PROVE q[j].kind # "reset"
      <3>1. j - 1 \in i + 1 .. n - 1 /\ j - 1 \in 1 .. n - 1 /\ (j - 1) + 1 = j
        BY <1>1
      <3> QED BY <1>1, <1>2, <3>1
    <2>2. i + 1 \in 1 .. n /\ (i + 1) + 1 = i + 2
      BY <1>1
    <2>3. q[i + 1].rev <= s.rev /\ SameAs(q[i + 1], s)
      BY <2>1, <2>2 DEF Leads, n
    <2> QED BY <1>1, <2>3
  <1>3. n - 1 > 0 => r[n - 1].rev = s.rev
    BY <1>1 DEF Leads, n
  <1>4. Leads(r, s)
    BY <1>1, <1>2, <1>3 DEF Leads
  <1> QED BY <1>4 DEF r

\* The daemon's layout stays as it is.
SameStored ==
    /\ \/ store' = store
       \/ store # None /\ store' # None /\ store'.rev = store.rev /\ store'.doc = store.doc
    /\ ledger' = ledger \/ ledger' = store'

\* Neither it nor the streams change.
Calm == SameStored /\ UNCHANGED events

\* A newer layout is stored and announced.
Publishes ==
    /\ store # None /\ store' # None /\ store'.rev > store.rev
    /\ ledger' = ledger \/ ledger' = store'
    /\ Broadcast(store'.rev, store'.doc)

\* Every step is one of a few, for the daemon and its streams.
LEMMA DaemonSteps ==
    ASSUME TypeOK, [Next]_vars
    PROVE  \/ Calm \/ Publishes \/ KillWorkspace \/ Restart
           \/ \E u \in Windows : Resubscribe(u) \/ StreamBreaks(u) \/ HandleEvent(u)
  <1>0. /\ store # None => store \in Records
        /\ \A x \in Records : x # None
    BY NoneIsNone DEF TypeOK
  <1>1. ASSUME NEW w \in Windows, NEW s \in Sessions, NewTerminal(w, s) PROVE Calm
    <2>1. store # None /\ store' = [store EXCEPT !.alive = @ \cup {s}] /\ ledger' = store'
      BY <1>1 DEF NewTerminal
    <2>2. store' \in Records /\ store'.rev = store.rev /\ store'.doc = store.doc
      BY <1>0, <2>1 DEF Records
    <2> QED BY <1>0, <1>1, <2>1, <2>2 DEF Calm, SameStored, NewTerminal
  <1>2. ASSUME NEW w \in Windows, (\E s \in Sessions : CloseTab(w, s)) \/ SwitchTab(w) \/ Push(w)
                  \/ RenderDone(w) \/ UNCHANGED vars
        PROVE  Calm
    BY <1>2 DEF Calm, SameStored, CloseTab, SwitchTab, Push, RenderDone, daemon, events, vars
  <1>3. ASSUME NEW w \in Windows, NEW i \in Slots,
               Acked(w, i) \/ Refused(w, i) \/ Reads(w, i) \/ Refetched(w, i) \/ WriteLost(w, i)
                 \/ ReadLost(w, i)
        PROVE  Calm
    BY <1>3 DEF Calm, SameStored, Acked, Refused, Reads, Refetched, WriteLost, ReadLost, daemon, events
  <1>4. ASSUME NEW w \in Windows, NEW i \in Slots, Arrives(w, i)
        PROVE  Calm \/ Publishes
    <2> DEFINE p == flight[w][i]
    <2>1. CASE ~ Accepts(p)
      BY <1>4, <2>1 DEF Arrives, Calm, SameStored
    <2>2. CASE Accepts(p)
      <3>1. p \in Writes
        BY <1>4, FlightType DEF Arrives, At
      <3>2. /\ store # None /\ p.rev > store.rev /\ store' = [store EXCEPT !.rev = p.rev, !.doc = p.doc]
            /\ ledger' = store' /\ Broadcast(p.rev, p.doc)
        BY <1>4, <2>2 DEF Arrives, Accepts
      <3>3. store' \in Records /\ store'.rev = p.rev /\ store'.doc = p.doc
        BY <1>0, <3>1, <3>2 DEF Records, Writes
      <3> QED BY <1>0, <3>2, <3>3 DEF Publishes
    <2> QED BY <2>1, <2>2
  <1>5. ASSUME NEW s \in Sessions, NEW saved \in BOOLEAN, KillSession(s, saved)
        PROVE  Calm \/ Publishes
    <2>1. CASE ~ (store # None /\ s \in store.alive)
      BY <1>5, <2>1 DEF KillSession, Calm, SameStored
    <2>2. CASE store # None /\ s \in store.alive
      <3> DEFINE tab == s \in store.doc.tabs
                 rev == IF tab THEN store.rev + 1 ELSE store.rev
                 doc == [store.doc EXCEPT !.tabs = @ \ {s}]
      <3>1. /\ store' = [rev |-> rev, doc |-> doc, alive |-> store.alive \ {s}]
            /\ ledger' = IF saved THEN store' ELSE ledger
            /\ IF tab THEN Broadcast(rev, doc) ELSE UNCHANGED events
        BY <1>5, <2>2 DEF KillSession
      <3>2. rev \in Nat /\ doc \in Docs /\ store.alive \ {s} \in SUBSET Sessions /\ store.rev \in Nat
        BY <1>0, <2>2 DEF Records, Docs
      <3>3. ~ tab => doc = store.doc
        BY <1>0, <2>2 DEF Records, Docs
      <3>4. tab => rev > store.rev
        BY <3>2
      <3>5. ~ tab => rev = store.rev
        OBVIOUS
      <3> HIDE DEF tab, rev, doc
      <3>6. store' \in Records /\ store'.rev = rev /\ store'.doc = doc
        BY <3>1, <3>2 DEF Records
      <3> QED BY <1>0, <2>2, <3>1, <3>3, <3>4, <3>5, <3>6 DEF Calm, SameStored, Publishes
    <2> QED BY <2>1, <2>2
  <1>6. ASSUME UNCHANGED vars PROVE Calm
    BY <1>6 DEF Calm, SameStored, events, vars
  <1> QED BY <1>1, <1>2, <1>3, <1>4, <1>5, <1>6 DEF Next, Edit, Goes, Fails

\* The ledger stays behind the table.
LEMMA LedgerNext ==
    ASSUME TypeOK, TypeOK', LedgerBehind, [Next]_vars
    PROVE  LedgerBehind'
  <1>0. /\ store # None => store.rev \in Nat /\ ledger.rev \in Nat
        /\ store' # None => store'.rev \in Nat
    BY DEF TypeOK, Records, LedgerBehind
  <1>1. CASE Calm \/ Publishes
    BY <1>0, <1>1 DEF Calm, SameStored, Publishes, LedgerBehind, SameAs
  <1>2. CASE KillWorkspace
    BY <1>2 DEF KillWorkspace, LedgerBehind
  <1>3. CASE Restart
    BY <1>0, <1>3 DEF Restart, LedgerBehind, SameAs
  <1>4. ASSUME NEW u \in Windows, Resubscribe(u) \/ StreamBreaks(u) \/ HandleEvent(u)
        PROVE  UNCHANGED <<store, ledger>>
    BY <1>4 DEF Resubscribe, StreamBreaks, HandleEvent, daemon
  <1> QED BY <1>1, <1>2, <1>3, <1>4, DaemonSteps DEF LedgerBehind, SameAs

\* What a slot holds after a step: what it held, what answers nothing, what a read
\* found, or a write that was just stored.
LEMMA FlightSteps ==
    ASSUME TypeOK, [Next]_vars, NEW w \in Windows, NEW i \in Slots
    PROVE  LET p == flight[w][i]
               q == flight'[w][i]
           IN  \/ q = p /\ (Restart => p = None \/ p.at \notin {"stored", "read"})
               \/ q = None
               \/ q.at \notin {"stored", "read"} /\ (Active(p) \/ ~ Active(q) \/ Push(w))
               \/ At(w, i, "reading") /\ store # None /\ q.at = "read"
                    /\ q.rev = store.rev /\ q.doc = store.doc
                    /\ UNCHANGED <<daemon, events>>
               \/ At(w, i, "sent") /\ q.at = "stored" /\ store' # None /\ ledger' = store'
                    /\ q.rev = store'.rev /\ q.doc = store'.doc /\ Publishes
  <1> DEFINE p == flight[w][i]
             q == flight'[w][i]
             Goal == \/ q = p /\ (Restart => p = None \/ p.at \notin {"stored", "read"})
                     \/ q = None
                     \/ q.at \notin {"stored", "read"} /\ (Active(p) \/ ~ Active(q) \/ Push(w))
                     \/ At(w, i, "reading") /\ store # None /\ q.at = "read"
                          /\ q.rev = store.rev /\ q.doc = store.doc
                          /\ UNCHANGED <<daemon, events>>
                     \/ At(w, i, "sent") /\ q.at = "stored" /\ store' # None /\ ledger' = store'
                          /\ q.rev = store'.rev /\ q.doc = store'.doc /\ Publishes
  <1>0. p # None => p \in Writes
    BY FlightType
  <1>1. CASE Restart
    <2>1. \/ q = p /\ ~ At(w, i, "stored") /\ ~ At(w, i, "read")
          \/ p # None /\ p.at \in {"sent", "stored"} /\ q = [p EXCEPT !.at = "refused"]
          \/ q = None
      BY <1>1 DEF Restart, At
    <2>2. p # None => [p EXCEPT !.at = "refused"].at = "refused"
      BY <1>0 DEF Writes
    <2> QED BY <2>1, <2>2 DEF At, Active
  <1>2. CASE ~ Restart
    <2> USE <1>2
    <2>1. ASSUME NEW u \in Windows, NEW j \in Slots,
                 Arrives(u, j) \/ Acked(u, j) \/ Refused(u, j) \/ Reads(u, j) \/ Refetched(u, j)
                   \/ WriteLost(u, j) \/ ReadLost(u, j)
          PROVE  Goal
      <3>1. flight[u][j] # None
        BY <2>1 DEF Arrives, Acked, Refused, Reads, Refetched, WriteLost, ReadLost, At
      <3>2. CASE Arrives(u, j) /\ Accepts(flight[u][j])
        <4>1. Land(u, j, "stored") /\ At(u, j, "sent")
          BY <3>2 DEF Arrives
        <4>2. CASE u = w /\ j = i
          <5>1. /\ store # None /\ p.rev > store.rev
                /\ store' = [store EXCEPT !.rev = p.rev, !.doc = p.doc]
                /\ ledger' = store' /\ Broadcast(p.rev, p.doc)
            BY <3>2, <4>2 DEF Arrives, Accepts
          <5>2. store \in Records /\ p \in Writes
            BY <1>0, <3>1, <4>2, <5>1 DEF TypeOK
          <5>3. store' \in Records /\ store'.rev = p.rev /\ store'.doc = p.doc
            BY <5>1, <5>2 DEF Records, Writes
          <5>4. store' # None /\ Publishes
            BY <5>1, <5>3, NoneIsNone DEF Publishes
          <5>5. q.at = "stored" /\ q.rev = p.rev /\ q.doc = p.doc
            BY <3>1, <4>1, <4>2, LandDoes
          <5> QED BY <4>1, <4>2, <5>1, <5>3, <5>4, <5>5
        <4>3. CASE u # w \/ j # i
          BY <3>1, <4>1, <4>3, LandDoes
        <4> QED BY <4>2, <4>3
      <3>3. CASE Clear(u, j)
        BY <3>3, ClearDoes
      <3>4. CASE (Land(u, j, "refused") /\ (At(u, j, "sent") \/ At(u, j, "stored"))) \/ Land(u, j, "reading")
        BY <3>1, <3>4, LandDoes DEF Active, At
      <3>5. CASE Reads(u, j) /\ ~ Clear(u, j)
        <4>1. /\ At(u, j, "reading") /\ store # None /\ UNCHANGED <<daemon, events>>
              /\ flight' = [flight EXCEPT ![u][j] = [@ EXCEPT !.at = "read", !.rev = store.rev,
                                                              !.doc = store.doc]]
          BY <3>5 DEF Reads
        <4>2. CASE u = w /\ j = i
          <5>1. q = [p EXCEPT !.at = "read", !.rev = store.rev, !.doc = store.doc]
            BY <4>1, <4>2 DEF TypeOK, Slots
          <5>2. q.at = "read" /\ q.rev = store.rev /\ q.doc = store.doc
            BY <1>0, <3>1, <4>2, <5>1 DEF Writes
          <5> QED BY <4>1, <4>2, <5>2
        <4>3. CASE u # w \/ j # i
          BY <4>1, <4>3 DEF TypeOK, Slots
        <4> QED BY <4>2, <4>3
      <3> QED BY <2>1, <3>2, <3>3, <3>4, <3>5
                 DEF Arrives, Acked, Refused, Reads, Refetched, WriteLost, ReadLost
    <2>2. ASSUME NEW u \in Windows, Push(u) PROVE Goal
      <3>1. CASE win[u].local = win[u].known
        BY <2>2, <3>1 DEF Push
      <3>2. CASE win[u].local # win[u].known
        <4>1. PICK j \in Slots :
                /\ \A x \in Windows, k \in Slots : x # u \/ k # j => flight'[x][k] = flight[x][k]
                /\ flight'[u][j] =
                     [at |-> "sent", rev |-> win[u].rev + 1, doc |-> win[u].local,
                      wasRev |-> win[u].rev, wasKnown |-> win[u].known, base |-> win[u].told.rev]
          BY <2>2, <3>2, PushDoes
        <4>2. flight'[u][j].at = "sent"
          BY <4>1
        <4> QED BY <2>2, <4>1, <4>2
      <3> QED BY <3>1, <3>2
    <2>3. ASSUME NEW u \in Windows,
                 Edit(u) \/ Resubscribe(u) \/ StreamBreaks(u) \/ HandleEvent(u) \/ RenderDone(u)
          PROVE  flight' = flight
      BY <2>3 DEF Edit, NewTerminal, CloseTab, SwitchTab, Resubscribe, StreamBreaks, HandleEvent,
                  RenderDone
    <2>4. ASSUME (\E s \in Sessions, saved \in BOOLEAN : KillSession(s, saved)) \/ KillWorkspace
                   \/ UNCHANGED vars
          PROVE  flight' = flight
      BY <2>4 DEF KillSession, KillWorkspace, vars
    <2> QED BY <2>1, <2>2, <2>3, <2>4 DEF Next, Goes, Fails
  <1> QED BY <1>1, <1>2

\* What slot value p says of the daemon's layout is so.
TrueAnswer(p) ==
    p # None /\ store # None =>
        /\ p.at = "stored" => p.rev <= ledger.rev
        /\ p.at = "read" => p.rev <= store.rev
        /\ p.at \in {"stored", "read"} => SameAs(p, store) /\ SameAs(p, ledger)

\* AnswersTrue, one answer at a time.
LEMMA AnswersAre == AnswersTrue <=> \A w \in Windows, i \in Slots : TrueAnswer(flight[w][i])
  BY DEF AnswersTrue, TrueAnswer, At

\* An answer stays true until it is handled or a restart takes it back.
LEMMA AnswersNext ==
    ASSUME TypeOK, TypeOK', LedgerBehind, LedgerBehind', AnswersTrue, [Next]_vars
    PROVE  AnswersTrue'
  <1> SUFFICES ASSUME NEW w \in Windows, NEW i \in Slots
               PROVE  TrueAnswer(flight[w][i])'
    BY AnswersAre DEF AnswersTrue, TrueAnswer, At
  <1> DEFINE p == flight[w][i]
             q == flight'[w][i]
  <1>0. TrueAnswer(p) /\ (p # None => p.rev \in Nat)
    BY AnswersAre, FlightType DEF Writes
  <1>1. /\ store # None => store.rev \in Nat /\ ledger.rev \in Nat
        /\ store' # None => store'.rev \in Nat /\ ledger'.rev \in Nat
    BY DEF TypeOK, Records, LedgerBehind
  <1>2. CASE q = None \/ q.at \notin {"stored", "read"}
    BY <1>2 DEF TrueAnswer
  <1>3. CASE At(w, i, "reading") /\ store # None /\ q.at = "read"
               /\ q.rev = store.rev /\ q.doc = store.doc /\ UNCHANGED <<daemon, events>>
    BY <1>1, <1>3 DEF TrueAnswer, SameAs, daemon, LedgerBehind
  <1>4. CASE At(w, i, "sent") /\ q.at = "stored" /\ store' # None /\ ledger' = store'
               /\ q.rev = store'.rev /\ q.doc = store'.doc
    BY <1>1, <1>4 DEF TrueAnswer, SameAs
  <1>5. CASE q = p /\ ~ Restart
    <2>1. CASE Calm
      BY <1>0, <1>1, <1>5, <2>1 DEF Calm, SameStored, TrueAnswer, SameAs, LedgerBehind
    <2>2. CASE Publishes
      BY <1>0, <1>1, <1>5, <2>2 DEF Publishes, TrueAnswer, SameAs, LedgerBehind
    <2>3. CASE KillWorkspace
      BY <2>3 DEF KillWorkspace, TrueAnswer
    <2>4. ASSUME NEW u \in Windows, Resubscribe(u) \/ StreamBreaks(u) \/ HandleEvent(u)
          PROVE  UNCHANGED <<store, ledger>>
      BY <2>4 DEF Resubscribe, StreamBreaks, HandleEvent, daemon
    <2> QED BY <1>0, <1>5, <2>1, <2>2, <2>3, <2>4, DaemonSteps DEF TrueAnswer
  <1>6. CASE q = p /\ Restart /\ (p = None \/ p.at \notin {"stored", "read"})
    BY <1>6 DEF TrueAnswer
  <1> QED BY <1>2, <1>3, <1>4, <1>5, <1>6, FlightSteps

\* No window opens again.
LEMMA NeverReopens ==
    ASSUME TypeOK, [Next]_vars, NEW x \in Windows, win'[x].open
    PROVE  win[x].open
  <1>x. win[x] \in Syncs
    BY DEF TypeOK
  <1>1. ASSUME NEW w \in Windows, NEW doc, Rearrange(w, doc)
        PROVE  win[x].open
    <2>1. win'[x] = win[x] \/ win'[x] = Schedule([win[x] EXCEPT !.local = doc, !.unsent = doc # Shows(win[x])])
      BY <1>1 DEF Rearrange, TypeOK
    <2> QED BY <1>x, <2>1 DEF Schedule, Syncs
  <1>2. ASSUME NEW w \in Windows, Edit(w) PROVE win[x].open
    BY <1>1, <1>2 DEF Edit, NewTerminal, CloseTab, SwitchTab
  <1>3. ASSUME NEW w \in Windows, Push(w) PROVE win[x].open
    <2>1. CASE x = w
      BY <1>3, <2>1 DEF Push
    <2>2. CASE x # w
      BY <1>3, <2>2, OthersStay DEF Goes
    <2> QED BY <2>1, <2>2
  <1>4. ASSUME NEW w \in Windows, NEW i \in Slots, Acked(w, i) \/ Refused(w, i) \/ Refetched(w, i)
        PROVE  win[x].open
    BY <1>4 DEF Acked, Refused, Refetched, TypeOK
  <1>5. ASSUME NEW w \in Windows, HandleEvent(w) \/ RenderDone(w) PROVE win[x].open
    BY <1>5, <1>x DEF HandleEvent, RenderDone, TypeOK
  <1>6. ASSUME Restart PROVE win[x].open
    BY <1>6, <1>x DEF Restart, Syncs
  <1>7. ASSUME NEW w \in Windows, NEW i \in Slots,
               Arrives(w, i) \/ Reads(w, i) \/ WriteLost(w, i) \/ ReadLost(w, i)
        PROVE  win' = win
    BY <1>7 DEF Arrives, Reads, WriteLost, ReadLost
  <1>8. ASSUME (\E s \in Sessions, saved \in BOOLEAN : KillSession(s, saved)) \/ KillWorkspace
                 \/ UNCHANGED vars
        PROVE  win' = win
    BY <1>8 DEF KillSession, KillWorkspace, vars
  <1>9. ASSUME NEW w \in Windows, Resubscribe(w) \/ StreamBreaks(w) PROVE win' = win
    BY <1>9 DEF Resubscribe, StreamBreaks
  <1> QED BY <1>2, <1>3, <1>4, <1>5, <1>6, <1>7, <1>8, <1>9 DEF Next, Goes, Fails

\* The three things Forwarded says.
UpToDate(w) ==
    stream[w] = "up" => IF store = None THEN seen[w] = None
                        ELSE seen[w] = [rev |-> store.rev, doc |-> store.doc]

Gone(w) ==
    seen[w] = None => /\ store = None
                      /\ IF Len(inbox[w]) = 0 THEN ~ win[w].open
                         ELSE inbox[w][Len(inbox[w])].kind = "removed"

LeadsUp(w) == seen[w] # None => Leads(inbox[w], seen[w])

\* Forwarded in its three parts: for a stream that is up, for a workspace that is
\* gone, and for the events still to be handled.
LEMMA ForwardedIs ==
    ASSUME NEW w \in Windows
    PROVE  Forwarded(w) <=> UpToDate(w) /\ Gone(w) /\ LeadsUp(w)
  BY DEF Forwarded, UpToDate, Gone, LeadsUp, Leads

\* What one window's stream has forwarded, after a step.
Hears(w) ==
    /\ stream[w] = "up" /\ stream'[w] = "up"
    /\ seen'[w] = [rev |-> store'.rev, doc |-> store'.doc]
    /\ inbox'[w] = Append(inbox[w], LayoutEvent(store'.rev, store'.doc))

SameStream(w) == stream'[w] = stream[w] /\ seen'[w] = seen[w] /\ inbox'[w] = inbox[w]

\* A newer layout reaches every stream that is up.
LEMMA PublishedTo ==
    ASSUME TypeOK, TypeOK', NEW w \in Windows, UpToDate(w), Publishes
    PROVE  Hears(w) \/ (stream[w] # "up" /\ SameStream(w))
  <1>1. CASE stream[w] = "up"
    <2>1. seen[w] # None => seen[w].rev = store.rev
      BY <1>1 DEF UpToDate, Publishes
    <2>2. Forwards(w, store'.rev)
      BY <1>1, <2>1 DEF Forwards, Publishes
    <2> QED BY <1>1, <2>2 DEF Publishes, Broadcast, Hears
  <1>2. CASE stream[w] # "up"
    BY <1>2 DEF Publishes, Broadcast, Forwards, SameStream
  <1> QED BY <1>1, <1>2

\* A step of another window's stream.
LEMMA OtherStream ==
    ASSUME TypeOK, NEW w \in Windows, NEW u \in Windows, u # w,
           Resubscribe(u) \/ StreamBreaks(u) \/ HandleEvent(u)
    PROVE  SameStream(w) /\ UNCHANGED <<store, ledger>>
  BY DEF Resubscribe, StreamBreaks, HandleEvent, SameStream, daemon, TypeOK

\* Layouts of the table, the events about them, and what the streams remember.
LEMMA StreamTypes ==
    ASSUME TypeOK, NEW w \in Windows
    PROVE  /\ store # None => /\ [rev |-> store.rev, doc |-> store.doc] \in Layouts
                              /\ LayoutEvent(store.rev, store.doc) \in Events
                              /\ ResetEvent(store.rev, store.doc) \in Events
           /\ RemovedEvent \in Events
           /\ seen[w] # None => seen[w] \in Layouts
           /\ inbox[w] \in Seq(Events)
  BY NewDocType DEF TypeOK, Records, Layouts, Events, LayoutEvent, ResetEvent, RemovedEvent

\* What a resubscribing stream forwards.
LEMMA ResubscribeDoes ==
    ASSUME TypeOK, NEW w \in Windows, Resubscribe(w), LedgerBehind, Gone(w)
    PROVE  /\ UNCHANGED <<store, ledger, win, flight>> /\ stream[w] = "down" /\ stream'[w] = "up"
           /\ store # None =>
                /\ seen[w] # None /\ seen'[w] = [rev |-> store.rev, doc |-> store.doc]
                /\ \/ inbox'[w] = Append(inbox[w], ResetEvent(store.rev, store.doc))
                   \/ /\ inbox'[w] = Append(inbox[w], LayoutEvent(store.rev, store.doc))
                      /\ store.rev > seen[w].rev \/ (store.rev = seen[w].rev /\ store.doc = seen[w].doc)
           /\ store = None =>
                /\ seen'[w] = None
                /\ \/ inbox'[w] = Append(inbox[w], RemovedEvent)
                   \/ inbox'[w] = inbox[w] /\ seen[w] = None
  <1>0. inbox[w] \in Seq(Events) /\ (seen[w] # None => seen[w].rev \in Nat) /\ (store # None => store.rev \in Nat)
    BY StreamTypes DEF Layouts
  <1>1. \A e : inbox[w] \o <<e>> = Append(inbox[w], e)
    BY <1>0
  <1>2. inbox[w] \o <<>> = inbox[w]
    BY <1>0
  <1>3. inbox'[w] = inbox[w] \o Snapshot(w)
    BY DEF Resubscribe, TypeOK
  <1>4. /\ UNCHANGED <<store, ledger, win, flight>> /\ stream[w] = "down" /\ stream'[w] = "up"
        /\ seen'[w] = IF store = None THEN None ELSE [rev |-> store.rev, doc |-> store.doc]
    BY DEF Resubscribe, daemon, TypeOK
  <1>5. CASE store = None
    <2>1. Snapshot(w) = IF seen[w] = None THEN <<>> ELSE <<RemovedEvent>>
      BY <1>5 DEF Snapshot
    <2> QED BY <1>1, <1>2, <1>3, <1>4, <1>5, <2>1
  <1>6. CASE store # None
    <2>1. seen[w] # None
      BY <1>6 DEF Gone
    <2>2. \/ Snapshot(w) = <<ResetEvent(store.rev, store.doc)>>
          \/ /\ Snapshot(w) = <<LayoutEvent(store.rev, store.doc)>>
             /\ store.rev > seen[w].rev \/ (store.rev = seen[w].rev /\ store.doc = seen[w].doc)
      BY <1>0, <1>6, <2>1 DEF Snapshot
    <2> QED BY <1>1, <1>3, <1>4, <1>6, <2>1, <2>2
  <1> QED BY <1>5, <1>6

\* A stream that hears of a newer layout leads up to it.
LEMMA HearsLeads ==
    ASSUME TypeOK, TypeOK', NEW w \in Windows, Hears(w), Publishes, UpToDate(w), Gone(w), LeadsUp(w)
    PROVE  (UpToDate(w) /\ Gone(w) /\ LeadsUp(w))'
  <1> DEFINE t == [rev |-> store'.rev, doc |-> store'.doc]
             e == LayoutEvent(store'.rev, store'.doc)
  <1>1. store # None /\ store' # None /\ store'.rev > store.rev
    BY DEF Publishes
  <1>2. seen[w] # None /\ seen[w].rev = store.rev
    <2>1. seen[w] = [rev |-> store.rev, doc |-> store.doc]
      BY <1>1 DEF UpToDate, Hears
    <2>2. seen[w] \in Layouts
      BY <1>1, <2>1, StreamTypes
    <2> QED BY <2>1, <2>2, NoneIsNone
  <1>3. store' \in Records /\ seen[w] \in Layouts /\ inbox[w] \in Seq(Events)
    BY <1>1, <1>2 DEF TypeOK
  <1>4. t \in Layouts /\ e \in Events /\ e.rev = t.rev /\ e.doc = t.doc /\ t.rev = store'.rev
    BY <1>3 DEF Records, Layouts, LayoutEvent, Events
  <1>5. seen'[w] = t /\ t # None /\ inbox'[w] = Append(inbox[w], e)
    BY <1>4, NoneIsNone DEF Hears
  <1> HIDE DEF t, e
  <1>6. Leads(Append(inbox[w], e), t)
    BY <1>1, <1>2, <1>3, <1>4, AppendLeads DEF LeadsUp
  <1>7. LeadsUp(w)' /\ Gone(w)'
    BY <1>5, <1>6 DEF LeadsUp, Gone
  <1>8. UpToDate(w)'
    BY <1>1, <1>5 DEF UpToDate, t
  <1> QED BY <1>7, <1>8

\* So does one that is back.
LEMMA ResubscribeLeads ==
    ASSUME TypeOK, TypeOK', LedgerBehind, NEW w \in Windows, Resubscribe(w), Gone(w), LeadsUp(w)
    PROVE  (UpToDate(w) /\ Gone(w) /\ LeadsUp(w))'
  <1>1. /\ UNCHANGED <<store, win>> /\ stream'[w] = "up" /\ inbox[w] \in Seq(Events)
        /\ RemovedEvent \in Events /\ RemovedEvent.kind = "removed"
    BY ResubscribeDoes, StreamTypes DEF RemovedEvent
  <1>2. CASE store = None
    <2>1. seen'[w] = None
      BY <1>2, ResubscribeDoes
    <2>2. \/ inbox'[w] = Append(inbox[w], RemovedEvent)
          \/ inbox'[w] = inbox[w] /\ seen[w] = None
      BY <1>2, ResubscribeDoes
    <2>3. CASE inbox'[w] = Append(inbox[w], RemovedEvent)
      <3>1. Len(inbox'[w]) # 0 /\ inbox'[w][Len(inbox'[w])] = RemovedEvent
        BY <1>1, <2>3, AppendProperties
      <3> QED BY <1>1, <1>2, <2>1, <3>1 DEF UpToDate, Gone, LeadsUp
    <2>4. CASE inbox'[w] = inbox[w] /\ seen[w] = None
      BY <1>1, <1>2, <2>1, <2>4 DEF UpToDate, Gone, LeadsUp
    <2> QED BY <2>2, <2>3, <2>4
  <1>3. CASE store # None
    <2> DEFINE t == [rev |-> store.rev, doc |-> store.doc]
    <2>1. seen[w] # None /\ seen'[w] = t
      BY <1>3, ResubscribeDoes
    <2>2. PICK e : /\ e = ResetEvent(store.rev, store.doc)
                        \/ (e = LayoutEvent(store.rev, store.doc)
                             /\ (store.rev > seen[w].rev
                                   \/ (store.rev = seen[w].rev /\ store.doc = seen[w].doc)))
                   /\ inbox'[w] = Append(inbox[w], e)
      BY <1>3, ResubscribeDoes
    <2>3. e \in Events /\ t \in Layouts /\ seen[w] \in Layouts /\ t # None
      BY <1>3, <2>1, <2>2, StreamTypes, NoneIsNone
    <2>4. /\ t.rev = store.rev /\ t.doc = store.doc /\ e.rev = t.rev /\ e.doc = t.doc
          /\ e.kind = "reset" \/ store.rev > seen[w].rev
                \/ (store.rev = seen[w].rev /\ store.doc = seen[w].doc)
      BY <2>2 DEF ResetEvent, LayoutEvent
    <2>5. store.rev = seen[w].rev /\ store.doc = seen[w].doc => seen[w] = t
      BY <2>3 DEF Layouts
    <2>6. UpToDate(w)'
      BY <1>1, <1>3, <2>1 DEF UpToDate
    <2>7. t.rev \in Nat /\ seen[w].rev \in Nat
      BY <2>3 DEF Layouts
    <2> HIDE DEF t
    <2>8. e.kind = "reset" \/ seen[w].rev < t.rev \/ seen[w] = t
      BY <2>4, <2>5, <2>7
    <2>9. Leads(Append(inbox[w], e), t)
      BY <1>1, <2>1, <2>3, <2>4, <2>8, AppendLeads DEF LeadsUp
    <2> QED BY <2>1, <2>2, <2>3, <2>6, <2>9 DEF Gone, LeadsUp
  <1> QED BY <1>2, <1>3

\* So does one whose first event is handled.
LEMMA HandledLeads ==
    ASSUME TypeOK, TypeOK', NEW w \in Windows, HandleEvent(w), UpToDate(w), Gone(w), LeadsUp(w)
    PROVE  (UpToDate(w) /\ Gone(w) /\ LeadsUp(w))'
  <1> DEFINE q == inbox[w]
  <1>1. /\ q \in Seq(Events) /\ q # <<>> /\ inbox'[w] = Tail(q)
        /\ UNCHANGED <<store, stream, seen>>
    BY DEF HandleEvent, TypeOK, daemon
  <1>2. UpToDate(w)'
    BY <1>1 DEF UpToDate
  <1>3. LeadsUp(w)'
    BY <1>1, TailLeads DEF LeadsUp
  <1>4. ASSUME seen[w] = None PROVE Gone(w)'
    <2>1. store = None /\ Len(q) \in Nat /\ Len(q) # 0 /\ q[Len(q)].kind = "removed"
      BY <1>1, <1>4, EmptySeq, LenProperties DEF Gone
    <2>2. Len(Tail(q)) = Len(q) - 1 /\ \A i \in 1 .. Len(q) - 1 : Tail(q)[i] = q[i + 1]
      BY <1>1, HeadTailProperties
    <2>3. CASE Len(q) = 1
      <3>1. Head(q).kind = "removed"
        BY <1>1, <2>1, <2>3
      <3>2. ~ win'[w].open
        BY <3>1 DEF HandleEvent, TypeOK, Forgotten, Installed
      <3> QED BY <1>1, <2>1, <2>2, <2>3, <3>2 DEF Gone
    <2>4. CASE Len(q) # 1
      <3>1. Len(Tail(q)) # 0 /\ Tail(q)[Len(Tail(q))] = q[Len(q)]
        <4>0. \A n \in Nat : n # 0 /\ n # 1 => n - 1 \in 1 .. n - 1 /\ (n - 1) + 1 = n /\ n - 1 # 0
          OBVIOUS
        <4>1. Len(q) - 1 \in 1 .. Len(q) - 1 /\ (Len(q) - 1) + 1 = Len(q) /\ Len(q) - 1 # 0
          BY <2>1, <2>4, <4>0
        <4>2. Tail(q)[Len(q) - 1] = q[(Len(q) - 1) + 1]
          BY <2>2, <4>1
        <4> QED BY <2>2, <4>1, <4>2
      <3> QED BY <1>1, <2>1, <3>1 DEF Gone
    <2> QED BY <2>3, <2>4
  <1>5. Gone(w)'
    BY <1>1, <1>4 DEF Gone
  <1> QED BY <1>2, <1>3, <1>5

\* A window's stream stays true to the daemon.
LEMMA ForwardedNext ==
    ASSUME TypeOK, TypeOK', LedgerBehind, [Next]_vars, NEW w \in Windows, Forwarded(w)
    PROVE  Forwarded(w)'
  <1>0. UpToDate(w) /\ Gone(w) /\ LeadsUp(w)
    BY ForwardedIs
  <1> SUFFICES (UpToDate(w) /\ Gone(w) /\ LeadsUp(w))'
    BY DEF Forwarded, UpToDate, Gone, LeadsUp, Leads
  <1>x. win'[w].open => win[w].open
    BY NeverReopens
  <1>1. CASE Calm
    BY <1>0, <1>x, <1>1 DEF Calm, SameStored, events, UpToDate, Gone, LeadsUp
  <1>2. CASE Publishes
    <2>1. CASE Hears(w)
      BY <1>0, <1>2, <2>1, HearsLeads
    <2>2. CASE stream[w] # "up" /\ SameStream(w)
      BY <1>0, <1>x, <1>2, <2>2 DEF SameStream, UpToDate, Gone, LeadsUp, Publishes
    <2> QED BY <1>0, <1>2, <2>1, <2>2, PublishedTo
  <1>3. CASE KillWorkspace
    <2>0. store # None /\ store' = None /\ seen[w] # None /\ stream'[w] = stream[w]
      BY <1>0, <1>3 DEF KillWorkspace, Gone
    <2>1. CASE stream[w] = "up"
      <3>1. seen'[w] = None /\ inbox'[w] = Append(inbox[w], RemovedEvent) /\ RemovedEvent \in Events
            /\ inbox[w] \in Seq(Events) /\ RemovedEvent.kind = "removed"
        BY <1>3, <2>1, StreamTypes DEF KillWorkspace, RemovedEvent
      <3>2. Len(inbox'[w]) # 0 /\ inbox'[w][Len(inbox'[w])] = RemovedEvent
        BY <3>1, AppendProperties
      <3> QED BY <2>0, <3>1, <3>2 DEF UpToDate, Gone, LeadsUp
    <2>2. CASE stream[w] # "up"
      <3>1. seen'[w] = seen[w] /\ inbox'[w] = inbox[w]
        BY <1>3, <2>2 DEF KillWorkspace
      <3> QED BY <1>0, <2>0, <2>2, <3>1 DEF UpToDate, Gone, LeadsUp
    <2> QED BY <2>1, <2>2
  <1>4. CASE Restart
    <2>1. store' = ledger /\ stream'[w] = "down" /\ seen' = seen /\ inbox' = inbox
      BY <1>4 DEF Restart
    <2> QED BY <1>0, <1>x, <2>1 DEF UpToDate, Gone, LeadsUp, LedgerBehind
  <1>5. ASSUME NEW u \in Windows, u # w, Resubscribe(u) \/ StreamBreaks(u) \/ HandleEvent(u)
        PROVE  (UpToDate(w) /\ Gone(w) /\ LeadsUp(w))'
    <2>1. SameStream(w) /\ UNCHANGED <<store, ledger>>
      BY <1>5, OtherStream
    <2> QED BY <1>0, <1>x, <2>1 DEF SameStream, UpToDate, Gone, LeadsUp
  <1>6. CASE StreamBreaks(w)
    BY <1>0, <1>6 DEF StreamBreaks, daemon, UpToDate, Gone, LeadsUp, TypeOK
  <1> QED BY <1>0, <1>1, <1>2, <1>3, <1>4, <1>5, <1>6, DaemonSteps, ResubscribeLeads, HandledLeads

\* What the streams, the answers and the ledger say of the daemon's layout is so.
LEMMA StreamTrueNext ==
    ASSUME TypeOK, TypeOK', StreamTrue, [Next]_vars
    PROVE  StreamTrue'
  <1>1. LedgerBehind'
    BY LedgerNext DEF StreamTrue
  <1>2. AnswersTrue'
    BY <1>1, AnswersNext DEF StreamTrue
  <1>3. \A w \in Windows : Forwarded(w)'
    BY ForwardedNext DEF StreamTrue
  <1> QED BY <1>1, <1>2, <1>3 DEF StreamTrue

\* The first daemon has saved its layout and every stream starts from it.
LEMMA StreamTrueInit == ASSUME Init, TypeOK PROVE StreamTrue
  <1>1. store # None /\ ledger = store /\ store.rev = 0 /\ store.doc = NewDoc
    BY NewDocType, NoneIsNone, SyncAssumption DEF Init, Records
  <1>2. LedgerBehind
    BY <1>1 DEF LedgerBehind, SameAs, TypeOK, Records
  <1>3. AnswersTrue
    BY DEF Init, AnswersTrue, At
  <1>4. ASSUME NEW w \in Windows PROVE Forwarded(w)
    <2>1. seen[w] = [rev |-> 0, doc |-> NewDoc] /\ seen[w] # None /\ inbox[w] = <<>>
      BY NewDocType, NoneIsNone DEF Init, Layouts
    <2> QED BY <1>1, <2>1 DEF Forwarded
  <1> QED BY <1>2, <1>3, <1>4 DEF StreamTrue

-----------------------------------------------------------------------------
(* What a window can be holding.                                            *)

\* A newer layout t is stored, and forwarded.
LEMMA FitsHeard ==
    ASSUME NEW x \in Layouts, NEW s \in Records, NEW l \in Records, NEW n \in Layouts,
           Fits(x, s, l, n), n.rev = s.rev, l.rev <= s.rev,
           NEW t \in Records, t.rev > s.rev, NEW k \in {l, t}, NEW m \in Layouts, m.rev = t.rev
    PROVE  Fits(x, t, k, m)
  BY DEF Fits, Layouts, Records

\* A newer layout t is stored while the stream is down.
LEMMA FitsMissed ==
    ASSUME NEW x \in Layouts, NEW s \in Records, NEW l \in Records, NEW n \in Layouts,
           Fits(x, s, l, n), NEW t \in Records, t.rev > s.rev, NEW k \in {l, t}
    PROVE  Fits(x, t, k, n)
  <1>1. x.rev \in Nat /\ s.rev \in Nat /\ l.rev \in Nat /\ n.rev \in Nat /\ t.rev \in Nat
    BY DEF Layouts, Records
  <1>2. x.rev <= t.rev \/ x.rev <= n.rev
    BY <1>1 DEF Fits
  <1>3. x.rev > t.rev /\ x.rev = n.rev => SameStructure(x.doc, n.doc)
    BY <1>1 DEF Fits
  <1>4. ASSUME NEW d \in {t, k}, x.rev = d.rev, d.rev > n.rev \/ (d.rev = n.rev /\ d.doc = n.doc)
        PROVE  SameStructure(x.doc, d.doc)
    <2>1. CASE d = l
      BY <1>4, <2>1 DEF Fits
    <2>2. CASE d = t
      BY <1>1, <1>4, <2>2 DEF Fits, SameStructure
    <2> QED BY <2>1, <2>2
  <1> QED BY <1>2, <1>3, <1>4 DEF Fits

\* The stream is back and what is stored is as new as what it had forwarded.
LEMMA FitsBack ==
    ASSUME NEW x \in Layouts, NEW s \in Records, NEW l \in Records, NEW n \in Layouts,
           Fits(x, s, l, n), l.rev <= s.rev, NEW m \in Layouts, m.rev = s.rev, m.doc = s.doc,
           s.rev > n.rev \/ (s.rev = n.rev /\ s.doc = n.doc)
    PROVE  Fits(x, s, l, m)
  BY DEF Fits, Layouts, Records, SameStructure

\* The ledger is what is stored now, and the window can know that it is.
LEMMA FitsRestart ==
    ASSUME NEW x \in Layouts, NEW s \in Records, NEW l \in Records, NEW n \in Layouts,
           Fits(x, s, l, n),
           ~ (l.rev < x.rev /\ (n.rev < x.rev \/ (n.rev = x.rev /\ ~ SameStructure(n.doc, x.doc))))
    PROVE  Fits(x, l, l, n)
  BY DEF Fits, Layouts, Records, SameStructure

\* What was forwarded fits.
LEMMA FitsEvent ==
    ASSUME NEW x \in Layouts, NEW s \in Records, NEW l \in Records, NEW n \in Layouts,
           x.rev <= n.rev, SameAs(x, n)
    PROVE  Fits(x, s, l, n)
  BY DEF Fits, Layouts, Records, SameStructure, SameAs

\* So does what was answered.
LEMMA FitsAnswer ==
    ASSUME NEW x \in Layouts, NEW s \in Records, NEW l \in Records, NEW n \in Layouts,
           x.rev <= s.rev, SameAs(x, s), SameAs(x, l)
    PROVE  Fits(x, s, l, n)
  BY DEF Fits, Layouts, Records, SameStructure, SameAs

\* What is stored stays, whether or not the ledger catches up with it.
LEMMA FitsCalm ==
    ASSUME NEW x \in Layouts, NEW s \in Records, NEW l \in Records, NEW n \in Layouts,
           Fits(x, s, l, n), NEW t \in Records, t.rev = s.rev, t.doc = s.doc, NEW k \in {l, t}
    PROVE  Fits(x, t, k, n)
  BY DEF Fits, Layouts, Records, SameStructure

\* While the workspace is there, so is what window w's stream remembers of it.
LEMMA ViewTypes ==
    ASSUME TypeOK, StreamTrue, NEW w \in Windows, store # None
    PROVE  /\ store \in Records /\ ledger \in Records /\ ledger # None
           /\ seen[w] \in Layouts /\ seen[w] # None
           /\ ledger.rev <= store.rev /\ SameAs(ledger, store)
           /\ store.rev \in Nat /\ ledger.rev \in Nat /\ seen[w].rev \in Nat
           /\ win[w] \in Syncs /\ win[w].told \in Layouts
           /\ win[w].queued # None => win[w].queued \in Layouts
  <1>1. store \in Records /\ ledger \in Records /\ ledger # None
        /\ ledger.rev <= store.rev /\ SameAs(ledger, store)
    BY DEF TypeOK, StreamTrue, LedgerBehind
  <1>2. seen[w] # None
    BY DEF StreamTrue, Forwarded
  <1>3. seen[w] \in Layouts
    BY <1>2 DEF TypeOK
  <1> QED BY <1>1, <1>2, <1>3 DEF TypeOK, Records, Layouts, Syncs

\* Nothing is forwarded to window w.
StreamStays(w) ==
    seen'[w] = seen[w] /\ inbox'[w] = inbox[w] /\ (stream'[w] = "up" => stream[w] = "up")

\* A step that leaves the daemon's layout and the streams as they are keeps the
\* invariant of a window if the window's own part of it is kept.
LEMMA CalmKeeps ==
    ASSUME TypeOK, TypeOK', StreamTrue, StreamTrue', [Next]_vars, NEW w \in Windows, WindowInv(w),
           SameStored, StreamStays(w),
           QueuedAhead(win'[w]),
           CapturesAll(win'[w], flight'[w][1]),
           store # None /\ Heard(win[w], flight[w][1], store.rev)
              => Heard(win'[w], flight'[w][1], store.rev),
           win[w].open /\ store # None /\ ~ win'[w].stranded
              /\ (~ win[w].stranded => Holding(win[w], store, ledger, seen[w]))
              => Holding(win'[w], store, ledger, seen[w])
    PROVE  WindowInv(w)'
  <1>1. win'[w].open => win[w].open
    BY NeverReopens
  <1>2. /\ stream'[w] = "up" => stream[w] = "up"
        /\ inbox'[w] = inbox[w] /\ seen'[w] = seen[w]
        /\ store' # None => store # None /\ store'.rev = store.rev /\ store'.doc = store.doc
        /\ ledger' \in {ledger, store'}
    BY DEF StreamStays, SameStored
  <1>3. HasHeard(w)'
    BY <1>1, <1>2 DEF WindowInv, HasHeard, Listens
  <1>4. HoldsStored(w)'
    <2> SUFFICES ASSUME win'[w].open, ~ win'[w].stranded, Clean(w)'
                 PROVE  Holding(win'[w], store', ledger', seen'[w])
      BY DEF HoldsStored
    <2>1. Clean(w) /\ store' # None /\ store # None
      BY <1>2 DEF Clean
    <2>2. Holding(win'[w], store, ledger, seen[w])
      BY <1>1, <2>1 DEF WindowInv, HoldsStored
    <2>3. /\ store \in Records /\ ledger \in Records /\ seen[w] \in Layouts
          /\ store' \in Records /\ win'[w].told \in Layouts
          /\ win'[w].queued # None => win'[w].queued \in Layouts
      BY <2>1, ViewTypes DEF TypeOK, Syncs
    <2>4. Fits(win'[w].told, store', ledger', seen[w])
      BY <1>2, <2>1, <2>2, <2>3, FitsCalm DEF Holding
    <2>5. win'[w].queued # None => Fits(win'[w].queued, store', ledger', seen[w])
      BY <1>2, <2>1, <2>2, <2>3, FitsCalm DEF Holding
    <2> QED BY <1>2, <2>4, <2>5 DEF Holding
  <1> QED BY <1>3, <1>4 DEF WindowInv

\* What is in the slot of a window that does not move.
LEMMA SlotStays ==
    ASSUME TypeOK, [Next]_vars, NEW w \in Windows, ~ Push(w)
    PROVE  LET p == flight[w][1]
               q == flight'[w][1]
           IN  /\ Active(q) => Active(p)
               /\ store # None /\ SameStored => \A v : Heard(v, p, store.rev) => Heard(v, q, store.rev)
  <1> DEFINE p == flight[w][1]
             q == flight'[w][1]
  <1>0. 1 \in Slots /\ (store # None => store.rev \in Nat)
    BY FirstSlot DEF TypeOK, Records
  <1>1. \/ q = p
        \/ q = None
        \/ q.at \notin {"stored", "read"} /\ (Active(p) \/ ~ Active(q))
        \/ q.at = "read" /\ q.rev = store.rev /\ store # None
        \/ Active(p) /\ Publishes
    BY <1>0, FlightSteps DEF Active, At
  <1>2. Active(q) => Active(p)
    BY <1>1 DEF Active
  <1>3. ASSUME store # None, SameStored, NEW v, Heard(v, p, store.rev)
        PROVE  Heard(v, q, store.rev)
    <2>1. ~ Publishes
      BY <1>0, <1>3 DEF Publishes, SameStored
    <2> QED BY <1>0, <1>1, <1>3, <2>1 DEF Heard
  <1> QED BY <1>2, <1>3

\* An event is appended to those of window w.
LEMMA AppendClean ==
    ASSUME TypeOK, NEW w \in Windows, NEW e \in Events, inbox'[w] = Append(inbox[w], e)
    PROVE  /\ inbox'[w] # <<>>
           /\ Clean(w)' /\ store # None => Clean(w) /\ e.kind # "reset"
  <1> DEFINE q == inbox[w]
  <1>1. /\ q \in Seq(Events) /\ Len(q) \in Nat
    BY LenProperties DEF TypeOK
  <1>2. /\ inbox'[w] # <<>> /\ Len(inbox'[w]) = Len(q) + 1 /\ inbox'[w][Len(q) + 1] = e
        /\ \A i \in 1 .. Len(q) : inbox'[w][i] = q[i]
    BY <1>1, AppendProperties
  <1>3. ASSUME Clean(w)', store # None PROVE Clean(w) /\ e.kind # "reset"
    <2>1. \A i \in 1 .. Len(q) + 1 : inbox'[w][i].kind # "reset"
      BY <1>2, <1>3 DEF Clean
    <2>2. Len(q) + 1 \in 1 .. Len(q) + 1 /\ \A i \in 1 .. Len(q) : i \in 1 .. Len(q) + 1
      BY <1>1
    <2> QED BY <1>2, <1>3, <2>1, <2>2 DEF Clean
  <1> QED BY <1>2, <1>3

\* A newer layout is stored: a window that hears of it has it yet to handle, and
\* one that does not is down.
LEMMA PublishKeeps ==
    ASSUME TypeOK, TypeOK', StreamTrue, StreamTrue', Publishes, NEW w \in Windows, WindowInv(w),
           win'[w] = win[w]
    PROVE  HasHeard(w)' /\ HoldsStored(w)'
  <1>0. store # None /\ store' # None /\ store'.rev > store.rev /\ ledger' \in {ledger, store'}
    BY DEF Publishes
  <1>1. /\ store \in Records /\ ledger \in Records /\ seen[w] \in Layouts /\ store' \in Records
        /\ ledger.rev <= store.rev /\ win[w].told \in Layouts
        /\ win[w].queued # None => win[w].queued \in Layouts
    BY <1>0, ViewTypes DEF TypeOK
  <1>2. UpToDate(w)
    BY ForwardedIs DEF StreamTrue
  <1>3. CASE Hears(w)
    <2> DEFINE e == LayoutEvent(store'.rev, store'.doc)
               m == [rev |-> store'.rev, doc |-> store'.doc]
    <2>1. inbox'[w] = Append(inbox[w], e) /\ e \in Events /\ seen'[w] = m /\ m \in Layouts /\ m.rev = store'.rev
      BY <1>1, <1>3 DEF Hears, Events, LayoutEvent, Records, Layouts
    <2>2. seen[w].rev = store.rev
      BY <1>0, <1>2, <1>3 DEF UpToDate, Hears
    <2> HIDE DEF e, m
    <2>3. HasHeard(w)'
      BY <2>1, AppendClean DEF HasHeard, Listens
    <2>4. ASSUME win[w].open, ~ win[w].stranded, Clean(w)'
          PROVE  Holding(win[w], store', ledger', m)
      <3>1. Clean(w)
        BY <1>0, <2>1, <2>4, AppendClean
      <3>2. Holding(win[w], store, ledger, seen[w])
        BY <2>4, <3>1 DEF WindowInv, HoldsStored
      <3>3. Fits(win[w].told, store', ledger', m)
        BY <1>0, <1>1, <2>1, <2>2, <3>2, FitsHeard DEF Holding
      <3>4. win[w].queued # None => Fits(win[w].queued, store', ledger', m)
        BY <1>0, <1>1, <2>1, <2>2, <3>2, FitsHeard DEF Holding
      <3> QED BY <3>3, <3>4 DEF Holding
    <2> QED BY <2>1, <2>3, <2>4 DEF HoldsStored
  <1>4. CASE stream[w] # "up" /\ SameStream(w)
    <2>1. HasHeard(w)'
      BY <1>4 DEF HasHeard, Listens, SameStream
    <2>2. ASSUME win[w].open, ~ win[w].stranded, Clean(w)'
          PROVE  Holding(win[w], store', ledger', seen[w])
      <3>1. Clean(w)
        BY <1>0, <1>4, <2>2 DEF SameStream, Clean
      <3>2. Holding(win[w], store, ledger, seen[w])
        BY <2>2, <3>1 DEF WindowInv, HoldsStored
      <3>3. Fits(win[w].told, store', ledger', seen[w])
        BY <1>0, <1>1, <3>2, FitsMissed DEF Holding
      <3>4. win[w].queued # None => Fits(win[w].queued, store', ledger', seen[w])
        BY <1>0, <1>1, <3>2, FitsMissed DEF Holding
      <3> QED BY <3>3, <3>4 DEF Holding
    <2> QED BY <1>4, <2>1, <2>2 DEF HoldsStored, SameStream
  <1> QED BY <1>2, <1>3, <1>4, PublishedTo

\* A stream that is back has news for its window, or a reset.
LEMMA ResubscribeKeeps ==
    ASSUME TypeOK, TypeOK', StreamTrue, NEW w \in Windows, Resubscribe(w), WindowInv(w)
    PROVE  HasHeard(w)' /\ HoldsStored(w)'
  <1>0. /\ UNCHANGED <<store, ledger, win, flight>>
        /\ Gone(w) /\ LedgerBehind
    BY ForwardedIs, ResubscribeDoes DEF StreamTrue
  <1>1. CASE store = None
    BY <1>0, <1>1 DEF HasHeard, HoldsStored, Listens, Clean
  <1>2. CASE store # None
    <2> DEFINE m == [rev |-> store.rev, doc |-> store.doc]
    <2>1. /\ store \in Records /\ ledger \in Records /\ seen[w] \in Layouts
          /\ ledger.rev <= store.rev /\ win[w].told \in Layouts
          /\ win[w].queued # None => win[w].queued \in Layouts
      BY <1>2, ViewTypes
    <2>2. m \in Layouts /\ m.rev = store.rev /\ m.doc = store.doc
      BY <2>1 DEF Records, Layouts
    <2>3. seen'[w] = m
      BY <1>0, <1>2, ResubscribeDoes
    <2>4. PICK e : /\ e = ResetEvent(store.rev, store.doc)
                        \/ (e = LayoutEvent(store.rev, store.doc)
                             /\ (store.rev > seen[w].rev
                                   \/ (store.rev = seen[w].rev /\ store.doc = seen[w].doc)))
                   /\ inbox'[w] = Append(inbox[w], e)
      BY <1>0, <1>2, ResubscribeDoes
    <2>5. e \in Events /\ ResetEvent(store.rev, store.doc).kind = "reset"
      BY <1>2, <2>4, StreamTypes DEF ResetEvent
    <2> HIDE DEF m
    <2>6. HasHeard(w)'
      BY <2>4, <2>5, AppendClean DEF HasHeard, Listens
    <2>7. ASSUME win[w].open, ~ win[w].stranded, Clean(w)'
          PROVE  Holding(win[w], store, ledger, m)
      <3>1. Clean(w) /\ e.kind # "reset"
        BY <1>2, <2>4, <2>5, <2>7, AppendClean
      <3>2. Holding(win[w], store, ledger, seen[w])
        BY <2>7, <3>1 DEF WindowInv, HoldsStored
      <3>3. store.rev > seen[w].rev \/ (store.rev = seen[w].rev /\ store.doc = seen[w].doc)
        BY <2>4, <2>5, <3>1
      <3>4. Fits(win[w].told, store, ledger, m)
        BY <2>1, <2>2, <3>2, <3>3, FitsBack DEF Holding
      <3>5. win[w].queued # None => Fits(win[w].queued, store, ledger, m)
        BY <2>1, <2>2, <3>2, <3>3, FitsBack DEF Holding
      <3> QED BY <3>4, <3>5 DEF Holding
    <2> QED BY <1>0, <2>3, <2>6, <2>7 DEF HoldsStored
  <1> QED BY <1>1, <1>2

\* A window that does not move keeps its invariant, whatever the others do.
LEMMA UnmovedKeeps ==
    ASSUME TypeOK, TypeOK', StreamTrue, StreamTrue', [Next]_vars,
           NEW w \in Windows, WindowInv(w), win'[w] = win[w], ~ Push(w), ~ Restart, ~ HandleEvent(w)
    PROVE  WindowInv(w)'
  <1>1. QueuedAhead(win'[w]) /\ CapturesAll(win'[w], flight'[w][1])
    <2>1. Active(flight'[w][1]) => Active(flight[w][1])
      BY SlotStays
    <2> QED BY <2>1 DEF WindowInv, CapturesAll
  <1>2. ASSUME SameStored, StreamStays(w) PROVE WindowInv(w)'
    <2>1. store # None /\ Heard(win[w], flight[w][1], store.rev)
             => Heard(win'[w], flight'[w][1], store.rev)
      BY <1>2, SlotStays
    <2>2. win[w].open /\ store # None /\ ~ win'[w].stranded
            /\ (~ win[w].stranded => Holding(win[w], store, ledger, seen[w]))
            => Holding(win'[w], store, ledger, seen[w])
      OBVIOUS
    <2> QED BY <1>1, <1>2, <2>1, <2>2, CalmKeeps
  <1>3. CASE Calm
    BY <1>2, <1>3 DEF Calm, events, StreamStays
  <1>4. CASE Publishes
    BY <1>1, <1>4, PublishKeeps DEF WindowInv
  <1>5. CASE KillWorkspace
    BY <1>1, <1>5 DEF KillWorkspace, WindowInv, HasHeard, HoldsStored, Listens, Clean
  <1>6. ASSUME NEW u \in Windows, u # w, Resubscribe(u) \/ StreamBreaks(u) \/ HandleEvent(u)
        PROVE  WindowInv(w)'
    BY <1>2, <1>6, OtherStream DEF SameStream, StreamStays, SameStored
  <1>7. CASE StreamBreaks(w)
    BY <1>2, <1>7 DEF StreamBreaks, StreamStays, SameStored, daemon, TypeOK
  <1>8. CASE Resubscribe(w)
    BY <1>1, <1>8, ResubscribeKeeps DEF WindowInv
  <1> QED BY <1>3, <1>4, <1>5, <1>6, <1>7, <1>8, DaemonSteps

\* A restart strands a window, or takes back only what its stream will notice.
LEMMA RestartKeeps ==
    ASSUME TypeOK, TypeOK', StreamTrue, StreamTrue', [Next]_vars,
           NEW w \in Windows, WindowInv(w), Restart, ~ Push(w)
    PROVE  WindowInv(w)'
  <1> DEFINE v == win[w]
             n == win'[w]
  <1>0. /\ store' = ledger /\ ledger' = ledger /\ stream'[w] = "down"
        /\ inbox' = inbox /\ seen' = seen
        /\ n = [v EXCEPT !.stranded =
                  \/ @
                  \/ /\ ledger # None /\ seen[w] # None
                     /\ \/ TakenBack(w, v.told)
                        \/ v.queued # None /\ TakenBack(w, v.queued)]
    BY DEF Restart
  <1>1. /\ v \in Syncs /\ n.open = v.open /\ n.local = v.local /\ n.known = v.known /\ n.rev = v.rev
        /\ n.pending = v.pending /\ n.render = v.render /\ n.refused = v.refused
        /\ n.told = v.told /\ n.queued = v.queued
        /\ ~ n.stranded =>
             ~ v.stranded /\ (ledger # None /\ seen[w] # None =>
                ~ TakenBack(w, v.told) /\ (v.queued # None => ~ TakenBack(w, v.queued)))
    BY <1>0 DEF TypeOK, Syncs
  <1> HIDE DEF n
  <1>2. QueuedAhead(n)
    BY <1>1 DEF WindowInv, QueuedAhead
  <1>3. CapturesAll(n, flight'[w][1])
    <2>1. Active(flight'[w][1]) => Active(flight[w][1])
      BY SlotStays
    <2>2. CapturesAll(v, flight[w][1])
      BY DEF WindowInv
    <2> QED BY <1>1, <2>1, <2>2 DEF CapturesAll
  <1>4. HasHeard(w)'
    BY <1>0 DEF HasHeard, Listens
  <1>5. ASSUME n.open, ~ n.stranded, Clean(w)'
        PROVE  Holding(n, ledger, ledger, seen[w])
    <2>1. ledger # None /\ store # None /\ Clean(w)
      BY <1>0, <1>5 DEF Clean, StreamTrue, LedgerBehind
    <2>2. /\ store \in Records /\ ledger \in Records /\ seen[w] \in Layouts /\ seen[w] # None
          /\ v.told \in Layouts /\ (v.queued # None => v.queued \in Layouts)
      BY <2>1, ViewTypes
    <2>3. Holding(v, store, ledger, seen[w])
      BY <1>1, <1>5, <2>1 DEF WindowInv, HoldsStored
    <2>4. Fits(v.told, ledger, ledger, seen[w])
      BY <1>1, <1>5, <2>1, <2>2, <2>3, FitsRestart DEF Holding, TakenBack
    <2>5. v.queued # None => Fits(v.queued, ledger, ledger, seen[w])
      BY <1>1, <1>5, <2>1, <2>2, <2>3, FitsRestart DEF Holding, TakenBack
    <2> QED BY <1>1, <2>4, <2>5 DEF Holding
  <1>6. HoldsStored(w)'
    BY <1>0, <1>5 DEF HoldsStored, n
  <1> QED BY <1>2, <1>3, <1>4, <1>6 DEF WindowInv, n

-----------------------------------------------------------------------------
(* What a window's own steps keep.                                          *)

\* The rest of CalmKeeps, for a sync that was told nothing new.
LEMMA SameHeld ==
    ASSUME NEW v, NEW n, NEW s, NEW l, NEW m, Holding(v, s, l, m),
           n.told = v.told, n.queued = v.queued
    PROVE  Holding(n, s, l, m)
  BY DEF Holding

\* An edit arms a capture.
LEMMA EditKeeps ==
    ASSUME TypeOK, TypeOK', StreamTrue, StreamTrue', [Next]_vars,
           NEW w \in Windows, WindowInv(w), Edit(w)
    PROVE  WindowInv(w)'
  <1> DEFINE v == win[w]
             n == win'[w]
  <1>1. PICK doc : Rearrange(w, doc)
    BY DEF Edit, NewTerminal, CloseTab, SwitchTab
  <1> DEFINE m == [v EXCEPT !.local = doc, !.unsent = doc # Shows(v)]
  <1>2. v \in Syncs /\ n \in Syncs /\ n = Schedule(m)
    BY <1>1 DEF Rearrange, TypeOK
  <1>3. /\ n.told = v.told /\ n.queued = v.queued /\ n.rev = v.rev /\ n.refused = v.refused
        /\ n.open = v.open /\ n.stranded = v.stranded
        /\ n.render = v.render /\ (n.render = None => n.pending)
    BY <1>2 DEF Schedule, Syncs
  <1>4. flight' = flight /\ SameStored /\ StreamStays(w)
    <2>1. flight' = flight /\ UNCHANGED events
      BY DEF Edit, NewTerminal, CloseTab, SwitchTab
    <2>2. ASSUME NEW s \in Sessions, NewTerminal(w, s) PROVE SameStored
      <3>1. store # None /\ store' = [store EXCEPT !.alive = @ \cup {s}] /\ ledger' = store'
        BY <2>2 DEF NewTerminal
      <3>2. store' \in Records /\ store'.rev = store.rev /\ store'.doc = store.doc
        BY <3>1 DEF Records, TypeOK
      <3> QED BY <3>1, <3>2, NoneIsNone DEF SameStored
    <2> QED BY <2>1, <2>2 DEF Edit, CloseTab, SwitchTab, SameStored, StreamStays, events, daemon
  <1> HIDE DEF n, m
  <1>5. QueuedAhead(n)
    BY <1>3 DEF WindowInv, QueuedAhead
  <1>6. CapturesAll(n, flight'[w][1])
    BY <1>3 DEF CapturesAll
  <1>7. store # None /\ Heard(v, flight[w][1], store.rev) => Heard(n, flight'[w][1], store.rev)
    BY <1>3, <1>4 DEF Heard
  <1>8. v.open /\ store # None /\ ~ n.stranded
            /\ (~ v.stranded => Holding(v, store, ledger, seen[w]))
            => Holding(n, store, ledger, seen[w])
    BY <1>3, SameHeld
  <1> QED BY <1>4, <1>5, <1>6, <1>7, <1>8, CalmKeeps DEF n

\* push captures what is shown.
LEMMA PushKeeps ==
    ASSUME TypeOK, TypeOK', StreamTrue, StreamTrue', [Next]_vars,
           NEW w \in Windows, WindowInv(w), Push(w), Alone(w)', RendersFirst(win[w])
    PROVE  WindowInv(w)'
  <1> DEFINE v == win[w]
             n == win'[w]
             p == flight[w][1]
             q == flight'[w][1]
  <1>1. v \in Syncs /\ v.pending /\ v.open /\ SameStored /\ StreamStays(w)
    BY DEF Push, TypeOK, SameStored, StreamStays, daemon, events
  <1>2. v.render = None /\ v.queued = None
    BY <1>1 DEF RendersFirst
  <1>3. /\ n.told = v.told /\ n.queued = v.queued /\ n.refused = v.refused /\ n.stranded = v.stranded
        /\ n.local = n.known /\ n.rev \in Nat /\ n.rev >= v.rev
        /\ q = p \/ (p = None /\ q.at = "sent")
    <2>1. CASE v.local = v.known
      <3>1. n = [v EXCEPT !.pending = FALSE, !.unsent = FALSE] /\ flight' = flight
        BY <1>1, <2>1 DEF Push, TypeOK
      <3> QED BY <1>1, <2>1, <3>1 DEF Syncs
    <2>2. CASE v.local # v.known
      <3>1. PICK i \in Slots :
              /\ flight[w][i] = None
              /\ flight'[w][i] = [at |-> "sent", rev |-> v.rev + 1, doc |-> v.local,
                      wasRev |-> v.rev, wasKnown |-> v.known, base |-> v.told.rev]
              /\ n = [v EXCEPT !.pending = FALSE, !.unsent = FALSE, !.rev = @ + 1, !.known = v.local,
                               !.lapped = @ \/ i # 1]
        BY <2>2, PushDoes
      <3>0. n.lapped = (v.lapped \/ i # 1)
        BY <1>1, <3>1 DEF Syncs
      <3>2. i = 1
        BY <3>0 DEF Alone
      <3>3. p = None /\ q.at = "sent"
        BY <3>1, <3>2
      <3>4. /\ n.told = v.told /\ n.queued = v.queued /\ n.refused = v.refused /\ n.stranded = v.stranded
            /\ n.local = n.known /\ n.rev = v.rev + 1 /\ v.rev \in Nat
        BY <1>1, <3>1 DEF Syncs
      <3> QED BY <3>3, <3>4
    <2> QED BY <2>1, <2>2
  <1>4. v.rev \in Nat /\ (store # None => store.rev \in Nat)
    BY <1>1 DEF Syncs, TypeOK, Records
  <1> HIDE DEF n, q
  <1>5. QueuedAhead(n)
    BY <1>2, <1>3 DEF QueuedAhead
  <1>6. CapturesAll(n, q)
    BY <1>3 DEF CapturesAll
  <1>7. store # None /\ Heard(v, p, store.rev) => Heard(n, q, store.rev)
    BY <1>2, <1>3, <1>4 DEF Heard
  <1>8. v.open /\ store # None /\ ~ n.stranded
            /\ (~ v.stranded => Holding(v, store, ledger, seen[w]))
            => Holding(n, store, ledger, seen[w])
    BY <1>3, SameHeld
  <1> QED BY <1>1, <1>5, <1>6, <1>7, <1>8, CalmKeeps DEF n, q

\* What is stored or was read fits.
LEMMA AnswerFits ==
    ASSUME TypeOK, StreamTrue, NEW w \in Windows, store # None,
           At(w, 1, "stored") \/ At(w, 1, "read"),
           NEW x \in Layouts, x.rev = flight[w][1].rev, x.doc = flight[w][1].doc
    PROVE  Fits(x, store, ledger, seen[w])
  <1>1. TrueAnswer(flight[w][1]) /\ flight[w][1] # None
    BY AnswersAre, FirstSlot DEF StreamTrue, At
  <1>2. /\ store \in Records /\ ledger \in Records /\ seen[w] \in Layouts
        /\ ledger.rev <= store.rev /\ x.rev \in Nat /\ store.rev \in Nat /\ ledger.rev \in Nat
    BY ViewTypes DEF Layouts
  <1>3. x.rev <= store.rev /\ SameAs(x, store) /\ SameAs(x, ledger)
    BY <1>1, <1>2 DEF TrueAnswer, At, SameAs
  <1> QED BY <1>2, <1>3, FitsAnswer

\* A confirmation finds the capture it was for.
LEMMA AckedKeeps ==
    ASSUME TypeOK, TypeOK', StreamTrue, StreamTrue', [Next]_vars,
           NEW w \in Windows, WindowInv(w), Acked(w, 1)
    PROVE  WindowInv(w)'
  <1> DEFINE v == win[w]
             n == win'[w]
             p == flight[w][1]
             x == [rev |-> p.rev, doc |-> p.doc]
  <1>1. /\ v \in Syncs /\ p # None /\ p.at = "stored" /\ flight'[w][1] = None
        /\ SameStored /\ StreamStays(w)
    <2>1. flight'[w][1] = None
      BY FirstSlot, ClearDoes DEF Acked
    <2> QED BY <2>1 DEF Acked, At, TypeOK, SameStored, StreamStays, daemon, events
  <1>2. x \in Layouts /\ x.rev = p.rev /\ x.doc = p.doc
    BY <1>1, FirstSlot, FlightType DEF Writes, Layouts
  <1>3. \/ n = v /\ ~ v.open
        \/ \E y \in {v.told, x} : n = [v EXCEPT !.told = y, !.refused = FALSE]
    BY DEF Acked, TypeOK
  <1> HIDE DEF n, x
  <1>4. /\ n.rev = v.rev /\ n.known = v.known /\ n.local = v.local /\ n.pending = v.pending
        /\ n.render = v.render /\ n.queued = v.queued /\ n.open = v.open
        /\ n.stranded = v.stranded /\ n.told \in {v.told, x}
    BY <1>1, <1>3 DEF Syncs
  <1>5. QueuedAhead(n)
    BY <1>4 DEF WindowInv, QueuedAhead
  <1>6. CapturesAll(n, None)
    BY <1>1, <1>4 DEF WindowInv, CapturesAll, Active
  <1>7. store # None /\ Heard(v, p, store.rev) => Heard(n, None, store.rev)
    BY <1>1, <1>4 DEF Heard
  <1>8. v.open /\ store # None /\ ~ n.stranded
            /\ (~ v.stranded => Holding(v, store, ledger, seen[w]))
            => Holding(n, store, ledger, seen[w])
    <2>1. store # None => Fits(x, store, ledger, seen[w])
      BY <1>1, <1>2, AnswerFits DEF At
    <2> QED BY <1>4, <2>1 DEF Holding
  <1> QED BY <1>1, <1>5, <1>6, <1>7, <1>8, CalmKeeps DEF n

\* A refusal is remembered until the matter is settled.
LEMMA RefusedKeeps ==
    ASSUME TypeOK, TypeOK', StreamTrue, StreamTrue', [Next]_vars, OnePast,
           NEW w \in Windows, WindowInv(w), Refused(w, 1)
    PROVE  WindowInv(w)'
  <1> DEFINE v == win[w]
             n == win'[w]
             p == flight[w][1]
             q == flight'[w][1]
             back == [v EXCEPT !.rev = p.wasRev, !.known = p.wasKnown, !.refused = TRUE,
                               !.overtaken = @ \/ v.told.rev >= p.rev]
  <1>1. /\ v \in Syncs /\ p # None /\ p.at = "refused" /\ p \in Writes
        /\ SameStored /\ StreamStays(w)
    BY FirstSlot, FlightType DEF Refused, At, TypeOK, SameStored, StreamStays, daemon, events
  <1>2. q = None \/ (q # None /\ q.at = "reading")
    <2>1. Land(w, 1, "reading") \/ Clear(w, 1)
      BY DEF Refused
    <2> QED BY <1>1, <2>1, FirstSlot, LandDoes, ClearDoes
  <1>3. \/ n = v /\ ~ v.open
        \/ v.rev = p.rev /\ n = [back EXCEPT !.unsent = @ /\ v.local # Shows(back)]
        \/ n = [v EXCEPT !.refused = TRUE]
    BY DEF Refused, TypeOK
  <1>4. p.wasRev \in Nat /\ p.rev = p.wasRev + 1 /\ v.rev \in Nat
    BY <1>1, FirstSlot DEF OnePast, Active, Writes, Syncs
  <1>5. /\ n.told = v.told /\ n.queued = v.queued /\ n.open = v.open /\ n.stranded = v.stranded
        /\ n.refused \/ ~ n.open
        /\ n.rev \in Nat /\ n.rev <= v.rev
    <2>1. CASE n = v /\ ~ v.open
      BY <1>4, <2>1
    <2>2. CASE v.rev = p.rev /\ n = [back EXCEPT !.unsent = @ /\ v.local # Shows(back)]
      <3>1. /\ back.rev = p.wasRev /\ back.told = v.told /\ back.queued = v.queued
            /\ back.open = v.open /\ back.stranded = v.stranded /\ back.refused
            /\ DOMAIN back = DOMAIN v
        BY <1>1 DEF Syncs
      <3> HIDE DEF back
      <3>2. /\ n.told = v.told /\ n.queued = v.queued /\ n.open = v.open /\ n.stranded = v.stranded
            /\ n.refused /\ n.rev = p.wasRev
        BY <1>1, <2>2, <3>1 DEF Syncs
      <3> QED BY <1>4, <2>2, <3>2
    <2>3. CASE n = [v EXCEPT !.refused = TRUE]
      BY <1>1, <1>4, <2>3 DEF Syncs
    <2> QED BY <1>3, <2>1, <2>2, <2>3
  <1>6. v.queued # None => v.queued.rev \in Nat
    BY <1>1 DEF Syncs, Layouts
  <1> HIDE DEF n, q
  <1>7. QueuedAhead(n)
    BY <1>4, <1>5, <1>6 DEF WindowInv, QueuedAhead
  <1>8. CapturesAll(n, q)
    BY <1>2, <1>5 DEF CapturesAll, Active
  <1>9. CASE n.open
    <2>1. store # None /\ Heard(v, p, store.rev) => Heard(n, q, store.rev)
      BY <1>2, <1>5, <1>9 DEF Heard
    <2>2. v.open /\ store # None /\ ~ n.stranded
              /\ (~ v.stranded => Holding(v, store, ledger, seen[w]))
              => Holding(n, store, ledger, seen[w])
      BY <1>5, SameHeld
    <2> QED BY <1>1, <1>7, <1>8, <2>1, <2>2, CalmKeeps DEF n, q
  <1>10. CASE ~ n.open
    BY <1>7, <1>8, <1>10 DEF WindowInv, HasHeard, HoldsStored, Listens, n, q
  <1> QED BY <1>9, <1>10

\* A re-read is taken, put behind the render, or no news.
LEMMA RefetchedKeeps ==
    ASSUME TypeOK, TypeOK', StreamTrue, StreamTrue', [Next]_vars,
           NEW w \in Windows, WindowInv(w), Refetched(w, 1), RendersFirst(win[w])
    PROVE  WindowInv(w)'
  <1> DEFINE v == win[w]
             n == win'[w]
             p == flight[w][1]
             x == [rev |-> p.rev, doc |-> p.doc]
             u == [v EXCEPT !.unsent = FALSE]
  <1>1. /\ v \in Syncs /\ p # None /\ p.at = "read" /\ p \in Writes /\ flight'[w][1] = None
        /\ SameStored /\ StreamStays(w)
    <2>1. flight'[w][1] = None
      BY FirstSlot, ClearDoes DEF Refetched
    <2> QED BY <2>1, FirstSlot, FlightType DEF Refetched, At, TypeOK, SameStored, StreamStays, daemon, events
  <1>2. x \in Layouts /\ x.rev = p.rev /\ x.doc = p.doc /\ p.rev \in Nat /\ p.doc \in Docs
    BY <1>1 DEF Writes, Layouts
  <1>3. /\ u \in Syncs /\ u.open = v.open /\ u.local = v.local /\ u.known = v.known
        /\ u.rev = v.rev /\ u.told = v.told /\ u.refused = v.refused /\ u.queued = v.queued
        /\ u.render = v.render /\ u.pending = v.pending /\ u.stranded = v.stranded
        /\ v.rev \in Nat
    BY <1>1 DEF Syncs
  <1>4. (n = v /\ ~ v.open) \/ n = Accept(u, p.doc, p.rev)
    BY DEF Refetched, TypeOK
  <1>5. CASE n = v /\ ~ v.open
    BY <1>5 DEF WindowInv, HasHeard, HoldsStored, Listens, CapturesAll
  <1>6. CASE n = Accept(u, p.doc, p.rev)
    <2> HIDE DEF n, u
    <2>1. /\ p.rev <= u.rev => n = u
          /\ p.rev > u.rev /\ u.render # None => Queues(n, u, x)
          /\ p.rev > u.rev /\ u.render = None => Takes(n, u, x) /\ Armed(n)
      BY <1>2, <1>3, <1>6, AcceptDoes
    <2>2. v.queued # None => v.queued.rev \in Nat
      BY <1>1 DEF Syncs, Layouts
    <2>3. store # None => store.rev \in Nat /\ Fits(x, store, ledger, seen[w])
      BY <1>1, <1>2, AnswerFits, ViewTypes DEF At
    <2> HIDE DEF x
    <2>4. \/ n = u
          \/ p.rev > v.rev /\ v.render # None /\ Queues(n, u, x)
          \/ p.rev > v.rev /\ v.render = None /\ v.queued = None /\ Takes(n, u, x) /\ Armed(n)
      BY <1>2, <1>3, <2>1 DEF RendersFirst
    <2>5. QueuedAhead(n)
      BY <1>2, <1>3, <2>2, <2>4 DEF WindowInv, QueuedAhead, Queues, SameClaim, Takes
    <2>6. CapturesAll(n, None)
      <3>1. CASE n = u
        BY <1>1, <1>3, <3>1 DEF WindowInv, CapturesAll, Active
      <3>2. CASE n # u
        BY <1>3, <2>4, <3>2 DEF CapturesAll, Armed, Queues
      <3> QED BY <3>1, <3>2
    <2>7. store # None /\ Heard(v, p, store.rev) => Heard(n, None, store.rev)
      BY <1>1, <1>2, <1>3, <2>2, <2>3, <2>4 DEF Heard, Queues, SameClaim, Takes
    <2>8. v.open /\ store # None /\ ~ n.stranded
              /\ (~ v.stranded => Holding(v, store, ledger, seen[w]))
              => Holding(n, store, ledger, seen[w])
      BY <1>3, <2>3, <2>4 DEF Holding, Queues, SameClaim, Takes
    <2> QED BY <1>1, <2>5, <2>6, <2>7, <2>8, CalmKeeps DEF n
  <1> QED BY <1>4, <1>5, <1>6

\* A render done takes what waited behind it, or it was no news.
LEMMA RenderKeeps ==
    ASSUME TypeOK, TypeOK', StreamTrue, StreamTrue', [Next]_vars,
           NEW w \in Windows, WindowInv(w), RenderDone(w)
    PROVE  WindowInv(w)'
  <1> DEFINE v == win[w]
             n == win'[w]
             p == flight[w][1]
  <1>1. /\ v \in Syncs /\ v.render # None /\ n = AfterRender(v) /\ flight' = flight
        /\ SameStored /\ StreamStays(w)
    BY RenderDoneIs DEF TypeOK, SameStored, StreamStays, daemon, events
  <1>2. Armed(n) /\ Finishes(n, v)
    BY <1>1, AfterRenderDoes
  <1>3. /\ v.queued # None => v.queued.rev \in Nat
        /\ v.rev \in Nat /\ (store # None => store.rev \in Nat)
    BY <1>1 DEF Syncs, Layouts, TypeOK, Records
  <1> HIDE DEF n
  <1>4. QueuedAhead(n)
    BY <1>2 DEF QueuedAhead, Finishes
  <1>5. CapturesAll(n, p)
    BY <1>2 DEF CapturesAll, Armed
  <1>6. store # None /\ Heard(v, p, store.rev) => Heard(n, p, store.rev)
    BY <1>2, <1>3 DEF Heard, Finishes, SameClaim
  <1>7. v.open /\ store # None /\ ~ n.stranded
            /\ (~ v.stranded => Holding(v, store, ledger, seen[w]))
            => Holding(n, store, ledger, seen[w])
    BY <1>2 DEF Holding, Finishes, SameClaim
  <1> QED BY <1>1, <1>4, <1>5, <1>6, <1>7, CalmKeeps DEF n

\* What a window makes of the first event forwarded to it.
LEMMA HandleKeeps ==
    ASSUME TypeOK, TypeOK', StreamTrue, StreamTrue', [Next]_vars,
           NEW w \in Windows, WindowInv(w), HandleEvent(w), RendersFirst(win[w])
    PROVE  WindowInv(w)'
  <1> DEFINE v == win[w]
             n == win'[w]
             p == flight[w][1]
             e == Head(inbox[w])
             x == [rev |-> e.rev, doc |-> e.doc]
             r == inbox[w]
  <1>1. /\ v \in Syncs /\ r \in Seq(Events) /\ r # <<>> /\ inbox'[w] = Tail(r)
        /\ UNCHANGED <<store, ledger, flight, stream, seen>>
    BY DEF HandleEvent, TypeOK, daemon
  <1>2. /\ Len(r) \in Nat /\ Len(r) > 0 /\ e = r[1] /\ e \in Events
        /\ Len(Tail(r)) = Len(r) - 1
        /\ \A i \in 1 .. Len(r) - 1 : Tail(r)[i] = r[i + 1]
    BY <1>1, HeadTailProperties, LenProperties, EmptySeq
  <1>3. e.rev \in Nat /\ e.doc \in Docs /\ x \in Layouts /\ x.rev = e.rev /\ x.doc = e.doc
    BY <1>2 DEF Events, Layouts
  <1>4. n = IF ~ v.open THEN v
            ELSE CASE e.kind = "layout" -> OnLayoutEvent(v, e.doc, e.rev)
                   [] e.kind = "reset" -> OnWorkspaceReset(v, e.doc, e.rev)
                   [] e.kind = "removed" -> Forgotten(v)
    BY DEF HandleEvent, TypeOK
  <1>5. \/ n = v /\ ~ v.open
        \/ e.kind = "layout" /\ n = OnLayoutEvent(v, e.doc, e.rev)
        \/ e.kind = "reset" /\ n = OnWorkspaceReset(v, e.doc, e.rev)
        \/ n = Forgotten(v)
    BY <1>2, <1>4 DEF Events
  <1>6. \/ ~ n.open /\ n.queued = v.queued /\ n.rev = v.rev
        \/ ~ n.open /\ n.queued = None
        \/ e.kind = "layout" /\ n = v /\ e.rev <= v.rev
        \/ e.kind = "layout" /\ e.rev > v.rev /\ v.render # None /\ Queues(n, v, x)
        \/ e.kind = "layout" /\ v.render = None /\ Takes(n, v, x) /\ Armed(n)
        \/ e.kind = "reset" /\ Resets(n, v, x)
    <2>1. CASE e.kind = "layout" /\ n = OnLayoutEvent(v, e.doc, e.rev)
      <3>1. v.rev \in Nat
        BY <1>1 DEF Syncs
      <3>2. /\ e.rev <= v.rev => n = v
            /\ e.rev > v.rev /\ v.render # None => Queues(n, v, x)
            /\ e.rev > v.rev /\ v.render = None => Takes(n, v, x) /\ Armed(n)
        BY <1>1, <1>3, <2>1, OnLayoutEventDoes
      <3> QED BY <1>3, <2>1, <3>1, <3>2
    <2>2. CASE e.kind = "reset" /\ n = OnWorkspaceReset(v, e.doc, e.rev)
      BY <1>1, <1>3, <2>2, OnWorkspaceResetDoes
    <2>3. CASE n = Forgotten(v)
      BY <2>3 DEF Forgotten, Installed
    <2> QED BY <1>5, <2>1, <2>2, <2>3
  <1>7. /\ v.queued # None => v.queued.rev \in Nat
        /\ v.rev \in Nat /\ (store # None => store.rev \in Nat)
        /\ v.render = None => v.queued = None
    BY <1>1 DEF Syncs, Layouts, TypeOK, Records, RendersFirst
  <1>8. Clean(w)' => \A j \in 2 .. Len(r) : r[j].kind # "reset"
    <2> SUFFICES ASSUME Clean(w)', NEW j \in 2 .. Len(r) PROVE r[j].kind # "reset"
      OBVIOUS
    <2>1. j - 1 \in 1 .. Len(r) - 1 /\ (j - 1) + 1 = j
      BY <1>2
    <2> QED BY <1>1, <1>2, <2>1 DEF Clean
  <1>9. store # None => Leads(r, seen[w]) /\ seen[w] # None
    BY ForwardedIs, ViewTypes DEF StreamTrue, LeadsUp
  <1>10. UpToDate(w)
    BY ForwardedIs DEF StreamTrue
  <1> HIDE DEF n, e, x, r
  <1>11. QueuedAhead(n)
    BY <1>3, <1>6, <1>7 DEF WindowInv, QueuedAhead, Queues, SameClaim, Takes, Resets
  <1>12. CapturesAll(n, p)
    <2>1. CASE n = v
      BY <2>1 DEF WindowInv
    <2>2. CASE n # v
      BY <1>6, <2>2 DEF CapturesAll, Queues, Takes, Armed, Resets
    <2> QED BY <2>1, <2>2
  <1>13. HasHeard(w)'
    <2> SUFFICES ASSUME n.open, stream[w] = "up", store # None, Tail(r) = <<>>
                 PROVE  Heard(n, p, store.rev)
      BY <1>1 DEF HasHeard, Listens, n
    <2>1. Len(r) = 1 /\ e.rev = store.rev
      <3>0. Len(<<>>) = 0
        OBVIOUS
      <3>1. Len(Tail(r)) = 0
        BY <3>0
      <3>2. Len(r) = 1
        BY <1>2, <3>1
      <3>3. seen[w].rev = store.rev
        BY <1>10 DEF UpToDate
      <3> QED BY <1>2, <1>9, <3>2, <3>3 DEF Leads
    <2> QED BY <1>3, <1>6, <1>7, <1>11, <2>1 DEF Heard, Queues, SameClaim, Takes, Resets, QueuedAhead
  <1>14. HoldsStored(w)'
    <2> SUFFICES ASSUME n.open, ~ n.stranded, Clean(w)'
                 PROVE  Holding(n, store, ledger, seen[w])
      BY <1>1 DEF HoldsStored, n
    <2>0. store # None /\ store \in Records /\ ledger \in Records /\ seen[w] \in Layouts
      BY <1>1, ViewTypes DEF Clean
    <2>1. Fits(x, store, ledger, seen[w])
      <3>1. \A j \in 1 + 1 .. Len(r) : r[j].kind # "reset"
        BY <1>8
      <3>2. 1 \in 1 .. Len(r)
        BY <1>2
      <3>3. e.rev <= seen[w].rev /\ SameAs(e, seen[w])
        BY <1>2, <1>9, <2>0, <3>1, <3>2 DEF Leads
      <3>4. x.rev <= seen[w].rev /\ SameAs(x, seen[w])
        BY <1>3, <3>3 DEF SameAs
      <3> QED BY <1>3, <2>0, <3>4, FitsEvent
    <2>2. CASE e.kind = "reset" /\ Resets(n, v, x)
      BY <1>7, <2>1, <2>2 DEF Holding, Resets
    <2>3. CASE e.kind = "layout"
      <3>1. Clean(w)
        <4>1. ASSUME NEW i \in 1 .. Len(r) PROVE r[i].kind # "reset"
          <5>1. CASE i = 1
            BY <1>2, <2>3, <5>1
          <5>2. CASE i # 1
            BY <1>2, <1>8, <5>2
          <5> QED BY <5>1, <5>2
        <4> QED BY <2>0, <4>1 DEF Clean, r
      <3>2. v.open
        BY NeverReopens DEF n
      <3>3. ~ v.stranded
        BY <1>6, <2>3 DEF Queues, SameClaim, Takes
      <3>4. Holding(v, store, ledger, seen[w])
        BY <3>1, <3>2, <3>3 DEF WindowInv, HoldsStored
      <3> QED BY <1>6, <2>1, <2>3, <3>4 DEF Holding, Queues, SameClaim, Takes
    <2> QED BY <1>6, <2>2, <2>3
  <1> QED BY <1>1, <1>11, <1>12, <1>13, <1>14 DEF WindowInv, n

-----------------------------------------------------------------------------
(* Windows at rest show what is stored.                                     *)

\* Every step keeps the invariant of every window.
LEMMA WindowNext ==
    ASSUME EditInv, EditInv', StreamTrue, StreamTrue', [Next]_vars,
           NEW w \in Windows, WindowInv(w), Single(w), Alone(w)'
    PROVE  WindowInv(w)'
  <1>0. TypeOK /\ TypeOK' /\ OnePast /\ RendersFirst(win[w]) /\ 1 \in Slots
    BY FirstSlot DEF EditInv, WritesEdits
  <1>1. CASE Edit(w)
    BY <1>0, <1>1, EditKeeps
  <1>2. CASE Push(w)
    BY <1>0, <1>2, PushKeeps
  <1>3. ASSUME NEW i \in Slots, Acked(w, i) \/ Refused(w, i) \/ Refetched(w, i)
        PROVE  WindowInv(w)'
    <2>1. i = 1
      BY <1>3 DEF Single, Acked, Refused, Refetched, At
    <2> QED BY <1>0, <1>3, <2>1, AckedKeeps, RefusedKeeps, RefetchedKeeps
  <1>4. CASE HandleEvent(w)
    BY <1>0, <1>4, HandleKeeps
  <1>5. CASE RenderDone(w)
    BY <1>0, <1>5, RenderKeeps
  <1>6. CASE Restart /\ ~ Push(w)
    BY <1>0, <1>6, RestartKeeps
  <1>7. CASE win'[w] = win[w] /\ ~ Push(w) /\ ~ Restart /\ ~ HandleEvent(w)
    BY <1>0, <1>7, UnmovedKeeps
  <1>8. ASSUME NEW u \in Windows, u # w, Edit(u) \/ Goes(u) \/ Fails(u)
        PROVE  win'[w] = win[w]
    BY <1>0, <1>8, OthersStay
  <1>9. ASSUME NEW i \in Slots, Arrives(w, i) \/ Reads(w, i) \/ WriteLost(w, i) \/ ReadLost(w, i)
        PROVE  win'[w] = win[w]
    BY <1>9 DEF Arrives, Reads, WriteLost, ReadLost
  <1>10. ASSUME (\E s \in Sessions, saved \in BOOLEAN : KillSession(s, saved)) \/ KillWorkspace
                  \/ UNCHANGED vars \/ Resubscribe(w) \/ StreamBreaks(w)
         PROVE  win'[w] = win[w]
    BY <1>10 DEF KillSession, KillWorkspace, vars, Resubscribe, StreamBreaks
  <1> QED BY <1>1, <1>2, <1>3, <1>4, <1>5, <1>6, <1>7, <1>8, <1>9, <1>10 DEF Next, Goes, Fails

\* A window opens on the layout of the reset it installed.
LEMMA WindowInit == ASSUME Init, TypeOK, NEW w \in Windows PROVE WindowInv(w)
  <1>1. /\ win[w] = Installed /\ flight[w][1] = None /\ inbox[w] = <<>>
        /\ seen[w] = [rev |-> 0, doc |-> NewDoc]
        /\ store.rev = 0 /\ store.doc = NewDoc /\ ledger = store
    BY FirstSlot DEF Init
  <1>2. Holding(win[w], store, ledger, seen[w])
    BY <1>1 DEF Holding, Fits, Installed, SameStructure
  <1> QED BY <1>1, <1>2 DEF WindowInv, QueuedAhead, HasHeard, Heard, HoldsStored, CapturesAll, Installed

\* The invariant that keeps windows and daemon in step.
SyncInv == EditInv /\ OneClaim /\ StreamTrue /\ SettleInv

\* A window at rest shows what is stored.
LEMMA Settles ==
    ASSUME SyncInv
    PROVE  SettlesOnStored
  <1> SUFFICES ASSUME NEW w \in Windows, AtRest(w), win[w].open, ~ win[w].stranded,
                      Alone(w)
               PROVE  /\ store # None
                      /\ win[w].rev <= store.rev
                      /\ ~ win[w].refused => /\ win[w].rev = store.rev
                                             /\ SameStructure(win[w].local, store.doc)
    BY DEF SettlesOnStored
  <1> DEFINE v == win[w]
  <1>0. /\ 1 \in Slots /\ flight[w][1] = None /\ inbox[w] = <<>> /\ stream[w] = "up"
        /\ ~ v.pending /\ v.render = None
    BY FirstSlot DEF AtRest
  <1>1. /\ TypeOK /\ RendersFirst(v) /\ Claims(v, None) /\ StreamTrue /\ WindowInv(w)
        /\ UpToDate(w) /\ Gone(w)
    BY <1>0, ForwardedIs DEF SyncInv, EditInv, WritesEdits, OneClaim, StreamTrue, SettleInv
  <1>2. store # None
    BY <1>0, <1>1 DEF UpToDate, Gone
  <1>3. seen[w].rev = store.rev /\ seen[w].doc = store.doc
    BY <1>0, <1>1, <1>2 DEF UpToDate
  <1>4. v.queued = None /\ v.rev \in Nat /\ v.told.rev \in Nat /\ store.rev \in Nat
    BY <1>0, <1>1, <1>2, ViewTypes DEF RendersFirst, Syncs, Layouts
  <1>5. Clean(w) /\ Listens(w)
    BY <1>0, <1>2 DEF Clean, Listens
  <1>6. Fits(v.told, store, ledger, seen[w]) /\ Heard(v, None, store.rev)
    BY <1>0, <1>1, <1>5 DEF WindowInv, HoldsStored, Holding, HasHeard
  <1>7. v.told.rev <= store.rev
    BY <1>3, <1>6 DEF Fits
  <1>8. Agrees(v) \/ (v.refused /\ v.rev <= v.told.rev)
    BY <1>1 DEF Claims, Active
  <1>9. v.rev <= store.rev
    BY <1>4, <1>7, <1>8 DEF Agrees
  <1>10. ASSUME ~ v.refused PROVE v.rev = store.rev /\ SameStructure(v.local, store.doc)
    <2>1. v.rev = store.rev
      BY <1>4, <1>6, <1>9, <1>10 DEF Heard
    <2>2. SameStructure(v.known, v.told.doc) /\ v.told.rev = store.rev
      BY <1>8, <1>10, <2>1 DEF Agrees
    <2>3. SameStructure(v.told.doc, store.doc)
      BY <1>3, <1>6, <2>2 DEF Fits
    <2>4. v.local = v.known
      BY <1>0, <1>1, <1>10 DEF WindowInv, CapturesAll
    <2> QED BY <2>1, <2>2, <2>3, <2>4 DEF SameStructure
  <1> QED BY <1>2, <1>9, <1>10

\* The events, answers and ledger that tell of the daemon's layout tell the truth,
\* whatever is lost, overtaken or rolled back.
THEOREM StreamInvariant == Spec => []StreamTrue
  <1>1. Init /\ TypeOK => StreamTrue
    BY StreamTrueInit
  <1>2. TypeOK /\ TypeOK' /\ StreamTrue /\ [Next]_vars => StreamTrue'
    BY StreamTrueNext
  <1> QED BY <1>1, <1>2, SyncTypes, PTL DEF Spec

\* Each window, its write and its stream keep the invariant that settles those
\* whose own writes have not overlapped.
THEOREM SyncInvariant == Spec => []SyncInv
  <1>1. Init /\ TypeOK => SettleInv
    BY WindowInit DEF SettleInv
  <1>2. EditInv /\ EditInv' /\ OneClaim /\ StreamTrue /\ StreamTrue' /\ SettleInv /\ [Next]_vars
          => SettleInv'
    <2> SUFFICES ASSUME EditInv, EditInv', OneClaim, StreamTrue, StreamTrue', [Next]_vars, SettleInv
                 PROVE  \A w \in Windows : Alone(w)' => WindowInv(w)'
      BY DEF SettleInv, Alone, WindowInv, HasHeard, HoldsStored, Listens, Clean
    <2>1. ASSUME NEW w \in Windows, Alone(w)' PROVE WindowInv(w)'
      <3>1. Alone(w)
        BY <2>1, AloneBefore DEF EditInv
      <3>2. Single(w) /\ WindowInv(w)
        BY <3>1 DEF OneClaim, SettleInv
      <3> QED BY <2>1, <3>2, WindowNext
    <2> QED BY <2>1
  <1>3. EditInv /\ OneClaim /\ StreamTrue /\ SettleInv => SyncInv
    BY DEF SyncInv
  <1> QED BY <1>1, <1>2, <1>3, SyncTypes, EditInvariant, OneClaimInvariant, StreamInvariant, PTL
             DEF Spec

\* stream_status, on_layout_event, on_workspace_reset, push and refetch together:
\* a window at rest, whose own writes have not overlapped, has the stored revision
\* and shows the stored tabs.
THEOREM WindowsSettle == Spec => []SettlesOnStored
  <1>1. SyncInv => SettlesOnStored
    BY Settles
  <1> QED BY <1>1, SyncInvariant, PTL
=============================================================================
