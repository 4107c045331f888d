------------------------------- MODULE PtySize -------------------------------
(***************************************************************************)
(* Whose size a session's pty has: crates/ade_session_daemon, sessions.rs  *)
(* (Session::sizes, view_ids, focused_view; resize, resize_legacy, focus,  *)
(* attach, detach and apply_size).                                         *)
(*                                                                         *)
(* Many clients draw one pty.  It holds the smallest size any of them asks *)
(* for, or the size of the one view that has claimed the focus.  Every     *)
(* request decides under the table's lock and applies its decision in a    *)
(* second critical section.                                                *)
(***************************************************************************)
EXTENDS Naturals, Sequences, FiniteSets

CONSTANTS
    Conns,     \* attach connections
    Control,   \* the control connection, which claims focus for a view
    Views,
    ViewOf,    \* the view a connection attaches for, or None
    Sizes,     \* the sizes clients ask for; the wire allows zero
    None,
    Parallel,  \* whether another request may run between decision and apply
    Legacy     \* whether a generation-2 client resizes too

Size == [cols : Nat \ {0}, rows : Nat \ {0}]
Actors == Conns \cup {Control}

ASSUME SizeAssumption ==
    /\ ViewOf \in [Conns -> Views \cup {None}] /\ Sizes # {}
    /\ Sizes \subseteq [cols : Nat, rows : Nat]
    /\ Control \notin Conns /\ None \notin Views \cup Size
    /\ Parallel \in BOOLEAN /\ Legacy \in BOOLEAN

VARIABLES
    asks,        \* Session.sizes
    viewIds,     \* Session.view_ids: the attached connections, in its order
    focused,     \* Session.focused_view
    size,        \* Session.cols and rows
    pending,     \* the size each request in flight is about to apply
    overridden   \* a generation-2 resize has had the last word

vars == <<asks, viewIds, focused, size, pending, overridden>>

\* What the variables range over.
TypeOK ==
    /\ asks \in [Conns -> Size \cup {None}]
    /\ viewIds \in Seq(Conns)
    /\ \A i, j \in DOMAIN viewIds : viewIds[i] = viewIds[j] => i = j
    /\ focused \in Views \cup {None}
    /\ size \in [cols : Nat, rows : Nat]
    /\ pending \in [Actors -> Size \cup {None}]
    /\ overridden \in BOOLEAN

\* cols.max(1), rows.max(1).
Clamped(s) == [cols |-> IF s.cols = 0 THEN 1 ELSE s.cols,
               rows |-> IF s.rows = 0 THEN 1 ELSE s.rows]

\* record_created keeps the size the create asked for as the wire gave it.
Init ==
    /\ asks = [c \in Conns |-> None]
    /\ viewIds = <<>>
    /\ focused = None
    /\ size \in Sizes
    /\ pending = [a \in Actors |-> None]
    /\ overridden = FALSE

-----------------------------------------------------------------------------
Smallest(S) == CHOOSE n \in S : \A k \in S : n <= k

\* The element-wise minimum of everyone's ask.
Least(sizes) == [cols |-> Smallest({s.cols : s \in sizes}),
                 rows |-> Smallest({s.rows : s \in sizes})]

\* view_ids.iter().find: the first connection that draws view v.
Drawing(v, ids) == {i \in 1 .. Len(ids) : ViewOf[ids[i]] = v}
Owner(v, ids) == ids[Smallest(Drawing(v, ids))]

\* Session::effective_size.
EffectiveSize(sizes, ids, v) ==
    LET all == {sizes[c] : c \in Conns} \ {None}
    IN  IF v # None /\ Drawing(v, ids) # {} /\ sizes[Owner(v, ids)] # None
        THEN sizes[Owner(v, ids)]
        ELSE IF all = {} THEN None ELSE Least(all)

\* What a request that has just decided still has to apply.
Change(effective) == IF effective = size THEN None ELSE effective

\* Where connection c is in view_ids: nowhere or at one place.
Places(ids, c) == {i \in 1 .. Len(ids) : ids[i] = c}
Place(ids, c) == CHOOSE i \in Places(ids, c) : TRUE

\* Vec::retain: what follows moves up.
Without(ids, c) ==
    IF Places(ids, c) = {} THEN ids
    ELSE [j \in 1 .. Len(ids) - 1 |-> IF j < Place(ids, c) THEN ids[j] ELSE ids[j + 1]]

\* Vec::swap_remove: the last element takes the place of the one removed.
SwapRemove(ids, c) ==
    IF Places(ids, c) = {} THEN ids
    ELSE [j \in 1 .. Len(ids) - 1 |-> IF j = Place(ids, c) THEN ids[Len(ids)] ELSE ids[j]]

\* A connection serves one request at a time, and without Parallel so does the
\* daemon: nothing is awaited between a decision and its application.
Free(a) ==
    /\ pending[a] = None
    /\ Parallel \/ \A b \in Actors : pending[b] = None

-----------------------------------------------------------------------------
\* SessionTable::resize up to its apply_size.
Resize(c, s) ==
    /\ Free(c)
    /\ asks' = [asks EXCEPT ![c] = Clamped(s)]
    /\ pending' = [pending EXCEPT ![c] = Change(EffectiveSize(asks', viewIds, focused))]
    /\ overridden' = FALSE
    /\ UNCHANGED <<viewIds, focused, size>>

\* SessionTable::resize_legacy.
ResizeLegacy(s) ==
    /\ Legacy /\ Free(Control)
    /\ pending' = [pending EXCEPT ![Control] = Change(Clamped(s))]
    /\ overridden' = TRUE
    /\ UNCHANGED <<asks, viewIds, focused, size>>

\* SessionTable::attach: remember_view, and a claim that waited for this view.
Attach(c) ==
    /\ Free(c)
    /\ viewIds' = IF ViewOf[c] = None THEN viewIds ELSE Append(Without(viewIds, c), c)
    /\ LET effective == EffectiveSize(asks, viewIds', focused)
       IN  pending' = [pending EXCEPT ![c] =
                         IF focused # None /\ focused = ViewOf[c] /\ effective # None
                         THEN Change(effective) ELSE None]
    /\ UNCHANGED <<asks, focused, size, overridden>>

\* SessionTable::focus.
Focus(v) ==
    /\ Free(Control)
    /\ focused' = v
    /\ LET effective == EffectiveSize(asks, viewIds, v)
       IN  pending' = [pending EXCEPT ![Control] =
                         IF effective = None THEN None ELSE Change(effective)]
    /\ UNCHANGED <<asks, viewIds, size, overridden>>

\* Mutant: a client that leaves takes its ask along and gives nothing back.
ForgetOnly(c) ==
    /\ Free(c)
    /\ asks' = [asks EXCEPT ![c] = None]
    /\ viewIds' = Without(viewIds, c)
    /\ focused' = IF Places(viewIds, c) # {} /\ focused = ViewOf[c] THEN None ELSE focused
    /\ UNCHANGED <<size, pending, overridden>>

\* SessionTable::detach and detach_all: forget_client, and the size the others
\* need now (grow_back).
Forget(c) ==
    LET lost == Places(viewIds, c) # {} /\ focused = ViewOf[c]
        effective == EffectiveSize(asks', viewIds', focused')
    IN  /\ Free(c)
        /\ asks' = [asks EXCEPT ![c] = None]
        /\ viewIds' = SwapRemove(viewIds, c)
        /\ focused' = IF lost THEN None ELSE focused
        /\ pending' = [pending EXCEPT ![c] =
                         IF (lost \/ asks[c] # None) /\ effective # None
                         THEN Change(effective) ELSE None]
        /\ UNCHANGED <<size, overridden>>

\* SessionTable::apply_size.
ApplySize(a) ==
    /\ pending[a] # None
    /\ size' = pending[a]
    /\ pending' = [pending EXCEPT ![a] = None]
    /\ UNCHANGED <<asks, viewIds, focused, overridden>>

Next ==
    \/ \E c \in Conns : \/ \E s \in Sizes : Resize(c, s)
                        \/ Attach(c)
                        \/ Forget(c)
    \/ \E v \in Views : Focus(v)
    \/ \E s \in Sizes : ResizeLegacy(s)
    \/ \E a \in Actors : ApplySize(a)

Spec == Init /\ [][Next]_vars

-----------------------------------------------------------------------------
(* Properties.                                                              *)

\* No view is drawn twice: no reconnect is waiting for its old connection to be
\* cleaned up.
DrawnOnce == \A v \in Views : Cardinality(Drawing(v, viewIds)) <= 1

\* Session.sizes: "the pty holds the element-wise smallest ask", or the ask of
\* the view that has the focus.  Whenever no request is in flight, and unless a
\* generation-2 resize came last, the pty is at the size the asks, the views and
\* the claim add up to, whatever order they came and went in, and that is at least
\* one cell, whatever a collapsed pane asked for.  While a view is
\* drawn by two connections swap_remove may change which of them speaks for it,
\* and the pty catches up when either leaves.
SizeFollowsAsks ==
    LET effective == EffectiveSize(asks, viewIds, focused)
    IN  (\A a \in Actors : pending[a] = None) /\ ~ overridden /\ DrawnOnce /\ effective # None
            => size = effective /\ effective.cols >= 1 /\ effective.rows >= 1

-----------------------------------------------------------------------------
(* The inductive invariant behind SizeFollowsAsks, for a daemon that serves *)
(* one request at a time: what was decided last is what is about to be      *)
(* applied, or has been.                                                    *)

Effective == EffectiveSize(asks, viewIds, focused)

\* The connections that draw view v.
Drawers(v, ids) == {c \in Conns : ViewOf[c] = v /\ Places(ids, c) # {}}

Settled ==
    focused # None => \A c, d \in Drawers(focused, viewIds) : c = d

SizeInv ==
    /\ TypeOK
    /\ \A a, b \in Actors : pending[a] # None /\ pending[b] # None => a = b
    /\ ~ overridden =>
          /\ \A a \in Actors : pending[a] # None => pending[a] = Effective
          /\ (\A a \in Actors : pending[a] = None) /\ Settled /\ Effective # None
                => size = Effective
=============================================================================
