------------------------------ MODULE MCPtySize ------------------------------
(* PtySize for TLC: a view and its own reconnect, another view, and an older *)
(* client that names none.                                                   *)
EXTENDS PtySize, TLC

CONSTANTS c1, c2, c3, c4, v1, v2

\* A collapsed split (no columns), a wide one, and one larger than both.
WideAndTall == {[cols |-> 0, rows |-> 2], [cols |-> 2, rows |-> 1], [cols |-> 2, rows |-> 2]}

Reconnecting == (c1 :> v1) @@ (c2 :> v1) @@ (c3 :> v2) @@ (c4 :> None)
=============================================================================
