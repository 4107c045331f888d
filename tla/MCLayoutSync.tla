---------------------------- MODULE MCLayoutSync ----------------------------
(***************************************************************************)
(* LayoutSync for TLC.                                                     *)
(***************************************************************************)
EXTENDS LayoutSync, TLC

\* No action tells two windows apart.
SymmetricWindows == Permutations(Windows)
=============================================================================
