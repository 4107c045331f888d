---------------------------- MODULE MCStateStore ----------------------------
(* StateStore for TLC: one daemon and its successors.                       *)
EXTENDS StateStore, TLC

Interchangeable == Permutations(Records) \cup Permutations(Inodes)
=============================================================================
