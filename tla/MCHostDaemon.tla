---------------------------- MODULE MCHostDaemon ----------------------------
(* HostDaemon for TLC.                                                      *)
EXTENDS HostDaemon, TLC

Symmetry == Permutations(Clients) \cup Permutations(Daemons)
=============================================================================
