----------------------------- MODULE MCAdoption -----------------------------
(***************************************************************************)
(* Adoption for TLC: tasks, routes, old rows and new rows are              *)
(* interchangeable; one of the daemons has a name, the other has none.     *)
(***************************************************************************)
EXTENDS Adoption, TLC

Alike == Permutations(Tasks) \cup Permutations(Routes) \cup Permutations(Old)
            \cup Permutations(New)
=============================================================================
