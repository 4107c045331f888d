--------------------------- MODULE MCSessionTable ---------------------------
(* Instances of SessionTable for TLC.                                       *)
EXTENDS SessionTable, TLC

\* A host where no daemon ever ran: no ledger.
NoLedger == [sessions   |-> [s \in SessionIds |-> Gone],
             workspaces |-> [w \in WorkspaceIds |-> Gone]]
FreshHost == {NoLedger}

\* Any ledger that parses: rows of missing workspaces, flat rows, tabs naming
\* unknown or foreign sessions.
AnyLedger == [sessions   : [SessionIds -> WorkspaceIds \cup {Gone, Flat}],
              workspaces : [WorkspaceIds ->
                    [layout : SUBSET SessionIds, rev : {1}, name : Names] \cup {Gone}]]

Symmetry == Permutations(SessionIds) \cup Permutations(WorkspaceIds)
            \cup Permutations(Workers) \cup Permutations(Names)
=============================================================================
