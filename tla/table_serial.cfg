SPECIFICATION Spec
CONSTANTS
    SessionIds = {s1, s2}
    WorkspaceIds = {w1, w2}
    Names = {n1, n2}
    Workers = {k1}
    Nobody = Nobody
    Gone = Gone
    Flat = Flat
    Ops = {"create", "kill", "create_workspace", "kill_workspace", "update_layout", "rename"}
    InitialLedgers <- AnyLedger
    MaxRev = 2
    MaxSaveFailures = 2
    MaxRestarts = 1
INVARIANT NoFreeFloatingSessions
INVARIANT LayoutsNameOwnSessions
INVARIANT SubscribersNeverAhead
INVARIANT TableShown
SYMMETRY Symmetry
