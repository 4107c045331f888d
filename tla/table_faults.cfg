SPECIFICATION FairSpec
CONSTANTS
    SessionIds = {s1, s2}
    WorkspaceIds = {w1}
    Names = {n1}
    Workers = {k1, k2}
    Nobody = Nobody
    Gone = Gone
    Flat = Flat
    Ops = {"create", "kill", "create_workspace", "kill_workspace", "update_layout"}
    InitialLedgers <- FreshHost
    MaxRev = 1
    MaxSaveFailures = 1
    MaxRestarts = 1
INVARIANT AnnouncedIsRecorded
INVARIANT AckedIsRecorded
INVARIANT RefusedCreateLeavesNothing
INVARIANT NoLeakedShell
INVARIANT RecordedInv
INVARIANT LedgerIsTable
PROPERTY SpawnAfterReservation
PROPERTY RequestsComplete
PROPERTY KeepsPromise
