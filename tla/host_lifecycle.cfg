SPECIFICATION Spec
CONSTANTS
    Clients = {c1, c2, c3}
    Daemons = {d1, d2}
    None = None
    MaxStarting = 2
    Ops = {"request", "shutdown", "force", "idle", "crash", "drift", "hangup", "timeout"}
SYMMETRY Symmetry
CHECK_DEADLOCK FALSE
INVARIANT RequestsFinish
INVARIANT IdleTakesNothing
INVARIANT ShutdownRunsItsCourse
INVARIANT ServingReachable
PROPERTY HandoverIsQuiet
