SPECIFICATION Spec
CONSTANTS
    Tasks = {t1, t2}
    Routes = {r1, r2}
    Daemons = {d1, d2}
    Nameless = {d2}
    Theirs = x
    Old = {o1, o2}
    New = {n1, n2}
    None = None
    MaxOps = 2
    MaxPasses = 1
    MaxFaults = 1
INVARIANT OneWorkspacePerCheckout
INVARIANT NobodyWaitsInVain
PROPERTY OnlyItsDaemonSpeaks
PROPERTY KillStaysHome
SYMMETRY Alike
\* Once the operations are done, so is everything else.
CHECK_DEADLOCK FALSE
