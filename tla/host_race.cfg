SPECIFICATION Spec
CONSTANTS
    Clients = {c1, c2}
    Daemons = {d1, d2, d3}
    None = None
    MaxStarting = 2
    Ops = {"crash"}
SYMMETRY Symmetry
CHECK_DEADLOCK FALSE
INVARIANT RacingIsFine
