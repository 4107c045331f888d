SPECIFICATION Spec
CONSTANTS
    Records = {r1, r2}
    Inodes = {i1, i2, i3}
    None = None
    MaxFaults = 2
    MaxDeaths = 2
SYMMETRY Interchangeable
CHECK_DEADLOCK FALSE
INVARIANT LedgerIsWhole
INVARIANT AckedOutlivesPower
PROPERTY LedgerIsKept
