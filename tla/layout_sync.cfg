SPECIFICATION Spec
CONSTANTS
    Windows = {w1, w2}
    Sessions = {s1, s2}
    First = s1
    None = None
    MaxInFlight = 2
    MaxEdits = 2
    MaxRev = 6
    MaxFaults = 1
SYMMETRY SymmetricWindows
INVARIANT SettlesOnStored
PROPERTY NoLostUpdate
PROPERTY OnlyEditsAreStored
PROPERTY UnsentEditsStay
\* Once the users stop, so does everything else.
CHECK_DEADLOCK FALSE
