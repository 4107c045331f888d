SPECIFICATION FairSpec
CONSTANTS
    Conns = {c1, c2}
    Ops = {"kill", "sweep"}
    RingCap = 2
    MaxBytes = 8
    Reserve = 2
    Overhead = 1
    ScreenBytes = 2
    OtherBytes = 1
    MaxProduced = 2
    MaxExits = 2
    MaxOthers = 0
CHECK_DEADLOCK FALSE
INVARIANT NoByteSlips
INVARIANT NobodyWaitsOnADeadStream
INVARIANT ExitedAfterTheLastByte
INVARIANT RepairOwed
PROPERTY ExitEndsStream
