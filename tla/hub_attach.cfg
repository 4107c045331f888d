SPECIFICATION Spec
CONSTANTS
    Conns = {c1}
    Ops = {"reattach", "detach", "hangup", "other", "repaint"}
    RingCap = 2
    MaxBytes = 8
    Reserve = 4
    Overhead = 1
    ScreenBytes = 2
    OtherBytes = 1
    MaxProduced = 1
    MaxExits = 0
    MaxOthers = 1
CHECK_DEADLOCK FALSE
PROPERTY ReplayFits
