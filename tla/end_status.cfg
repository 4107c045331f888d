SPECIFICATION FairSpec
INVARIANT NeverContradicted
INVARIANT ShownIsStatus
INVARIANT KilledGroupsEnded
PROPERTY ExitIsShown
CHECK_DEADLOCK FALSE
