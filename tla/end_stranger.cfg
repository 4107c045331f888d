SPECIFICATION Spec
INVARIANT StrangersSpared
CHECK_DEADLOCK FALSE
