SPECIFICATION Spec
CONSTANTS
    Starts = {s1, s2}
    None = NoStart
    MaxPush = 0
INVARIANT
    DeletedOffline
CHECK_DEADLOCK FALSE
