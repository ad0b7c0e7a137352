\* Three uplinks over two tags, at most two at once: the round wraps and the
\* semaphore fills.
SPECIFICATION Spec
CONSTANTS
    Tags = {t1, t2}
    Enabled = {t1, t2}
    Calls = {j1}
    None = None
    Count = 3
    AtOnce = 2
INVARIANTS
    RoundRobin
    BurstWaits
    JoinAllCounts
PROPERTIES
    BurstCompletes
    JoinAllCancellable
CHECK_DEADLOCK FALSE
