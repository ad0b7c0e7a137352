\* Starts one at a time; two client objects, so that a stopped client's
\* goroutines overlap the next one's start.
SPECIFICATION Spec
CONSTANTS
    Clients = {c1, c2}
    Workers = {w1, w2}
    MaxDevNonce = 2
    MaxFCnt = 2
    MaxDown = 2
    MaxWire = 1
    SerialStarts = TRUE
SYMMETRY Symmetry
INVARIANTS
    DevNonceNeverReused
    DevNonceIncreases
    UplinkFresh
    CounterPersistedFirst
PROPERTIES
    SessionKept
    DownCounterMonotone
    ImplementsEndDevice
