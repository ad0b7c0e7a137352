SPECIFICATION Spec
CONSTANTS
    Starts = {s1, s2}
    None = NoStart
    MaxPush = 1
INVARIANTS
    RegistryServed
    RunningConnected
    OrderlyRoutable
    OrderlyKeyAgreement
    OrderlyOwned
PROPERTIES
    ClosedReaped
    OrderlyStartReturns
CHECK_DEADLOCK FALSE
