\* Two processes, with and without a key, and two requests in flight.
SPECIFICATION Spec
CONSTANTS
    Procs = {p1, p2}
    Requests = {r1, r2}
    EUIs = {e1, e2}
    Keys = {k1}
    NoKey = NoKey
    None = None
    Values = {v0, v1}
    Default = v0
    MaxTags = 2
    MaxFleet = 2
SYMMETRY Symmetry
INVARIANTS
    IdentityAgreed
    LastWriteStands
    CreatedOnce
    SessionPerTag
    SecretsTogether
    ListingWhole
CHECK_DEADLOCK FALSE
