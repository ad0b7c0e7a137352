\* Two Starts of one tag at the same time, as join_all and a join request make
\* them: a frame repeats a counter under the same keys.
SPECIFICATION Spec
CONSTANTS
    Clients = {c1, c2}
    Workers = {w1}
    MaxDevNonce = 2
    MaxFCnt = 2
    MaxDown = 0
    MaxWire = 0
    SerialStarts = FALSE
INVARIANT UplinkFresh
