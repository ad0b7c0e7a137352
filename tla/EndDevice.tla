------------------------------ MODULE EndDevice ------------------------------
(***************************************************************************)
(* What a LoRaWAN 1.0.3 end-device promises the network, seen from the air *)
(* interface alone: the abstract specification DeviceSession implements    *)
(* when the tag's Starts do not overlap.  It is what the comments of       *)
(* sessions.go, device.go and join.go say of counters and nonces.          *)
(***************************************************************************)
EXTENDS SessionRow

VARIABLES
    requests,   \* DevNonces of the join-requests transmitted
    session,    \* keys of the activated session, NoKey before the join
    uplinks,    \* data frames transmitted
    down,       \* highest downlink counter accepted in the session
    heard       \* data downlinks accepted

vars == <<requests, session, uplinks, down, heard>>

Init ==
    /\ requests = {}
    /\ session = NoKey
    /\ uplinks = {}
    /\ down = 0
    /\ heard = {}

\* A join-request carries a nonce above every earlier one.
Request(n) ==
    /\ \A m \in requests : m < n
    /\ requests' = requests \cup {n}
    /\ UNCHANGED <<session, uplinks, down, heard>>

\* The device is activated once, with the nonce of a request it transmitted.
Activate(n, a) ==
    /\ session = NoKey
    /\ n \in requests /\ a \in requests
    /\ session' = [nonce |-> n, answers |-> a]
    /\ UNCHANGED <<requests, uplinks, down, heard>>

\* A data frame never repeats a counter under the same keys.
Transmit(f) ==
    /\ session # NoKey
    /\ [key |-> session, fcnt |-> f] \notin uplinks
    /\ uplinks' = uplinks \cup {[key |-> session, fcnt |-> f]}
    /\ UNCHANGED <<requests, session, down, heard>>

\* Downlink counters never go back.
Hear(f) ==
    /\ session # NoKey
    /\ f >= down
    /\ down' = f
    /\ heard' = heard \cup {[key |-> session, fcnt |-> f]}
    /\ UNCHANGED <<requests, session, uplinks>>

Next ==
    \/ \E n \in 1 .. MaxDevNonce : Request(n)
    \/ \E n, a \in 1 .. MaxDevNonce : Activate(n, a)
    \/ \E f \in 0 .. MaxFCnt : Transmit(f) \/ Hear(f)

Spec == Init /\ [][Next]_vars
=============================================================================
