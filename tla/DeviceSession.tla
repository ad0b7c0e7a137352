---------------------------- MODULE DeviceSession ----------------------------
(***************************************************************************)
(* One tag's device and its clients (tag/device.go, tag/client.go) over    *)
(* the persisted session row.  A client is what one Orchestrator.Start (or *)
(* one run of cmd/tag) creates: a connection, a Run loop reading           *)
(* downlinks, a join attempt, and uplinks sent by any goroutine that holds *)
(* it.  Every database statement is a step of its own, so what was read    *)
(* before one may be stale after it; a process may crash between any two.  *)
(*                                                                         *)
(* The network server is the environment: it answers a join-request once,  *)
(* sends data downlinks under the keys of any request it answered, and the *)
(* path down to the tag may lose, delay, repeat and reorder them.          *)
(***************************************************************************)
EXTENDS SessionRow

CONSTANTS
    Clients,        \* client objects that can exist at one time
    Workers,        \* goroutines that send uplinks (API calls, Burst)
    MaxDown,        \* largest downlink counter the network server uses
    MaxWire,        \* largest counter a frame carries (65535 in the code)
    SerialStarts    \* TRUE: no Start of the tag begins while another is in progress

ASSUME BoundAssumption ==
    MaxDown \in 0 .. MaxFCnt /\ MaxWire \in 0 .. MaxFCnt /\ SerialStarts \in BOOLEAN

VARIABLES
    row,        \* the sessions row: the only state a crash leaves
    pc,         \* what each client's Start is doing
    joined,     \* each client's joined flag
    nonce,      \* the DevNonce of each client's Join
    slot,       \* what is in each client's joinCh
    derived,    \* the keys each client's Join derived
    worker,     \* where each uplink goroutine is in BuildUplink
    loop,       \* where each client's Run loop is in HandleDownlink
    requests,   \* DevNonces of the join-requests put on the wire
    answered,   \* those the network server answered with a join-accept
    uplinks,    \* data frames put on the wire
    delivered   \* data downlinks handed to the DownlinkHook

joinVars == <<joined, nonce, slot, derived>>

clientVars == <<pc, joinVars>>

air == <<requests, answered, uplinks, delivered>>

vars == <<row, clientVars, worker, loop, air>>

-----------------------------------------------------------------------------
(* Frames.  Only what the checks tell apart is kept: whose keys sign it and *)
(* its counter.  NoPdu is the empty slot of joinCh.                         *)

Frame == [key : Key, fcnt : Nat]

Pdu == [kind : {"none", "accept", "data"}, key : Key, fcnt : Nat]

NoPdu == [kind |-> "none", key |-> NoKey, fcnt |-> 0]

\* The keys the network server derives when it answers request n.
NetworkKey(n) == [nonce |-> n, answers |-> n]

Accept(n) == [kind |-> "accept", key |-> NetworkKey(n), fcnt |-> 0]

Data(n, f) == [kind |-> "data", key |-> NetworkKey(n), fcnt |-> f]

\* ParseJoinAccept: the MIC of a LoRaWAN 1.0 accept covers the frame and not
\* the DevNonce, so any accept of this tag's network is valid; the keys come
\* from the nonce of the *local* request and the JoinNonce of the accept.
DerivedKey(n, pdu) == [nonce |-> n, answers |-> pdu.key.answers]

-----------------------------------------------------------------------------
IdleWorker == [pc |-> "idle", key |-> NoKey, fcnt |-> 0]

TypeOK ==
    /\ row \in Row
    /\ pc \in [Clients -> {"off", "hello", "join", "send", "wait", "save", "saved", "up"}]
    /\ joined \in [Clients -> BOOLEAN]
    /\ nonce \in [Clients -> Nat]
    /\ slot \in [Clients -> Pdu]
    /\ derived \in [Clients -> Key]
    /\ worker \in [Workers -> [pc : {"idle", "take", "emit"}, key : Key, fcnt : Nat]]
    /\ loop \in [Clients -> [pc : {"idle", "store"}, key : Key, fcnt : Nat]]
    /\ requests \subseteq Nat
    /\ answered \subseteq requests
    /\ uplinks \subseteq Frame
    /\ delivered \subseteq Frame

Init ==
    /\ row = NewRow
    /\ pc = [c \in Clients |-> "off"]
    /\ joined = [c \in Clients |-> FALSE]
    /\ nonce = [c \in Clients |-> 0]
    /\ slot = [c \in Clients |-> NoPdu]
    /\ derived = [c \in Clients |-> NoKey]
    /\ worker = [w \in Workers |-> IdleWorker]
    /\ loop = [c \in Clients |-> IdleWorker]
    /\ requests = {}
    /\ answered = {}
    /\ uplinks = {}
    /\ delivered = {}

-----------------------------------------------------------------------------
(* Starting a client.                                                      *)

Goto(c, where) == pc' = [pc EXCEPT ![c] = where]

\* Mutant: Start does not look at the running map or wait for other Starts.
StartUnguarded(c) ==
    /\ pc[c] = "off"
    /\ loop[c].pc = "idle"
    /\ Goto(c, "hello")
    /\ joined' = [joined EXCEPT ![c] = FALSE]
    /\ nonce' = [nonce EXCEPT ![c] = 0]
    /\ slot' = [slot EXCEPT ![c] = NoPdu]
    /\ derived' = [derived EXCEPT ![c] = NoKey]
    /\ UNCHANGED <<row, worker, loop, air>>

\* Start returns at once when the tag is in the running map, which is where a
\* successful Start leaves it; it holds no lock from that check on.  Then it
\* dials, starts Run and sends hello.
Start(c) ==
    /\ pc[c] = "off"
    /\ loop[c].pc = "idle"
    /\ \A d \in Clients : pc[d] # "up"
    /\ SerialStarts => \A d \in Clients : pc[d] = "off"
    /\ Goto(c, "hello")
    /\ joined' = [joined EXCEPT ![c] = FALSE]
    /\ nonce' = [nonce EXCEPT ![c] = 0]
    /\ slot' = [slot EXCEPT ![c] = NoPdu]
    /\ derived' = [derived EXCEPT ![c] = NoKey]
    /\ UNCHANGED <<row, worker, loop, air>>

\* Mutant: every Start joins.
ReadSessionAlwaysJoin(c) ==
    /\ pc[c] = "hello"
    /\ Goto(c, IF ~Readable(row) THEN "off" ELSE "join")
    /\ UNCHANGED <<row, joinVars, worker, loop, air>>

\* Start's Sessions.Get: a joined row skips the join.  The client's own joined
\* flag is not set from the row.
ReadSession(c) ==
    /\ pc[c] = "hello"
    /\ Goto(c, IF ~Readable(row) THEN "off" ELSE IF row.joined THEN "up" ELSE "join")
    /\ UNCHANGED <<row, joinVars, worker, loop, air>>

\* BuildJoinRequest: the nonce is advanced and persisted before the frame exists.
TakeNonce(c) ==
    /\ pc[c] = "join"
    /\ row' = NonceTaken(row)
    /\ IF row'.nonce <= MaxDevNonce
       THEN Goto(c, "send") /\ nonce' = [nonce EXCEPT ![c] = row'.nonce]
       ELSE Goto(c, "off") /\ nonce' = nonce
    /\ UNCHANGED <<joined, slot, derived, worker, loop, air>>

SendRequest(c) ==
    /\ pc[c] = "send"
    /\ requests' = requests \cup {nonce[c]}
    /\ Goto(c, "wait")
    /\ UNCHANGED <<row, joinVars, worker, loop, answered, uplinks, delivered>>

\* Join takes whatever Run put in joinCh; what is not a join-accept fails it.
TakeAccept(c) ==
    /\ pc[c] = "wait"
    /\ slot[c] # NoPdu
    /\ Goto(c, IF slot[c].kind = "accept" THEN "save" ELSE "off")
    /\ derived' = [derived EXCEPT ![c] = DerivedKey(nonce[c], slot[c])]
    /\ slot' = [slot EXCEPT ![c] = NoPdu]
    /\ UNCHANGED <<row, joined, nonce, worker, loop, air>>

SaveJoin(c) ==
    /\ pc[c] = "save"
    /\ row' = JoinSaved(row, derived[c])
    /\ Goto(c, "saved")
    /\ UNCHANGED <<joinVars, worker, loop, air>>

MarkJoined(c) ==
    /\ pc[c] = "saved"
    /\ Goto(c, "up")
    /\ joined' = [joined EXCEPT ![c] = TRUE]
    /\ UNCHANGED <<row, nonce, slot, derived, worker, loop, air>>

\* Mutant: a failed join gives its nonce back.
AbortGivingNonceBack(c) ==
    /\ pc[c] \in {"hello", "join", "send", "wait", "save"}
    /\ Goto(c, "off")
    /\ row' = IF pc[c] = "wait" THEN [row EXCEPT !.nonce = nonce[c] - 1] ELSE row
    /\ UNCHANGED <<joinVars, worker, loop, air>>

\* The context is cancelled, the connection breaks or a statement fails.
Abort(c) ==
    /\ pc[c] \in {"hello", "join", "send", "wait", "save"}
    /\ Goto(c, "off")
    /\ UNCHANGED <<row, joinVars, worker, loop, air>>

\* Orchestrator.Stop; goroutines that already hold the client keep running.
Stop(c) ==
    /\ pc[c] = "up"
    /\ Goto(c, "off")
    /\ UNCHANGED <<row, joinVars, worker, loop, air>>

-----------------------------------------------------------------------------
(* Uplinks: SendUplink's check, BuildUplink's Get, TakeFCntUp, the write.  *)

ReadForUplink(w, c) ==
    /\ worker[w].pc = "idle"
    /\ joined[c]
    /\ Readable(row) /\ row.joined
    /\ worker' = [worker EXCEPT ![w] = [pc |-> "take", key |-> row.key, fcnt |-> 0]]
    /\ UNCHANGED <<row, clientVars, loop, air>>

TakeFCntUp(w) ==
    /\ worker[w].pc = "take"
    /\ row' = UpTaken(row)
    /\ worker' = [worker EXCEPT ![w] = IF row.up <= MaxFCnt
                                       THEN [pc |-> "emit", key |-> @.key, fcnt |-> row.up]
                                       ELSE IdleWorker]
    /\ UNCHANGED <<clientVars, loop, air>>

SendFrame(w) ==
    /\ worker[w].pc = "emit"
    /\ uplinks' = uplinks \cup {[key |-> worker[w].key, fcnt |-> worker[w].fcnt]}
    /\ worker' = [worker EXCEPT ![w] = IdleWorker]
    /\ UNCHANGED <<row, clientVars, loop, requests, answered, delivered>>

\* Mutant: a frame that could not be sent gives its counter back.
AbortGivingCounterBack(w) ==
    /\ worker[w].pc # "idle"
    /\ worker' = [worker EXCEPT ![w] = IdleWorker]
    /\ row' = IF worker[w].pc = "emit" THEN [row EXCEPT !.up = @ - 1] ELSE row
    /\ UNCHANGED <<clientVars, loop, air>>

\* A statement, the payload generator or the connection fails.
AbortUplink(w) ==
    /\ worker[w].pc # "idle"
    /\ worker' = [worker EXCEPT ![w] = IdleWorker]
    /\ UNCHANGED <<row, clientVars, loop, air>>

-----------------------------------------------------------------------------
(* The network server and the Run loop.                                    *)

Answer(n) ==
    /\ n \in requests \ answered
    /\ answered' = answered \cup {n}
    /\ UNCHANGED <<row, clientVars, worker, loop, requests, uplinks, delivered>>

\* Run reads a PDU before this client has joined: it goes to joinCh (one
\* slot), or is dropped when the slot is taken.
ReadIntoJoin(c, pdu) ==
    /\ pc[c] # "off"
    /\ loop[c].pc = "idle"
    /\ ~joined[c]
    /\ slot[c] = NoPdu
    /\ slot' = [slot EXCEPT ![c] = pdu]
    /\ UNCHANGED <<row, pc, joined, nonce, derived, worker, loop, air>>

\* Mutant: no counter check.
AlwaysFresh(r, f) == TRUE

\* The counter check of HandleDownlink against the row it has just read.
Fresh(r, f) == ~(r.down > 0 /\ f < r.down)

\* What a frame carries of its counter.
OnWire(f) == f % (MaxWire + 1)

\* ParseDownlink under the keys of the row: a data frame with the right MIC.  The MIC
\* covers the whole counter, and is checked as if the bits not carried were zero.
Authentic(r, pdu) ==
    pdu.kind = "data" /\ pdu.key = r.key /\ OnWire(pdu.fcnt) = pdu.fcnt

\* Run reads a PDU after this client joined: Get, the MIC under the stored
\* keys, the counter check.  What fails is dropped and changes nothing.
ReadDownlink(c, pdu) ==
    /\ pc[c] # "off"
    /\ loop[c].pc = "idle"
    /\ joined[c]
    /\ Readable(row) /\ row.joined
    /\ Authentic(row, pdu)
    /\ Fresh(row, pdu.fcnt)
    /\ loop' = [loop EXCEPT ![c] = [pc |-> "store", key |-> pdu.key, fcnt |-> pdu.fcnt]]
    /\ UNCHANGED <<row, clientVars, worker, air>>

\* SetFCntDown, then the hook.
StoreDownlink(c) ==
    /\ loop[c].pc = "store"
    /\ row' = DownSet(row, loop[c].fcnt)
    /\ delivered' = delivered \cup {[key |-> loop[c].key, fcnt |-> loop[c].fcnt]}
    /\ loop' = [loop EXCEPT ![c] = IdleWorker]
    /\ UNCHANGED <<clientVars, worker, requests, answered, uplinks>>

\* SetFCntDown fails: Stop cancelled Run's context.
AbortDownlink(c) ==
    /\ loop[c].pc = "store"
    /\ loop' = [loop EXCEPT ![c] = IdleWorker]
    /\ UNCHANGED <<row, clientVars, worker, air>>

Receive(c) ==
    \E n \in answered :
        \/ ReadIntoJoin(c, Accept(n))
        \/ \E f \in 0 .. MaxDown :
              ReadIntoJoin(c, Data(n, f)) \/ ReadDownlink(c, Data(n, f))

-----------------------------------------------------------------------------
\* The process dies; goroutines and their state are gone, the database stays.
Crash ==
    /\ pc' = [c \in Clients |-> "off"]
    /\ joined' = [c \in Clients |-> FALSE]
    /\ nonce' = [c \in Clients |-> 0]
    /\ slot' = [c \in Clients |-> NoPdu]
    /\ derived' = [c \in Clients |-> NoKey]
    /\ worker' = [w \in Workers |-> IdleWorker]
    /\ loop' = [c \in Clients |-> IdleWorker]
    /\ UNCHANGED <<row, air>>

ClientStep(c) ==
    \/ Start(c) \/ ReadSession(c) \/ TakeNonce(c) \/ SendRequest(c)
    \/ TakeAccept(c) \/ SaveJoin(c) \/ MarkJoined(c) \/ Abort(c) \/ Stop(c)

UplinkStep(w) ==
    \/ \E c \in Clients : ReadForUplink(w, c)
    \/ TakeFCntUp(w) \/ SendFrame(w) \/ AbortUplink(w)

LoopStep(c) == Receive(c) \/ StoreDownlink(c) \/ AbortDownlink(c)

Next ==
    \/ \E c \in Clients : ClientStep(c) \/ LoopStep(c)
    \/ \E w \in Workers : UplinkStep(w)
    \/ \E n \in requests : Answer(n)
    \/ Crash

Spec == Init /\ [][Next]_vars

-----------------------------------------------------------------------------
(* Properties.                                                             *)

\* A join-request about to be transmitted carries a DevNonce no earlier
\* request carried, and no two pending ones share one: NextDevNonce's promise
\* ("monotonic and never reused", sessions.go:95) across aborted joins,
\* crashes between the UPDATE and the transmission, and concurrent clients.
DevNonceNeverReused ==
    \A c \in Clients : pc[c] = "send" =>
        /\ nonce[c] \notin requests
        /\ \A d \in Clients \ {c} :
               pc[d] = "send" => nonce[d] # nonce[c]

\* With Starts one at a time, nonces also reach the wire in increasing order
\* (join.go:31-32): a network that tracks the last nonce rejects no request.
DevNonceIncreases ==
    \A c \in Clients : pc[c] = "send" =>
        \A n \in requests : n < nonce[c]

\* A data frame about to be transmitted repeats no (keys, counter) pair, sent
\* or pending: "persisted before transmit, never rolled back" (device.go:14)
\* for uplinks that several goroutines build from a row they read earlier.
UplinkFresh ==
    \A w \in Workers : worker[w].pc = "emit" =>
        /\ [key |-> worker[w].key, fcnt |-> worker[w].fcnt] \notin uplinks
        /\ \A v \in Workers \ {w} :
               worker[v].pc = "emit" => \/ worker[v].key # worker[w].key
                                       \/ worker[v].fcnt # worker[w].fcnt

\* A counter is persisted before its frame exists: every frame of the current
\* session, sent or pending, is below fcnt_up (TakeFCntUp), also after a crash.
CounterPersistedFirst ==
    /\ \A u \in uplinks : u.key = row.key => u.fcnt < row.up
    /\ \A w \in Workers :
          worker[w].pc = "emit" /\ worker[w].key = row.key => worker[w].fcnt < row.up

\* A persisted session is never replaced: Start joins only a row that is not
\* joined, and nothing overtakes it between that check and SaveJoinResult.
SessionKept ==
    [][row.joined => row'.joined /\ row'.key = row.key]_vars

\* fcnt_down never goes back within a session ("highest seen", sessions.go:166)
\* though HandleDownlink compares with a row it read in an earlier step.
DownCounterMonotone ==
    [][row'.key = row.key => row'.down >= row.down]_vars

\* With Starts one at a time the device keeps the air-interface promises.
Abstract == INSTANCE EndDevice
              WITH session <- row.key, down <- row.down, heard <- delivered

ImplementsEndDevice == Abstract!Spec
=============================================================================
