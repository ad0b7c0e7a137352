------------------------- MODULE DeviceSerialProofs -------------------------
(***************************************************************************)
(* Proofs about DeviceSession when the Starts of the tag do not overlap:   *)
(* the row is then joined at most once, whatever is stopped, aborted or    *)
(* crashes, so what a goroutine read of the session stays true until it    *)
(* acts on it.                                                             *)
(***************************************************************************)
EXTENDS DeviceSessionProofs

BeforeSave == {"join", "send", "wait", "save"}

\* One client is past "off" at a time; while it joins, the row is not joined.
OneJoin ==
    /\ \A c, d \in Clients : pc[c] # "off" /\ pc[d] # "off" => c = d
    /\ \A c \in Clients : pc[c] \in BeforeSave => ~row.joined

\* At most one client object ever has the joined flag: the one that joined.
OneJoined ==
    /\ \A c \in Clients : joined[c] \/ pc[c] = "saved" => row.joined
    /\ \A c \in Clients : joined[c] => pc[c] \in {"up", "off"}
    /\ \A c, d \in Clients : joined[c] /\ joined[d] => c = d
    /\ \A c, d \in Clients : pc[c] = "saved" => ~joined[d]

\* What goroutines hold, and what they sent, belongs to the stored session.
HeldCurrent ==
    /\ \A w \in Workers : worker[w].pc # "idle" => row.joined /\ worker[w].key = row.key
    /\ \A u \in uplinks : row.joined /\ u.key = row.key
    /\ \A c \in Clients : loop[c].pc = "store" =>
          /\ joined[c] /\ row.joined /\ loop[c].key = row.key
          /\ loop[c].fcnt >= row.down

SerialInv == OneJoin /\ OneJoined /\ HeldCurrent /\ UplinkFresh /\ DevNonceIncreases

\* Steps that change neither the row, nor who is joining, nor a frame.
LEMMA SerialFrame ==
    ASSUME TypeOK, SerialInv,
           UNCHANGED <<row, worker, uplinks, loop>>,
           \A c \in Clients : joined'[c] => joined[c],
           \A c \in Clients : loop[c].pc = "store" => joined'[c],
           \A c \in Clients :
               \/ pc'[c] = pc[c] /\ (nonce'[c] = nonce[c] \/ pc[c] # "send")
               \/ pc'[c] = "off"
               \/ pc[c] # "off" /\ ~joined[c] /\ pc'[c] \notin {"send", "saved"}
                                /\ (pc'[c] \in BeforeSave => ~row.joined),
           \A c \in Clients : pc'[c] = "send" => requests' = requests
    PROVE  SerialInv'
<1> USE DEF SerialInv, BeforeSave
<1>1. OneJoin'
  BY DEF OneJoin
<1>2. OneJoined'
  BY DEF OneJoined
<1>3. HeldCurrent'
  BY DEF HeldCurrent
<1>4. UplinkFresh'
  BY DEF UplinkFresh
<1>5. DevNonceIncreases'
  BY DEF DevNonceIncreases
<1> QED
  BY <1>1, <1>2, <1>3, <1>4, <1>5

\* A step of a Start or a stop keeps SerialInv: one client lives and it owns the
\* nonce it took (orchestrator.go Start and Stop).
LEMMA SerialClientStep ==
    ASSUME SerialStarts, CounterInv, SerialInv, NEW c \in Clients, ClientStep(c)
    PROVE  SerialInv'
<1> USE DEF BeforeSave
<1>0. /\ TypeOK /\ OneJoin /\ OneJoined /\ HeldCurrent /\ UplinkFresh /\ DevNonceIncreases
      /\ NonceInv /\ KeyInv
      /\ pc \in [Clients -> {"off", "hello", "join", "send", "wait", "save", "saved", "up"}]
      /\ row \in Row
      /\ joined \in [Clients -> BOOLEAN] /\ nonce \in [Clients -> Nat]
  BY DEF SerialInv, CounterInv, TypeOK
<1>1. CASE Start(c)
  <2>1. /\ \A d \in Clients : pc[d] = "off"
        /\ pc'[c] = "hello" /\ \A d \in Clients \ {c} : pc'[d] = "off"
        /\ joined'[c] = FALSE /\ \A d \in Clients \ {c} : joined'[d] = joined[d]
        /\ loop[c].pc = "idle"
        /\ UNCHANGED <<row, worker, uplinks, loop>>
    BY <1>0, <1>1 DEF Start, Goto, air
  <2>2. OneJoin'
    BY <1>0, <2>1 DEF OneJoin
  <2>3. OneJoined'
    BY <1>0, <2>1 DEF OneJoined
  <2>4. HeldCurrent'
    BY <1>0, <2>1 DEF HeldCurrent
  <2>5. UplinkFresh' /\ DevNonceIncreases'
    BY <1>0, <2>1 DEF UplinkFresh, DevNonceIncreases
  <2> QED
    BY <2>2, <2>3, <2>4, <2>5 DEF SerialInv
<1>2. CASE ReadSession(c)
  <2>1. /\ pc[c] = "hello" /\ ~joined[c]
        /\ pc'[c] \in {"off", "up", "join"} /\ (pc'[c] = "join" => ~row.joined)
        /\ \A d \in Clients \ {c} : pc'[d] = pc[d]
        /\ UNCHANGED <<row, joined, nonce, worker, uplinks, loop, requests>>
    BY <1>0, <1>2 DEF ReadSession, Goto, joinVars, air, OneJoined
  <2>2. \A d \in Clients : loop[d].pc = "store" => joined[d]
    BY <1>0 DEF HeldCurrent
  <2> QED
    BY <1>0, <2>1, <2>2, SerialFrame
<1>3. CASE TakeNonce(c)
  <2>0. row' = NonceTaken(row)
    BY <1>3 DEF TakeNonce
  <2>1. /\ row'.nonce = row.nonce + 1 /\ row'.key = row.key /\ row'.up = row.up
        /\ row'.joined = row.joined /\ row'.down = row.down
    BY <1>0, <2>0 DEF NonceTaken, Row
  <2>2. /\ pc[c] = "join"
        /\ \/ pc'[c] = "off"
           \/ pc'[c] = "send" /\ nonce'[c] = row.nonce + 1
        /\ \A d \in Clients \ {c} : pc'[d] = pc[d] /\ nonce'[d] = nonce[d]
        /\ UNCHANGED <<joined, worker, uplinks, loop, requests>>
    BY <1>0, <1>3, <2>0, <2>1 DEF TakeNonce, Goto, joinVars, air
  <2>3. OneJoin'
    BY <1>0, <2>1, <2>2 DEF OneJoin
  <2>4. OneJoined'
    BY <1>0, <2>1, <2>2 DEF OneJoined
  <2>5. HeldCurrent'
    BY <1>0, <2>1, <2>2 DEF HeldCurrent
  <2>6. UplinkFresh'
    BY <1>0, <2>2 DEF UplinkFresh
  <2>7. \A n \in requests : n < row.nonce + 1
    BY <1>0, RowFields DEF NonceInv, TypeOK
  <2>8. DevNonceIncreases'
    BY <1>0, <2>2, <2>7 DEF DevNonceIncreases
  <2> QED
    BY <2>3, <2>4, <2>5, <2>6, <2>8 DEF SerialInv
<1>4. CASE SendRequest(c)
  <2>1. /\ pc[c] = "send" /\ pc'[c] = "wait"
        /\ \A d \in Clients \ {c} : pc'[d] = pc[d]
        /\ UNCHANGED <<row, joined, nonce, worker, uplinks, loop>>
    BY <1>0, <1>4 DEF SendRequest, Goto, joinVars
  <2>2. \A d \in Clients : pc'[d] # "send"
    BY <1>0, <2>1 DEF OneJoin
  <2>3. ~joined[c] /\ ~row.joined
    BY <1>0, <2>1 DEF OneJoined, OneJoin
  <2>4. \A d \in Clients : loop[d].pc = "store" => joined[d]
    BY <1>0 DEF HeldCurrent
  <2> QED
    BY <1>0, <2>1, <2>2, <2>3, <2>4, SerialFrame
<1>5. CASE TakeAccept(c)
  <2>1. /\ pc[c] = "wait" /\ pc'[c] \in {"off", "save"}
        /\ \A d \in Clients \ {c} : pc'[d] = pc[d]
        /\ UNCHANGED <<row, joined, nonce, worker, uplinks, loop, requests>>
    BY <1>0, <1>5 DEF TakeAccept, Goto, air
  <2>2. ~joined[c] /\ ~row.joined
    BY <1>0, <2>1 DEF OneJoined, OneJoin
  <2>3. \A d \in Clients : loop[d].pc = "store" => joined[d]
    BY <1>0 DEF HeldCurrent
  <2> QED
    BY <1>0, <2>1, <2>2, <2>3, SerialFrame
<1>6. CASE SaveJoin(c)
  <2>1. /\ pc[c] = "save" /\ pc'[c] = "saved"
        /\ \A d \in Clients \ {c} : pc'[d] = pc[d] /\ pc[d] = "off"
        /\ row'.joined /\ ~row.joined
        /\ UNCHANGED <<joined, nonce, worker, uplinks, loop, requests>>
    BY <1>0, <1>6 DEF SaveJoin, Goto, JoinSaved, joinVars, air, OneJoin
  <2>2. /\ \A w \in Workers : worker[w].pc = "idle"
        /\ uplinks = {}
        /\ \A d \in Clients : ~joined[d] /\ loop[d].pc # "store"
    <3>1. \A w \in Workers : worker[w].pc = "idle"
      BY <1>0, <2>1 DEF HeldCurrent
    <3>2. uplinks = {}
      BY <1>0, <2>1 DEF HeldCurrent
    <3>3. \A d \in Clients : ~joined[d] /\ loop[d].pc # "store"
      BY <1>0, <2>1 DEF HeldCurrent, OneJoined
    <3> QED
      BY <3>1, <3>2, <3>3
  <2>3. OneJoin'
    BY <1>0, <2>1 DEF OneJoin
  <2>4. OneJoined'
    BY <1>0, <2>1, <2>2 DEF OneJoined
  <2>5. HeldCurrent' /\ UplinkFresh' /\ DevNonceIncreases'
    BY <1>0, <2>1, <2>2 DEF HeldCurrent, UplinkFresh, DevNonceIncreases
  <2> QED
    BY <2>3, <2>4, <2>5 DEF SerialInv
<1>7. CASE MarkJoined(c)
  <2>1. /\ pc[c] = "saved" /\ pc'[c] = "up" /\ joined'[c]
        /\ \A d \in Clients \ {c} : pc'[d] = pc[d] /\ pc[d] = "off" /\ joined'[d] = joined[d]
        /\ row.joined
        /\ UNCHANGED <<row, nonce, worker, uplinks, loop, requests>>
    BY <1>0, <1>7 DEF MarkJoined, Goto, air, OneJoin, OneJoined
  <2>2. \A d \in Clients : ~joined[d]
    BY <1>0, <2>1 DEF OneJoined
  <2>3. OneJoin'
    BY <1>0, <2>1 DEF OneJoin
  <2>4. OneJoined'
    BY <1>0, <2>1, <2>2 DEF OneJoined
  <2>5. HeldCurrent' /\ UplinkFresh' /\ DevNonceIncreases'
    BY <1>0, <2>1, <2>2 DEF HeldCurrent, UplinkFresh, DevNonceIncreases
  <2> QED
    BY <2>3, <2>4, <2>5 DEF SerialInv
<1>8. CASE Abort(c) \/ Stop(c)
  <2>1. /\ pc'[c] = "off"
        /\ \A d \in Clients \ {c} : pc'[d] = pc[d]
        /\ UNCHANGED <<row, joined, nonce, worker, uplinks, loop, requests>>
    BY <1>0, <1>8 DEF Abort, Stop, Goto, joinVars, air
  <2>2. \A d \in Clients : loop[d].pc = "store" => joined[d]
    BY <1>0 DEF HeldCurrent
  <2> QED
    BY <1>0, <2>1, <2>2, SerialFrame
<1> QED
  BY <1>1, <1>2, <1>3, <1>4, <1>5, <1>6, <1>7, <1>8 DEF ClientStep

\* A step of a client's receive loop keeps SerialInv (device.go HandleDownlink).
LEMMA SerialLoopStep ==
    ASSUME CounterInv, SerialInv, NEW c \in Clients, LoopStep(c)
    PROVE  SerialInv'
<1>0. /\ TypeOK /\ OneJoin /\ OneJoined /\ HeldCurrent /\ UplinkFresh /\ DevNonceIncreases
      /\ row \in Row
      /\ loop \in [Clients -> [pc : {"idle", "store"}, key : Key, fcnt : Nat]]
      /\ \A d \in Clients : loop[d].pc = "store" => joined[d]
  BY DEF SerialInv, CounterInv, TypeOK, HeldCurrent
\* A step that only moves this client's Run loop.
<1>a. ASSUME UNCHANGED <<row, pc, joined, nonce, worker, uplinks, requests>>,
             \A d \in Clients \ {c} : loop'[d] = loop[d],
             loop'[c].pc = "store" =>
                 /\ joined[c] /\ row.joined /\ loop'[c].key = row.key
                 /\ loop'[c].fcnt >= row.down
      PROVE  SerialInv'
  <2>1. HeldCurrent'
    BY <1>0, <1>a DEF HeldCurrent
  <2>2. OneJoin' /\ OneJoined' /\ UplinkFresh' /\ DevNonceIncreases'
    BY <1>0, <1>a DEF OneJoin, OneJoined, UplinkFresh, DevNonceIncreases
  <2> QED
    BY <2>1, <2>2 DEF SerialInv
<1>1. ASSUME NEW pdu, ReadIntoJoin(c, pdu) PROVE SerialInv'
  BY <1>0, <1>1, SerialFrame DEF ReadIntoJoin, air
<1>2. ASSUME NEW n \in Nat, NEW f \in Nat, ReadDownlink(c, Data(n, f)) PROVE SerialInv'
  <2>1. row.down \in Nat
    BY <1>0, RowFields
  <2>2. f >= row.down
    BY <1>2, <2>1 DEF ReadDownlink, Authentic, Fresh, Data
  <2>3. /\ UNCHANGED <<row, pc, joined, nonce, worker, uplinks, requests>>
        /\ joined[c] /\ row.joined
        /\ loop'[c] = [pc |-> "store", key |-> row.key, fcnt |-> f]
        /\ \A d \in Clients \ {c} : loop'[d] = loop[d]
    BY <1>0, <1>2 DEF ReadDownlink, Authentic, Data, clientVars, joinVars, air
  <2> QED
    BY <2>2, <2>3, <1>a
<1>3. CASE Receive(c)
  BY <1>0, <1>1, <1>2, <1>3 DEF Receive, TypeOK
<1>4. CASE StoreDownlink(c)
  <2>1. row' = DownSet(row, loop[c].fcnt) /\ loop[c].fcnt \in Nat
    BY <1>0, <1>4 DEF StoreDownlink
  <2>2. /\ row'.joined = row.joined /\ row'.key = row.key /\ row'.up = row.up
        /\ row'.nonce = row.nonce
    BY <1>0, <2>1 DEF DownSet, Row
  <2>3. /\ UNCHANGED <<pc, joined, nonce, worker, uplinks, requests>>
        /\ joined[c] /\ loop[c].pc = "store" /\ loop'[c].pc = "idle"
        /\ \A d \in Clients \ {c} : loop'[d] = loop[d]
    BY <1>0, <1>4 DEF StoreDownlink, IdleWorker, clientVars, joinVars
  <2>4. \A d \in Clients : loop'[d].pc = "idle"
    BY <1>0, <2>3 DEF OneJoined
  <2>5. HeldCurrent'
    BY <1>0, <2>2, <2>3, <2>4 DEF HeldCurrent
  <2>6. OneJoin' /\ OneJoined'
    BY <1>0, <2>2, <2>3 DEF OneJoin, OneJoined
  <2>7. UplinkFresh' /\ DevNonceIncreases'
    BY <1>0, <2>3 DEF UplinkFresh, DevNonceIncreases
  <2> QED
    BY <2>5, <2>6, <2>7 DEF SerialInv
<1>5. CASE AbortDownlink(c)
  <2>1. /\ UNCHANGED <<row, pc, joined, nonce, worker, uplinks, requests>>
        /\ loop'[c].pc = "idle"
        /\ \A d \in Clients \ {c} : loop'[d] = loop[d]
    BY <1>0, <1>5 DEF AbortDownlink, IdleWorker, clientVars, joinVars, air
  <2> QED
    BY <2>1, <1>a
<1> QED
  BY <1>3, <1>4, <1>5 DEF LoopStep

\* A step of an uplink goroutine keeps SerialInv (device.go BuildUplink).
LEMMA SerialUplinkStep ==
    ASSUME CounterInv, SerialInv, NEW w \in Workers, UplinkStep(w)
    PROVE  SerialInv'
<1>0. /\ TypeOK /\ OneJoin /\ OneJoined /\ HeldCurrent /\ UplinkFresh /\ DevNonceIncreases
      /\ CounterPersistedFirst
      /\ row \in Row /\ row.up \in Nat
      /\ worker \in [Workers -> [pc : {"idle", "take", "emit"}, key : Key, fcnt : Nat]]
  BY RowFields DEF SerialInv, CounterInv, TypeOK
<1>1. ASSUME NEW c \in Clients, ReadForUplink(w, c) PROVE SerialInv'
  <2>1. /\ UNCHANGED <<row, pc, joined, nonce, loop, uplinks, requests>>
        /\ row.joined
        /\ worker'[w].pc = "take" /\ worker'[w].key = row.key
        /\ \A v \in Workers \ {w} : worker'[v] = worker[v]
    BY <1>0, <1>1 DEF ReadForUplink, clientVars, joinVars, air
  <2>2. HeldCurrent' /\ UplinkFresh'
    BY <1>0, <2>1 DEF HeldCurrent, UplinkFresh
  <2>3. OneJoin' /\ OneJoined' /\ DevNonceIncreases'
    BY <1>0, <2>1 DEF OneJoin, OneJoined, DevNonceIncreases
  <2> QED
    BY <2>2, <2>3 DEF SerialInv
<1>2. CASE TakeFCntUp(w)
  <2>0. row' = UpTaken(row)
    BY <1>2 DEF TakeFCntUp
  <2>1. /\ row'.joined = row.joined /\ row'.key = row.key /\ row'.down = row.down
        /\ row'.nonce = row.nonce
    BY <1>0, <2>0 DEF UpTaken, Row
  <2>2. /\ UNCHANGED <<pc, joined, nonce, loop, uplinks, requests>>
        /\ worker[w].pc = "take"
        /\ worker'[w].pc = "idle" \/ (/\ worker'[w].key = worker[w].key
                                      /\ worker'[w].fcnt = row.up)
        /\ \A v \in Workers \ {w} : worker'[v] = worker[v]
    BY <1>0, <1>2 DEF TakeFCntUp, IdleWorker, clientVars, joinVars, air
  <2>3. /\ \A u \in uplinks : u.key = row.key /\ u.fcnt < row.up
        /\ \A v \in Workers : worker[v].pc = "emit" => worker[v].fcnt < row.up
    BY <1>0 DEF HeldCurrent, CounterPersistedFirst
  <2>4. UplinkFresh'
    BY <1>0, <2>2, <2>3 DEF UplinkFresh
  <2>5. HeldCurrent'
    BY <1>0, <2>1, <2>2 DEF HeldCurrent
  <2>6. OneJoin' /\ OneJoined' /\ DevNonceIncreases'
    BY <1>0, <2>1, <2>2 DEF OneJoin, OneJoined, DevNonceIncreases
  <2> QED
    BY <2>4, <2>5, <2>6 DEF SerialInv
<1>3. CASE SendFrame(w)
  <2>1. /\ UNCHANGED <<row, pc, joined, nonce, loop, requests>>
        /\ worker[w].pc = "emit" /\ worker'[w].pc = "idle"
        /\ \A v \in Workers \ {w} : worker'[v] = worker[v]
        /\ uplinks' = uplinks \cup {[key |-> worker[w].key, fcnt |-> worker[w].fcnt]}
    BY <1>0, <1>3 DEF SendFrame, IdleWorker, clientVars, joinVars
  <2>2. HeldCurrent'
    BY <1>0, <2>1 DEF HeldCurrent
  <2>3. UplinkFresh'
    BY <1>0, <2>1 DEF UplinkFresh
  <2>4. OneJoin' /\ OneJoined' /\ DevNonceIncreases'
    BY <1>0, <2>1 DEF OneJoin, OneJoined, DevNonceIncreases
  <2> QED
    BY <2>2, <2>3, <2>4 DEF SerialInv
<1>4. CASE AbortUplink(w)
  <2>1. /\ UNCHANGED <<row, pc, joined, nonce, loop, uplinks, requests>>
        /\ worker'[w].pc = "idle"
        /\ \A v \in Workers \ {w} : worker'[v] = worker[v]
    BY <1>0, <1>4 DEF AbortUplink, IdleWorker, clientVars, joinVars, air
  <2>2. HeldCurrent' /\ UplinkFresh'
    BY <1>0, <2>1 DEF HeldCurrent, UplinkFresh
  <2>3. OneJoin' /\ OneJoined' /\ DevNonceIncreases'
    BY <1>0, <2>1 DEF OneJoin, OneJoined, DevNonceIncreases
  <2> QED
    BY <2>2, <2>3 DEF SerialInv
<1> QED
  BY <1>1, <1>2, <1>3, <1>4 DEF UplinkStep

\* Every behaviour with serial starts keeps SerialInv.
LEMMA SerialInvariant == ASSUME SerialStarts PROVE Spec => [](CounterInv /\ SerialInv)
<1>1. Init => SerialInv
  BY DEF Init, SerialInv, OneJoin, OneJoined, HeldCurrent, UplinkFresh,
         DevNonceIncreases, IdleWorker, BeforeSave
<1>2. CounterInv /\ SerialInv /\ [Next]_vars => SerialInv'
  <2> SUFFICES ASSUME CounterInv, SerialInv, [Next]_vars PROVE SerialInv'
    OBVIOUS
  <2>1. ASSUME NEW n \in requests, Answer(n) PROVE SerialInv'
    BY <2>1, SerialFrame DEF Answer, clientVars, joinVars, CounterInv, SerialInv, HeldCurrent
  <2>2. CASE Crash
    BY <2>2 DEF Crash, SerialInv, OneJoin, OneJoined, HeldCurrent, UplinkFresh,
                DevNonceIncreases, IdleWorker, BeforeSave, air
  <2>3. CASE UNCHANGED vars
    BY <2>3, SerialFrame
       DEF vars, clientVars, joinVars, air, CounterInv, SerialInv, HeldCurrent
  <2> QED
    BY <2>1, <2>2, <2>3, SerialClientStep, SerialLoopStep, SerialUplinkStep DEF Next
<1> QED
  BY <1>1, <1>2, CounterInvariant, PTL DEF Spec

\* "Persisted before transmit, never rolled back": when Starts do not overlap,
\* goroutines that build uplinks concurrently never repeat a counter under the
\* same keys, across stops, aborts and crashes.
THEOREM SerialUplinkFresh == ASSUME SerialStarts PROVE Spec => []UplinkFresh
<1>1. SerialInv => UplinkFresh
  BY DEF SerialInv
<1> QED
  BY <1>1, SerialInvariant, PTL

\* DevNonces then also reach the wire in increasing order.
THEOREM SerialDevNonceIncreases == ASSUME SerialStarts PROVE Spec => []DevNonceIncreases
<1>1. SerialInv => DevNonceIncreases
  BY DEF SerialInv
<1> QED
  BY <1>1, SerialInvariant, PTL

-----------------------------------------------------------------------------
(* DeviceSession implements EndDevice: each step is a step the air         *)
(* interface allows, or changes nothing that can be seen from it.          *)

\* What relates a client's local values to what is on the air.
RefInv ==
    /\ requests \subseteq 1 .. MaxDevNonce
    /\ \A c \in Clients : pc[c] \in Joining => nonce[c] \in 1 .. MaxDevNonce
    /\ \A c \in Clients : pc[c] \in {"wait", "save"} => nonce[c] \in requests
    /\ \A c \in Clients : slot[c].kind = "accept" => slot[c].key.answers \in requests
    /\ \A c \in Clients : pc[c] = "save" => derived[c].answers \in requests
    /\ \A w \in Workers : worker[w].pc = "emit" => worker[w].fcnt <= MaxFCnt
    /\ \A c \in Clients : loop[c].pc = "store" => loop[c].fcnt <= MaxFCnt
    /\ ~row.joined => row.key = NoKey /\ row.down = 0
    /\ row.joined => row.key # NoKey

AllInv == CounterInv /\ SerialInv /\ RefInv

\* A step seen from the air, and the two promises about the stored session.
Observed ==
    /\ [Abstract!Next]_(Abstract!vars)
    /\ row.joined => row'.joined /\ row'.key = row.key
    /\ row'.key = row.key => row'.down >= row.down

\* A step that changes nothing the abstract device shows.
LEMMA Hidden ==
    ASSUME AllInv, requests' = requests, uplinks' = uplinks, delivered' = delivered,
           row'.key = row.key, row'.down = row.down, row'.joined = row.joined
    PROVE  Observed
<1>1. row.down \in Nat
  BY RowFields DEF AllInv, CounterInv, TypeOK
<1> QED
  BY <1>1 DEF Observed, Abstract!vars

\* A step of a Start, a stop or the server's answer keeps RefInv and is a step of
\* the end-device or none (orchestrator.go Start and Stop, device.go CompleteJoin).
LEMMA RefClientStep ==
    ASSUME AllInv, NEW c \in Clients, ClientStep(c)
    PROVE  RefInv' /\ Observed
<1> USE DEF Joining
<1>0. /\ TypeOK /\ NonceInv /\ KeyInv /\ OneJoin /\ OneJoined /\ HeldCurrent /\ RefInv
      /\ DevNonceIncreases
      /\ pc \in [Clients -> {"off", "hello", "join", "send", "wait", "save", "saved", "up"}]
      /\ row \in Row /\ row.nonce \in Nat /\ row.down \in Nat
      /\ joined \in [Clients -> BOOLEAN] /\ nonce \in [Clients -> Nat]
      /\ slot \in [Clients -> Pdu] /\ derived \in [Clients -> Key]
  BY RowFields DEF AllInv, SerialInv, CounterInv, TypeOK
<1>1. CASE Start(c)
  <2>1. /\ pc'[c] = "hello" /\ slot'[c] = NoPdu
        /\ \A d \in Clients \ {c} : /\ pc'[d] = pc[d] /\ slot'[d] = slot[d]
                                    /\ nonce'[d] = nonce[d] /\ derived'[d] = derived[d]
        /\ UNCHANGED <<row, worker, uplinks, loop, requests, delivered>>
    BY <1>0, <1>1 DEF Start, Goto, air
  <2>2. RefInv'
    BY <1>0, <2>1 DEF RefInv, NoPdu
  <2> QED
    BY <2>1, <2>2, Hidden
<1>2. CASE ReadSession(c) \/ MarkJoined(c) \/ Abort(c) \/ Stop(c)
  <2>1. /\ pc'[c] \in {"off", "up", "join"}
        /\ \A d \in Clients \ {c} : pc'[d] = pc[d]
        /\ UNCHANGED <<row, nonce, slot, derived, worker, uplinks, loop, requests, delivered>>
    BY <1>0, <1>2 DEF ReadSession, MarkJoined, Abort, Stop, Goto, joinVars, air
  <2>2. RefInv'
    BY <1>0, <2>1 DEF RefInv
  <2> QED
    BY <2>1, <2>2, Hidden
<1>3. CASE TakeNonce(c)
  <2>0. row' = NonceTaken(row)
    BY <1>3 DEF TakeNonce
  <2>1. /\ row'.nonce = row.nonce + 1 /\ row'.key = row.key
        /\ row'.joined = row.joined /\ row'.down = row.down
    BY <1>0, <2>0 DEF NonceTaken, Row
  <2>2. /\ \/ pc'[c] = "off"
           \/ pc'[c] = "send" /\ nonce'[c] = row.nonce + 1 /\ row.nonce + 1 <= MaxDevNonce
        /\ \A d \in Clients \ {c} : pc'[d] = pc[d] /\ nonce'[d] = nonce[d]
        /\ UNCHANGED <<slot, derived, worker, uplinks, loop, requests, delivered>>
    BY <1>0, <1>3, <2>1 DEF TakeNonce, Goto, joinVars, air
  <2>3. RefInv'
    BY <1>0, <2>1, <2>2 DEF RefInv
  <2> QED
    BY <2>1, <2>2, <2>3, Hidden
<1>4. CASE SendRequest(c)
  <2>1. /\ pc[c] = "send" /\ pc'[c] = "wait"
        /\ \A d \in Clients \ {c} : pc'[d] = pc[d]
        /\ UNCHANGED <<row, nonce, slot, derived, worker, uplinks, loop, delivered>>
        /\ requests' = requests \cup {nonce[c]}
    BY <1>0, <1>4 DEF SendRequest, Goto, joinVars
  <2>2. nonce[c] \in 1 .. MaxDevNonce /\ \A n \in requests : n < nonce[c]
    BY <1>0, <2>1 DEF RefInv, DevNonceIncreases
  <2>3. RefInv'
    BY <1>0, <2>1, <2>2 DEF RefInv
  <2>4. Abstract!Request(nonce[c])
    BY <2>1, <2>2 DEF Abstract!Request
  <2>5. Abstract!Next
    BY <2>2, <2>4 DEF Abstract!Next
  <2> QED
    BY <1>0, <2>1, <2>3, <2>5 DEF Observed
<1>5. CASE TakeAccept(c)
  <2>1. /\ pc[c] = "wait" /\ pc'[c] = IF slot[c].kind = "accept" THEN "save" ELSE "off"
        /\ slot'[c] = NoPdu /\ derived'[c].answers = slot[c].key.answers
        /\ \A d \in Clients \ {c} : /\ pc'[d] = pc[d] /\ slot'[d] = slot[d]
                                    /\ derived'[d] = derived[d]
        /\ UNCHANGED <<row, nonce, worker, uplinks, loop, requests, delivered>>
    BY <1>0, <1>5 DEF TakeAccept, DerivedKey, Goto, air
  <2>2. RefInv'
    BY <1>0, <2>1 DEF RefInv, NoPdu
  <2> QED
    BY <2>1, <2>2, Hidden
<1>6. CASE SaveJoin(c)
  <2>1. /\ pc[c] = "save" /\ pc'[c] = "saved"
        /\ \A d \in Clients \ {c} : pc'[d] = pc[d]
        /\ row'.joined /\ row'.key = derived[c] /\ row'.down = 0
        /\ UNCHANGED <<nonce, slot, derived, worker, uplinks, loop, requests, delivered>>
    BY <1>0, <1>6 DEF SaveJoin, Goto, JoinSaved, joinVars, air
  <2>2. ~row.joined /\ row.key = NoKey /\ row.down = 0
    BY <1>0, <2>1 DEF OneJoin, BeforeSave, RefInv
  <2>3. /\ derived[c] \in Key /\ derived[c].nonce = nonce[c]
        /\ nonce[c] \in requests /\ derived[c].answers \in requests
        /\ nonce[c] \in 1 .. MaxDevNonce /\ derived[c].answers \in 1 .. MaxDevNonce
    BY <1>0, <2>1 DEF RefInv, KeyInv
  <2>4. derived[c] = [nonce |-> nonce[c], answers |-> derived[c].answers]
    BY <2>3 DEF Key
  <2>5. derived[c] # NoKey
    BY <2>3 DEF NoKey
  <2>6. RefInv'
    BY <1>0, <2>1, <2>5 DEF RefInv
  <2>7. Abstract!Activate(nonce[c], derived[c].answers)
    BY <2>1, <2>2, <2>3, <2>4 DEF Abstract!Activate, Abstract!NoKey, NoKey
  <2>8. Abstract!Next
    BY <2>3, <2>7 DEF Abstract!Next
  <2> QED
    BY <1>0, <2>1, <2>2, <2>6, <2>8 DEF Observed
<1> QED
  BY <1>1, <1>2, <1>3, <1>4, <1>5, <1>6 DEF ClientStep

\* So is a step of a client's receive loop (device.go HandleDownlink).
LEMMA RefLoopStep ==
    ASSUME AllInv, NEW c \in Clients, LoopStep(c)
    PROVE  RefInv' /\ Observed
<1>0. /\ TypeOK /\ HeldCurrent /\ RefInv
      /\ row \in Row
      /\ slot \in [Clients -> Pdu]
      /\ loop \in [Clients -> [pc : {"idle", "store"}, key : Key, fcnt : Nat]]
  BY DEF AllInv, SerialInv, CounterInv, TypeOK
<1>1. ASSUME NEW n \in answered, NEW f \in 0 .. MaxDown, NEW pdu \in {Accept(n), Data(n, f)},
             ReadIntoJoin(c, pdu)
      PROVE  RefInv' /\ Observed
  <2>1. /\ UNCHANGED <<row, pc, nonce, derived, worker, uplinks, loop, requests, delivered>>
        /\ slot'[c] = pdu /\ \A d \in Clients \ {c} : slot'[d] = slot[d]
    BY <1>0, <1>1 DEF ReadIntoJoin, air
  <2>2. pdu.key.answers = n /\ n \in requests
    BY <1>0 DEF Accept, Data, NetworkKey, TypeOK
  <2>3. RefInv'
    BY <1>0, <2>1, <2>2 DEF RefInv
  <2> QED
    BY <2>1, <2>3, Hidden
<1>2. ASSUME NEW n \in answered, NEW f \in 0 .. MaxDown, ReadDownlink(c, Data(n, f))
      PROVE  RefInv' /\ Observed
  <2>1. /\ UNCHANGED <<row, pc, nonce, slot, derived, worker, uplinks, requests, delivered>>
        /\ loop'[c].fcnt = f /\ \A d \in Clients \ {c} : loop'[d] = loop[d]
    BY <1>0, <1>2 DEF ReadDownlink, Authentic, Data, clientVars, joinVars, air
  <2>2. f <= MaxFCnt
    BY WidthAssumption, BoundAssumption
  <2>3. RefInv'
    BY <1>0, <2>1, <2>2 DEF RefInv
  <2> QED
    BY <2>1, <2>3, Hidden
<1>3. CASE Receive(c)
  <2>1. 0 \in 0 .. MaxDown
    BY BoundAssumption
  <2> QED
    BY <1>1, <1>2, <1>3, <2>1 DEF Receive
<1>4. CASE StoreDownlink(c)
  <2> DEFINE f == loop[c].fcnt
  <2>1. row' = DownSet(row, f) /\ f \in Nat /\ row.down \in Nat
    BY <1>0, <1>4, RowFields DEF StoreDownlink
  <2>2. /\ row'.joined = row.joined /\ row'.key = row.key /\ row'.down = f
        /\ row'.nonce = row.nonce
    BY <1>0, <2>1 DEF DownSet, Row
  <2>3. /\ UNCHANGED <<pc, nonce, slot, derived, worker, uplinks, requests>>
        /\ loop[c].pc = "store" /\ loop'[c].pc = "idle"
        /\ \A d \in Clients \ {c} : loop'[d] = loop[d]
        /\ delivered' = delivered \cup {[key |-> loop[c].key, fcnt |-> f]}
    BY <1>0, <1>4 DEF StoreDownlink, IdleWorker, clientVars, joinVars
  <2>4. row.joined /\ loop[c].key = row.key /\ f >= row.down /\ f <= MaxFCnt
    BY <1>0, <2>3 DEF HeldCurrent, RefInv
  <2>5. RefInv'
    BY <1>0, <2>2, <2>3, <2>4 DEF RefInv
  <2>6. Abstract!Hear(f)
    BY <1>0, <2>2, <2>3, <2>4 DEF Abstract!Hear, Abstract!NoKey, NoKey, RefInv
  <2>7. Abstract!Next
    BY <2>1, <2>4, <2>6 DEF Abstract!Next
  <2> QED
    BY <2>2, <2>4, <2>5, <2>7 DEF Observed
<1>5. CASE AbortDownlink(c)
  <2>1. /\ UNCHANGED <<row, pc, nonce, slot, derived, worker, uplinks, requests, delivered>>
        /\ loop'[c].pc = "idle" /\ \A d \in Clients \ {c} : loop'[d] = loop[d]
    BY <1>0, <1>5 DEF AbortDownlink, IdleWorker, clientVars, joinVars, air
  <2>2. RefInv'
    BY <1>0, <2>1 DEF RefInv
  <2> QED
    BY <2>1, <2>2, Hidden
<1> QED
  BY <1>3, <1>4, <1>5 DEF LoopStep

\* So is a step of an uplink goroutine (device.go BuildUplink).
LEMMA RefUplinkStep ==
    ASSUME AllInv, NEW w \in Workers, UplinkStep(w)
    PROVE  RefInv' /\ Observed
<1>0. /\ TypeOK /\ HeldCurrent /\ UplinkFresh /\ RefInv
      /\ row \in Row /\ row.down \in Nat
      /\ worker \in [Workers -> [pc : {"idle", "take", "emit"}, key : Key, fcnt : Nat]]
  BY RowFields DEF AllInv, SerialInv, CounterInv, TypeOK
<1>1. ASSUME NEW c \in Clients, ReadForUplink(w, c) PROVE RefInv' /\ Observed
  <2>1. /\ UNCHANGED <<row, pc, nonce, slot, derived, loop, uplinks, requests, delivered>>
        /\ worker'[w].pc = "take" /\ \A v \in Workers \ {w} : worker'[v] = worker[v]
    BY <1>0, <1>1 DEF ReadForUplink, clientVars, joinVars, air
  <2>2. RefInv'
    BY <1>0, <2>1 DEF RefInv
  <2> QED
    BY <2>1, <2>2, Hidden
<1>2. CASE TakeFCntUp(w)
  <2>0. row' = UpTaken(row)
    BY <1>2 DEF TakeFCntUp
  <2>1. row'.joined = row.joined /\ row'.key = row.key /\ row'.down = row.down
    BY <1>0, <2>0 DEF UpTaken, Row
  <2>2. /\ UNCHANGED <<pc, nonce, slot, derived, loop, uplinks, requests, delivered>>
        /\ worker'[w].pc = "idle" \/ (worker'[w].fcnt = row.up /\ row.up <= MaxFCnt)
        /\ \A v \in Workers \ {w} : worker'[v] = worker[v]
    BY <1>0, <1>2 DEF TakeFCntUp, IdleWorker, clientVars, joinVars, air
  <2>3. RefInv'
    BY <1>0, <2>1, <2>2 DEF RefInv
  <2> QED
    BY <2>1, <2>2, <2>3, Hidden
<1>3. CASE SendFrame(w)
  <2> DEFINE f == worker[w].fcnt
  <2>1. /\ UNCHANGED <<row, pc, nonce, slot, derived, loop, requests, delivered>>
        /\ worker[w].pc = "emit" /\ worker'[w].pc = "idle"
        /\ \A v \in Workers \ {w} : worker'[v] = worker[v]
        /\ uplinks' = uplinks \cup {[key |-> worker[w].key, fcnt |-> f]}
    BY <1>0, <1>3 DEF SendFrame, IdleWorker, clientVars, joinVars
  <2>2. /\ f \in 0 .. MaxFCnt /\ row.joined /\ worker[w].key = row.key
        /\ [key |-> worker[w].key, fcnt |-> f] \notin uplinks
    BY <1>0, <2>1 DEF RefInv, HeldCurrent, UplinkFresh
  <2>3. RefInv'
    BY <1>0, <2>1 DEF RefInv
  <2>4. Abstract!Transmit(f)
    BY <1>0, <2>1, <2>2 DEF Abstract!Transmit, Abstract!NoKey, NoKey, RefInv
  <2>5. Abstract!Next
    BY <2>2, <2>4 DEF Abstract!Next
  <2> QED
    BY <1>0, <2>1, <2>3, <2>5 DEF Observed
<1>4. CASE AbortUplink(w)
  <2>1. /\ UNCHANGED <<row, pc, nonce, slot, derived, loop, uplinks, requests, delivered>>
        /\ worker'[w].pc = "idle" /\ \A v \in Workers \ {w} : worker'[v] = worker[v]
    BY <1>0, <1>4 DEF AbortUplink, IdleWorker, clientVars, joinVars, air
  <2>2. RefInv'
    BY <1>0, <2>1 DEF RefInv
  <2> QED
    BY <2>1, <2>2, Hidden
<1> QED
  BY <1>1, <1>2, <1>3, <1>4 DEF UplinkStep

\* Every step keeps RefInv and is observed as a step of the end-device or none.
LEMMA RefStep == AllInv /\ [Next]_vars => RefInv' /\ Observed
<1> SUFFICES ASSUME AllInv, [Next]_vars PROVE RefInv' /\ Observed
  OBVIOUS
<1>0. RefInv
  BY DEF AllInv
<1>1. ASSUME NEW n \in requests, Answer(n) PROVE RefInv' /\ Observed
  <2>1. UNCHANGED <<row, pc, nonce, slot, derived, worker, loop, uplinks, requests, delivered>>
    BY <1>1 DEF Answer, clientVars, joinVars
  <2>2. RefInv'
    BY <1>0, <2>1 DEF RefInv
  <2> QED
    BY <2>1, <2>2, Hidden
<1>2. CASE Crash
  <2>1. /\ UNCHANGED <<row, uplinks, requests, delivered>>
        /\ \A c \in Clients : pc'[c] = "off" /\ slot'[c] = NoPdu /\ loop'[c].pc = "idle"
        /\ \A w \in Workers : worker'[w].pc = "idle"
    BY <1>2 DEF Crash, IdleWorker, air
  <2>2. RefInv'
    BY <1>0, <2>1 DEF RefInv, NoPdu, Joining
  <2> QED
    BY <2>1, <2>2, Hidden
<1>3. CASE UNCHANGED vars
  <2>1. UNCHANGED <<row, pc, nonce, slot, derived, worker, loop, uplinks, requests, delivered>>
    BY <1>3 DEF vars, clientVars, joinVars, air
  <2>2. RefInv'
    BY <1>0, <2>1 DEF RefInv
  <2> QED
    BY <2>1, <2>2, Hidden
<1> QED
  BY <1>1, <1>2, <1>3, RefClientStep, RefLoopStep, RefUplinkStep DEF Next

\* Every behaviour with serial starts keeps the invariants the refinement uses.
LEMMA RefInvariant == ASSUME SerialStarts PROVE Spec => []AllInv
<1>1. Init => RefInv
  BY DEF Init, RefInv, NewRow, NoPdu, IdleWorker, Joining
<1>2. CounterInv /\ SerialInv /\ RefInv <=> AllInv
  BY DEF AllInv
<1>3. AllInv /\ [Next]_vars => RefInv'
  BY RefStep
<1> QED
  BY <1>1, <1>2, <1>3, SerialInvariant, PTL DEF Spec

\* The device with Starts one at a time keeps every air-interface promise: the
\* order of DevNonces, one activation with a nonce it transmitted, no repeated
\* frame, downlink counters that never go back.
THEOREM SerialImplementsEndDevice == ASSUME SerialStarts PROVE Spec => ImplementsEndDevice
<1>1. Init => Abstract!Init
  BY DEF Init, Abstract!Init, Abstract!NoKey, NewRow, NoKey
<1>2. AllInv /\ [Next]_vars => [Abstract!Next]_(Abstract!vars)
  BY RefStep DEF Observed
<1> QED
  BY <1>1, <1>2, RefInvariant, PTL DEF Spec, Abstract!Spec, ImplementsEndDevice

\* The session the first join stored is never replaced.
THEOREM SerialSessionKept == ASSUME SerialStarts PROVE Spec => SessionKept
<1>1. AllInv /\ [Next]_vars => [row.joined => row'.joined /\ row'.key = row.key]_vars
  BY RefStep DEF Observed
<1> QED
  BY <1>1, RefInvariant, PTL DEF Spec, SessionKept

\* fcnt_down never goes back within a session, though HandleDownlink compares
\* with a row it read in an earlier step.
THEOREM SerialDownMonotone == ASSUME SerialStarts PROVE Spec => DownCounterMonotone
<1>1. AllInv /\ [Next]_vars => [row'.key = row.key => row'.down >= row.down]_vars
  BY RefStep DEF Observed
<1> QED
  BY <1>1, RefInvariant, PTL DEF Spec, DownCounterMonotone

-----------------------------------------------------------------------------
(* What the abstract specification gives: the device has one session at    *)
(* most, and everything on the air belongs to it.                          *)

OneSession ==
    /\ \A u \in uplinks : u.key = row.key /\ row.key # NoKey
    /\ \A d \in delivered : d.key = row.key /\ row.key # NoKey /\ d.fcnt <= row.down

\* The abstract steps keep it.
LEMMA OneSessionStep ==
    ASSUME row.down \in Nat, delivered \subseteq Frame,
           OneSession, [Abstract!Next]_(Abstract!vars)
    PROVE  OneSession'
<1>0. \A d \in delivered : d.fcnt \in Nat
  BY DEF Frame
<1>1. ASSUME NEW n, Abstract!Request(n) PROVE OneSession'
  BY <1>1 DEF Abstract!Request, OneSession
<1>2. ASSUME NEW n, NEW a, Abstract!Activate(n, a) PROVE OneSession'
  <2>1. uplinks = {} /\ delivered = {}
    BY <1>2 DEF Abstract!Activate, Abstract!NoKey, NoKey, OneSession
  <2> QED
    BY <1>2, <2>1 DEF Abstract!Activate, OneSession
<1>3. ASSUME NEW f, Abstract!Transmit(f) PROVE OneSession'
  BY <1>3 DEF Abstract!Transmit, Abstract!NoKey, NoKey, OneSession
<1>4. ASSUME NEW f \in 0 .. MaxFCnt, Abstract!Hear(f) PROVE OneSession'
  <2>1. /\ row.key # NoKey /\ f >= row.down /\ row'.down = f /\ row'.key = row.key
        /\ uplinks' = uplinks
        /\ delivered' = delivered \cup {[key |-> row.key, fcnt |-> f]}
    BY <1>4 DEF Abstract!Hear, Abstract!NoKey, NoKey
  <2>2. ASSUME NEW d \in delivered' PROVE d.key = row'.key /\ d.fcnt <= row'.down
    <3>1. CASE d \in delivered
      BY <1>0, <2>1, <3>1 DEF OneSession
    <3>2. CASE d = [key |-> row.key, fcnt |-> f]
      BY <2>1, <3>2
    <3> QED
      BY <2>1, <3>1, <3>2
  <2> QED
    BY <2>1, <2>2 DEF OneSession
<1>5. CASE UNCHANGED Abstract!vars
  BY <1>5 DEF Abstract!vars, OneSession
<1> QED
  BY <1>1, <1>2, <1>3, <1>4, <1>5 DEF Abstract!Next

\* With Starts one at a time all frames of a tag are of one session, and no downlink
\* delivered is above the stored counter: one that comes again after a crash is below
\* it, or repeats it (HandleDownlink: "persists the highest seen FCntDown").
THEOREM SerialOneSession == ASSUME SerialStarts PROVE Spec => []OneSession
<1>1. Init => OneSession
  BY DEF Init, OneSession
<1>2. AllInv => row.down \in Nat /\ delivered \subseteq Frame
  BY RowFields DEF AllInv, CounterInv, TypeOK
<1>3. AllInv /\ OneSession /\ [Next]_vars => OneSession'
  BY <1>2, RefStep, OneSessionStep DEF Observed
<1> QED
  BY <1>1, <1>3, RefInvariant, PTL DEF Spec
=============================================================================
