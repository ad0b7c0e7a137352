------------------------- MODULE DeviceSessionProofs -------------------------
(***************************************************************************)
(* Proofs about DeviceSession, for every number of clients and goroutines  *)
(* and every integer width.                                                *)
(***************************************************************************)
EXTENDS DeviceSession, TLAPS

USE WidthAssumption, BoundAssumption

-----------------------------------------------------------------------------
(* The statements on a row, and the frames, as the provers need them.      *)

\* The fields of a stored session have the types of their columns (store.Session).
LEMMA RowFields ==
    ASSUME NEW r \in Row
    PROVE  /\ r.joined \in BOOLEAN /\ r.key \in Key
           /\ r.up \in Nat /\ r.down \in Nat /\ r.nonce \in Nat
  BY DEF Row

\* NextDevNonce moves the nonce and nothing else.
LEMMA RowNonceTaken ==
    ASSUME NEW r \in Row
    PROVE  /\ NonceTaken(r) \in Row
           /\ NonceTaken(r) = [joined |-> r.joined, key |-> r.key, up |-> r.up,
                              down |-> r.down, nonce |-> r.nonce + 1]
  BY DEF NonceTaken, Row

\* SaveJoinResult replaces the session and keeps the nonce.
LEMMA RowJoinSaved ==
    ASSUME NEW r \in Row, NEW k \in Key
    PROVE  JoinSaved(r, k) \in Row
  BY DEF JoinSaved, Row

\* TakeFCntUp moves the uplink counter and nothing else.
LEMMA RowUpTaken ==
    ASSUME NEW r \in Row
    PROVE  /\ UpTaken(r) \in Row
           /\ UpTaken(r) = [joined |-> r.joined, key |-> r.key, up |-> r.up + 1,
                           down |-> r.down, nonce |-> r.nonce]
  BY DEF UpTaken, Row

\* SetFCntDown moves the downlink counter and nothing else.
LEMMA RowDownSet ==
    ASSUME NEW r \in Row, NEW f \in Nat
    PROVE  /\ DownSet(r, f) \in Row
           /\ DownSet(r, f) = [joined |-> r.joined, key |-> r.key, up |-> r.up,
                              down |-> f, nonce |-> r.nonce]
  BY DEF DownSet, Row

\* The join-accepts and downlinks of the network server are PDUs.
LEMMA PduTypes ==
    ASSUME NEW n \in Nat, NEW f \in Nat
    PROVE  /\ NoKey \in Key /\ NetworkKey(n) \in Key
           /\ NoPdu \in Pdu /\ Accept(n) \in Pdu /\ Data(n, f) \in Pdu
  BY DEF Key, NoKey, NetworkKey, Pdu, NoPdu, Accept, Data

\* Join derives keys of the right type, from whatever accept it is given.
LEMMA DerivedType ==
    ASSUME NEW n \in Nat, NEW p \in Pdu
    PROVE  DerivedKey(n, p) \in Key
<1>1. p.key \in Key
  BY DEF Pdu
<1> QED
  BY <1>1 DEF DerivedKey, Key

-----------------------------------------------------------------------------
(* Type correctness.                                                       *)

\* Every step of the system, crashes included, keeps the variables typed.
LEMMA TypeStep == TypeOK /\ [Next]_vars => TypeOK'
<1> SUFFICES ASSUME TypeOK, [Next]_vars PROVE TypeOK'
  OBVIOUS
<1> USE DEF TypeOK
<1>0. /\ 0 \in Nat /\ NoKey \in Key /\ NoPdu \in Pdu
      /\ answered \subseteq Nat /\ 0 .. MaxDown \subseteq Nat
  BY PduTypes, 0 \in Nat
<1>1. ASSUME NEW c \in Clients, ClientStep(c) PROVE TypeOK'
  <2>1. CASE Start(c)
    BY <1>0, <2>1 DEF Start, Goto, air
  <2>2. CASE ReadSession(c)
    BY <2>2 DEF ReadSession, Goto, joinVars, air
  <2>3. CASE TakeNonce(c)
    <3>1. NonceTaken(row) \in Row /\ NonceTaken(row).nonce \in Nat
      BY RowNonceTaken, RowFields
    <3> QED
      BY <2>3, <3>1 DEF TakeNonce, Goto, air
  <2>4. CASE SendRequest(c)
    <3>1. nonce[c] \in Nat /\ requests \subseteq Nat
      OBVIOUS
    <3>2. requests' \subseteq Nat /\ answered' \subseteq requests'
      BY <2>4, <3>1 DEF SendRequest
    <3> QED
      BY <2>4, <3>2 DEF SendRequest, Goto, joinVars
  <2>5. CASE TakeAccept(c)
    BY <1>0, <2>5, DerivedType DEF TakeAccept, Goto, air
  <2>6. CASE SaveJoin(c)
    <3>1. JoinSaved(row, derived[c]) \in Row
      BY RowJoinSaved
    <3> QED
      BY <2>6, <3>1 DEF SaveJoin, Goto, joinVars, air
  <2>7. CASE MarkJoined(c)
    BY <2>7 DEF MarkJoined, Goto, air
  <2>8. CASE Abort(c)
    BY <2>8 DEF Abort, Goto, joinVars, air
  <2>9. CASE Stop(c)
    BY <2>9 DEF Stop, Goto, joinVars, air
  <2> QED
    BY <1>1, <2>1, <2>2, <2>3, <2>4, <2>5, <2>6, <2>7, <2>8, <2>9 DEF ClientStep
<1>2. ASSUME NEW c \in Clients, LoopStep(c) PROVE TypeOK'
  <2>1. ASSUME NEW pdu \in Pdu, ReadIntoJoin(c, pdu) PROVE TypeOK'
    BY <2>1 DEF ReadIntoJoin, air
  <2>2. ASSUME NEW pdu \in Pdu, ReadDownlink(c, pdu) PROVE TypeOK'
    BY <2>2 DEF ReadDownlink, Authentic, clientVars, joinVars, air, Pdu
  <2>3. CASE StoreDownlink(c)
    <3>1. loop[c].key \in Key /\ loop[c].fcnt \in Nat
      BY <2>3
    <3>2. DownSet(row, loop[c].fcnt) \in Row
      BY <3>1, RowDownSet
    <3> QED
      BY <1>0, <2>3, <3>1, <3>2 DEF StoreDownlink, IdleWorker, Frame, clientVars, joinVars
  <2>4. CASE AbortDownlink(c)
    BY <1>0, <2>4 DEF AbortDownlink, IdleWorker, clientVars, joinVars, air
  <2>5. CASE Receive(c)
    BY <1>0, <2>1, <2>2, <2>5, PduTypes DEF Receive
  <2> QED
    BY <1>2, <2>3, <2>4, <2>5 DEF LoopStep
<1>3. ASSUME NEW w \in Workers, UplinkStep(w) PROVE TypeOK'
  <2>1. ASSUME NEW c \in Clients, ReadForUplink(w, c) PROVE TypeOK'
    BY <1>0, <2>1, RowFields DEF ReadForUplink, clientVars, joinVars, air
  <2>2. CASE TakeFCntUp(w)
    BY <1>0, <2>2, RowFields, RowUpTaken
       DEF TakeFCntUp, IdleWorker, clientVars, joinVars, air
  <2>3. CASE SendFrame(w)
    BY <1>0, <2>3 DEF SendFrame, IdleWorker, Frame, clientVars, joinVars
  <2>4. CASE AbortUplink(w)
    BY <1>0, <2>4 DEF AbortUplink, IdleWorker, clientVars, joinVars, air
  <2> QED
    BY <1>3, <2>1, <2>2, <2>3, <2>4 DEF UplinkStep
<1>4. ASSUME NEW n \in requests, Answer(n) PROVE TypeOK'
  BY <1>4 DEF Answer, clientVars, joinVars
<1>5. CASE Crash
  BY <1>0, <1>5 DEF Crash, IdleWorker, air
<1>6. CASE UNCHANGED vars
  BY <1>6 DEF vars, clientVars, joinVars, air
<1> QED
  BY <1>1, <1>2, <1>3, <1>4, <1>5, <1>6 DEF Next

\* Every reachable state is well typed, whatever fails or restarts in between.
THEOREM TypeCorrect == Spec => []TypeOK
<1>1. Init => TypeOK
  BY PduTypes, 0 \in Nat DEF Init, TypeOK, NewRow, Row, IdleWorker
<1> QED
  BY <1>1, TypeStep, PTL DEF Spec

-----------------------------------------------------------------------------
(* DevNonces.  NextDevNonce persists a nonce before anyone can use it, so   *)
(* the row bounds every nonce in use or transmitted; those of clients that  *)
(* are still joining are pairwise distinct.                                 *)

Joining == {"send", "wait", "save"}

NonceInv ==
    /\ \A n \in requests : n <= row.nonce
    /\ \A c \in Clients : pc[c] \in Joining => 0 < nonce[c] /\ nonce[c] <= row.nonce
    /\ \A c, d \in Clients :
          c # d /\ pc[c] \in Joining /\ pc[d] \in Joining => nonce[c] # nonce[d]
    /\ \A c \in Clients : pc[c] = "send" => nonce[c] \notin requests

\* Every step keeps NonceInv: a nonce in flight has been counted in the row.
LEMMA NonceStep == TypeOK /\ NonceInv /\ [Next]_vars => NonceInv'
<1> SUFFICES ASSUME TypeOK, NonceInv, [Next]_vars PROVE NonceInv'
  OBVIOUS
<1> USE DEF Joining
<1>0. row.nonce \in Nat /\ nonce \in [Clients -> Nat] /\ requests \subseteq Nat
  BY RowFields DEF TypeOK
\* Steps that touch neither a nonce nor a client that holds one.
<1>a. ASSUME row'.nonce = row.nonce, UNCHANGED <<pc, nonce, requests>> PROVE NonceInv'
  BY <1>a DEF NonceInv
\* Steps that move one client without giving it a nonce to send.
<1>b. ASSUME NEW c \in Clients, row'.nonce = row.nonce, requests' = requests,
             NEW where, Goto(c, where), where # "send",
             where \in Joining => pc[c] \in Joining,
             \/ nonce' = nonce
             \/ where \notin Joining /\ nonce' = [nonce EXCEPT ![c] = 0]
      PROVE  NonceInv'
  <2>1. /\ \A d \in Clients \ {c} : pc'[d] = pc[d] /\ nonce'[d] = nonce[d]
        /\ pc'[c] = where
        /\ where \in Joining => nonce'[c] = nonce[c]
    BY <1>b DEF Goto, TypeOK
  <2> QED
    BY <1>b, <2>1 DEF NonceInv
<1>1. ASSUME NEW c \in Clients, ClientStep(c) PROVE NonceInv'
  <2>1. CASE Start(c)
    BY <2>1, <1>b DEF Start, air
  <2>2. CASE ReadSession(c)
    <3> DEFINE to == IF ~Readable(row) THEN "off" ELSE IF row.joined THEN "up" ELSE "join"
    <3>1. to \in {"off", "up", "join"} /\ Goto(c, to)
      BY <2>2 DEF ReadSession
    <3> QED
      BY <3>1, <2>2, <1>b DEF ReadSession, joinVars, air
  <2>3. CASE TakeNonce(c)
    <3>1. /\ row'.nonce = row.nonce + 1
          /\ requests' = requests
          /\ \A d \in Clients \ {c} : pc'[d] = pc[d] /\ nonce'[d] = nonce[d]
          /\ \/ pc'[c] = "off"
             \/ pc'[c] = "send" /\ nonce'[c] = row.nonce + 1
      <4>1. row' = NonceTaken(row) /\ row'.nonce = row.nonce + 1
        BY <2>3, RowNonceTaken DEF TakeNonce, TypeOK
      <4> QED
        BY <4>1, <2>3 DEF TakeNonce, Goto, TypeOK, air
    <3>2. \A n \in requests : n <= row.nonce /\ n # row.nonce + 1
      BY <1>0 DEF NonceInv
    <3>3. \A d \in Clients : pc[d] \in Joining => nonce[d] # row.nonce + 1
      BY <1>0 DEF NonceInv
    <3> QED
      BY <1>0, <3>1, <3>2, <3>3 DEF NonceInv
  <2>4. CASE SendRequest(c)
    <3>1. /\ row' = row /\ nonce' = nonce /\ pc[c] = "send" /\ pc'[c] = "wait"
          /\ \A d \in Clients \ {c} : pc'[d] = pc[d]
          /\ requests' = requests \cup {nonce[c]}
      BY <2>4 DEF SendRequest, Goto, joinVars, TypeOK
    <3> QED
      BY <3>1 DEF NonceInv
  <2>5. CASE TakeAccept(c)
    <3> DEFINE to == IF slot[c].kind = "accept" THEN "save" ELSE "off"
    <3>1. to \in {"save", "off"} /\ Goto(c, to)
      BY <2>5 DEF TakeAccept
    <3> QED
      BY <3>1, <2>5, <1>b DEF TakeAccept, air
  <2>6. CASE SaveJoin(c)
    <3>1. row'.nonce = row.nonce
      BY <2>6 DEF SaveJoin, JoinSaved
    <3> QED
      BY <3>1, <2>6, <1>b DEF SaveJoin, joinVars, air
  <2>7. CASE MarkJoined(c)
    BY <2>7, <1>b DEF MarkJoined, air
  <2>8. CASE Abort(c)
    BY <2>8, <1>b DEF Abort, joinVars, air
  <2>9. CASE Stop(c)
    BY <2>9, <1>b DEF Stop, joinVars, air
  <2> QED
    BY <1>1, <2>1, <2>2, <2>3, <2>4, <2>5, <2>6, <2>7, <2>8, <2>9 DEF ClientStep
<1>2. ASSUME NEW c \in Clients, LoopStep(c) PROVE NonceInv'
  <2>1. CASE Receive(c)
    BY <2>1, <1>a DEF Receive, ReadIntoJoin, ReadDownlink, Authentic, clientVars, joinVars, air
  <2>2. CASE StoreDownlink(c)
    <3>1. row \in Row /\ loop[c].fcnt \in Nat
      BY DEF TypeOK
    <3>2. row' = DownSet(row, loop[c].fcnt)
      BY <2>2 DEF StoreDownlink
    <3>3. row'.nonce = row.nonce
      BY <3>1, <3>2 DEF DownSet, Row
    <3> QED
      BY <3>3, <2>2, <1>a DEF StoreDownlink, clientVars, joinVars
  <2>3. CASE AbortDownlink(c)
    BY <2>3, <1>a DEF AbortDownlink, clientVars, joinVars, air
  <2> QED
    BY <1>2, <2>1, <2>2, <2>3 DEF LoopStep
<1>3. ASSUME NEW w \in Workers, UplinkStep(w) PROVE NonceInv'
  <2>1. ASSUME NEW c \in Clients, ReadForUplink(w, c) PROVE NonceInv'
    BY <2>1, <1>a DEF ReadForUplink, clientVars, joinVars, air
  <2>2. CASE TakeFCntUp(w)
    <3>1. row'.nonce = row.nonce
      BY <2>2, RowUpTaken DEF TakeFCntUp, TypeOK
    <3> QED
      BY <3>1, <2>2, <1>a DEF TakeFCntUp, clientVars, joinVars, air
  <2>3. CASE SendFrame(w)
    BY <2>3, <1>a DEF SendFrame, clientVars, joinVars
  <2>4. CASE AbortUplink(w)
    BY <2>4, <1>a DEF AbortUplink, clientVars, joinVars, air
  <2> QED
    BY <1>3, <2>1, <2>2, <2>3, <2>4 DEF UplinkStep
<1>4. ASSUME NEW n \in requests, Answer(n) PROVE NonceInv'
  BY <1>4, <1>a DEF Answer, clientVars, joinVars
<1>5. CASE Crash
  BY <1>5 DEF Crash, NonceInv, air
<1>6. CASE UNCHANGED vars
  BY <1>6, <1>a DEF vars, clientVars, joinVars, air
<1> QED
  BY <1>1, <1>2, <1>3, <1>4, <1>5, <1>6 DEF Next

\* Every behaviour keeps the types and NonceInv.
LEMMA NonceInvariant == Spec => [](TypeOK /\ NonceInv)
<1>1. Init => NonceInv
  BY DEF Init, NonceInv, Joining
<1> QED
  BY <1>1, TypeCorrect, NonceStep, PTL DEF Spec

\* NextDevNonce's promise, for any number of overlapping clients, aborted
\* joins and crashes: no join-request ever repeats a DevNonce.
THEOREM NonceNeverReused == Spec => []DevNonceNeverReused
<1>1. TypeOK /\ NonceInv => DevNonceNeverReused
  BY DEF NonceInv, DevNonceNeverReused, Joining
<1> QED
  BY <1>1, NonceInvariant, PTL

-----------------------------------------------------------------------------
(* Counters.  SaveJoin resets fcnt_up, so a frame of the new session must   *)
(* not exist yet: keys are named by a nonce that only the client about to   *)
(* save them holds, and nothing was ever signed under it.                   *)

KeyInv ==
    /\ row.key.nonce <= row.nonce
    /\ \A u \in uplinks : u.key.nonce <= row.nonce
    /\ \A w \in Workers : worker[w].pc # "idle" => worker[w].key.nonce <= row.nonce
    /\ \A c \in Clients : pc[c] \in Joining =>
          /\ row.key.nonce # nonce[c]
          /\ \A u \in uplinks : u.key.nonce # nonce[c]
          /\ \A w \in Workers : worker[w].pc # "idle" => worker[w].key.nonce # nonce[c]
    /\ \A c \in Clients : pc[c] = "save" => derived[c].nonce = nonce[c]

CounterInv == TypeOK /\ NonceInv /\ KeyInv /\ CounterPersistedFirst

\* Every step keeps the uplink counter of the row ahead of the frames of its keys.
LEMMA CounterStep == CounterInv /\ [Next]_vars => KeyInv' /\ CounterPersistedFirst'
<1> SUFFICES ASSUME CounterInv, [Next]_vars PROVE KeyInv' /\ CounterPersistedFirst'
  OBVIOUS
<1> USE DEF Joining
<1>0. /\ TypeOK /\ NonceInv /\ KeyInv /\ CounterPersistedFirst
      /\ row \in Row /\ row.nonce \in Nat /\ row.up \in Nat /\ row.key.nonce \in Nat
      /\ nonce \in [Clients -> Nat]
      /\ \A w \in Workers : worker[w].key \in Key /\ worker[w].key.nonce \in Nat
      /\ \A u \in uplinks : u.key.nonce \in Nat
  BY DEF CounterInv, TypeOK, Row, Key, Frame
\* Steps that move one client and neither the row nor a frame.
<1>a. ASSUME NEW c \in Clients, UNCHANGED <<row, worker, uplinks>>,
             NEW where, Goto(c, where),
             where \in Joining => pc[c] \in Joining,
             \/ nonce' = nonce
             \/ where \notin Joining /\ nonce' = [nonce EXCEPT ![c] = 0],
             where = "save" => derived'[c].nonce = nonce[c],
             \A d \in Clients \ {c} : derived'[d] = derived[d]
      PROVE  KeyInv' /\ CounterPersistedFirst'
  <2>1. /\ \A d \in Clients \ {c} : pc'[d] = pc[d] /\ nonce'[d] = nonce[d]
        /\ pc'[c] = where
        /\ where \in Joining => nonce'[c] = nonce[c]
    BY <1>a, <1>0 DEF Goto, TypeOK
  <2>2. KeyInv'
    BY <1>0, <1>a, <2>1 DEF KeyInv
  <2>3. CounterPersistedFirst'
    BY <1>0, <1>a DEF CounterPersistedFirst
  <2> QED
    BY <2>2, <2>3
\* Steps that leave nonces, keys and frames alone and raise or keep fcnt_up.
<1>b. ASSUME UNCHANGED <<pc, nonce, derived, uplinks, worker>>,
             row'.nonce = row.nonce, row'.key = row.key, row'.up = row.up
      PROVE  KeyInv' /\ CounterPersistedFirst'
  BY <1>0, <1>b DEF KeyInv, CounterPersistedFirst
<1>1. ASSUME NEW c \in Clients, ClientStep(c) PROVE KeyInv' /\ CounterPersistedFirst'
  <2>1. CASE Start(c)
    BY <2>1, <1>a, <1>0 DEF Start, air, TypeOK
  <2>2. CASE ReadSession(c)
    <3> DEFINE to == IF ~Readable(row) THEN "off" ELSE IF row.joined THEN "up" ELSE "join"
    <3>1. to \in {"off", "up", "join"} /\ Goto(c, to)
      BY <2>2 DEF ReadSession
    <3> QED
      BY <3>1, <2>2, <1>a DEF ReadSession, joinVars, air
  <2>3. CASE TakeNonce(c)
    <3>0. row' = NonceTaken(row)
      BY <2>3 DEF TakeNonce
    <3>1. /\ row'.nonce = row.nonce + 1 /\ row'.key = row.key /\ row'.up = row.up
          /\ UNCHANGED <<worker, uplinks, derived>>
          /\ \A d \in Clients \ {c} : pc'[d] = pc[d] /\ nonce'[d] = nonce[d]
          /\ \/ pc'[c] = "off"
             \/ pc'[c] = "send" /\ nonce'[c] = row.nonce + 1
      <4>1. row'.nonce = row.nonce + 1 /\ row'.key = row.key /\ row'.up = row.up
        BY <3>0, <1>0 DEF NonceTaken, Row
      <4> QED
        BY <4>1, <2>3, <1>0 DEF TakeNonce, Goto, TypeOK, joinVars, air
    <3>2. KeyInv'
      BY <1>0, <3>1 DEF KeyInv
    <3>3. CounterPersistedFirst'
      BY <1>0, <3>1 DEF CounterPersistedFirst
    <3> QED
      BY <3>2, <3>3
  <2>4. CASE SendRequest(c)
    BY <2>4, <1>a DEF SendRequest, joinVars
  <2>5. CASE TakeAccept(c)
    <3> DEFINE to == IF slot[c].kind = "accept" THEN "save" ELSE "off"
    <3>1. to \in {"save", "off"} /\ Goto(c, to)
      BY <2>5 DEF TakeAccept
    <3>2. derived'[c].nonce = nonce[c] /\ \A d \in Clients \ {c} : derived'[d] = derived[d]
      BY <2>5, <1>0 DEF TakeAccept, DerivedKey, TypeOK
    <3> QED
      BY <3>1, <3>2, <2>5, <1>a DEF TakeAccept, air
  <2>6. CASE SaveJoin(c)
    <3>1. /\ row'.nonce = row.nonce /\ row'.key = derived[c] /\ row'.up = 0
          /\ UNCHANGED <<worker, uplinks, nonce, derived>>
          /\ pc[c] = "save" /\ derived[c].nonce = nonce[c]
          /\ pc'[c] = "saved" /\ \A d \in Clients \ {c} : pc'[d] = pc[d]
      BY <2>6, <1>0 DEF SaveJoin, JoinSaved, Goto, KeyInv, TypeOK, joinVars, air
    <3>2. /\ 0 < nonce[c] /\ nonce[c] <= row.nonce
          /\ \A u \in uplinks : u.key # derived[c]
          /\ \A w \in Workers : worker[w].pc # "idle" => worker[w].key # derived[c]
          /\ \A d \in Clients \ {c} : pc[d] \in Joining => nonce[d] # nonce[c]
      BY <1>0, <3>1 DEF KeyInv, NonceInv
    <3>3. KeyInv'
      BY <1>0, <3>1, <3>2 DEF KeyInv
    <3>4. CounterPersistedFirst'
      BY <1>0, <3>1, <3>2 DEF CounterPersistedFirst
    <3> QED
      BY <3>3, <3>4
  <2>7. CASE MarkJoined(c)
    BY <2>7, <1>a DEF MarkJoined, air
  <2>8. CASE Abort(c)
    BY <2>8, <1>a DEF Abort, joinVars, air
  <2>9. CASE Stop(c)
    BY <2>9, <1>a DEF Stop, joinVars, air
  <2> QED
    BY <1>1, <2>1, <2>2, <2>3, <2>4, <2>5, <2>6, <2>7, <2>8, <2>9 DEF ClientStep
<1>2. ASSUME NEW c \in Clients, LoopStep(c) PROVE KeyInv' /\ CounterPersistedFirst'
  <2>1. CASE Receive(c)
    BY <2>1, <1>b DEF Receive, ReadIntoJoin, ReadDownlink, Authentic, clientVars, joinVars, air
  <2>2. CASE StoreDownlink(c)
    <3>1. row' = DownSet(row, loop[c].fcnt)
      BY <2>2 DEF StoreDownlink
    <3>2. row'.nonce = row.nonce /\ row'.key = row.key /\ row'.up = row.up
      BY <1>0, <3>1 DEF DownSet, Row
    <3> QED
      BY <3>2, <2>2, <1>b DEF StoreDownlink, clientVars, joinVars
  <2>3. CASE AbortDownlink(c)
    BY <2>3, <1>b DEF AbortDownlink, clientVars, joinVars, air
  <2> QED
    BY <1>2, <2>1, <2>2, <2>3 DEF LoopStep
<1>3. ASSUME NEW w \in Workers, UplinkStep(w) PROVE KeyInv' /\ CounterPersistedFirst'
  <2>1. ASSUME NEW c \in Clients, ReadForUplink(w, c)
        PROVE  KeyInv' /\ CounterPersistedFirst'
    <3>1. /\ UNCHANGED <<row, pc, nonce, derived, uplinks>>
          /\ worker'[w].pc = "take" /\ worker'[w].key = row.key
          /\ \A v \in Workers \ {w} : worker'[v] = worker[v]
      BY <2>1, <1>0 DEF ReadForUplink, clientVars, joinVars, air, TypeOK
    <3>2. KeyInv'
      BY <1>0, <3>1 DEF KeyInv
    <3>3. CounterPersistedFirst'
      BY <1>0, <3>1 DEF CounterPersistedFirst
    <3> QED
      BY <3>2, <3>3
  <2>2. CASE TakeFCntUp(w)
    <3>0. row' = UpTaken(row)
      BY <2>2 DEF TakeFCntUp
    <3>1. row'.nonce = row.nonce /\ row'.key = row.key /\ row'.up = row.up + 1
      BY <1>0, <3>0 DEF UpTaken, Row
    <3>2. /\ UNCHANGED <<pc, nonce, derived, uplinks>>
          /\ worker[w].pc = "take"
          /\ worker'[w].pc = "idle" \/ (/\ worker'[w].key = worker[w].key
                                        /\ worker'[w].fcnt = row.up)
          /\ \A v \in Workers \ {w} : worker'[v] = worker[v]
      BY <2>2, <1>0 DEF TakeFCntUp, IdleWorker, clientVars, joinVars, air, TypeOK
    <3>3. KeyInv'
      BY <1>0, <3>1, <3>2 DEF KeyInv
    <3>4. \A u \in uplinks : u.fcnt \in Nat
      BY <1>0 DEF TypeOK, Frame
    <3>5. \A v \in Workers : worker[v].fcnt \in Nat
      BY <1>0 DEF TypeOK
    <3>6. CounterPersistedFirst'
      BY <1>0, <3>1, <3>2, <3>4, <3>5 DEF CounterPersistedFirst
    <3> QED
      BY <3>3, <3>6
  <2>3. CASE SendFrame(w)
    <3>1. /\ UNCHANGED <<row, pc, nonce, derived>>
          /\ worker[w].pc = "emit" /\ worker'[w].pc = "idle"
          /\ \A v \in Workers \ {w} : worker'[v] = worker[v]
          /\ uplinks' = uplinks \cup {[key |-> worker[w].key, fcnt |-> worker[w].fcnt]}
      BY <2>3, <1>0 DEF SendFrame, IdleWorker, clientVars, joinVars, TypeOK
    <3>2. KeyInv'
      BY <1>0, <3>1 DEF KeyInv
    <3>3. CounterPersistedFirst'
      BY <1>0, <3>1 DEF CounterPersistedFirst
    <3> QED
      BY <3>2, <3>3
  <2>4. CASE AbortUplink(w)
    <3>1. /\ UNCHANGED <<row, pc, nonce, derived, uplinks>>
          /\ worker'[w].pc = "idle"
          /\ \A v \in Workers \ {w} : worker'[v] = worker[v]
      BY <2>4, <1>0 DEF AbortUplink, IdleWorker, clientVars, joinVars, air, TypeOK
    <3>2. KeyInv'
      BY <1>0, <3>1 DEF KeyInv
    <3>3. CounterPersistedFirst'
      BY <1>0, <3>1 DEF CounterPersistedFirst
    <3> QED
      BY <3>2, <3>3
  <2> QED
    BY <1>3, <2>1, <2>2, <2>3, <2>4 DEF UplinkStep
<1>4. ASSUME NEW n \in requests, Answer(n) PROVE KeyInv' /\ CounterPersistedFirst'
  BY <1>4, <1>b DEF Answer, clientVars, joinVars
<1>5. CASE Crash
  BY <1>0, <1>5 DEF Crash, IdleWorker, KeyInv, CounterPersistedFirst, air
<1>6. CASE UNCHANGED vars
  BY <1>6, <1>b DEF vars, clientVars, joinVars, air
<1> QED
  BY <1>1, <1>2, <1>3, <1>4, <1>5, <1>6 DEF Next

\* Every behaviour keeps CounterInv.
LEMMA CounterInvariant == Spec => []CounterInv
<1>1. Init => KeyInv /\ CounterPersistedFirst
  BY DEF Init, KeyInv, CounterPersistedFirst, Joining, NewRow, NoKey, IdleWorker
<1>2. TypeOK /\ NonceInv /\ KeyInv /\ CounterPersistedFirst <=> CounterInv
  BY DEF CounterInv
<1> QED
  BY <1>1, <1>2, NonceInvariant, CounterStep, PTL DEF Spec

\* TakeFCntUp persists before the frame exists, whatever else runs or fails:
\* no frame of the current session is at or above the persisted counter.
THEOREM CounterAhead == Spec => []CounterPersistedFirst
<1>1. CounterInv => CounterPersistedFirst
  BY DEF CounterInv
<1> QED
  BY <1>1, CounterInvariant, PTL

-----------------------------------------------------------------------------
(* The downlink counter on the wire.                                       *)

\* What the device has of a downlink counter, it has from a frame.
WireInv ==
    /\ row.down <= MaxWire
    /\ \A c \in Clients : loop[c].pc = "store" => loop[c].fcnt <= MaxWire
    /\ \A d \in delivered : d.fcnt <= MaxWire

\* A counter that is its own low bits fits in them.
LEMMA OnWireFits ==
    ASSUME NEW f \in Nat, OnWire(f) = f
    PROVE  f <= MaxWire
<1>1. MaxWire \in Nat /\ MaxWire + 1 \in Nat \ {0}
  BY BoundAssumption, WidthAssumption
<1>2. f % (MaxWire + 1) \in 0 .. (MaxWire + 1) - 1
  BY <1>1
<1> QED
  BY <1>1, <1>2 DEF OnWire

\* Every step keeps the counter to the bits a frame carries.
LEMMA WireStep == TypeOK /\ WireInv /\ [Next]_vars => WireInv'
<1> SUFFICES ASSUME TypeOK, WireInv, [Next]_vars PROVE WireInv'
  OBVIOUS
<1>0. /\ row \in Row /\ row.down \in Nat /\ MaxWire \in Nat /\ derived \in [Clients -> Key]
      /\ loop \in [Clients -> [pc : {"idle", "store"}, key : Key, fcnt : Nat]]
  BY RowFields, BoundAssumption, WidthAssumption DEF TypeOK
<1>1. ASSUME UNCHANGED <<loop, delivered>>, row'.down \in {row.down, 0} PROVE WireInv'
  BY <1>0, <1>1 DEF WireInv
<1>2. ASSUME NEW c \in Clients, ClientStep(c) PROVE WireInv'
  <2>1. UNCHANGED <<loop, delivered>>
    BY <1>2 DEF ClientStep, Start, ReadSession, TakeNonce, SendRequest, TakeAccept, SaveJoin,
                MarkJoined, Abort, Stop, air
  <2>2. row' \in {row, NonceTaken(row), JoinSaved(row, derived[c])}
    BY <1>2 DEF ClientStep, Start, ReadSession, TakeNonce, SendRequest, TakeAccept, SaveJoin,
                MarkJoined, Abort, Stop
  <2>3. NonceTaken(row).down = row.down /\ JoinSaved(row, derived[c]).down = 0
    BY <1>0, RowNonceTaken DEF JoinSaved
  <2> QED
    BY <1>1, <2>1, <2>2, <2>3
<1>3. ASSUME NEW w \in Workers, UplinkStep(w) PROVE WireInv'
  <2>1. UNCHANGED <<loop, delivered>> /\ row' \in {row, UpTaken(row)}
    BY <1>3 DEF UplinkStep, ReadForUplink, TakeFCntUp, SendFrame, AbortUplink, air
  <2>2. UpTaken(row).down = row.down
    BY <1>0, RowUpTaken
  <2> QED
    BY <1>1, <2>1, <2>2
<1>4. ASSUME NEW c \in Clients, NEW n \in answered, NEW f \in Nat, ReadDownlink(c, Data(n, f))
      PROVE  WireInv'
  <2>1. /\ UNCHANGED <<row, delivered>> /\ loop'[c].fcnt = f /\ OnWire(f) = f
        /\ \A d \in Clients \ {c} : loop'[d] = loop[d]
    BY <1>0, <1>4 DEF ReadDownlink, Authentic, Data, air
  <2> QED
    BY <2>1, OnWireFits DEF WireInv
<1>5. ASSUME NEW c \in Clients, Receive(c) PROVE WireInv'
  <2>1. CASE \E p : ReadIntoJoin(c, p)
    BY <1>1, <2>1 DEF ReadIntoJoin, air
  <2>2. 0 .. MaxDown \subseteq Nat
    OBVIOUS
  <2> QED
    BY <1>4, <1>5, <2>1, <2>2 DEF Receive
<1>6. ASSUME NEW c \in Clients, StoreDownlink(c) PROVE WireInv'
  <2>1. /\ loop[c].pc = "store" /\ loop'[c].pc = "idle" /\ row' = DownSet(row, loop[c].fcnt)
        /\ \A d \in Clients \ {c} : loop'[d] = loop[d]
        /\ delivered' = delivered \cup {[key |-> loop[c].key, fcnt |-> loop[c].fcnt]}
    BY <1>0, <1>6 DEF StoreDownlink, IdleWorker
  <2>2. row'.down = loop[c].fcnt
    BY <1>0, <2>1, RowDownSet
  <2> QED
    BY <2>1, <2>2 DEF WireInv
<1>7. ASSUME NEW c \in Clients, AbortDownlink(c) PROVE WireInv'
  BY <1>0, <1>7 DEF AbortDownlink, IdleWorker, WireInv, air
<1>8. CASE Crash
  BY <1>8 DEF Crash, IdleWorker, WireInv, air
<1>9. CASE UNCHANGED vars \/ \E n \in requests : Answer(n)
  BY <1>1, <1>9 DEF Answer, vars, air
<1> QED
  BY <1>2, <1>3, <1>5, <1>6, <1>7, <1>8, <1>9 DEF Next, LoopStep

\* The stored downlink counter never outgrows the bits a frame carries, so it always
\* fits its column's Go type, which Readable takes for granted; and no downlink above
\* them is delivered: a session that has used them up hears no new counter again.
THEOREM DownCounterOnWire ==
    Spec => [](row.down <= MaxWire /\ \A d \in delivered : d.fcnt <= MaxWire)
<1>1. Init => WireInv
  BY BoundAssumption, WidthAssumption DEF Init, WireInv, NewRow, IdleWorker
<1>2. WireInv => row.down <= MaxWire /\ \A d \in delivered : d.fcnt <= MaxWire
  BY DEF WireInv
<1> QED
  BY <1>1, <1>2, WireStep, TypeCorrect, PTL DEF Spec
=============================================================================
