--------------------------- MODULE LifecycleProofs ---------------------------
(***************************************************************************)
(* Proofs about TagLifecycle, for every number of Start calls and pushes.  *)
(***************************************************************************)
EXTENDS TagLifecycle, SequenceTheorems, TLAPS

-----------------------------------------------------------------------------
(* The messages are typed.                                                 *)

\* What the tag and the network server send are envelopes and downlink frames.
LEMMA MessageTypes ==
    ASSUME NEW n \in Nat
    PROVE  /\ NoKey \in Key /\ NoPdu \in Pdu /\ Hello \in Envelope
           /\ Jreq(n) \in Envelope /\ Accept(n) \in Pdu /\ Data(n) \in Pdu
  BY DEF Key, NoKey, Pdu, NoPdu, Envelope, Hello, Jreq, Accept, Data

\* A queue keeps its type when a message is appended, and what is taken off a
\* nonempty queue is a message.
LEMMA QueueTypes ==
    ASSUME NEW S, NEW q \in Seq(S), NEW m \in S
    PROVE  /\ Append(q, m) \in Seq(S)
           /\ q # <<>> => Head(q) \in S /\ Tail(q) \in Seq(S)
           /\ <<>> \in Seq(S)
  OBVIOUS

\* So does one in which a message overtakes the last one, and it holds no other messages.
LEMMA QueueOvertaken ==
    ASSUME NEW S, NEW q \in Seq(S), NEW m \in S, q # <<>>
    PROVE  LET new == Append([q EXCEPT ![Len(q)] = m], q[Len(q)])
           IN  /\ new \in Seq(S)
               /\ \A i \in 1 .. Len(new) : new[i] = m \/ \E j \in 1 .. Len(q) : new[i] = q[j]
<1> DEFINE most == [q EXCEPT ![Len(q)] = m]
           new == Append(most, q[Len(q)])
<1>1. Len(q) \in 1 .. Len(q) /\ q[Len(q)] \in S
  OBVIOUS
<1>2. /\ most \in Seq(S) /\ Len(most) = Len(q)
      /\ \A i \in 1 .. Len(q) : most[i] = m \/ most[i] = q[i]
  BY <1>1
<1> HIDE DEF most
<1>3. new \in Seq(S) /\ Len(new) = Len(q) + 1 /\ new[Len(q) + 1] = q[Len(q)]
      /\ \A i \in 1 .. Len(q) : new[i] = most[i]
  BY <1>1, <1>2
<1> HIDE DEF new
<1>4. ASSUME NEW i \in 1 .. Len(new)
      PROVE  new[i] = m \/ \E j \in 1 .. Len(q) : new[i] = q[j]
  <2>1. CASE i = Len(q) + 1
    BY <1>1, <1>3, <2>1
  <2>2. CASE i # Len(q) + 1
    <3>1. i \in 1 .. Len(q)
      BY <1>1, <1>3, <2>2
    <3> QED
      BY <1>2, <1>3, <3>1
  <2> QED
    BY <2>1, <2>2
<1> QED
  BY <1>3, <1>4 DEF most, new

-----------------------------------------------------------------------------
(* Type correctness.                                                       *)

\* A step of a Start call keeps the variables typed (Orchestrator.Start).
LEMMA TypeStart ==
    ASSUME TypeOK, NEW a \in Starts, StartStep(a) \/ Fail(a)
    PROVE  TypeOK'
<1> USE DEF TypeOK, rowVars, clientVars, connVars, lnsVars, Goto, GiveUp
<1>0. NoKey \in Key /\ NoPdu \in Pdu
  BY MessageTypes
<1>1. CASE CheckRunning(a)
  BY <1>1 DEF CheckRunning, Settled
<1>2. CASE Dial(a)
  BY <1>2 DEF Dial
<1>3. CASE SendHello(a)
  <2>1. Append(up[a], Hello) \in Seq(Envelope)
    BY MessageTypes, QueueTypes
  <2> QED
    BY <1>3, <2>1 DEF SendHello, Send
<1>4. CASE ReadSession(a)
  BY <1>4 DEF ReadSession
<1>5. CASE TakeNonce(a)
  <2>1. nonce + 1 \in Nat
    OBVIOUS
  <2>2. CASE tag = "present"
    BY <1>5, <2>1, <2>2 DEF TakeNonce
  <2>3. CASE tag # "present"
    BY <1>5, <2>3 DEF TakeNonce
  <2> QED
    BY <2>2, <2>3
<1>6. CASE SendRequest(a)
  <2>1. Append(up[a], Jreq(mine[a])) \in Seq(Envelope)
    BY MessageTypes, QueueTypes
  <2> QED
    BY <1>6, <2>1 DEF SendRequest, Send
<1>7. CASE TakeAccept(a)
  <2>1. slot[a].req \in Nat
    BY DEF Pdu
  <2>2. [nonce |-> mine[a], answers |-> slot[a].req] \in Key
    BY <2>1 DEF Key
  <2> QED
    BY <1>0, <1>7, <2>2 DEF TakeAccept
<1>8. CASE SaveSession(a)
  <2>1. CASE tag = "present"
    <3>1. /\ session' = derived[a] /\ pc' = [pc EXCEPT ![a] = "mark"] /\ open' = open
          /\ derived[a] \in Key
      BY <1>8, <2>1 DEF SaveSession
    <3>2. /\ UNCHANGED <<tag, nonce, mine, derived, running, joined, slot, up, down>>
          /\ UNCHANGED <<handler, registry, routing, air, rising, late, lns, pushes, deletion,
                         orderly>>
      BY <1>8 DEF SaveSession
    <3> QED
      BY <3>1, <3>2
  <2>2. CASE tag # "present"
    BY <1>8, <2>2 DEF SaveSession
  <2> QED
    BY <2>1, <2>2
<1>9. CASE MarkJoined(a)
  BY <1>9 DEF MarkJoined
<1>10. CASE Register(a)
  BY <1>10 DEF Register
<1>11. CASE Fail(a)
  BY <1>11 DEF Fail
<1> QED
  BY <1>1, <1>2, <1>3, <1>4, <1>5, <1>6, <1>7, <1>8, <1>9, <1>10, <1>11 DEF StartStep

\* A step of the gateway keeps the variables typed (Gateway.handleConn, OnDnmsg).
LEMMA TypeGateway ==
    ASSUME TypeOK, (\E a \in Starts : HandlerStep(a)) \/ Lookup \/ WriteDown
    PROVE  TypeOK'
<1> USE DEF TypeOK, rowVars, startVars, clientVars, lnsVars
<1>1. ASSUME NEW a \in Starts, Announce(a) PROVE TypeOK'
  <2>1. Tail(up[a]) \in Seq(Envelope)
    BY <1>1, QueueTypes DEF Announce
  <2> QED
    BY <1>1, <2>1 DEF Announce
<1>2. ASSUME NEW a \in Starts, ForwardJreq(a) PROVE TypeOK'
  <2>1. Tail(up[a]) \in Seq(Envelope) /\ Head(up[a]) \in Envelope
    BY <1>2, QueueTypes DEF ForwardJreq
  <2>2. Head(up[a]).nonce \in Nat
    BY <2>1 DEF Envelope
  <2>3. Append(rising, Head(up[a]).nonce) \in Seq(Nat)
    BY <2>2, QueueTypes
  <2> QED
    BY <1>2, <2>1, <2>3 DEF ForwardJreq
<1>3. ASSUME NEW a \in Starts, Leave(a) PROVE TypeOK'
  BY <1>3 DEF Leave
<1>4. CASE Lookup
  <2>1. Tail(air) \in Seq(Pdu) /\ Head(air) \in Pdu
    BY <1>4, QueueTypes DEF Lookup
  <2>2. registry # None => [conn |-> registry, pdu |-> Head(air)] \in Route
    BY <2>1 DEF Route
  <2> QED
    BY <1>4, <2>1, <2>2 DEF Lookup, connVars
<1>5. CASE WriteDown
  <2>1. routing.conn \in Starts /\ routing.pdu \in Pdu
    BY <1>5 DEF WriteDown, Route
  <2>2. Append(down[routing.conn], routing.pdu) \in Seq(Pdu) /\ <<>> \in Seq(Envelope)
    BY <2>1, QueueTypes, MessageTypes
  <2>3. down' \in [Starts -> Seq(Pdu)]
    <3>1. CASE open[routing.conn]
      BY <1>5, <2>1, <2>2, <3>1 DEF WriteDown
    <3>2. CASE ~open[routing.conn]
      BY <1>5, <3>2 DEF WriteDown
    <3> QED
      BY <3>1, <3>2
  <2>4. up' = up \/ up' = [up EXCEPT ![routing.conn] = <<>>]
    BY <1>5 DEF WriteDown
  <2>5. up' \in [Starts -> Seq(Envelope)]
    BY <2>2, <2>4
  <2>6. /\ routing' = NoRoute
        /\ UNCHANGED <<rowVars, startVars, running, clientVars, open, handler, registry,
                       lnsVars, deletion, orderly>>
    BY <1>5 DEF WriteDown
  <2> QED
    BY <2>3, <2>5, <2>6
<1> QED
  BY <1>1, <1>2, <1>3, <1>4, <1>5 DEF HandlerStep

\* Every step of the system keeps the variables typed.
LEMMA TypeStep == TypeOK /\ [Next]_vars => TypeOK'
<1> SUFFICES ASSUME TypeOK, [Next]_vars PROVE TypeOK'
  OBVIOUS
<1> USE DEF TypeOK, rowVars, startVars, clientVars, connVars, lnsVars
<1>0. NoKey \in Key /\ NoPdu \in Pdu
  BY MessageTypes
<1>1. CASE \E a \in Starts : StartStep(a) \/ Fail(a) \/ HandlerStep(a)
  BY <1>1, TypeStart, TypeGateway
<1>2. ASSUME NEW a \in Starts, RunRead(a) PROVE TypeOK'
  <2>1. Tail(down[a]) \in Seq(Pdu) /\ Head(down[a]) \in Pdu
    BY <1>0, <1>2, QueueTypes DEF RunRead
  <2> QED
    BY <1>2, <2>1 DEF RunRead
<1>3. CASE Stop
  BY <1>3 DEF Stop, Disconnect
<1>4. CASE DeleteStop
  BY <1>4 DEF DeleteStop, Disconnect
<1>5. CASE DeleteRow
  BY <1>0, <1>5 DEF DeleteRow
<1>6. CASE Restart
  <2>1. <<>> \in Seq(Envelope) /\ <<>> \in Seq(Pdu) /\ <<>> \in Seq(Nat)
    OBVIOUS
  <2>2. {rising[i] : i \in DOMAIN rising} \subseteq Nat
    OBVIOUS
  <2> QED
    BY <1>0, <1>6, <2>1, <2>2 DEF Restart
<1>7. CASE Lookup \/ WriteDown
  BY <1>7, TypeGateway
<1>8. CASE Answer
  <2>1. Head(rising) \in Nat /\ Tail(rising) \in Seq(Nat)
    BY <1>8, QueueTypes DEF Answer
  <2>2. Append(air, Accept(Head(rising))) \in Seq(Pdu)
    BY <2>1, MessageTypes, QueueTypes
  <2> QED
    BY <1>8, <2>1, <2>2 DEF Answer
<1>9. CASE AnswerLate
  BY <1>9 DEF AnswerLate
<1>10. CASE Push
  <2>1. air' \in Seq(Pdu)
    <3>1. Data(lns) \in Pdu /\ Append(air, Data(lns)) \in Seq(Pdu)
      BY MessageTypes, QueueTypes
    <3>2. air # <<>> => Append([air EXCEPT ![Len(air)] = Data(lns)], air[Len(air)]) \in Seq(Pdu)
      BY <3>1, QueueOvertaken
    <3> QED
      BY <1>10, <3>1, <3>2 DEF Push
  <2>2. /\ pushes' = pushes + 1
        /\ UNCHANGED <<rowVars, startVars, running, clientVars, connVars>>
        /\ UNCHANGED <<registry, routing, rising, late, lns, deletion, orderly>>
    BY <1>10 DEF Push
  <2> QED
    BY <2>1, <2>2
<1>11. CASE UNCHANGED vars
  BY <1>11 DEF vars
<1> QED
  BY <1>1, <1>2, <1>3, <1>4, <1>5, <1>6, <1>7, <1>8, <1>9, <1>10, <1>11 DEF Next

\* The variables keep their types: the session row, the Start calls, both ends of
\* every connection, the registry and the dnmsgs on their way.
THEOREM LifecycleTypeCorrect == Spec => []TypeOK
<1>1. Init => TypeOK
  BY MessageTypes, QueueTypes DEF Init, TypeOK
<1> QED
  BY <1>1, TypeStep, PTL DEF Spec

-----------------------------------------------------------------------------
(* Connections: who holds one, who serves it, and where its hello is.      *)

Idle(a) == pc[a] \in {"idle", "returned"}

\* One conjunct per fact the actions hand each other.
ConnOf(a) ==
    /\ pc[a] \in {"idle", "dial"} => ~open[a] /\ handler[a] = "none" /\ up[a] = <<>>
    /\ pc[a] \notin {"idle", "dial", "returned"} => open[a]
    /\ running = a => pc[a] = "returned" /\ open[a]
    /\ open[a] => handler[a] \in {"reading", "announced"}
    /\ registry = a => handler[a] = "announced"
    /\ handler[a] = "reading" /\ up[a] # <<>> => Head(up[a]) = Hello
    /\ handler[a] = "reading" /\ open[a] /\ pc[a] # "hello" => up[a] # <<>>

ConnInv == \A a \in Starts : ConnOf(a)

\* Appending to a queue keeps its head.
LEMMA AppendHead ==
    ASSUME NEW S, NEW q \in Seq(S), NEW m \in S
    PROVE  /\ Append(q, m) # <<>>
           /\ Head(Append(q, m)) = IF q = <<>> THEN m ELSE Head(q)
<1>1. CASE q = <<>>
  BY <1>1
<1>2. CASE q # <<>>
  <2>1. Len(q) \in Nat \ {0} /\ Append(q, m)[1] = q[1]
    BY <1>2
  <2> QED
    BY <1>2, <2>1
<1> QED
  BY <1>1, <1>2

\* The steps of a Start call keep the connection facts: it opens its connection
\* once, closes it on every error path, and speaks first.
LEMMA ConnStart ==
    ASSUME TypeOK, ConnInv, NEW a \in Starts, StartStep(a) \/ Fail(a), NEW b \in Starts
    PROVE  ConnOf(b)'
<1> USE DEF TypeOK, rowVars, clientVars, connVars, lnsVars, Goto, GiveUp, ConnOf
<1>0. ConnOf(a) /\ ConnOf(b) /\ a # None /\ b # None
  BY LifecycleAssumption DEF ConnInv
<1>1. CASE CheckRunning(a)
  BY <1>0, <1>1 DEF CheckRunning
<1>2. CASE Dial(a)
  BY <1>0, <1>2 DEF Dial
<1>3. CASE SendHello(a)
  <2>1. /\ Append(up[a], Hello) # <<>>
        /\ Head(Append(up[a], Hello)) = IF up[a] = <<>> THEN Hello ELSE Head(up[a])
    BY AppendHead, MessageTypes
  <2> QED
    BY <1>0, <1>3, <2>1 DEF SendHello, Send
<1>4. CASE ReadSession(a)
  BY <1>0, <1>4 DEF ReadSession
<1>5. CASE TakeNonce(a)
  BY <1>0, <1>5 DEF TakeNonce
<1>6. CASE SendRequest(a)
  <2>1. /\ Append(up[a], Jreq(mine[a])) # <<>>
        /\ up[a] # <<>> => Head(Append(up[a], Jreq(mine[a]))) = Head(up[a])
    BY AppendHead, MessageTypes
  <2> QED
    BY <1>0, <1>6, <2>1 DEF SendRequest, Send
<1>7. CASE TakeAccept(a)
  BY <1>0, <1>7 DEF TakeAccept
<1>8. CASE SaveSession(a)
  BY <1>0, <1>8 DEF SaveSession
<1>9. CASE MarkJoined(a)
  BY <1>0, <1>9 DEF MarkJoined
<1>10. CASE Register(a)
  BY <1>0, <1>10 DEF Register
<1>11. CASE Fail(a)
  BY <1>0, <1>11 DEF Fail
<1> QED
  BY <1>1, <1>2, <1>3, <1>4, <1>5, <1>6, <1>7, <1>8, <1>9, <1>10, <1>11 DEF StartStep

\* Every step of the system keeps the connection facts.
LEMMA ConnStep == TypeOK /\ ConnInv /\ [Next]_vars => ConnInv'
<1> SUFFICES ASSUME TypeOK, ConnInv, [Next]_vars, NEW b \in Starts PROVE ConnOf(b)'
  BY DEF ConnInv
<1> USE DEF TypeOK, rowVars, startVars, clientVars, connVars, lnsVars, ConnOf
<1>0. ConnOf(b) /\ b # None
  BY LifecycleAssumption DEF ConnInv
<1>1. CASE \E a \in Starts : StartStep(a) \/ Fail(a)
  BY <1>1, ConnStart
<1>2. ASSUME NEW a \in Starts, RunRead(a) PROVE ConnOf(b)'
  BY <1>0, <1>2 DEF RunRead
<1>3. ASSUME NEW a \in Starts, Announce(a) PROVE ConnOf(b)'
  BY <1>0, <1>3 DEF Announce, ConnInv
<1>4. ASSUME NEW a \in Starts, ForwardJreq(a) PROVE ConnOf(b)'
  <2>1. ConnOf(a) /\ Hello.type # "jreq"
    BY DEF ConnInv, Hello
  <2>2. handler[a] = "announced" /\ ~(pc[a] \in {"idle", "dial"})
    BY <1>4, <2>1 DEF ForwardJreq
  <2> QED
    BY <1>0, <1>4, <2>2 DEF ForwardJreq
<1>5. ASSUME NEW a \in Starts, Leave(a) PROVE ConnOf(b)'
  BY <1>0, <1>5 DEF Leave, ConnInv
<1>6. CASE Stop \/ DeleteStop
  BY <1>0, <1>6, LifecycleAssumption DEF Stop, DeleteStop, Disconnect, ConnInv
<1>7. CASE DeleteRow \/ Lookup \/ Answer \/ AnswerLate \/ Push
  BY <1>0, <1>7 DEF DeleteRow, Lookup, Answer, AnswerLate, Push
<1>8. CASE Restart
  BY <1>0, <1>8 DEF Restart
<1>9. CASE WriteDown
  <2>1. open' = open /\ up[b] = <<>> => up'[b] = <<>>
    BY <1>9 DEF WriteDown
  <2>2. up'[b] = up[b] \/ (up'[b] = <<>> /\ ~open[b])
    BY <1>9 DEF WriteDown
  <2>3. UNCHANGED <<pc, running, open, handler, registry>>
    BY <1>9 DEF WriteDown
  <2> HIDE DEF TypeOK
  <2> QED
    BY <1>0, <2>1, <2>2, <2>3
<1>10. CASE UNCHANGED vars
  BY <1>0, <1>10 DEF vars
<1> QED
  BY <1>1, <1>2, <1>3, <1>4, <1>5, <1>6, <1>7, <1>8, <1>9, <1>10 DEF Next, HandlerStep

\* The connection facts hold in every reachable state.
LEMMA ConnAlways == Spec => [](TypeOK /\ ConnInv)
<1>1. Init => TypeOK /\ ConnInv
  <2>1. Init => TypeOK
    BY MessageTypes, QueueTypes DEF Init, TypeOK
  <2>2. ASSUME Init, NEW a \in Starts PROVE ConnOf(a)
    <3>1. /\ pc[a] = "idle" /\ ~open[a] /\ handler[a] = "none" /\ up[a] = <<>>
          /\ running = None /\ registry = None
      BY <2>2 DEF Init
    <3> QED
      BY <3>1, LifecycleAssumption DEF ConnOf
  <2> QED
    BY <2>1, <2>2 DEF ConnInv
<1>2. TypeOK /\ ConnInv /\ [Next]_vars => (TypeOK /\ ConnInv)'
  BY TypeStep, ConnStep
<1> QED
  BY <1>1, <1>2, PTL DEF Spec

\* A registered connection is served by the goroutine that will unregister it.
THEOREM LifecycleRegistryServed == Spec => []RegistryServed
<1>1. TypeOK /\ ConnInv => RegistryServed
  BY DEF TypeOK, ConnInv, ConnOf, RegistryServed
<1> QED
  BY <1>1, ConnAlways, PTL

\* A tag the orchestrator lists as running has an open connection.
THEOREM LifecycleRunningConnected == Spec => []RunningConnected
<1>1. TypeOK /\ ConnInv => RunningConnected
  BY DEF TypeOK, ConnInv, ConnOf, RunningConnected
<1> QED
  BY <1>1, ConnAlways, PTL

-----------------------------------------------------------------------------
(* Orderly starts: one call and one connection at a time.                  *)

\* A Start call that is in progress, or whose connection either end still has.
Live(a) == ~Idle(a) \/ open[a] \/ handler[a] \in {"reading", "announced"}

\* Nothing of the tag but a is left; a's connection, once announced, is the
\* registered one, and is closed by Stop or by a's own error paths.
OrderlyInv ==
    orderly =>
        /\ \A a, b \in Starts : Live(a) /\ Live(b) => a = b
        /\ \A a \in Starts : handler[a] = "announced" => registry = a
        /\ \A a \in Starts : open[a] => running = a \/ ~Idle(a)

\* A step that touches only a live a keeps them, if it keeps them for a itself.
LEMMA OrderlyFrame ==
    ASSUME OrderlyInv, orderly' => orderly, NEW a \in Starts, Live(a),
           \A b \in Starts \ {a} : /\ pc'[b] = pc[b] /\ open'[b] = open[b]
                                   /\ handler'[b] = handler[b],
           orderly => (handler'[a] = "announced" => registry' = a),
           orderly => (open'[a] => running' = a \/ ~Idle(a)')
    PROVE  OrderlyInv'
<1> SUFFICES ASSUME orderly' PROVE OrderlyInv'
  BY DEF OrderlyInv
<1>1. \A b \in Starts \ {a} : ~Live(b)
  BY DEF OrderlyInv
<1>2. \A b \in Starts \ {a} : ~Live(b)'
  BY <1>1 DEF Live, Idle
<1>3. \A b, c \in Starts : Live(b)' /\ Live(c)' => b = c
  BY <1>2
<1>4. \A b \in Starts : handler'[b] = "announced" => registry' = b
  BY <1>2 DEF Live
<1>5. \A b \in Starts : open'[b] => running' = b \/ ~Idle(b)'
  BY <1>2 DEF Live
<1> QED
  BY <1>3, <1>4, <1>5 DEF OrderlyInv

\* The steps of a Start call keep what orderly starts guarantee.
LEMMA OrderlyStart ==
    ASSUME TypeOK, ConnInv, OrderlyInv, NEW a \in Starts, StartStep(a) \/ Fail(a)
    PROVE  OrderlyInv'
<1> USE DEF TypeOK, rowVars, clientVars, connVars, lnsVars, Goto, GiveUp
<1>0. /\ ConnOf(a) /\ a # None
      /\ orderly => (handler[a] = "announced" => registry = a)
  BY LifecycleAssumption DEF ConnInv, OrderlyInv
<1>1. CASE CheckRunning(a)
  <2>1. CASE running = None
    <3>1. orderly' => orderly /\ Settled
      BY <1>1, <2>1 DEF CheckRunning
    <3>2. Settled => \A b \in Starts \ {a} : ~Live(b)
      BY DEF Settled, Live, Idle
    <3>3. /\ \A b \in Starts : open'[b] = open[b] /\ handler'[b] = handler[b]
          /\ \A b \in Starts \ {a} : pc'[b] = pc[b]
          /\ handler[a] = "none" /\ ~open[a]
      BY <1>0, <1>1 DEF CheckRunning, ConnOf
    <3>4. orderly' => \A b \in Starts \ {a} : ~Live(b)'
      BY <3>1, <3>2, <3>3 DEF Live, Idle
    <3>5. orderly' => \A b \in Starts : handler'[b] # "announced" /\ ~open'[b]
      BY <3>3, <3>4 DEF Live
    <3> QED
      BY <3>4, <3>5 DEF OrderlyInv
  <2>2. CASE running # None
    <3>1. pc[a] = "idle" /\ pc' = [pc EXCEPT ![a] = "returned"]
      BY <1>1, <2>2 DEF CheckRunning
    <3>2. UNCHANGED <<open, handler, registry, running, orderly>>
      BY <1>1, <2>2 DEF CheckRunning
    <3>3. \A b \in Starts : Idle(b)' <=> Idle(b)
      BY <3>1 DEF Idle
    <3> HIDE DEF TypeOK
    <3> QED
      BY <3>2, <3>3 DEF OrderlyInv, Live
  <2> QED
    BY <2>1, <2>2
<1>2. CASE ~CheckRunning(a)
  <2>1. pc[a] \notin {"idle", "returned"}
    <3> HIDE DEF TypeOK
    <3> QED
      BY <1>2 DEF StartStep, Fail, Dial, SendHello, ReadSession, TakeNonce, SendRequest,
                  TakeAccept, SaveSession, MarkJoined, Register
  <2>2. Live(a)
    BY <2>1 DEF Live, Idle
  <2>3. orderly' = orderly /\ registry' = registry
    BY <1>2 DEF StartStep, Fail, Dial, SendHello, ReadSession, TakeNonce, SendRequest,
                TakeAccept, SaveSession, MarkJoined, Register
  <2>4. \A b \in Starts \ {a} : pc'[b] = pc[b] /\ open'[b] = open[b] /\ handler'[b] = handler[b]
    BY <1>2 DEF StartStep, Fail, Dial, SendHello, ReadSession, TakeNonce, SendRequest,
                TakeAccept, SaveSession, MarkJoined, Register
  <2>5. handler'[a] \in {handler[a], "reading"}
    BY <1>2 DEF StartStep, Fail, Dial, SendHello, ReadSession, TakeNonce, SendRequest,
                TakeAccept, SaveSession, MarkJoined, Register
  <2>6. open'[a] => running' = a \/ ~Idle(a)'
    <3>1. CASE Dial(a)
      BY <1>0, <3>1 DEF Dial, ConnOf, Idle
    <3>2. CASE Register(a)
      BY <3>2 DEF Register
    <3>3. CASE ReadSession(a)
      BY <3>3 DEF ReadSession, Idle
    <3>4. CASE SendHello(a) \/ TakeNonce(a) \/ SendRequest(a)
      BY <3>4 DEF SendHello, TakeNonce, SendRequest, Idle
    <3>5. CASE TakeAccept(a) \/ SaveSession(a) \/ MarkJoined(a)
      BY <3>5 DEF TakeAccept, SaveSession, MarkJoined, Idle
    <3>6. CASE Fail(a)
      BY <3>6 DEF Fail
    <3> HIDE DEF TypeOK, Goto, GiveUp
    <3> QED
      BY <1>2, <3>1, <3>2, <3>3, <3>4, <3>5, <3>6 DEF StartStep
  <2> HIDE DEF TypeOK
  <2> QED
    BY <1>0, <2>2, <2>3, <2>4, <2>5, <2>6, OrderlyFrame
<1> QED
  BY <1>1, <1>2

\* Every step of the system keeps what orderly starts guarantee.
LEMMA OrderlyStep == TypeOK /\ ConnInv /\ OrderlyInv /\ [Next]_vars => OrderlyInv'
<1> SUFFICES ASSUME TypeOK, ConnInv, OrderlyInv, [Next]_vars PROVE OrderlyInv'
  OBVIOUS
<1> USE DEF TypeOK, rowVars, startVars, clientVars, connVars, lnsVars, Live, Idle
<1>1. CASE \E a \in Starts : StartStep(a) \/ Fail(a)
  BY <1>1, OrderlyStart
<1>2. ASSUME NEW a \in Starts, RunRead(a) PROVE OrderlyInv'
  BY <1>2 DEF RunRead, OrderlyInv
<1>3. ASSUME NEW a \in Starts, Announce(a) PROVE OrderlyInv'
  BY <1>3 DEF Announce, OrderlyInv
<1>4. ASSUME NEW a \in Starts, ForwardJreq(a) PROVE OrderlyInv'
  BY <1>4 DEF ForwardJreq, OrderlyInv
<1>5. ASSUME NEW a \in Starts, Leave(a) PROVE OrderlyInv'
  BY <1>5 DEF Leave, OrderlyInv
<1>6. CASE Stop \/ DeleteStop
  <2>1. /\ UNCHANGED <<pc, handler, registry, orderly>>
        /\ \A a \in Starts : open'[a] => open[a] /\ a # running
    BY <1>6 DEF Stop, DeleteStop, Disconnect
  <2>2. \A a \in Starts : Live(a)' => Live(a)
    BY <2>1 DEF Live, Idle
  <2>3. orderly' => \A a \in Starts : open'[a] => ~Idle(a)'
    BY <2>1 DEF OrderlyInv
  <2>4. orderly' => \A a, b \in Starts : Live(a)' /\ Live(b)' => a = b
    BY <2>1, <2>2 DEF OrderlyInv
  <2>5. orderly' => \A a \in Starts : handler'[a] = "announced" => registry' = a
    BY <2>1 DEF OrderlyInv
  <2> QED
    BY <2>3, <2>4, <2>5 DEF OrderlyInv
<1>7. CASE DeleteRow \/ Lookup \/ Answer \/ AnswerLate \/ Push \/ WriteDown
  <2>1. UNCHANGED <<pc, running, open, handler, registry, orderly>>
    BY <1>7 DEF DeleteRow, Lookup, Answer, AnswerLate, Push, WriteDown, connVars
  <2> HIDE DEF TypeOK
  <2> QED
    BY <2>1 DEF OrderlyInv
<1>8. CASE Restart
  BY <1>8 DEF Restart, OrderlyInv
<1>9. CASE UNCHANGED vars
  BY <1>9 DEF vars, OrderlyInv
<1> QED
  BY <1>1, <1>2, <1>3, <1>4, <1>5, <1>6, <1>7, <1>8, <1>9 DEF Next, HandlerStep

\* Orderly starts keep their guarantees in every reachable state.
LEMMA OrderlyAlways == Spec => [](TypeOK /\ ConnInv /\ OrderlyInv)
<1>1. Init => OrderlyInv
  BY DEF Init, OrderlyInv, Live, Idle
<1>2. TypeOK /\ ConnInv /\ OrderlyInv /\ [Next]_vars => OrderlyInv'
  BY OrderlyStep
<1> QED
  BY <1>1, <1>2, ConnAlways, PTL DEF Spec

\* When no Start begins before the tag's last connection is gone, downlinks reach
\* the running tag as soon as the gateway has read its hello.
THEOREM LifecycleOrderlyRoutable == Spec => []OrderlyRoutable
<1>1. TypeOK /\ ConnInv /\ OrderlyInv => OrderlyRoutable
  <2> SUFFICES ASSUME TypeOK, ConnInv, OrderlyInv, orderly, running # None,
                      up[running] = <<>>
               PROVE  registry = running
    BY DEF OrderlyRoutable, Routable
  <2>1. running \in Starts /\ ConnOf(running)
    BY DEF TypeOK, ConnInv
  <2>2. handler[running] = "announced"
    BY <2>1 DEF ConnOf
  <2> QED
    BY <2>1, <2>2 DEF OrderlyInv
<1> QED
  BY <1>1, OrderlyAlways, PTL

\* Under the same condition every open connection belongs to a Start in progress
\* or to the running entry, where Stop finds it.
THEOREM LifecycleOrderlyOwned == Spec => []OrderlyOwned
<1>1. OrderlyInv => OrderlyOwned
  BY DEF OrderlyInv, OrderlyOwned, Owned, Idle
<1> QED
  BY <1>1, OrderlyAlways, PTL

-----------------------------------------------------------------------------
(* Keys: with one Start at a time, the accept it takes answers its own     *)
(* join-request, and no other request reached the network server since.    *)

\* Nothing has gone over the connection of a call that has not dialled.
Unused(a) ==
    pc[a] \in {"idle", "dial"} => down[a] = <<>> /\ slot[a] = NoPdu

\* No join-request is on its way to the network server.
NoJreq(a) == up[a] \in {<<>>, <<Hello>>} /\ rising = <<>>

\* An accept that a could get is the answer to its join-request, the last one the
\* network server took; data downlinks are as they may.
Clean(a, p) ==
    p.kind = "accept" =>
        /\ p.req = mine[a] /\ lns = mine[a] /\ NoJreq(a)
        /\ pc[a] \notin {"idle", "dial", "hello", "session", "nonce", "request"}

CleanAir(a) == \A i \in 1 .. Len(air) : Clean(a, air[i])
CleanDown(a) == \A i \in 1 .. Len(down[a]) : Clean(a, down[a][i])

\* A join-request on its way to the network server is the only one of its call, and
\* is not answered yet.
Unread(a) ==
    /\ pc[a] \in {"wait", "returned"} /\ session = NoKey
    /\ \/ up[a] \in {<<Jreq(mine[a])>>, <<Hello, Jreq(mine[a])>>} /\ rising = <<>>
       \/ up[a] = <<>> /\ rising = <<mine[a]>>

KeyOf(a) ==
    /\ pc[a] \in {"dial", "hello"} => up[a] = <<>>
    /\ (NoJreq(a) \/ Unread(a)) /\ late = {}
    /\ pc[a] \in {"nonce", "request", "wait", "save"} => session = NoKey
    /\ pc[a] = "save" => derived[a] = NetworkKey(lns)
    /\ CleanAir(a) /\ CleanDown(a) /\ Clean(a, slot[a]) /\ Clean(a, routing.pdu)

\* Once the tag has a session, no join-request of it is on its way, of a call that is
\* live or of an earlier one.
Agreed == KeyAgreement /\ (rising # <<>> \/ late # {} => session = NoKey)

KeyInv ==
    /\ \A a \in Starts : Unused(a)
    /\ orderly => Agreed /\ \A a \in Starts : Live(a) => KeyOf(a)

\* What appending and taking the head make of a queue, element by element.
LEMMA QueueElements ==
    ASSUME NEW S, NEW q \in Seq(S), NEW m \in S
    PROVE  /\ \A i \in 1 .. Len(Append(q, m)) :
                \/ Append(q, m)[i] = m
                \/ \E j \in 1 .. Len(q) : Append(q, m)[i] = q[j]
           /\ q # <<>> => /\ \E j \in 1 .. Len(q) : Head(q) = q[j]
                          /\ \A i \in 1 .. Len(Tail(q)) : \E j \in 1 .. Len(q) : Tail(q)[i] = q[j]
<1>1. Len(q) \in Nat
  OBVIOUS
<1>2. ASSUME NEW i \in 1 .. Len(Append(q, m))
      PROVE  \/ Append(q, m)[i] = m
             \/ \E j \in 1 .. Len(q) : Append(q, m)[i] = q[j]
  <2>1. CASE i = Len(q) + 1
    BY <1>1, <2>1
  <2>2. CASE i # Len(q) + 1
    <3>1. i \in 1 .. Len(q) /\ Append(q, m)[i] = q[i]
      BY <1>1, <2>2
    <3> QED
      BY <3>1
  <2> QED
    BY <2>1, <2>2
<1>3. ASSUME q # <<>>
      PROVE  /\ \E j \in 1 .. Len(q) : Head(q) = q[j]
             /\ \A i \in 1 .. Len(Tail(q)) : \E j \in 1 .. Len(q) : Tail(q)[i] = q[j]
  <2>1. 1 \in 1 .. Len(q) /\ Head(q) = q[1]
    BY <1>1, <1>3
  <2>2. ASSUME NEW i \in 1 .. Len(Tail(q))
        PROVE  i + 1 \in 1 .. Len(q) /\ Tail(q)[i] = q[i + 1]
    BY <1>1, <1>3
  <2> QED
    BY <2>1, <2>2
<1> QED
  BY <1>2, <1>3

\* What a connection's up queue becomes as its few messages are sent and read.
LEMMA UpQueue ==
    ASSUME NEW m \in Envelope
    PROVE  /\ Append(<<>>, m) = <<m>> /\ Append(<<Hello>>, m) = <<Hello, m>>
           /\ Head(<<m>>) = m /\ Tail(<<m>>) = <<>>
           /\ Head(<<Hello, m>>) = Hello /\ Tail(<<Hello, m>>) = <<m>>
           /\ <<m>> # <<>> /\ <<Hello, m>> # <<>> /\ <<m>> # <<Hello, m>>
           /\ m # Hello => <<m>> # <<Hello>> /\ <<Hello, m>> # <<Hello>>
<1>1. Hello \in Envelope
  BY MessageTypes
<1> HIDE DEF Hello
<1>2. Append(<<Hello>>, m) = <<Hello, m>>
  <2>1. /\ <<Hello>> \in Seq(Envelope) /\ <<Hello, m>> \in Seq(Envelope)
        /\ Len(<<Hello>>) = 1 /\ Len(<<Hello, m>>) = 2
    BY <1>1
  <2>2. /\ Append(<<Hello>>, m) \in Seq(Envelope) /\ Len(Append(<<Hello>>, m)) = 2
        /\ Append(<<Hello>>, m)[1] = Hello /\ Append(<<Hello>>, m)[2] = m
    BY <2>1
  <2>3. \A i \in 1 .. Len(<<Hello, m>>) : Append(<<Hello>>, m)[i] = <<Hello, m>>[i]
    BY <2>1, <2>2
  <2> QED
    BY <2>1, <2>2, <2>3, SeqEqual
<1> QED
  BY <1>1, <1>2

\* A join-request is not a hello, an unread one is one.
LEMMA Jreqs ==
    ASSUME NEW a \in Starts, mine[a] \in Nat
    PROVE  /\ Jreq(mine[a]) \in Envelope /\ Jreq(mine[a]) # Hello
           /\ Jreq(mine[a]).type = "jreq" /\ Jreq(mine[a]).nonce = mine[a] /\ Hello.type = "hello"
           /\ Unread(a) => ~NoJreq(a)
<1>1. /\ Jreq(mine[a]) \in Envelope /\ Jreq(mine[a]) # Hello
      /\ Jreq(mine[a]).type = "jreq" /\ Jreq(mine[a]).nonce = mine[a] /\ Hello.type = "hello"
  BY DEF Jreq, Hello, Envelope
<1>2. Unread(a) => ~NoJreq(a)
  <2>1. <<mine[a]>> # <<>>
    OBVIOUS
  <2> QED
    BY <1>1, <2>1, UpQueue DEF Unread, NoJreq
<1> QED
  BY <1>1, <1>2

\* While Starts are orderly only one call is live, so a step of its own need be
\* looked at for that call alone.
LEMMA KeyFrame ==
    ASSUME OrderlyInv, KeyInv, NEW a \in Starts, Live(a), orderly' => orderly,
           \A b \in Starts \ {a} : /\ pc'[b] = pc[b] /\ open'[b] = open[b]
                                   /\ handler'[b] = handler[b]
                                   /\ down'[b] = down[b] /\ slot'[b] = slot[b],
           Unused(a)', orderly => Agreed' /\ KeyOf(a)'
    PROVE  KeyInv'
<1>1. \A b \in Starts \ {a} : Unused(b)'
  BY DEF KeyInv, Unused
<1>2. orderly => \A b \in Starts \ {a} : ~Live(b)
  BY DEF OrderlyInv
<1>3. orderly => \A b \in Starts \ {a} : ~Live(b)'
  BY <1>2 DEF Live, Idle
<1> QED
  BY <1>1, <1>3 DEF KeyInv

\* What may follow in a Start call without a message or a change of the row.
Follows(a) ==
    \/ pc'[a] = pc[a] /\ pc'[a] # "idle"
    \/ pc[a] = "dial" /\ pc'[a] = "hello"
    \/ pc[a] = "session" /\ pc'[a] = "nonce" /\ session = NoKey
    \/ pc[a] \in {"session", "mark"} /\ pc'[a] = "register"
    \/ pc[a] # "idle" /\ pc'[a] = "returned"

\* A step that leaves a's queues, nonce and keys alone carries its key facts over.
LEMMA KeyCarried ==
    ASSUME NEW a \in Starts, KeyOf(a), UNCHANGED <<session, lns, air, rising, late, routing>>,
           mine'[a] = mine[a], derived'[a] = derived[a], up'[a] = up[a],
           down'[a] = down[a], slot'[a] = slot[a], Follows(a)
    PROVE  KeyOf(a)'
<1>1. NoJreq(a)' = NoJreq(a)
  BY DEF NoJreq
<1>2. ASSUME NEW p, Clean(a, p) PROVE Clean(a, p)'
  BY <1>1, <1>2 DEF Clean, Follows
<1>3. NoJreq(a)' \/ Unread(a)'
  BY <1>1 DEF KeyOf, Unread, Follows
<1>4. /\ pc'[a] \in {"dial", "hello"} => up'[a] = <<>>
      /\ pc'[a] \in {"nonce", "request", "wait", "save"} => session' = NoKey
      /\ pc'[a] = "save" => derived'[a] = NetworkKey(lns)'
  BY DEF KeyOf, Follows
<1>5. CleanAir(a)' /\ CleanDown(a)'
  BY <1>2 DEF KeyOf, CleanAir, CleanDown
<1>6. Clean(a, slot[a])' /\ Clean(a, routing.pdu)'
  BY <1>2 DEF KeyOf, Clean
<1> QED
  BY <1>3, <1>4, <1>5, <1>6 DEF KeyOf

\* A Start call that has begun is live, and leaves the others alone.
LEMMA StartAlone ==
    ASSUME TypeOK, NEW a \in Starts, StartStep(a) \/ Fail(a), ~CheckRunning(a)
    PROVE  /\ Live(a) /\ orderly' = orderly /\ pc'[a] \notin {"idle", "dial"}
           /\ UNCHANGED <<lns, air, rising, late, routing, down>>
           /\ \A b \in Starts \ {a} : /\ pc'[b] = pc[b] /\ open'[b] = open[b]
                                       /\ handler'[b] = handler[b]
                                       /\ down'[b] = down[b] /\ slot'[b] = slot[b]
<1> USE DEF TypeOK, Goto, GiveUp, Live, Idle, rowVars, clientVars, connVars, lnsVars
<1>1. CASE Dial(a)
  BY <1>1 DEF Dial
<1>2. CASE SendHello(a)
  BY <1>2 DEF SendHello
<1>3. CASE ReadSession(a)
  BY <1>3 DEF ReadSession
<1>4. CASE TakeNonce(a)
  BY <1>4 DEF TakeNonce
<1>5. CASE SendRequest(a)
  BY <1>5 DEF SendRequest
<1>6. CASE TakeAccept(a)
  BY <1>6 DEF TakeAccept
<1>7. CASE SaveSession(a)
  BY <1>7 DEF SaveSession
<1>8. CASE MarkJoined(a)
  BY <1>8 DEF MarkJoined
<1>9. CASE Register(a)
  BY <1>9 DEF Register
<1>10. CASE Fail(a)
  BY <1>10 DEF Fail
<1> QED
  BY <1>1, <1>2, <1>3, <1>4, <1>5, <1>6, <1>7, <1>8, <1>9, <1>10 DEF StartStep

\* The steps of a Start call keep the keys in agreement: it sends one join-request
\* under the nonce it took and derives keys from the accept it was handed.
LEMMA KeyStart ==
    ASSUME TypeOK, OrderlyInv, KeyInv, NEW a \in Starts, StartStep(a) \/ Fail(a),
           ~CheckRunning(a)
    PROVE  KeyInv'
<1>1. /\ Live(a) /\ orderly' = orderly /\ pc'[a] \notin {"idle", "dial"}
      /\ UNCHANGED <<lns, air, rising, late, routing, down>>
  BY StartAlone
<1>2. SUFFICES ASSUME orderly PROVE Agreed' /\ KeyOf(a)'
  <2>1. Unused(a)'
    BY <1>1 DEF Unused
  <2> QED
    BY <1>1, <2>1, StartAlone, KeyFrame
<1>3. Agreed /\ KeyOf(a)
  BY <1>1, <1>2 DEF KeyInv
<1> USE DEF rowVars, clientVars, connVars, lnsVars
<1>4. /\ mine \in [Starts -> Nat] /\ derived \in [Starts -> Key] /\ slot \in [Starts -> Pdu]
      /\ up \in [Starts -> Seq(Envelope)] /\ DOMAIN pc = Starts /\ mine[a] \in Nat
  BY DEF TypeOK
<1>5. CASE Dial(a) \/ ReadSession(a) \/ Fail(a) \/ MarkJoined(a) \/ Register(a)
  <2>1. UNCHANGED <<session, mine, derived, up, slot>>
    BY <1>5 DEF Dial, ReadSession, Fail, MarkJoined, Register
  <2>2. Follows(a)
    <3>1. CASE Dial(a)
      BY <1>4, <3>1 DEF Dial, Goto, Follows
    <3>2. CASE ReadSession(a)
      BY <1>4, <3>2 DEF ReadSession, Goto, GiveUp, Follows, TypeOK
    <3>3. CASE Fail(a)
      BY <1>4, <3>3 DEF Fail, Goto, GiveUp, Follows
    <3>4. CASE MarkJoined(a)
      BY <1>4, <3>4 DEF MarkJoined, Goto, Follows
    <3>5. CASE Register(a)
      BY <1>4, <3>5 DEF Register, Goto, Follows
    <3> QED
      BY <1>5, <3>1, <3>2, <3>3, <3>4, <3>5
  <2> QED
    BY <1>1, <1>3, <2>1, <2>2, KeyCarried DEF Agreed, KeyAgreement
<1>6. CASE SendHello(a)
  <2>1. /\ up'[a] = <<Hello>> /\ pc[a] = "hello" /\ pc'[a] = "session"
        /\ UNCHANGED <<session, mine, derived, slot>>
    BY <1>3, <1>4, <1>6, UpQueue, MessageTypes DEF SendHello, Send, Goto, KeyOf
  <2>2. \A p : Clean(a, p) => Clean(a, p)'
    BY <1>3, <2>1 DEF Clean
  <2>3. NoJreq(a)'
    BY <1>1, <1>3, <2>1 DEF KeyOf, NoJreq, Unread
  <2> QED
    BY <1>1, <1>3, <2>1, <2>2, <2>3 DEF KeyOf, CleanAir, CleanDown, Agreed, KeyAgreement, Clean
<1>7. CASE TakeNonce(a)
  <2>1. /\ pc[a] = "nonce" /\ pc'[a] \in {"request", "returned"}
        /\ UNCHANGED <<session, derived, up, slot>>
    BY <1>4, <1>7 DEF TakeNonce, Goto, GiveUp
  <2>2. \A p : Clean(a, p) => Clean(a, p)'
    BY <2>1 DEF Clean
  <2>3. NoJreq(a)' /\ session' = NoKey
    BY <1>1, <1>3, <2>1 DEF KeyOf, NoJreq, Unread
  <2> QED
    BY <1>1, <1>3, <2>1, <2>2, <2>3 DEF KeyOf, CleanAir, CleanDown, Agreed, KeyAgreement, Clean
<1>8. CASE SendRequest(a)
  <2>1. /\ pc[a] = "request" /\ pc'[a] = "wait" /\ up'[a] = Append(up[a], Jreq(mine[a]))
        /\ UNCHANGED <<session, mine, derived, slot>>
    BY <1>4, <1>8 DEF SendRequest, Send, Goto
  <2>2. \A p : Clean(a, p) => p.kind # "accept"
    BY <2>1 DEF Clean
  <2>3. NoJreq(a) /\ session = NoKey
    BY <1>3, <2>1 DEF KeyOf, Unread
  <2>4. Unread(a)'
    BY <1>1, <1>4, <2>1, <2>3, UpQueue, Jreqs DEF NoJreq, Unread
  <2> QED
    BY <1>1, <1>3, <2>1, <2>2, <2>3, <2>4
       DEF KeyOf, CleanAir, CleanDown, Agreed, KeyAgreement, Clean
<1>9. CASE TakeAccept(a)
  <2>1. /\ pc[a] = "wait" /\ slot'[a] = NoPdu /\ UNCHANGED <<session, mine, up>>
    BY <1>4, <1>9 DEF TakeAccept
  <2>2. session = NoKey
    BY <1>3, <2>1 DEF KeyOf
  <2>3. Clean(a, NoPdu)'
    BY DEF Clean, NoPdu
  <2>4. CASE slot[a].kind = "accept"
    <3>1. /\ pc'[a] = "save" /\ derived'[a] = [nonce |-> mine[a], answers |-> slot[a].req]
      BY <1>4, <1>9, <2>4 DEF TakeAccept, Goto
    <3>2. slot[a].req = mine[a] /\ lns = mine[a] /\ NoJreq(a)
      BY <1>3, <2>4 DEF KeyOf, Clean
    <3>3. derived'[a] = NetworkKey(lns)'
      BY <1>1, <3>1, <3>2 DEF NetworkKey
    <3>4. NoJreq(a)'
      BY <1>1, <2>1, <3>2 DEF NoJreq
    <3>5. \A p : Clean(a, p) => Clean(a, p)'
      BY <1>1, <2>1, <3>1, <3>4 DEF Clean
    <3> QED
      BY <1>1, <1>3, <2>1, <2>2, <2>3, <3>1, <3>3, <3>4, <3>5
         DEF KeyOf, CleanAir, CleanDown, Agreed, KeyAgreement, Clean
  <2>5. CASE slot[a].kind # "accept"
    <3>1. pc'[a] = "returned" /\ derived' = derived
      BY <1>4, <1>9, <2>5 DEF TakeAccept, Goto, GiveUp
    <3>2. \A p : Clean(a, p) => Clean(a, p)'
      BY <1>1, <2>1, <3>1 DEF Clean, NoJreq
    <3>3. NoJreq(a)' \/ Unread(a)'
      BY <1>1, <1>3, <2>1, <3>1 DEF KeyOf, NoJreq, Unread
    <3> QED
      BY <1>1, <1>3, <2>1, <2>2, <2>3, <3>1, <3>2, <3>3
         DEF KeyOf, CleanAir, CleanDown, Agreed, KeyAgreement, Clean
  <2> QED
    BY <2>4, <2>5
<1>10. CASE SaveSession(a)
  <2>1. pc[a] = "save" /\ pc'[a] \in {"mark", "returned"} /\ UNCHANGED <<mine, derived, up, slot>>
    BY <1>4, <1>10 DEF SaveSession, Goto, GiveUp
  <2>2. session' \in {session, derived[a]}
    BY <1>10 DEF SaveSession
  <2>3. NoJreq(a)'
    BY <1>1, <1>3, <2>1 DEF KeyOf, NoJreq, Unread
  <2>4. Agreed'
    BY <1>1, <1>3, <2>1, <2>2, <2>3 DEF Agreed, KeyAgreement, KeyOf, NoJreq
  <2>5. \A p : Clean(a, p) => Clean(a, p)'
    BY <1>1, <2>1, <2>3 DEF Clean
  <2> QED
    BY <1>1, <1>3, <2>1, <2>3, <2>4, <2>5 DEF KeyOf, CleanAir, CleanDown, Clean
<1> QED
  BY <1>5, <1>6, <1>7, <1>8, <1>9, <1>10 DEF StartStep

\* A call that begins in a settled system finds no message on its way.
LEMMA KeyBegin ==
    ASSUME TypeOK, ConnInv, OrderlyInv, KeyInv, NEW a \in Starts, CheckRunning(a)
    PROVE  KeyInv'
<1> USE DEF rowVars, clientVars, connVars, lnsVars
<1>1. /\ pc[a] = "idle" /\ pc'[a] \in {"dial", "returned"}
      /\ \A b \in Starts \ {a} : pc'[b] = pc[b]
      /\ UNCHANGED <<session, mine, derived, slot, open, up, down, handler, air, rising, late,
                     routing, lns>>
      /\ orderly' => orderly
  BY DEF CheckRunning, Goto, TypeOK
<1>2. \A b \in Starts : Unused(b)'
  BY <1>1 DEF KeyInv, Unused
<1>3. SUFFICES ASSUME orderly', NEW b \in Starts, Live(b)' PROVE KeyOf(b)'
  <2>1. orderly' => Agreed'
    BY <1>1 DEF KeyInv, Agreed, KeyAgreement
  <2> QED
    BY <1>2, <1>3, <2>1 DEF KeyInv
<1>4. CASE b # a
  <2>1. Live(b) /\ KeyOf(b)
    BY <1>1, <1>3, <1>4 DEF Live, Idle, KeyInv
  <2>2. Follows(b) \/ pc[b] = "idle"
    BY <1>1, <1>4 DEF Follows
  <2>3. pc[b] # "idle"
    BY <2>1 DEF ConnInv, ConnOf, Live, Idle
  <2> QED
    BY <1>1, <2>1, <2>2, <2>3, KeyCarried
<1>5. CASE b = a
  <2>1. ~open[a] /\ handler[a] = "none" /\ up[a] = <<>> /\ down[a] = <<>> /\ slot[a] = NoPdu
    BY <1>1 DEF ConnInv, ConnOf, KeyInv, Unused
  <2>2. running = None /\ pc'[a] = "dial"
    BY <1>1, <1>3, <1>5, <2>1 DEF Live, Idle, CheckRunning, Goto, TypeOK
  <2>3. air = <<>> /\ routing = NoRoute /\ rising = <<>> /\ late = {}
    BY <1>3, <2>2 DEF CheckRunning, Settled
  <2>4. NoJreq(a)' /\ up'[a] = <<>>
    BY <1>1, <2>1, <2>3 DEF NoJreq
  <2>5. Clean(a, NoPdu)'
    BY DEF Clean, NoPdu
  <2>6. slot'[a] = NoPdu /\ routing'.pdu = NoPdu /\ Len(air') = 0 /\ Len(down'[a]) = 0
    BY <1>1, <2>1, <2>3 DEF NoRoute
  <2>7. CleanAir(a)' /\ CleanDown(a)'
    BY <2>6 DEF CleanAir, CleanDown
  <2>8. Clean(a, slot[a])' /\ Clean(a, routing.pdu)'
    BY <2>5, <2>6 DEF Clean
  <2> QED
    BY <1>1, <1>5, <2>2, <2>3, <2>4, <2>7, <2>8 DEF KeyOf
<1> QED
  BY <1>4, <1>5

\* A queue of such messages stays one when such a message is added or one is taken.
LEMMA CleanQueue ==
    ASSUME NEW a \in Starts, NEW q \in Seq(Pdu), NEW m \in Pdu,
           \A i \in 1 .. Len(q) : Clean(a, q[i])
    PROVE  /\ Clean(a, m) => \A i \in 1 .. Len(Append(q, m)) : Clean(a, Append(q, m)[i])
           /\ q # <<>> => /\ Clean(a, Head(q))
                          /\ \A i \in 1 .. Len(Tail(q)) : Clean(a, Tail(q)[i])
<1>1. ASSUME Clean(a, m), NEW i \in 1 .. Len(Append(q, m)) PROVE Clean(a, Append(q, m)[i])
  <2>1. Append(q, m)[i] = m \/ \E j \in 1 .. Len(q) : Append(q, m)[i] = q[j]
    BY QueueElements
  <2> QED
    BY <1>1, <2>1
<1>2. ASSUME q # <<>> PROVE Clean(a, Head(q))
  <2>1. \E j \in 1 .. Len(q) : Head(q) = q[j]
    BY <1>2, QueueElements
  <2> QED
    BY <2>1
<1>3. ASSUME q # <<>>, NEW i \in 1 .. Len(Tail(q)) PROVE Clean(a, Tail(q)[i])
  <2>1. \E j \in 1 .. Len(q) : Tail(q)[i] = q[j]
    BY <1>3, QueueElements
  <2> QED
    BY <2>1
<1> QED
  BY <1>1, <1>2, <1>3

\* Handing on what is on its way to the tag keeps the keys in agreement: every
\* accept the run loop, the lookup and the write move is the same answer.
LEMMA KeyDown ==
    ASSUME TypeOK, ConnInv, OrderlyInv, KeyInv,
           (\E a \in Starts : RunRead(a)) \/ Lookup \/ WriteDown \/ Push
    PROVE  KeyInv'
<1> USE DEF rowVars, startVars, clientVars, connVars, lnsVars
<1>1. UNCHANGED <<pc, session, mine, derived, open, handler, rising, late, lns, orderly>>
  BY DEF RunRead, Lookup, WriteDown, Push
<1>2. /\ air \in Seq(Pdu) /\ down \in [Starts -> Seq(Pdu)] /\ slot \in [Starts -> Pdu]
      /\ up \in [Starts -> Seq(Envelope)] /\ routing \in Route \cup {NoRoute}
      /\ lns \in Nat
  BY DEF TypeOK
<1>3. \A a \in Starts : up'[a] \in {up[a], <<>>}
  BY <1>2 DEF RunRead, Lookup, WriteDown, Push
<1>4. ASSUME NEW a \in Starts PROVE Unused(a)'
  <2>1. Unused(a) /\ (pc[a] \in {"idle", "dial"} => ~open[a])
    BY DEF KeyInv, ConnInv, ConnOf
  <2>2. ~open[a] => down'[a] = down[a]
    <3>1. CASE WriteDown
      BY <1>2, <3>1 DEF WriteDown, Route
    <3>2. CASE ~WriteDown
      BY <1>2, <3>2 DEF RunRead, Lookup, Push
    <3> QED
      BY <3>1, <3>2
  <2>3. ~open[a] => slot'[a] = slot[a]
    BY <1>2 DEF RunRead, Lookup, WriteDown, Push
  <2> QED
    BY <1>1, <2>1, <2>2, <2>3 DEF Unused
<1>5. SUFFICES ASSUME orderly, NEW a \in Starts, Live(a) PROVE KeyOf(a)'
  <2>1. \A a \in Starts : Live(a)' <=> Live(a)
    BY <1>1 DEF Live, Idle
  <2>2. Agreed' <=> Agreed
    BY <1>1 DEF Agreed, KeyAgreement
  <2> QED
    BY <1>1, <1>4, <1>5, <2>1, <2>2 DEF KeyInv
<1>6. KeyOf(a)
  BY <1>5 DEF KeyInv
<1>7. NoJreq(a)' \/ Unread(a)'
  BY <1>1, <1>3, <1>6 DEF KeyOf, NoJreq, Unread
<1>8. ASSUME NEW p, Clean(a, p) PROVE Clean(a, p)'
  BY <1>1, <1>3, <1>8 DEF Clean, NoJreq
<1>9. CleanAir(a)' /\ CleanDown(a)' /\ Clean(a, slot[a])' /\ Clean(a, routing.pdu)'
  <2>0. /\ \A i \in 1 .. Len(air) : Clean(a, air[i])
        /\ \A i \in 1 .. Len(down[a]) : Clean(a, down[a][i])
        /\ Clean(a, slot[a]) /\ Clean(a, routing.pdu)
    BY <1>6 DEF KeyOf, CleanAir, CleanDown
  <2>1. Clean(a, NoPdu) /\ Clean(a, Data(lns)) /\ Data(lns) \in Pdu
    BY <1>2, MessageTypes DEF Clean, NoPdu, Data
  <2>2. /\ \/ air' = air \/ air' = Append(air, Data(lns))
           \/ air # <<>> /\ air' = Append([air EXCEPT ![Len(air)] = Data(lns)], air[Len(air)])
           \/ air # <<>> /\ air' = Tail(air)
        /\ \/ routing'.pdu = routing.pdu \/ routing'.pdu = NoPdu
           \/ air # <<>> /\ routing'.pdu = Head(air)
    BY DEF RunRead, Lookup, WriteDown, Push, NoRoute
  <2>3. /\ \/ down'[a] = down[a]
           \/ down'[a] = Append(down[a], routing.pdu) /\ routing.pdu \in Pdu
           \/ down[a] # <<>> /\ down'[a] = Tail(down[a])
        /\ \/ slot'[a] = slot[a]
           \/ down[a] # <<>> /\ slot'[a] = Head(down[a])
    <3>1. CASE WriteDown
      BY <1>2, <3>1 DEF WriteDown, Route
    <3>2. ASSUME NEW b \in Starts, RunRead(b)
          PROVE  /\ down'[a] = down[a] \/ (down[a] # <<>> /\ down'[a] = Tail(down[a]))
                 /\ slot'[a] = slot[a] \/ (down[a] # <<>> /\ slot'[a] = Head(down[a]))
      BY <1>2, <3>2 DEF RunRead
    <3>3. CASE Lookup \/ Push
      BY <3>3 DEF Lookup, Push
    <3> QED
      BY <3>1, <3>2, <3>3
  <2>4. (\A i \in 1 .. Len(air') : Clean(a, air'[i])) /\ Clean(a, routing'.pdu)
    <3>1. ASSUME air # <<>>, air' = Append([air EXCEPT ![Len(air)] = Data(lns)], air[Len(air)]),
                 NEW i \in 1 .. Len(air')
          PROVE  Clean(a, air'[i])
      <4>1. air'[i] = Data(lns) \/ \E j \in 1 .. Len(air) : air'[i] = air[j]
        BY <1>2, <2>1, <3>1, QueueOvertaken
      <4> QED
        BY <2>0, <2>1, <4>1
    <3> QED
      BY <1>2, <2>0, <2>1, <2>2, <3>1, CleanQueue
  <2>5. (\A i \in 1 .. Len(down'[a]) : Clean(a, down'[a][i])) /\ Clean(a, slot'[a])
    <3>1. down[a] \in Seq(Pdu)
      BY <1>2
    <3> QED
      BY <2>0, <2>1, <2>3, <3>1, CleanQueue
  <2>7. CleanAir(a)' /\ CleanDown(a)'
    BY <1>8, <2>4, <2>5 DEF CleanAir, CleanDown
  <2>8. Clean(a, slot[a])' /\ Clean(a, routing.pdu)'
    BY <1>8, <2>4, <2>5 DEF Clean
  <2> QED
    BY <2>7, <2>8
<1> QED
  BY <1>1, <1>3, <1>6, <1>7, <1>9 DEF KeyOf

\* The gateway's reading of a connection keeps the keys in agreement: it takes the one
\* join-request on, to the WebSocket.
LEMMA KeyUp ==
    ASSUME TypeOK, ConnInv, OrderlyInv, KeyInv, NEW a \in Starts, HandlerStep(a)
    PROVE  KeyInv'
<1> USE DEF rowVars, startVars, clientVars, connVars, lnsVars
<1>1. /\ handler[a] \in {"reading", "announced"} /\ Live(a)
      /\ UNCHANGED <<pc, session, mine, derived, open, down, slot, routing, orderly>>
      /\ \A b \in Starts \ {a} : handler'[b] = handler[b]
      /\ pc[a] # "idle"
  BY DEF HandlerStep, Announce, ForwardJreq, Leave, Live, TypeOK, ConnInv, ConnOf
<1>2. up \in [Starts -> Seq(Envelope)] /\ mine[a] \in Nat /\ air \in Seq(Pdu)
  BY DEF TypeOK
<1>3. SUFFICES ASSUME orderly PROVE Agreed' /\ KeyOf(a)'
  <2>1. Unused(a)'
    BY <1>1 DEF KeyInv, Unused
  <2> QED
    BY <1>1, <2>1, KeyFrame
<1>4. Agreed /\ KeyOf(a)
  BY <1>1, <1>3 DEF KeyInv
<1>5. CASE Leave(a)
  BY <1>1, <1>4, <1>5, KeyCarried DEF Leave, Agreed, KeyAgreement, Follows
<1>6. CASE Announce(a)
  <2>1. /\ up'[a] = Tail(up[a]) /\ up[a] # <<>> /\ Head(up[a]) = Hello
        /\ UNCHANGED <<air, rising, late, lns>>
    BY <1>2, <1>6 DEF Announce
  <2>2. CASE NoJreq(a)
    <3>1. up[a] = <<Hello>> /\ up'[a] = <<>>
      BY <2>1, <2>2, UpQueue, MessageTypes DEF NoJreq
    <3>2. NoJreq(a)' /\ \A p : Clean(a, p) => Clean(a, p)'
      BY <1>1, <2>1, <2>2, <3>1 DEF Clean, NoJreq
    <3> QED
      BY <1>1, <1>4, <2>1, <3>1, <3>2
         DEF KeyOf, CleanAir, CleanDown, Clean, Agreed, KeyAgreement
  <2>3. CASE ~NoJreq(a)
    <3>1. Unread(a) /\ Jreq(mine[a]) \in Envelope /\ Jreq(mine[a]) # Hello
      BY <1>2, <1>4, <2>3, Jreqs DEF KeyOf
    <3>2. up'[a] = <<Jreq(mine[a])>> /\ rising = <<>>
      BY <2>1, <3>1, UpQueue DEF Unread
    <3>3. Unread(a)'
      BY <1>1, <2>1, <3>1, <3>2 DEF Unread, Jreq
    <3>4. \A p : Clean(a, p) => Clean(a, p)'
      BY <2>3 DEF Clean
    <3> QED
      BY <1>1, <1>4, <2>1, <3>1, <3>3, <3>4
         DEF KeyOf, CleanAir, CleanDown, Clean, Agreed, KeyAgreement, Unread
  <2> QED
    BY <2>2, <2>3
<1>7. CASE ForwardJreq(a)
  <2>1. /\ up'[a] = Tail(up[a]) /\ up[a] # <<>> /\ Head(up[a]).type = "jreq"
        /\ rising' = Append(rising, Head(up[a]).nonce) /\ UNCHANGED <<air, late, lns>>
    BY <1>2, <1>7 DEF ForwardJreq
  <2>2. Unread(a)
    <3>1. up[a] # <<Hello>>
      BY <2>1, UpQueue, MessageTypes DEF Hello
    <3> QED
      BY <1>4, <2>1, <3>1 DEF KeyOf, NoJreq
  <2>3. /\ up[a] \in {<<Jreq(mine[a])>>, <<Hello, Jreq(mine[a])>>} /\ rising = <<>>
        /\ Jreq(mine[a]) \in Envelope /\ Jreq(mine[a]).nonce = mine[a]
    BY <1>2, <2>1, <2>2, Jreqs DEF Unread
  <2>4. up'[a] = <<>> /\ rising' = <<mine[a]>>
    <3>1. Head(<<Hello, Jreq(mine[a])>>).type # "jreq"
      BY <2>3, UpQueue DEF Hello
    <3>2. up[a] = <<Jreq(mine[a])>>
      BY <2>1, <2>3, <3>1
    <3>3. Append(<<>>, mine[a]) = <<mine[a]>>
      BY <1>2
    <3> QED
      BY <2>1, <2>3, <3>2, <3>3, UpQueue
  <2>5. Unread(a)' /\ Agreed'
    BY <1>1, <1>4, <2>1, <2>2, <2>4 DEF Unread, Agreed, KeyAgreement
  <2>6. \A p : Clean(a, p) => Clean(a, p)'
    BY <1>2, <2>2, Jreqs DEF Clean
  <2> QED
    BY <1>1, <1>4, <2>1, <2>2, <2>4, <2>5, <2>6
       DEF KeyOf, CleanAir, CleanDown, Clean, Unread
<1> QED
  BY <1>5, <1>6, <1>7 DEF HandlerStep

\* So does the network server's reading of a join-request: its session becomes the
\* one the call that sent the request waits for, and the tag has stored none yet.
LEMMA KeyAnswer ==
    ASSUME TypeOK, KeyInv, Answer \/ AnswerLate
    PROVE  KeyInv'
<1> USE DEF rowVars, startVars, clientVars, connVars
<1>1. UNCHANGED <<pc, session, mine, derived, open, handler, up, down, slot, routing, orderly>>
  BY DEF Answer, AnswerLate
<1>2. air \in Seq(Pdu) /\ rising \in Seq(Nat) /\ mine \in [Starts -> Nat]
  BY DEF TypeOK
<1>3. \A a \in Starts : Unused(a)' /\ (Live(a)' <=> Live(a))
  BY <1>1 DEF KeyInv, Unused, Live, Idle
<1>4. orderly => Agreed'
  <2>1. rising # <<>> \/ late # {}
    BY DEF Answer, AnswerLate
  <2> QED
    BY <1>1, <2>1 DEF KeyInv, Agreed, KeyAgreement
<1>5. ASSUME orderly, NEW a \in Starts, Live(a) PROVE KeyOf(a)'
  <2>1. KeyOf(a)
    BY <1>5 DEF KeyInv
  <2>2. /\ rising # <<>> /\ rising' = Tail(rising) /\ lns' = Head(rising)
        /\ air' = Append(air, Accept(Head(rising))) /\ late' = late
    BY <2>1 DEF KeyOf, Answer, AnswerLate
  <2>3. Unread(a) /\ ~NoJreq(a) /\ up[a] = <<>> /\ rising = <<mine[a]>>
    BY <2>1, <2>2 DEF KeyOf, NoJreq, Unread
  <2>4. rising' = <<>> /\ lns' = mine[a] /\ air' = Append(air, Accept(mine[a]))
    BY <1>2, <2>2, <2>3
  <2>5. NoJreq(a)' /\ pc[a] \in {"wait", "returned"}
    BY <1>1, <2>3, <2>4 DEF NoJreq, Unread
  <2>6. \A p : Clean(a, p) => p.kind # "accept"
    BY <2>3 DEF Clean
  <2>7. ASSUME NEW i \in 1 .. Len(air') PROVE Clean(a, air[i])'
    <3>1. Accept(mine[a]) \in Pdu
      BY <1>2, MessageTypes
    <3>2. air'[i] = Accept(mine[a]) \/ \E j \in 1 .. Len(air) : air'[i] = air[j]
      BY <1>2, <2>4, <3>1, QueueElements
    <3>3. CASE air'[i] = Accept(mine[a])
      BY <1>1, <2>4, <2>5, <3>3 DEF Clean, Accept
    <3>4. ASSUME NEW j \in 1 .. Len(air), air'[i] = air[j] PROVE Clean(a, air[i])'
      BY <2>1, <2>6, <3>4 DEF KeyOf, CleanAir, Clean
    <3> QED
      BY <3>2, <3>3, <3>4
  <2>8. CleanAir(a)' /\ CleanDown(a)'
    BY <1>1, <2>1, <2>6, <2>7 DEF KeyOf, CleanAir, CleanDown, Clean
  <2>9. Clean(a, slot[a])' /\ Clean(a, routing.pdu)'
    BY <1>1, <2>1, <2>6 DEF KeyOf, Clean
  <2> QED
    BY <1>1, <2>1, <2>2, <2>5, <2>8, <2>9 DEF KeyOf
<1> QED
  BY <1>1, <1>3, <1>4, <1>5 DEF KeyInv

\* Every step of the system keeps the keys in agreement.
LEMMA KeyStep == TypeOK /\ ConnInv /\ OrderlyInv /\ KeyInv /\ [Next]_vars => KeyInv'
<1> SUFFICES ASSUME TypeOK, ConnInv, OrderlyInv, KeyInv, [Next]_vars PROVE KeyInv'
  OBVIOUS
<1> USE DEF rowVars, startVars, clientVars, connVars, lnsVars
<1>1. ASSUME NEW a \in Starts, StartStep(a) \/ Fail(a) PROVE KeyInv'
  <2>1. CASE CheckRunning(a)
    BY <2>1, KeyBegin
  <2>2. CASE ~CheckRunning(a)
    BY <1>1, <2>2, KeyStart
  <2> QED
    BY <2>1, <2>2
<1>2. CASE (\E a \in Starts : RunRead(a)) \/ Lookup \/ WriteDown \/ Push
  BY <1>2, KeyDown
<1>3. ASSUME NEW a \in Starts, HandlerStep(a) PROVE KeyInv'
  BY <1>3, KeyUp
<1>4. CASE Answer \/ AnswerLate
  BY <1>4, KeyAnswer
<1>5. CASE Stop \/ DeleteStop \/ UNCHANGED vars
  <2>1. /\ UNCHANGED <<pc, handler, session, mine, derived, slot, up, down, air, rising, late,
                       routing, lns, orderly>>
        /\ \A a \in Starts : open'[a] => open[a]
    BY <1>5 DEF Stop, DeleteStop, Disconnect, vars
  <2>2. \A a \in Starts : Unused(a)'
    BY <2>1 DEF KeyInv, Unused
  <2>3. ASSUME orderly', NEW a \in Starts, Live(a)' PROVE KeyOf(a)'
    <3>1. Live(a) /\ KeyOf(a)
      BY <2>1, <2>3 DEF Live, Idle, KeyInv
    <3>2. pc[a] # "idle"
      BY <3>1 DEF ConnInv, ConnOf, Live, Idle
    <3>3. Follows(a)
      BY <2>1, <3>2 DEF Follows
    <3> QED
      BY <2>1, <3>1, <3>3, KeyCarried
  <2>4. orderly' => Agreed'
    BY <2>1 DEF KeyInv, Agreed, KeyAgreement
  <2> QED
    BY <2>2, <2>3, <2>4 DEF KeyInv
<1>6. CASE DeleteRow
  <2>1. /\ UNCHANGED <<pc, open, handler, mine, derived, slot, up, down, air, rising, late,
                       routing, lns, orderly>>
        /\ session' = NoKey
    BY <1>6 DEF DeleteRow
  <2>2. \A a \in Starts : Unused(a)' /\ (Live(a)' => Live(a))
    BY <2>1 DEF KeyInv, Unused, Live, Idle
  <2>3. ASSUME NEW a \in Starts, KeyOf(a) PROVE KeyOf(a)'
    <3>1. NoJreq(a)' \/ Unread(a)'
      BY <2>1, <2>3 DEF KeyOf, NoJreq, Unread
    <3>2. \A p : Clean(a, p) => Clean(a, p)'
      BY <2>1 DEF Clean, NoJreq
    <3>3. CleanAir(a)' /\ CleanDown(a)'
      BY <2>1, <2>3, <3>2 DEF KeyOf, CleanAir, CleanDown
    <3>4. Clean(a, slot[a])' /\ Clean(a, routing.pdu)'
      BY <2>1, <2>3, <3>2 DEF KeyOf, Clean
    <3> QED
      BY <2>1, <2>3, <3>1, <3>3, <3>4 DEF KeyOf
  <2> QED
    BY <2>1, <2>2, <2>3 DEF KeyInv, Agreed, KeyAgreement
<1>7. CASE Restart
  <2>1. \A a \in Starts : Unused(a)'
    BY <1>7 DEF Restart, Unused
  <2>2. \A a \in Starts : ~Live(a)'
    BY <1>7 DEF Restart, Live, Idle, TypeOK
  <2>3. orderly' => Agreed'
    BY <1>7 DEF Restart, KeyInv, Agreed, KeyAgreement
  <2> QED
    BY <2>1, <2>2, <2>3 DEF KeyInv
<1> QED
  BY <1>1, <1>2, <1>3, <1>4, <1>5, <1>6, <1>7 DEF Next

\* As long as no Start begins before the tag's last connection is gone and nothing of
\* it is on its way between gateway and network server, the stored session is the one
\* the network server serves the tag under, whatever joins failed, were cancelled or
\* were interrupted in between.
THEOREM LifecycleOrderlyKeyAgreement == Spec => []OrderlyKeyAgreement
<1>1. Init => KeyInv
  BY DEF Init, KeyInv, Unused, Agreed, KeyAgreement, Live, Idle
<1>2. TypeOK /\ ConnInv /\ OrderlyInv /\ KeyInv /\ [Next]_vars => KeyInv'
  BY KeyStep
<1>3. KeyInv => OrderlyKeyAgreement
  BY DEF KeyInv, Agreed, OrderlyKeyAgreement
<1> QED
  BY <1>1, <1>2, <1>3, OrderlyAlways, PTL DEF Spec

-----------------------------------------------------------------------------
(* Which running tags can send: finding 2 is about restored sessions only. *)

\* A call takes its nonce on the way to a join, and registers after MarkJoined.
JoinedOf(a) ==
    /\ pc[a] \in {"idle", "dial", "hello", "session", "nonce"} => mine[a] = 0
    /\ (pc[a] = "register" \/ running = a) /\ mine[a] # 0 => joined[a]

JoinedInv == \A a \in Starts : JoinedOf(a)

\* The steps of a Start call set the joined flag of every call that joins.
LEMMA JoinedStart ==
    ASSUME TypeOK, ConnInv, JoinedInv, NEW a \in Starts, StartStep(a) \/ Fail(a)
    PROVE  JoinedInv'
<1>0. /\ JoinedOf(a) /\ DOMAIN pc = Starts /\ mine \in [Starts -> Nat] /\ nonce \in Nat
      /\ joined \in [Starts -> BOOLEAN] /\ (pc[a] # "returned" => running # a)
      /\ tag \in {"present", "deleted"}
  BY DEF TypeOK, ConnInv, ConnOf, JoinedInv
<1>1. ASSUME NEW b \in Starts \ {a} PROVE JoinedOf(b)'
  <2>1. pc'[b] = pc[b]
    BY <1>0, StartAlone DEF CheckRunning, Goto
  <2>2. mine'[b] = mine[b] /\ joined'[b] = joined[b]
    BY <1>0 DEF StartStep, Fail, CheckRunning, Dial, SendHello, ReadSession, TakeNonce,
                SendRequest, TakeAccept, SaveSession, MarkJoined, Register, clientVars
  <2>3. running' = running \/ running' = a
    BY DEF StartStep, Fail, CheckRunning, Dial, SendHello, ReadSession, TakeNonce,
           SendRequest, TakeAccept, SaveSession, MarkJoined, Register
  <2> QED
    BY <2>1, <2>2, <2>3 DEF JoinedInv, JoinedOf
<1>2. JoinedOf(a)'
  <2>1. CASE CheckRunning(a) \/ Dial(a) \/ SendHello(a) \/ ReadSession(a) \/ Fail(a)
    <3>1. UNCHANGED <<mine, joined, running>> /\ pc[a] # "returned"
      BY <2>1 DEF CheckRunning, Dial, SendHello, ReadSession, Fail, clientVars
    <3>2. \/ pc'[a] \in {"returned", "dial", "hello", "session", "nonce", "register"}
             /\ pc[a] \in {"idle", "dial", "hello", "session"}
          \/ pc'[a] = "returned"
      BY <1>0, <2>1 DEF CheckRunning, Dial, SendHello, ReadSession, Fail, Goto, GiveUp
    <3> QED
      BY <1>0, <3>1, <3>2 DEF JoinedOf
  <2>2. CASE TakeNonce(a) \/ SendRequest(a) \/ TakeAccept(a) \/ SaveSession(a)
    <3>1. /\ running' = running /\ pc[a] # "returned"
          /\ pc'[a] \in {"request", "wait", "save", "mark", "returned"}
      BY <1>0, <2>2 DEF TakeNonce, SendRequest, TakeAccept, SaveSession, Goto, GiveUp
    <3> QED
      BY <1>0, <3>1 DEF JoinedOf
  <2>3. CASE MarkJoined(a) \/ Register(a)
    BY <1>0, <2>3 DEF MarkJoined, Register, Goto, JoinedOf, clientVars
  <2> QED
    BY <2>1, <2>2, <2>3 DEF StartStep
<1> QED
  BY <1>1, <1>2 DEF JoinedInv

\* A running tag passes SendUplink's joined check, whatever Starts overlapped, if its
\* Start took the way through Join: only sessions restored from the row fail it.
THEOREM LifecycleJoinedCanUplink ==
    Spec => [](running # None /\ mine[running] # 0 => joined[running])
<1>1. Init => JoinedInv
  BY LifecycleAssumption DEF Init, JoinedInv, JoinedOf
<1>2. TypeOK /\ ConnInv /\ JoinedInv /\ [Next]_vars => JoinedInv'
  <2> SUFFICES ASSUME TypeOK, ConnInv, JoinedInv, [Next]_vars PROVE JoinedInv'
    OBVIOUS
  <2>1. CASE \E a \in Starts : StartStep(a) \/ Fail(a)
    BY <2>1, JoinedStart
  <2>2. CASE Restart
    <3>1. running' = None /\ mine' = mine
      BY <2>2 DEF Restart
    <3>2. \A a \in Starts : pc'[a] = "returned" \/ (pc'[a] = "idle" /\ pc[a] = "idle")
      BY <2>2 DEF Restart
    <3> QED
      BY <3>1, <3>2, LifecycleAssumption DEF JoinedInv, JoinedOf
  <2>3. ASSUME UNCHANGED <<pc, mine, joined>>, running' \in {running, None} PROVE JoinedInv'
    BY <2>3, LifecycleAssumption DEF JoinedInv, JoinedOf
  <2>4. CASE \/ \E a \in Starts : RunRead(a) \/ HandlerStep(a)
             \/ Stop \/ DeleteStop \/ DeleteRow
             \/ Lookup \/ WriteDown \/ Answer \/ AnswerLate \/ Push
             \/ UNCHANGED vars
    <3>1. UNCHANGED <<pc, mine, joined>> /\ running' \in {running, None}
      BY <2>4 DEF RunRead, HandlerStep, Announce, ForwardJreq, Leave, Stop, DeleteStop,
                  Disconnect, DeleteRow, Lookup, WriteDown, Answer, AnswerLate, Push, vars,
                  startVars, clientVars
    <3> QED
      BY <2>3, <3>1
  <2> QED
    BY <2>1, <2>2, <2>4 DEF Next
<1>3. TypeOK /\ JoinedInv => (running # None /\ mine[running] # 0 => joined[running])
  BY DEF TypeOK, JoinedInv, JoinedOf
<1> QED
  BY <1>1, <1>2, <1>3, ConnAlways, PTL DEF Spec
=============================================================================
