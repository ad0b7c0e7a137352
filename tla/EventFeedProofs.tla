--------------------------- MODULE EventFeedProofs ---------------------------
(***************************************************************************)
(* Proofs about EventFeed, for any number of publishers, events and        *)
(* browsers and any capacity: a browser gets a publisher's events in       *)
(* order and once, and all of them if its buffer never filled.             *)
(***************************************************************************)
EXTENDS EventFeed, TLAPS

-----------------------------------------------------------------------------
(* Types.                                                                  *)

\* What taking the first message and adding one make of a buffer.
LEMMA Buffers ==
    ASSUME NEW s \in Seq(Events), NEW e \in Events
    PROVE  /\ Append(s, e) \in Seq(Events) /\ Len(Append(s, e)) = Len(s) + 1
           /\ \A i \in 1 .. Len(s) : Append(s, e)[i] = s[i]
           /\ Append(s, e)[Len(s) + 1] = e
           /\ s # <<>> => /\ Head(s) = s[1] /\ s[1] \in Events /\ Len(s) > 0
                          /\ Tail(s) \in Seq(Events) /\ Len(Tail(s)) = Len(s) - 1
                          /\ \A i \in 1 .. Len(s) - 1 : Tail(s)[i] = s[i + 1]
  OBVIOUS

\* Every step keeps the types.
LEMMA TypeStep == TypeOK /\ [Next]_vars => TypeOK'
<1> SUFFICES ASSUME TypeOK, [Next]_vars PROVE TypeOK'
  OBVIOUS
<1> USE FeedAssumption DEF TypeOK
<1>1. ASSUME NEW e \in Events, Store(e) \/ BeginBroadcast(e) \/ EndBroadcast(e)
      PROVE  TypeOK'
  BY <1>1 DEF Store, BeginBroadcast, EndBroadcast, Move
<1>2. ASSUME NEW e \in Events, NEW b \in Browsers, Offer(e, b) PROVE TypeOK'
  <2>1. CASE Len(send[b]) < Cap
    <3>1. send' = [send EXCEPT ![b] = Append(send[b], e)]
      BY <1>2, <2>1 DEF Offer
    <3>2. send' \in [Browsers -> Seq(Events)] /\ \A c \in Browsers : Len(send'[c]) <= Cap
      BY <2>1, <3>1, Buffers
    <3> QED
      BY <1>2, <2>1, <3>2 DEF Offer
  <2>2. CASE ~(Len(send[b]) < Cap)
    BY <1>2, <2>2 DEF Offer
  <2> QED
    BY <2>1, <2>2
<1>3. ASSUME NEW b \in Browsers, Connect(b) \/ Disconnect(b) \/ ServeStep(b)
      PROVE  TypeOK'
  <2>1. UNCHANGED <<status, todo, send, seen, dropped>>
    BY <1>3 DEF Connect, Disconnect, ServeStep, Add, ReadFails, Remove
  <2>2. PICK s \in {"adding", "reading", "removing", "exited"} :
            serve' = serve \/ serve' = [serve EXCEPT ![b] = s]
    BY <1>3 DEF Connect, Disconnect, ServeStep, Add, ReadFails, Remove, Serve
  <2>3. serve' \in [Browsers -> {"new", "adding", "reading", "removing", "exited"}]
    BY <2>2
  <2>4. hub' \subseteq Browsers /\ online' \subseteq Browsers
    BY <1>3 DEF Connect, Disconnect, ServeStep, Add, ReadFails, Remove
  <2>5. before' \in [Browsers -> SUBSET Events]
    BY <1>3 DEF Connect, Disconnect, ServeStep, Add, ReadFails, Remove
  <2> QED
    BY <2>1, <2>3, <2>4, <2>5
<1>4. ASSUME NEW b \in Browsers, Write(b) PROVE TypeOK'
  <2>1. Head(send[b]) \in Events /\ Tail(send[b]) \in Seq(Events)
        /\ Len(Tail(send[b])) <= Cap
    BY <1>4, Buffers DEF Write
  <2>2. Head(send[b])[1] \in Publishers /\ Head(send[b])[2] \in 0 .. PerPublisher
    BY <2>1 DEF Events
  <2> QED
    BY <1>4, <2>1, <2>2 DEF Write
<1>5. CASE UNCHANGED vars
  BY <1>5 DEF vars
<1> QED
  BY <1>1, <1>2, <1>3, <1>4, <1>5 DEF Next, Publish

\* The variables keep their types; no buffer exceeds its capacity.
THEOREM FeedTypeCorrect == Spec => []TypeOK
<1>1. Init => TypeOK
  BY FeedAssumption DEF Init, TypeOK
<1> QED
  BY <1>1, TypeStep, PTL DEF Spec

-----------------------------------------------------------------------------
(* Order.                                                                  *)

\* A publisher broadcasts one event after another.
InTurn ==
    \A e, f \in Events :
        e[1] = f[1] /\ f[2] < e[2] /\ status[e] # "none" => status[f] = "done"

\* The broadcast of e has passed b, or b was not in the hub when it began.
Visited(b, e) == status[e] = "done" \/ (status[e] = "offering" /\ b \notin todo[e])

\* What a browser has or had was offered to it and is not offered again.
Offered == \A b \in Browsers, e \in Events : Got(b, e) => Visited(b, e)

OrderInv == TypeOK /\ InTurn /\ Offered /\ PublisherOrder

\* An event is the number and the publisher it has.
LEMMA EventParts ==
    ASSUME NEW e \in Events, NEW f \in Events, e[1] = f[1], e[2] = f[2]
    PROVE  e = f
  BY DEF Events

\* Steps that leave the buffers alone and only move on with a broadcast keep the order.
LEMMA OrderKept ==
    ASSUME OrderInv, send' = send, seen' = seen, InTurn',
           \A b \in Browsers, e \in Events : Visited(b, e) => Visited(b, e)'
    PROVE  Offered' /\ PublisherOrder'
  BY DEF OrderInv, Offered, PublisherOrder, Got

\* An offered event goes behind those of its publisher that were offered before.
LEMMA OfferOrder ==
    ASSUME OrderInv, NEW e \in Events, NEW b \in Browsers, Offer(e, b)
    PROVE  InTurn' /\ Offered' /\ PublisherOrder'
<1> USE DEF OrderInv
<1>1. /\ status' = status /\ seen' = seen /\ status[e] = "offering" /\ b \in todo[e]
      /\ todo' = [todo EXCEPT ![e] = @ \ {b}] /\ todo \in [Events -> SUBSET Browsers]
  BY DEF Offer, TypeOK
<1>2. InTurn'
  BY <1>1 DEF InTurn
<1>3. \A c \in Browsers, f \in Events : Visited(c, f) => Visited(c, f)'
  BY <1>1 DEF Visited
<1>4. CASE Len(send[b]) >= Cap
  <2>1. send' = send
    BY <1>4, FeedAssumption DEF Offer, TypeOK
  <2> QED
    BY <1>1, <1>2, <1>3, <2>1, OrderKept
<1>5. CASE Len(send[b]) < Cap
  <2>1. /\ send[b] \in Seq(Events) /\ send \in [Browsers -> Seq(Events)]
        /\ send' = [send EXCEPT ![b] = Append(send[b], e)]
    BY <1>5 DEF Offer, TypeOK
  <2>2. /\ Len(send'[b]) = Len(send[b]) + 1 /\ send'[b][Len(send[b]) + 1] = e
        /\ \A i \in 1 .. Len(send[b]) : send'[b][i] = send[b][i]
        /\ DOMAIN send'[b] = 1 .. Len(send[b]) + 1 /\ DOMAIN send[b] = 1 .. Len(send[b])
        /\ \A c \in Browsers \ {b} : send'[c] = send[c]
    BY <2>1, Buffers
  <2>3. ~Got(b, e)
    BY <1>1 DEF Offered, Visited
  <2> DEFINE n == Len(send[b])
  <2>a. n \in Nat /\ \A i \in 1 .. n + 1 : i = n + 1 \/ i \in 1 .. n
    BY <2>1
  <2>4. ASSUME NEW c \in Browsers, NEW f \in Events, Got(c, f)'
        PROVE  Got(c, f) \/ (c = b /\ f = e)
    <3>1. CASE f[2] <= seen[c][f[1]]
      BY <3>1 DEF Got
    <3>2. ASSUME NEW i \in DOMAIN send'[c], send'[c][i] = f
          PROVE  Got(c, f) \/ (c = b /\ f = e)
      <4>1. CASE c # b
        BY <2>2, <3>2, <4>1 DEF Got
      <4>2. CASE c = b /\ i = n + 1
        BY <2>2, <3>2, <4>2
      <4>3. CASE c = b /\ i \in 1 .. n
        BY <2>2, <3>2, <4>3 DEF Got
      <4> QED
        BY <2>2, <2>a, <3>2, <4>1, <4>2, <4>3
    <3> QED
      BY <1>1, <2>4, <3>1, <3>2 DEF Got
  <2>5. Visited(b, e)'
    BY <1>1 DEF Visited
  <2>6. Offered'
    BY <1>3, <2>4, <2>5 DEF Offered
  <2>7. seen[b][e[1]] < e[2]
    BY <2>3, FeedAssumption DEF Got, TypeOK, Events
  <2>8. ASSUME NEW j \in 1 .. Len(send[b]), send[b][j][1] = e[1] PROVE send[b][j][2] < e[2]
    <3>1. send[b][j] \in Events /\ Got(b, send[b][j])
      BY <2>1, <2>2 DEF Got
    <3>2. status[send[b][j]] # "none"
      BY <3>1 DEF Offered, Visited
    <3>3. ~(e[2] < send[b][j][2])
      BY <1>1, <2>8, <3>1, <3>2 DEF InTurn
    <3>4. send[b][j][2] # e[2]
      BY <2>3, <2>8, <3>1, EventParts
    <3> QED
      BY <3>1, <3>3, <3>4 DEF Events
  <2>9. PublisherOrder'
    <3> SUFFICES ASSUME NEW c \in Browsers, NEW i \in DOMAIN send'[c]
                 PROVE  /\ seen[c][send'[c][i][1]] < send'[c][i][2]
                        /\ \A j \in 1 .. i - 1 : send'[c][j][1] = send'[c][i][1]
                              => send'[c][j][2] < send'[c][i][2]
      BY <1>1 DEF PublisherOrder
    <3>1. CASE c # b
      BY <2>2, <3>1 DEF PublisherOrder
    <3>2. CASE c = b /\ i = Len(send[b]) + 1
      BY <2>1, <2>2, <2>7, <2>8, <3>2
    <3>3. CASE c = b /\ i \in 1 .. Len(send[b])
      <4>1. \A j \in 1 .. i - 1 : j \in 1 .. Len(send[b])
        BY <2>1, <3>3
      <4> QED
        BY <2>2, <3>3, <4>1 DEF PublisherOrder
    <3> QED
      BY <2>2, <2>a, <3>1, <3>2, <3>3
  <2> QED
    BY <1>2, <2>6, <2>9
<1> QED
  BY <1>4, <1>5, FeedAssumption DEF TypeOK

\* Writing a message out moves it from the buffer to the screen.
LEMMA WriteMoves ==
    ASSUME OrderInv, NEW b \in Browsers, Write(b)
    PROVE  /\ send[b][1] \in Events /\ Len(send[b]) > 0
           /\ send'[b] \in Seq(Events) /\ Len(send'[b]) = Len(send[b]) - 1
           /\ Len(send[b]) \in Nat
           /\ DOMAIN send[b] = 1 .. Len(send[b]) /\ DOMAIN send'[b] = 1 .. Len(send[b]) - 1
           /\ \A i \in 1 .. Len(send[b]) : send[b][i] \in Events
           /\ \A i \in 1 .. Len(send[b]) - 1 : send'[b][i] = send[b][i + 1]
           /\ \A c \in Browsers \ {b} : send'[c] = send[c] /\ seen'[c] = seen[c]
           /\ seen'[b] = [seen[b] EXCEPT ![send[b][1][1]] = send[b][1][2]]
<1>1. /\ send \in [Browsers -> Seq(Events)] /\ send[b] # <<>>
      /\ send' = [send EXCEPT ![b] = Tail(send[b])]
      /\ seen' = [seen EXCEPT ![b][Head(send[b])[1]] = Head(send[b])[2]]
      /\ seen \in [Browsers -> [Publishers -> 0 .. PerPublisher]]
  BY DEF Write, OrderInv, TypeOK
<1>2. /\ Head(send[b]) = send[b][1] /\ send[b][1] \in Events /\ Len(send[b]) > 0
      /\ Tail(send[b]) \in Seq(Events) /\ Len(Tail(send[b])) = Len(send[b]) - 1
      /\ \A i \in 1 .. Len(send[b]) - 1 : Tail(send[b])[i] = send[b][i + 1]
  BY <1>1, Buffers
<1> QED
  BY <1>1, <1>2

\* It keeps the order, and what the browser got it still has.
LEMMA WriteOrder ==
    ASSUME OrderInv, NEW b \in Browsers, Write(b)
    PROVE  /\ InTurn' /\ Offered' /\ PublisherOrder'
           /\ \A c \in Browsers, e \in Events : Got(c, e) => Got(c, e)'
<1> DEFINE h == send[b][1]
           n == Len(send[b])
<1>0. /\ h \in Events /\ n \in Nat /\ n > 0
      /\ DOMAIN send[b] = 1 .. n /\ DOMAIN send'[b] = 1 .. n - 1
      /\ \A i \in 1 .. n : send[b][i] \in Events
      /\ \A i \in 1 .. n - 1 : send'[b][i] = send[b][i + 1]
      /\ \A c \in Browsers \ {b} : send'[c] = send[c] /\ seen'[c] = seen[c]
      /\ seen'[b] = [seen[b] EXCEPT ![h[1]] = h[2]]
  BY WriteMoves
<1>1. /\ h \in Events /\ h[1] \in Publishers /\ h[2] \in 1 .. PerPublisher
      /\ n \in Nat \ {0} /\ 1 \in 1 .. n
      /\ DOMAIN send[b] = 1 .. n /\ DOMAIN send'[b] = 1 .. n - 1
      /\ \A i \in 1 .. n : send[b][i] \in Events
  BY <1>0 DEF Events
<1>2. \A i \in 1 .. n - 1 : send'[b][i] = send[b][i + 1] /\ i + 1 \in 1 .. n
  BY <1>0
<1>3. /\ seen'[b][h[1]] = h[2] /\ seen[b][h[1]] < h[2]
      /\ \A p \in Publishers \ {h[1]} : seen'[b][p] = seen[b][p]
      /\ \A p \in Publishers : seen[b][p] \in 0 .. PerPublisher
  <2>1. /\ seen[b] \in [Publishers -> 0 .. PerPublisher]
        /\ \A i \in DOMAIN send[b] : seen[b][send[b][i][1]] < send[b][i][2]
    BY DEF OrderInv, PublisherOrder, TypeOK
  <2> QED
    BY <1>0, <1>1, <2>1
<1>4. status' = status /\ todo' = todo
  BY DEF Write
<1>5. InTurn'
  BY <1>4 DEF OrderInv, InTurn
<1>6. \A e \in Events : e[1] \in Publishers /\ e[2] \in 1 .. PerPublisher
  BY DEF Events
<1>7. ASSUME NEW e \in Events, Got(b, e) PROVE Got(b, e)'
  <2>1. CASE e[2] <= seen[b][e[1]]
    <3>1. e[2] <= seen'[b][e[1]]
      <4>1. CASE e[1] = h[1]
        <5> HIDE DEF h
        <5> QED
          BY <1>1, <1>3, <1>6, <2>1, <4>1, FeedAssumption
      <4>2. CASE e[1] # h[1]
        BY <1>3, <1>6, <2>1, <4>2
      <4> QED
        BY <4>1, <4>2
    <3> QED
      BY <3>1 DEF Got
  <2>2. ASSUME NEW i \in DOMAIN send[b], send[b][i] = e PROVE Got(b, e)'
    <3>1. CASE i = 1
      BY <1>1, <1>3, <2>2, <3>1 DEF Got
    <3>2. CASE i # 1
      <4>1. i - 1 \in DOMAIN send'[b] /\ send'[b][i - 1] = send[b][i]
        BY <1>1, <1>2, <3>2
      <4> QED
        BY <2>2, <4>1 DEF Got
    <3> QED
      BY <3>1, <3>2
  <2> QED
    BY <1>7, <2>1, <2>2 DEF Got
<1>8. ASSUME NEW e \in Events, Got(b, e)' PROVE Visited(b, e)
  <2>1. Got(b, h)
    BY <1>1 DEF Got
  <2>2. status[h] # "none" /\ Visited(b, h)
    BY <1>1, <2>1 DEF OrderInv, Offered, Visited
  <2>3. CASE e[2] <= seen'[b][e[1]] /\ e[1] = h[1] /\ e[2] # h[2]
    <3>1. e[2] < h[2]
      <4> HIDE DEF h
      <4> QED
        BY <1>1, <1>3, <1>6, <2>3
    <3> QED
      BY <1>1, <2>2, <2>3, <3>1 DEF OrderInv, InTurn, Visited
  <2>4. CASE e[1] = h[1] /\ e[2] = h[2]
    BY <1>1, <2>2, <2>4, EventParts
  <2>5. CASE e[2] <= seen'[b][e[1]] /\ e[1] # h[1]
    <3>1. Got(b, e)
      BY <1>3, <1>6, <2>5 DEF Got
    <3> QED
      BY <3>1 DEF OrderInv, Offered
  <2>6. ASSUME NEW i \in DOMAIN send'[b], send'[b][i] = e PROVE Visited(b, e)
    <3>1. Got(b, e)
      BY <1>1, <1>2, <2>6 DEF Got
    <3> QED
      BY <3>1 DEF OrderInv, Offered
  <2> QED
    BY <1>8, <2>3, <2>4, <2>5, <2>6 DEF Got
<1>9. \A c \in Browsers \ {b}, e \in Events : Got(c, e)' <=> Got(c, e)
  BY WriteMoves DEF Got
<1>10. Offered'
  <2>1. \A c \in Browsers, e \in Events : Visited(c, e)' <=> Visited(c, e)
    BY <1>4 DEF Visited
  <2> QED
    BY <1>8, <1>9, <2>1 DEF OrderInv, Offered
<1>11. PublisherOrder'
  <2>1. ASSUME NEW i \in DOMAIN send'[b]
        PROVE  /\ seen'[b][send'[b][i][1]] < send'[b][i][2]
               /\ \A j \in 1 .. i - 1 : send'[b][j][1] = send'[b][i][1]
                     => send'[b][j][2] < send'[b][i][2]
    <3> DEFINE e == send[b][i + 1]
    <3>0. i \in 1 .. n - 1
      BY <1>1
    <3>1. e = send'[b][i] /\ e \in Events /\ i + 1 \in 1 .. n /\ 1 \in 1 .. i
      BY <1>1, <1>2, <3>0
    <3>2. /\ \A j \in 1 .. (i + 1) - 1 : send[b][j][1] = e[1] => send[b][j][2] < e[2]
          /\ seen[b][e[1]] < e[2]
      <4>1. i + 1 \in DOMAIN send[b]
        BY <1>1, <3>1
      <4> HIDE DEF n
      <4> QED
        BY <4>1 DEF OrderInv, PublisherOrder
    <3>3. \A j \in 1 .. i : send[b][j][1] = e[1] => send[b][j][2] < e[2]
      <4>1. (i + 1) - 1 = i
        BY <3>0
      <4> QED
        BY <3>2, <4>1
    <3>4. seen'[b][e[1]] < e[2]
      <4>1. CASE e[1] = h[1]
        BY <1>3, <3>1, <3>3, <4>1
      <4>2. CASE e[1] # h[1]
        BY <1>3, <1>6, <3>1, <3>2, <4>2
      <4> QED
        BY <4>1, <4>2
    <3>5. \A j \in 1 .. i - 1 : send'[b][j] = send[b][j + 1] /\ j + 1 \in 1 .. i
      <4>1. \A j \in 1 .. i - 1 : j \in 1 .. n - 1 /\ j + 1 \in 1 .. i
        BY <1>1, <3>0
      <4> QED
        BY <1>2, <4>1
    <3> QED
      <4> HIDE DEF e
      <4> QED
        BY <3>1, <3>3, <3>4, <3>5
  <2>2. ASSUME NEW c \in Browsers \ {b}, NEW i \in DOMAIN send'[c]
        PROVE  /\ seen'[c][send'[c][i][1]] < send'[c][i][2]
               /\ \A j \in 1 .. i - 1 : send'[c][j][1] = send'[c][i][1]
                     => send'[c][j][2] < send'[c][i][2]
    <3>1. send'[c] = send[c] /\ seen'[c] = seen[c]
      BY <1>0
    <3> QED
      BY <3>1 DEF OrderInv, PublisherOrder
  <2> QED
    <3> HIDE DEF h, n
    <3> QED
      BY <2>1, <2>2 DEF PublisherOrder
<1> QED
  BY <1>5, <1>7, <1>9, <1>10, <1>11

\* Every step keeps the order.
LEMMA OrderStep == OrderInv /\ [Next]_vars => OrderInv'
<1> SUFFICES ASSUME OrderInv, [Next]_vars PROVE InTurn' /\ Offered' /\ PublisherOrder'
  BY TypeStep DEF OrderInv
<1>1. ASSUME NEW e \in Events, Store(e) \/ BeginBroadcast(e) \/ EndBroadcast(e)
      PROVE  InTurn' /\ Offered' /\ PublisherOrder'
  <2>1. /\ send' = send /\ seen' = seen
        /\ status \in [Events -> {"none", "stored", "offering", "done"}]
        /\ todo \in [Events -> SUBSET Browsers]
    BY <1>1 DEF Store, BeginBroadcast, EndBroadcast, OrderInv, TypeOK
  <2>2. InTurn'
    <3>1. ASSUME NEW f \in Events, NEW g \in Events, f[1] = g[1], g[2] < f[2],
                 status'[f] # "none"
          PROVE  status'[g] = "done"
      <4>1. status[f] # "none" => status[g] = "done"
        BY <3>1 DEF OrderInv, InTurn
      <4>2. CASE status[f] = "none"
        <5>1. f = e /\ Store(e)
          BY <1>1, <2>1, <3>1, <4>2 DEF BeginBroadcast, EndBroadcast, Store, Move
        <5>2. g[2] \in 1 .. e[2] - 1 /\ g = <<e[1], g[2]>> /\ g # e
          BY <3>1, <5>1, FeedAssumption DEF Events
        <5> QED
          BY <2>1, <5>1, <5>2 DEF Store, Move
      <4>3. CASE status[f] # "none"
        BY <1>1, <2>1, <4>1, <4>3 DEF Store, BeginBroadcast, EndBroadcast, Move
      <4> QED
        BY <4>2, <4>3
    <3> QED
      BY <3>1 DEF InTurn
  <2>3. \A b \in Browsers, f \in Events : Visited(b, f) => Visited(b, f)'
    BY <1>1, <2>1 DEF Visited, Store, BeginBroadcast, EndBroadcast, Move
  <2> QED
    BY <2>1, <2>2, <2>3, OrderKept
<1>2. ASSUME NEW e \in Events, NEW b \in Browsers, Offer(e, b)
      PROVE  InTurn' /\ Offered' /\ PublisherOrder'
  BY <1>2, OfferOrder
<1>3. ASSUME NEW b \in Browsers, Connect(b) \/ Disconnect(b) \/ ServeStep(b)
      PROVE  InTurn' /\ Offered' /\ PublisherOrder'
  <2>1. status' = status /\ todo' = todo /\ send' = send /\ seen' = seen
    BY <1>3 DEF Connect, Disconnect, ServeStep, Add, ReadFails, Remove
  <2> QED
    BY <2>1, OrderKept DEF OrderInv, InTurn, Visited
<1>4. ASSUME NEW b \in Browsers, Write(b) PROVE InTurn' /\ Offered' /\ PublisherOrder'
  BY <1>4, WriteOrder
<1>5. CASE UNCHANGED vars
  BY <1>5, OrderKept DEF vars, OrderInv, InTurn, Visited
<1> QED
  BY <1>1, <1>2, <1>3, <1>4, <1>5 DEF Next, Publish

\* Nothing is broadcast and nothing is buffered at the start.
LEMMA OrderInit == Init => OrderInv
<1> SUFFICES ASSUME Init PROVE OrderInv
  OBVIOUS
<1>1. TypeOK
  BY FeedAssumption DEF Init, TypeOK
<1>2. \A b \in Browsers : send[b] = <<>> /\ \A p \in Publishers : seen[b][p] = 0
  BY DEF Init
<1>3. InTurn /\ PublisherOrder
  BY <1>2 DEF Init, InTurn, PublisherOrder
<1>4. \A e \in Events : e[1] \in Publishers /\ e[2] \in 1 .. PerPublisher
  BY DEF Events
<1>5. \A b \in Browsers, e \in Events : ~Got(b, e)
  BY <1>2, <1>4, FeedAssumption DEF Got
<1> QED
  BY <1>1, <1>3, <1>5 DEF OrderInv, Offered

\* A browser gets a publisher's events in the order they were published and none
\* twice, for any numbers and capacity (Publish, Broadcast).
THEOREM FeedPublisherOrder == Spec => []PublisherOrder
<1>1. OrderInv => PublisherOrder
  BY DEF OrderInv
<1> QED
  BY <1>1, OrderInit, OrderStep, PTL DEF Spec

-----------------------------------------------------------------------------
(* Completeness.                                                           *)

\* A browser that is served is in the hub, so that a broadcast that begins visits it.
InHub == \A b \in Browsers : serve[b] = "reading" => b \in hub

\* FeedWhole with the broadcasts that have not ended but have visited the browser.
VisitedGot ==
    \A b \in online \ dropped : serve[b] = "reading" =>
        \A e \in Events \ before[b] : Visited(b, e) => Got(b, e)

WholeInv == OrderInv /\ InHub /\ VisitedGot

\* An offer gives the event to the browser or marks the browser.
LEMMA OfferWhole ==
    ASSUME WholeInv, NEW e \in Events, NEW b \in Browsers, Offer(e, b)
    PROVE  InHub' /\ VisitedGot'
<1>1. /\ status' = status /\ hub' = hub /\ serve' = serve /\ online' = online
      /\ before' = before /\ seen' = seen
      /\ todo' = [todo EXCEPT ![e] = @ \ {b}] /\ todo \in [Events -> SUBSET Browsers]
      /\ online \subseteq Browsers /\ dropped \subseteq dropped'
      /\ send \in [Browsers -> Seq(Events)]
  BY DEF Offer, WholeInv, OrderInv, TypeOK
<1>2. \A c \in Browsers, f \in Events : Visited(c, f)' => Visited(c, f) \/ (c = b /\ f = e)
  BY <1>1 DEF Visited
<1>3. CASE Len(send[b]) < Cap
  <2>1. /\ send[b] \in Seq(Events)
        /\ send' = [send EXCEPT ![b] = Append(send[b], e)]
    BY <1>1, <1>3 DEF Offer
  <2>2. /\ send'[b][Len(send[b]) + 1] = e /\ Len(send[b]) \in Nat
        /\ \A i \in 1 .. Len(send[b]) : send'[b][i] = send[b][i]
        /\ DOMAIN send'[b] = 1 .. Len(send[b]) + 1 /\ DOMAIN send[b] = 1 .. Len(send[b])
        /\ \A c \in Browsers \ {b} : send'[c] = send[c]
    BY <1>1, <2>1, Buffers
  <2>3. /\ Len(send[b]) + 1 \in DOMAIN send'[b]
        /\ \A i \in DOMAIN send[b] : i \in DOMAIN send'[b]
    BY <2>2
  <2>4. Got(b, e)'
    BY <2>2, <2>3 DEF Got
  <2>5. \A c \in Browsers, f \in Events : Got(c, f) => Got(c, f)'
    BY <1>1, <2>2, <2>3 DEF Got
  <2> QED
    BY <1>1, <1>2, <2>4, <2>5 DEF WholeInv, InHub, VisitedGot
<1>4. CASE ~(Len(send[b]) < Cap)
  <2>1. send' = send /\ b \in dropped'
    BY <1>4 DEF Offer
  <2>2. \A c \in Browsers, f \in Events : Got(c, f) => Got(c, f)'
    BY <1>1, <2>1 DEF Got
  <2> QED
    BY <1>1, <1>2, <2>1, <2>2 DEF WholeInv, InHub, VisitedGot
<1> QED
  BY <1>3, <1>4

\* Every step keeps what a browser has whole.
LEMMA WholeStep == WholeInv /\ [Next]_vars => WholeInv'
<1> SUFFICES ASSUME WholeInv, [Next]_vars PROVE InHub' /\ VisitedGot'
  BY OrderStep DEF WholeInv
<1> USE DEF WholeInv
<1>0. /\ status \in [Events -> {"none", "stored", "offering", "done"}]
      /\ todo \in [Events -> SUBSET Browsers] /\ online \subseteq Browsers
      /\ serve \in [Browsers -> {"new", "adding", "reading", "removing", "exited"}]
      /\ before \in [Browsers -> SUBSET Events]
  BY DEF OrderInv, TypeOK
<1>1. ASSUME NEW e \in Events, Store(e) \/ BeginBroadcast(e) \/ EndBroadcast(e)
      PROVE  InHub' /\ VisitedGot'
  <2>1. /\ hub' = hub /\ serve' = serve /\ send' = send /\ seen' = seen
        /\ online' = online /\ before' = before /\ dropped' = dropped
    BY <1>1 DEF Store, BeginBroadcast, EndBroadcast
  <2>2. ASSUME NEW b \in hub \cap Browsers, NEW f \in Events, Visited(b, f)'
        PROVE  Visited(b, f)
    BY <1>0, <1>1, <2>2 DEF Store, BeginBroadcast, EndBroadcast, Move, Visited
  <2>3. \A b \in Browsers, f \in Events : Got(b, f) => Got(b, f)'
    BY <2>1 DEF Got
  <2> QED
    BY <1>0, <2>1, <2>2, <2>3 DEF InHub, VisitedGot
<1>2. ASSUME NEW e \in Events, NEW b \in Browsers, Offer(e, b)
      PROVE  InHub' /\ VisitedGot'
  BY <1>2, OfferWhole
<1>3. ASSUME NEW b \in Browsers, Connect(b) \/ Disconnect(b) \/ ServeStep(b)
      PROVE  InHub' /\ VisitedGot'
  <2>1. status' = status /\ todo' = todo /\ send' = send /\ seen' = seen
        /\ dropped' = dropped
    BY <1>3 DEF Connect, Disconnect, ServeStep, Add, ReadFails, Remove
  <2>2. \A c \in Browsers, f \in Events :
           (Got(c, f)' <=> Got(c, f)) /\ (Visited(c, f)' <=> Visited(c, f))
    BY <2>1 DEF Got, Visited
  <2>3. CASE Add(b)
    <3>1. \A f \in Events \ before'[b] : ~Visited(b, f)
      BY <1>0, <2>3 DEF Add, Readers, Visited
    <3>2. /\ online' = online /\ hub' = hub \cup {b}
          /\ \A c \in Browsers \ {b} : serve'[c] = serve[c] /\ before'[c] = before[c]
      BY <1>0, <2>3 DEF Add, Serve
    <3> QED
      BY <1>0, <2>1, <2>2, <3>1, <3>2 DEF InHub, VisitedGot
  <2>4. CASE ~Add(b)
    <3>1. /\ before' = before
          /\ \A c \in Browsers : serve'[c] = "reading"
                => serve[c] = "reading" /\ (c \in hub => c \in hub')
                   /\ (c \in online' => c \in online)
      BY <1>0, <1>3, <2>4 DEF Connect, Disconnect, ServeStep, ReadFails, Remove, Serve
    <3>2. online' \subseteq Browsers
      BY <1>0, <1>3 DEF Connect, Disconnect, ServeStep, Add, ReadFails, Remove
    <3> QED
      BY <1>0, <2>1, <2>2, <3>1, <3>2 DEF InHub, VisitedGot
  <2> QED
    BY <2>3, <2>4
<1>4. ASSUME NEW b \in Browsers, Write(b) PROVE InHub' /\ VisitedGot'
  <2>1. /\ status' = status /\ todo' = todo /\ hub' = hub /\ serve' = serve
        /\ online' = online /\ before' = before /\ dropped' = dropped
    BY <1>4 DEF Write
  <2>2. \A c \in Browsers, f \in Events : Got(c, f) => Got(c, f)'
    BY <1>4, WriteOrder
  <2> QED
    BY <1>0, <2>1, <2>2 DEF InHub, VisitedGot, Visited
<1>5. CASE UNCHANGED vars
  BY <1>5 DEF vars, InHub, VisitedGot, Visited, Got
<1> QED
  BY <1>1, <1>2, <1>3, <1>4, <1>5 DEF Next, Publish

\* A connected browser whose buffer never was full when an event came has every event
\* that was broadcast since it was added, however browsers join and leave during
\* broadcasts (Broadcast, add, remove).
THEOREM FeedComplete == Spec => []FeedWhole
<1>1. Init => WholeInv
  <2>1. Init => InHub /\ VisitedGot
    BY DEF Init, InHub, VisitedGot
  <2> QED
    BY <2>1, OrderInit DEF WholeInv
<1>2. WholeInv => FeedWhole
  BY DEF WholeInv, VisitedGot, FeedWhole, Visited
<1> QED
  BY <1>1, <1>2, WholeStep, PTL DEF Spec
=============================================================================
