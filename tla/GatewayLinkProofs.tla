------------------------- MODULE GatewayLinkProofs -------------------------
(***************************************************************************)
(* Proofs about GatewayLink, for every number of tags, connections and     *)
(* messages: the configuration in force is the latest one read, a downlink *)
(* is confirmed only if it was written to the device it addresses, and a   *)
(* device whose DevEUI is written in lower case is found.                  *)
(***************************************************************************)
EXTENDS GatewayLink, TLAPS

-----------------------------------------------------------------------------
(* Type correctness.                                                       *)

\* What the values in the gateway's and the handlers' hands are good for: a
\* downlink that was read, a target that was found, an uplink of a named tag.
HandsOK ==
    /\ station \in {"lookup", "write", "confirm"} =>
        read \in DOMAIN sent /\ sent[read] \in [type : {"dnmsg"}, to : Devices]
    /\ \A c \in Conns : stamp[c] # 0 => name[c] # None

\* A downlink among the messages has a device it addresses.
LEMMA DownlinkAddressed ==
    ASSUME NEW m \in Messages, m.type = "dnmsg"
    PROVE  m \in [type : {"dnmsg"}, to : Devices]
  BY DEF Messages

\* A message appended to a sequence leaves those before it where they are.
LEMMA AppendKeeps ==
    ASSUME NEW S, NEW s \in Seq(S), NEW e \in S
    PROVE  /\ Append(s, e) \in Seq(S) /\ Len(Append(s, e)) = Len(s) + 1
           /\ DOMAIN s = 1 .. Len(s) /\ Len(s) \in Nat
           /\ \A i \in 1 .. Len(s) : Append(s, e)[i] = s[i]
           /\ Append(s, e)[Len(s) + 1] = e
  OBVIOUS

\* Every step of the goroutine that reads the network server's messages keeps the
\* types, and what it holds.
LEMMA GatewayTypes ==
    ASSUME TypeOK, HandsOK, Gateway
    PROVE  TypeOK' /\ HandsOK'
<1> USE LinkAssumption DEF TypeOK, HandsOK, Listening, linkVars, serverVars, routeVars,
                           uplinkVars, tagVars
<1>1. CASE Dial
  BY <1>1 DEF Dial
<1>2. CASE SendVersion
  BY <1>2 DEF SendVersion
<1>3. CASE AwaitConfig
  BY <1>3 DEF AwaitConfig, Unread, Incoming
<1>4. CASE Listen
  BY <1>4 DEF Listen
<1>5. CASE ReadFails
  BY <1>5 DEF ReadFails
<1>6. CASE Read
  <2>1. Incoming \in Messages /\ read + 1 \in DOMAIN sent
    BY <1>6 DEF Read, Unread, Incoming
  <2>2. Incoming.type = "dnmsg" => sent[read + 1] \in [type : {"dnmsg"}, to : Devices]
    BY <2>1, DownlinkAddressed DEF Incoming
  <2> QED
    BY <1>6, <2>1, <2>2 DEF Read, Unread
<1>7. CASE Lookup
  <2>1. WireName(Addressee) \in Names
    BY <1>7 DEF Lookup, Addressee, WireName, Names
  <2> QED
    BY <1>7, <2>1 DEF Lookup
<1>8. CASE Write
  BY <1>8 DEF Write
<1>9. CASE Confirm
  <2>1. read \in 1 .. read
    BY <1>9 DEF Confirm
  <2>2. acks' \in Seq(1 .. read)
    BY <1>9, <2>1, AppendKeeps DEF Confirm
  <2> QED
    BY <1>9, <2>2 DEF Confirm
<1> QED
  BY <1>1, <1>2, <1>3, <1>4, <1>5, <1>6, <1>7, <1>8, <1>9 DEF Gateway

\* Every step of a handler or a tag keeps them.
LEMMA TagTypes ==
    ASSUME TypeOK, HandsOK, NEW c \in Conns,
           \/ Connect(c) \/ Handler(c)
           \/ \E how \in {"stalled", "closed"} : TagEnds(c, how)
    PROVE  TypeOK' /\ HandsOK'
<1> USE LinkAssumption DEF TypeOK, HandsOK, Listening, linkVars, serverVars, routeVars,
                           uplinkVars, tagVars
<1>1. CASE Connect(c)
  BY <1>1 DEF Connect
<1>2. ASSUME NEW n \in Names, Hello(c, n) PROVE TypeOK' /\ HandsOK'
  BY <1>2 DEF Hello, Names
<1>3. CASE Stamp(c)
  BY <1>3 DEF Stamp
<1>4. CASE Forward(c)
  <2> DEFINE Ups == [xtime : 1 .. MaxUp, from : Devices]
             up == [xtime |-> stamp[c], from |-> name[c][1]]
  <2>1. name[c] \in Devices \X {"lower", "upper"} /\ stamp[c] \in 1 .. MaxUp
    BY <1>4 DEF Forward, Names
  <2>2. up \in Ups /\ ups \in Seq(Ups) /\ (ups' = ups \/ ups' = Append(ups, up))
    BY <1>4, <2>1 DEF Forward
  <2>3. ups' \in Seq(Ups)
    <3> HIDE DEF Ups, up
    <3>1. Append(ups, up) \in Seq(Ups)
      BY ONLY <2>2, AppendKeeps
    <3> QED
      BY ONLY <2>2, <3>1
  <2> QED
    BY <1>4, <2>3 DEF Forward
<1>5. CASE Leave(c)
  BY <1>5 DEF Leave
<1>6. ASSUME NEW how \in {"stalled", "closed"}, TagEnds(c, how) PROVE TypeOK' /\ HandsOK'
  BY <1>6 DEF TagEnds
<1> QED
  BY <1>1, <1>2, <1>3, <1>4, <1>5, <1>6 DEF Handler

\* And so does every step of the network server.
LEMMA ServerTypes ==
    ASSUME TypeOK, HandsOK, Greet \/ Drop \/ \E m \in Messages : ServerSends(m)
    PROVE  TypeOK' /\ HandsOK'
<1> USE LinkAssumption DEF TypeOK, HandsOK, Listening, linkVars, serverVars, routeVars,
                           uplinkVars, tagVars
<1>1. ASSUME NEW m \in Messages, sent' = Append(sent, m), greeted' \in BOOLEAN,
             UNCHANGED <<station, linkVars, read, routeVars, uplinkVars, tagVars>>
      PROVE  TypeOK' /\ HandsOK'
  BY <1>1, AppendKeeps
<1>2. CASE Greet
  <2>1. [type |-> "router_config", to |-> None] \in Messages
    BY DEF Messages
  <2> QED
    BY <1>1, <1>2, <2>1 DEF Greet
<1>3. ASSUME NEW m \in Messages, ServerSends(m) PROVE TypeOK' /\ HandsOK'
  BY <1>1, <1>3 DEF ServerSends
<1>4. CASE Drop
  BY <1>4 DEF Drop
<1> QED
  BY <1>2, <1>3, <1>4

\* Every step keeps the types, and what is held.
LEMMA TypesStep == TypeOK /\ HandsOK /\ [Next]_vars => TypeOK' /\ HandsOK'
<1>1. CASE UNCHANGED vars
  BY <1>1 DEF vars, linkVars, serverVars, routeVars, uplinkVars, tagVars, TypeOK, HandsOK,
              Listening
<1> QED
  BY <1>1, GatewayTypes, TagTypes, ServerTypes DEF Next

\* The initial state has the types.
LEMMA TypesInit == Init => TypeOK /\ HandsOK
<1> SUFFICES ASSUME Init PROVE TypeOK /\ HandsOK
  OBVIOUS
<1>1. /\ sent \in Seq(Messages) /\ Len(sent) = 0 /\ acks \in Seq(1 .. read)
      /\ ups \in Seq([xtime : 1 .. MaxUp, from : Devices])
  BY DEF Init
<1>2. /\ side \in [Conns -> {"new", "open", "stalled", "closed"}]
      /\ name \in [Conns -> Names \cup {None}]
      /\ registry \in [Names -> Conns \cup {None}]
      /\ stamp \in [Conns -> 0 .. xtime] /\ \A c \in Conns : stamp[c] = 0
  BY DEF Init
<1>3. /\ station = "dial" /\ link = FALSE /\ greeted = FALSE
      /\ read = 0 /\ config = 0 /\ xtime = 0
  BY DEF Init
<1>4. /\ target \in Conns \cup {None} /\ (station = "write" => target # None)
      /\ routed \subseteq (1 .. read) \X Conns /\ gone \subseteq Conns
      /\ station \notin {"lookup", "write", "confirm"}
  BY DEF Init
<1>5. read \in 0 .. Len(sent) /\ config \in 0 .. read /\ xtime \in 0 .. MaxUp
  BY <1>1, <1>3, LinkAssumption
<1>6. station \in {"dial", "version", "await", "listen", "failed"} \cup Listening
  BY <1>3
<1> QED
  BY <1>1, <1>2, <1>3, <1>4, <1>5, <1>6 DEF TypeOK, HandsOK

\* The variables keep their types; the gateway writes only to a connection it found.
THEOREM LinkTypeCorrect == Spec => []TypeOK
  BY TypesInit, TypesStep, PTL DEF Spec

-----------------------------------------------------------------------------
(* What is read stays what it was.                                         *)

\* Messages are read one at a time, and only added at the end.
LEMMA SentKept ==
    ASSUME TypeOK, [Next]_vars
    PROVE  /\ \A i \in 1 .. Len(sent) : sent'[i] = sent[i]
           /\ read \in 0 .. Len(sent) /\ read' \in {read, read + 1}
<1> USE DEF TypeOK, linkVars, serverVars, routeVars, uplinkVars, tagVars
<1>1. CASE Gateway
  BY <1>1 DEF Gateway, Dial, SendVersion, AwaitConfig, Listen, ReadFails, Read, Lookup,
              Write, Confirm
<1>2. ASSUME NEW c \in Conns,
             \/ Connect(c) \/ Handler(c)
             \/ \E how \in {"stalled", "closed"} : TagEnds(c, how)
      PROVE  sent' = sent /\ read' = read
  BY <1>2 DEF Connect, Handler, Hello, Stamp, Forward, Leave, TagEnds
<1>3. CASE Greet \/ Drop
  <2>1. [type |-> "router_config", to |-> None] \in Messages
    BY DEF Messages
  <2> QED
    BY <1>3, <2>1, AppendKeeps DEF Greet, Drop
<1>4. ASSUME NEW m \in Messages, ServerSends(m)
      PROVE  read' = read /\ \A i \in 1 .. Len(sent) : sent'[i] = sent[i]
  BY <1>4, AppendKeeps DEF ServerSends
<1>5. CASE UNCHANGED vars
  BY <1>5 DEF vars
<1> QED
  BY <1>1, <1>2, <1>3, <1>4, <1>5 DEF Next

\* Only the two loops that read messages set the configuration.
LEMMA ConfigStep == TypeOK /\ ConfigCurrent /\ [Next]_vars => ConfigCurrent'
<1> SUFFICES ASSUME TypeOK, ConfigCurrent, [Next]_vars PROVE ConfigCurrent'
  OBVIOUS
<1>0. /\ \A i \in 1 .. Len(sent) : sent'[i] = sent[i]
      /\ read \in 0 .. Len(sent) /\ Len(sent) \in Nat
  <2>1. Len(sent) \in Nat
    BY DEF TypeOK
  <2> QED
    BY <2>1, SentKept
<1>1. CASE config' = config /\ read' = read
  BY <1>0, <1>1 DEF ConfigCurrent
<1>2. CASE AwaitConfig
  BY <1>0, <1>2 DEF AwaitConfig, Incoming, Unread, ConfigCurrent
<1>3. CASE Read
  BY <1>0, <1>3 DEF Read, Incoming, Unread, ConfigCurrent
<1>4. AwaitConfig \/ Read \/ (config' = config /\ read' = read)
  BY DEF Next, vars, Gateway, Dial, SendVersion, Listen, ReadFails, Lookup, Write, Confirm,
         Connect, Handler, Hello, Stamp, Forward, Leave, TagEnds, Greet, Drop, ServerSends,
         linkVars, serverVars, routeVars, uplinkVars, tagVars
<1> QED
  BY <1>1, <1>2, <1>3, <1>4

\* RouterConfig is the most recent plan of all that were read.
THEOREM LinkConfigCurrent == Spec => []ConfigCurrent
<1>1. Init => ConfigCurrent
  BY DEF Init, ConfigCurrent
<1>2. TypeOK /\ TypeOK' /\ ConfigCurrent /\ [Next]_vars => ConfigCurrent'
  BY ConfigStep
<1> QED
  BY <1>1, <1>2, LinkTypeCorrect, PTL DEF Spec

-----------------------------------------------------------------------------
(* A downlink that was written reached the device it addresses.            *)

\* A connection that has said hello keeps its name, and the registry holds a
\* connection only under its own.
RegistryInv ==
    \A n \in Names : registry[n] # None => registry[n] \in Conns /\ name[registry[n]] = n

\* What was written, or is about to be, goes to the device addressed.
RoutedInv ==
    /\ station = "write" => name[target] # None /\ name[target][1] = Addressee
    /\ station = "confirm" => \E c \in Conns : <<read, c>> \in routed
    /\ \A i \in 1 .. read, c \in Conns :
        <<i, c>> \in routed => name[c] # None /\ name[c][1] = sent[i].to

\* Only what was written is confirmed, and not before it was.
AcksInv ==
    /\ \A i \in DOMAIN acks : \E c \in Conns : <<acks[i], c>> \in routed
    /\ station \in {"lookup", "write", "confirm"} => \A i \in DOMAIN acks : acks[i] < read
    /\ \A i, j \in DOMAIN acks : i < j => acks[i] < acks[j]

\* A name, once said, is not taken back.
LEMMA NamesKept ==
    ASSUME TypeOK, [Next]_vars, NEW c \in Conns, name[c] # None
    PROVE  name'[c] = name[c]
<1>1. CASE name' = name
  BY <1>1
<1>2. ASSUME NEW d \in Conns, NEW n \in Names, Hello(d, n) PROVE name'[c] = name[c]
  BY <1>2 DEF Hello, TypeOK
<1>3. name' = name \/ \E d \in Conns, n \in Names : Hello(d, n)
  BY DEF Next, vars, Gateway, Dial, SendVersion, AwaitConfig, Listen, ReadFails, Read, Lookup,
         Write, Confirm, Connect, Handler, Stamp, Forward, Leave, TagEnds, Greet, Drop,
         ServerSends, tagVars
<1> QED
  BY <1>1, <1>2, <1>3

\* Hello and Leave are the only steps that touch names and registry.
LEMMA TagStep ==
    ASSUME [Next]_vars
    PROVE  \/ UNCHANGED <<name, gone, registry>>
           \/ \E c \in Conns, n \in Names : n[2] \in Spellings /\ Hello(c, n)
           \/ \E c \in Conns : Leave(c)
  BY DEF Next, vars, Gateway, Dial, SendVersion, AwaitConfig, Listen, ReadFails, Read, Lookup,
         Write, Confirm, Connect, Handler, Stamp, Forward, TagEnds, Greet, Drop,
         ServerSends, tagVars

\* Hello enters a connection under the name it takes, Leave only removes.
LEMMA RegistryStep == TypeOK /\ RegistryInv /\ [Next]_vars => RegistryInv'
<1> SUFFICES ASSUME TypeOK, RegistryInv, [Next]_vars, NEW n \in Names, registry'[n] # None
             PROVE  registry'[n] \in Conns /\ name'[registry'[n]] = n
  BY DEF RegistryInv
<1> USE DEF TypeOK, RegistryInv
<1>1. CASE UNCHANGED <<name, gone, registry>>
  BY <1>1
<1>2. ASSUME NEW c \in Conns, NEW m \in Names, Hello(c, m)
      PROVE  registry'[n] \in Conns /\ name'[registry'[n]] = n
  <2>1. c # None /\ n # None
    BY LinkAssumption DEF Names
  <2>2. CASE n = m
    BY <1>2, <2>2 DEF Hello
  <2>3. CASE n # m
    BY <1>2, <2>1, <2>3 DEF Hello
  <2> QED
    BY <2>2, <2>3
<1>3. ASSUME NEW c \in Conns, Leave(c)
      PROVE  registry'[n] \in Conns /\ name'[registry'[n]] = n
  BY <1>3 DEF Leave
<1> QED
  BY <1>1, <1>2, <1>3, TagStep

\* Lookup takes the connection of the addressee, Write writes to it.
LEMMA RoutedStep ==
    TypeOK /\ HandsOK /\ RegistryInv /\ RoutedInv /\ [Next]_vars => RoutedInv'
<1> SUFFICES ASSUME TypeOK, HandsOK, RegistryInv, RoutedInv, [Next]_vars PROVE RoutedInv'
  OBVIOUS
<1>0. /\ \A i \in 1 .. Len(sent) : sent'[i] = sent[i]
      /\ read \in 0 .. Len(sent) /\ Len(sent) \in Nat
      /\ routed \subseteq (1 .. read) \X Conns
  <2>1. Len(sent) \in Nat
    BY DEF TypeOK
  <2> QED
    BY <2>1, SentKept DEF TypeOK
<1>1. \A c \in Conns : name[c] # None => name'[c] = name[c]
  BY NamesKept
<1>2. CASE UNCHANGED <<station, read, target, routed>>
  <2>1. station = "write" => target \in Conns /\ Addressee' = Addressee
    BY <1>0, <1>2 DEF HandsOK, TypeOK, Addressee
  <2>2. (station = "write" => name[target] # None /\ name[target][1] = Addressee)'
    BY <1>1, <1>2, <2>1 DEF RoutedInv
  <2>3. (\A i \in 1 .. read, c \in Conns :
           <<i, c>> \in routed => name[c] # None /\ name[c][1] = sent[i].to)'
    BY <1>0, <1>1, <1>2 DEF RoutedInv
  <2> QED
    BY <1>2, <2>2, <2>3 DEF RoutedInv
<1>3. CASE Lookup
  <2>1. WireName(Addressee) \in Names /\ read \in 1 .. read
    BY <1>0, <1>3 DEF Lookup, Addressee, WireName, Names, HandsOK, TypeOK
  <2>2. target' # None => name[target'] = WireName(Addressee)
    BY <1>3, <2>1 DEF Lookup, RegistryInv, TypeOK
  <2>3. WireName(Addressee) # None /\ WireName(Addressee)[1] = Addressee
    BY <2>1, LinkAssumption DEF WireName, Names
  <2>4. /\ station' = "write" => target' # None
        /\ station' # "confirm" /\ Addressee' = Addressee
        /\ UNCHANGED <<name, routed, read, sent>>
    BY <1>3 DEF Lookup, serverVars, tagVars, Addressee
  <2> QED
    BY <2>2, <2>3, <2>4 DEF RoutedInv
<1>4. CASE Write
  <2>1. target \in Conns /\ read \in 1 .. read
    BY <1>0, <1>4 DEF Write, HandsOK, TypeOK
  <2> QED
    BY <1>0, <1>4, <2>1 DEF Write, RoutedInv, linkVars, serverVars, uplinkVars, tagVars,
                            Addressee
<1>5. CASE station' \notin {"write", "confirm"} /\ UNCHANGED routed
  <2>1. read' \in {read, read + 1}
    BY SentKept
  <2> QED
    BY <1>0, <1>1, <1>5, <2>1 DEF RoutedInv
<1>6. \/ UNCHANGED <<station, read, target, routed>> \/ Lookup \/ Write
      \/ station' \notin {"write", "confirm"} /\ UNCHANGED routed
  BY DEF Next, vars, Gateway, Dial, SendVersion, AwaitConfig, Listen, ReadFails, Read, Confirm,
         Connect, Handler, Hello, Stamp, Forward, Leave, TagEnds, Greet, Drop, ServerSends,
         routeVars
<1> QED
  BY <1>2, <1>3, <1>4, <1>5, <1>6

\* Confirm appends the downlink just written, after all those before it.
LEMMA AcksStep == TypeOK /\ HandsOK /\ RoutedInv /\ AcksInv /\ [Next]_vars => AcksInv'
<1> SUFFICES ASSUME TypeOK, HandsOK, RoutedInv, AcksInv, [Next]_vars PROVE AcksInv'
  OBVIOUS
<1>0. /\ read \in Nat /\ read' \in {read, read + 1}
      /\ Len(acks) \in Nat /\ DOMAIN acks = 1 .. Len(acks)
      /\ \A i \in DOMAIN acks : acks[i] \in 1 .. read
  <2>1. Len(sent) \in Nat /\ acks \in Seq(1 .. read)
    BY DEF TypeOK
  <2> QED
    BY <2>1, SentKept
<1>1. CASE UNCHANGED <<station, read, routed, acks>>
  BY <1>1 DEF AcksInv
<1>2. CASE Read
  <2>1. read' = read + 1 /\ UNCHANGED <<routed, acks>>
    BY <1>2 DEF Read, routeVars
  <2>2. \A i \in DOMAIN acks : acks[i] < read'
    BY <1>0, <2>1
  <2> QED
    BY <2>1, <2>2 DEF AcksInv
<1>3. CASE Lookup
  BY <1>3 DEF Lookup, AcksInv
<1>4. CASE Write
  BY <1>4 DEF Write, AcksInv
<1>5. CASE Confirm
  <2>1. PICK c \in Conns : <<read, c>> \in routed
    BY <1>5 DEF Confirm, RoutedInv
  <2>2. CASE acks' = acks
    BY <1>5, <2>2 DEF Confirm, AcksInv
  <2>3. CASE acks' = Append(acks, read)
    <3>1. /\ DOMAIN acks' = 1 .. Len(acks) + 1 /\ acks'[Len(acks) + 1] = read
          /\ \A i \in 1 .. Len(acks) : acks'[i] = acks[i]
      <4>1. acks \in Seq(1 .. read) /\ read \in 1 .. read
        BY <1>0, <1>5 DEF TypeOK, HandsOK, Confirm
      <4> QED
        BY <2>3, <4>1, AppendKeeps
    <3>2. station' = "serve" /\ routed' = routed /\ \A i \in DOMAIN acks : acks[i] < read
      BY <1>5 DEF Confirm, AcksInv
    <3>3. \A i \in DOMAIN acks' : i \in DOMAIN acks \/ i = Len(acks) + 1
      BY <1>0, <3>1
    <3>4. \A i \in DOMAIN acks' : \E d \in Conns : <<acks'[i], d>> \in routed'
      BY <1>0, <2>1, <3>1, <3>2, <3>3 DEF AcksInv
    <3>5. \A i, j \in DOMAIN acks' : i < j => acks'[i] < acks'[j]
      BY <1>0, <3>1, <3>2, <3>3 DEF AcksInv
    <3> QED
      BY <3>2, <3>4, <3>5 DEF AcksInv
  <2> QED
    BY <1>5, <2>2, <2>3 DEF Confirm
<1>6. CASE station' \notin {"lookup", "write", "confirm"} /\ UNCHANGED <<routed, acks>>
  BY <1>6 DEF AcksInv
<1>7. \/ UNCHANGED <<station, read, routed, acks>> \/ Read \/ Lookup \/ Write \/ Confirm
      \/ station' \notin {"lookup", "write", "confirm"} /\ UNCHANGED <<routed, acks>>
  BY DEF Next, vars, Gateway, Dial, SendVersion, AwaitConfig, Listen, ReadFails,
         Connect, Handler, Hello, Stamp, Forward, Leave, TagEnds, Greet, Drop, ServerSends,
         routeVars
<1> QED
  BY <1>1, <1>2, <1>3, <1>4, <1>5, <1>6, <1>7

\* The invariants about routing hold together.
LEMMA RouteAlways == Spec => [](TypeOK /\ HandsOK /\ RegistryInv /\ RoutedInv /\ AcksInv)
<1>1. Init => TypeOK /\ HandsOK /\ RegistryInv /\ RoutedInv /\ AcksInv
  <2>1. Init => RegistryInv /\ RoutedInv /\ AcksInv
    BY DEF Init, RegistryInv, RoutedInv, AcksInv
  <2> QED
    BY <2>1, TypesInit
<1>2. TypeOK /\ HandsOK /\ RegistryInv /\ RoutedInv /\ AcksInv /\ [Next]_vars
      => (TypeOK /\ HandsOK /\ RegistryInv /\ RoutedInv /\ AcksInv)'
  BY TypesStep, RegistryStep, RoutedStep, AcksStep
<1> QED
  BY <1>1, <1>2, PTL DEF Spec

\* A downlink is confirmed once, in order, and only if it was written to the device
\* it addresses.
THEOREM LinkConfirmedRouted == Spec => []ConfirmedRouted
<1>1. TypeOK /\ RoutedInv /\ AcksInv => ConfirmedRouted
  <2> SUFFICES ASSUME TypeOK, RoutedInv, AcksInv, NEW i \in DOMAIN acks
               PROVE  \E c \in Conns : /\ <<acks[i], c>> \in routed
                                       /\ name[c][1] = sent[acks[i]].to
    BY DEF AcksInv, ConfirmedRouted
  <2>1. PICK c \in Conns : <<acks[i], c>> \in routed
    BY DEF AcksInv
  <2>2. acks[i] \in 1 .. read
    BY <2>1 DEF TypeOK
  <2> QED
    BY <2>1, <2>2 DEF RoutedInv
<1> QED
  BY <1>1, RouteAlways, PTL

-----------------------------------------------------------------------------
(* A connected device is found.                                            *)

\* No other connection has announced the same text.
SoleName(c) == \A o \in Conns \ {c} : name[o] # name[c]

\* Every connection with a text of its own is the one registered under it.
FoundInv ==
    \A c \in Conns :
        /\ name[c] # None => name[c][2] \in Spellings
        /\ name[c] # None /\ c \notin gone /\ SoleName(c) => registry[name[c]] = c

\* Only a second connection under the same text changes a tag's entry before it leaves.
LEMMA FoundStep == TypeOK /\ FoundInv /\ [Next]_vars => FoundInv'
<1> SUFFICES ASSUME TypeOK, FoundInv, [Next]_vars, NEW c \in Conns, name'[c] # None
             PROVE  /\ name'[c][2] \in Spellings
                    /\ c \notin gone' /\ SoleName(c)' => registry'[name'[c]] = c
  BY DEF FoundInv
<1> USE DEF TypeOK
<1>1. CASE UNCHANGED <<name, gone, registry>>
  BY <1>1 DEF FoundInv, SoleName
<1>2. ASSUME NEW d \in Conns, NEW n \in Names, n[2] \in Spellings, Hello(d, n)
      PROVE  /\ name'[c][2] \in Spellings
             /\ c \notin gone' /\ SoleName(c)' => registry'[name'[c]] = c
  <2>1. CASE c = d
    BY <1>2, <2>1 DEF Hello
  <2>2. CASE c # d
    <3>1. name'[c] = name[c] /\ name[d] = None /\ gone' = gone
      BY <1>2, <2>2 DEF Hello
    <3>2. SoleName(c)' => SoleName(c) /\ n # name[c]
      BY <1>2, <2>2, <3>1 DEF Hello, SoleName
    <3> QED
      BY <1>2, <3>1, <3>2 DEF Hello, FoundInv
  <2> QED
    BY <2>1, <2>2
<1>3. ASSUME NEW d \in Conns, Leave(d)
      PROVE  /\ name'[c][2] \in Spellings
             /\ c \notin gone' /\ SoleName(c)' => registry'[name'[c]] = c
  <2>1. name' = name
    BY <1>3 DEF Leave
  <2>2. c \notin gone' /\ SoleName(c) => c # d /\ name[c] # name[d]
    BY <1>3, <2>1 DEF Leave, SoleName
  <2> QED
    BY <1>3, <2>1, <2>2 DEF Leave, FoundInv, SoleName
<1> QED
  BY <1>1, <1>2, <1>3, TagStep

\* As long as every tag writes its DevEUI the way ParseUplink does, a downlink for a
\* connected device is not dropped.
THEOREM LinkAddresseeFound ==
    ASSUME Spellings \subseteq {"lower"}
    PROVE  Spec => AddresseeFound
<1>1. Init => FoundInv
  BY DEF Init, FoundInv
<1>2. ASSUME TypeOK, HandsOK, FoundInv, [Next]_vars
      PROVE  [station = "lookup" /\ station' = "serve"
              => ~ \E c \in Conns : Reachable(c, Addressee)]_vars
  <2> SUFFICES ASSUME station = "lookup", station' = "serve",
                      NEW c \in Conns, Reachable(c, Addressee)
               PROVE  FALSE
    OBVIOUS
  <2>1. Lookup
    BY <1>2 DEF Next, vars, Gateway, Dial, SendVersion, AwaitConfig, Listen, ReadFails, Read,
           Write, Confirm, Connect, Handler, Hello, Stamp, Forward, Leave, TagEnds, Greet,
           Drop, ServerSends
  <2>2. name[c] \in Names /\ name[c][2] = "lower" /\ name[c][1] = Addressee
    BY <1>2 DEF Reachable, TypeOK, FoundInv
  <2>3. name[c] = WireName(Addressee)
    BY <2>2 DEF Names, WireName
  <2>4. SoleName(c)
    <3> SUFFICES ASSUME NEW o \in Conns \ {c}, name[o] = name[c] PROVE FALSE
      BY DEF SoleName
    <3> QED
      BY <2>2 DEF Reachable
  <2>5. registry[WireName(Addressee)] = c
    BY <1>2, <2>3, <2>4 DEF FoundInv, Reachable, Serving
  <2> QED
    BY <2>1, <2>5, LinkAssumption DEF Lookup
<1>3. TypeOK /\ FoundInv /\ [Next]_vars => FoundInv'
  BY FoundStep
<1> QED
  BY <1>1, <1>2, <1>3, RouteAlways, PTL DEF Spec, AddresseeFound

-----------------------------------------------------------------------------
(* xtime.                                                                  *)

\* The values in the handlers' hands differ from each other, and from those sent.
StampInv ==
    /\ \A c, d \in Conns : c # d /\ stamp[c] # 0 => stamp[c] # stamp[d]
    /\ \A i \in DOMAIN ups : /\ ups[i].xtime \in 1 .. xtime
                            /\ \A c \in Conns : ups[i].xtime # stamp[c]
    /\ XTimeUnique

\* Stamp takes a value above all others, Forward hands it over.
LEMMA StampStep == TypeOK /\ StampInv /\ [Next]_vars => StampInv'
<1> SUFFICES ASSUME TypeOK, StampInv, [Next]_vars PROVE StampInv'
  OBVIOUS
<1>0. /\ xtime \in Nat /\ stamp \in [Conns -> 0 .. xtime]
      /\ Len(ups) \in Nat /\ DOMAIN ups = 1 .. Len(ups)
  BY LinkAssumption DEF TypeOK
<1>1. CASE UNCHANGED uplinkVars
  BY <1>1 DEF uplinkVars, StampInv, XTimeUnique
<1>2. ASSUME NEW c \in Conns, Stamp(c) PROVE StampInv'
  BY <1>0, <1>2 DEF Stamp, StampInv, XTimeUnique
<1>3. ASSUME NEW c \in Conns, Forward(c) PROVE StampInv'
  <2> DEFINE up == [xtime |-> stamp[c], from |-> name[c][1]]
  <2>1. CASE ups' = ups
    BY <1>0, <1>3, <2>1 DEF Forward, StampInv, XTimeUnique
  <2>2. CASE ups' = Append(ups, up)
    <3>1. /\ DOMAIN ups' = 1 .. Len(ups) + 1
          /\ ups'[Len(ups) + 1].xtime = stamp[c]
          /\ \A i \in 1 .. Len(ups) : ups'[i] = ups[i]
      BY <2>2 DEF TypeOK
    <3>2. stamp' = [stamp EXCEPT ![c] = 0] /\ xtime' = xtime /\ stamp[c] # 0
      BY <1>3 DEF Forward
    <3>3. \A i \in DOMAIN ups' : i \in DOMAIN ups \/ i = Len(ups) + 1
      BY <1>0, <3>1
    <3>4. \A i \in DOMAIN ups' : /\ ups'[i].xtime \in 1 .. xtime
                                /\ \A d \in Conns : ups'[i].xtime # stamp'[d]
      BY <1>0, <3>1, <3>2, <3>3 DEF StampInv
    <3>5. XTimeUnique'
      BY <1>0, <3>1, <3>2, <3>3 DEF StampInv, XTimeUnique
    <3>6. (\A d, e \in Conns : d # e /\ stamp[d] # 0 => stamp[d] # stamp[e])'
      BY <1>0, <3>2 DEF StampInv
    <3> QED
      BY <3>2, <3>4, <3>5, <3>6 DEF StampInv
  <2> QED
    BY <1>3, <2>1, <2>2 DEF Forward
<1>4. UNCHANGED uplinkVars \/ \E c \in Conns : Stamp(c) \/ Forward(c)
  BY DEF Next, vars, Gateway, Dial, SendVersion, AwaitConfig, Listen, ReadFails, Read, Lookup,
         Write, Confirm, Connect, Handler, Hello, Leave, TagEnds, Greet, Drop, ServerSends,
         linkVars, serverVars, routeVars, tagVars
<1> QED
  BY <1>1, <1>2, <1>3, <1>4

\* No two uplinks carry the same xtime, however the handlers interleave.
THEOREM LinkXTimeUnique == Spec => []XTimeUnique
<1>1. Init => StampInv
  BY DEF Init, StampInv, XTimeUnique
<1>2. StampInv => XTimeUnique
  BY DEF StampInv
<1>3. TypeOK /\ StampInv /\ [Next]_vars => StampInv'
  BY StampStep
<1> QED
  BY <1>1, <1>2, <1>3, LinkTypeCorrect, PTL DEF Spec
=============================================================================
