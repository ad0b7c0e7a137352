---------------------------- MODULE TagLifecycle ----------------------------
(***************************************************************************)
(* One tag from the orchestrator to the network server and back            *)
(* (sim/orchestrator.go, tag/client.go, gateway/gateway.go): Start calls   *)
(* that may overlap, each with a TCP connection of its own; the gateway    *)
(* goroutine that reads each connection; the gateway's registry of tag     *)
(* connections; the network server that answers join-requests and pushes   *)
(* downlinks; Stop, the deletion of the tag, and a restart of the process. *)
(*                                                                         *)
(* The session row is reduced to what routing and joining depend on; its   *)
(* counters are the subject of DeviceSession.                              *)
(***************************************************************************)
EXTENDS Naturals, Sequences

CONSTANTS
    Starts,     \* the Start calls of the tag; each names its connection too
    None,       \* no Start, no connection
    MaxPush     \* data downlinks the network server pushes

ASSUME LifecycleAssumption == None \notin Starts /\ MaxPush \in Nat

VARIABLES
    tag,        \* "present" or "deleted"
    session,    \* the stored session: NoKey, or the keys the tag derived
    nonce,      \* the stored DevNonce
    pc,         \* what each Start call is doing
    mine,       \* the DevNonce each Start put in its join-request
    derived,    \* the keys each Start derived from the accept it took
    running,    \* the orchestrator's running entry of the tag
    joined,     \* the joined flag of each Start's client
    slot,       \* the joinCh of each Start's client
    open,       \* the tag's end of each connection is open
    up,         \* envelopes on each connection the gateway has not read
    down,       \* envelopes on each connection the client has not read
    handler,    \* the gateway goroutine of each connection
    registry,   \* the gateway's byDevEUI entry of the tag
    air,        \* dnmsgs on the WebSocket the gateway has not read
    rising,     \* join-requests on it the network server has not read, by nonce
    late,       \* join-requests on a WebSocket that has ended, not read either
    routing,    \* the dnmsg OnDnmsg holds, with the connection it looked up
    lns,        \* the request of the network server's session, 0 for none
    pushes,     \* data downlinks pushed so far
    deletion,   \* what the delete call is doing
    orderly     \* history: every Start so far began in a settled system

startVars == <<pc, mine, derived>>
clientVars == <<joined, slot>>
rowVars == <<tag, session, nonce>>
connVars == <<open, up, down, handler>>
lnsVars == <<air, rising, late, lns, pushes>>

vars == <<rowVars, startVars, running, clientVars, connVars, registry, routing,
          lnsVars, deletion, orderly>>

-----------------------------------------------------------------------------
Key == [nonce : Nat, answers : Nat]
NoKey == [nonce |-> 0, answers |-> 0]
NetworkKey(n) == [nonce |-> n, answers |-> n]

Hello == [type |-> "hello", nonce |-> 0]
Jreq(n) == [type |-> "jreq", nonce |-> n]
Envelope == [type : {"hello", "jreq"}, nonce : Nat]

\* A downlink frame: an accept of a request, or data under its session.
Pdu == [kind : {"none", "accept", "data"}, req : Nat]
Accept(n) == [kind |-> "accept", req |-> n]
Data(n) == [kind |-> "data", req |-> n]
NoPdu == [kind |-> "none", req |-> 0]

Route == [conn : Starts, pdu : Pdu]
NoRoute == [conn |-> None, pdu |-> NoPdu]

TypeOK ==
    /\ tag \in {"present", "deleted"} /\ session \in Key /\ nonce \in Nat
    /\ pc \in [Starts -> {"idle", "dial", "hello", "session", "nonce", "request",
                          "wait", "save", "mark", "register", "returned"}]
    /\ mine \in [Starts -> Nat] /\ derived \in [Starts -> Key]
    /\ running \in Starts \cup {None}
    /\ joined \in [Starts -> BOOLEAN] /\ slot \in [Starts -> Pdu]
    /\ open \in [Starts -> BOOLEAN]
    /\ up \in [Starts -> Seq(Envelope)] /\ down \in [Starts -> Seq(Pdu)]
    /\ handler \in [Starts -> {"none", "reading", "announced", "gone"}]
    /\ registry \in Starts \cup {None}
    /\ air \in Seq(Pdu) /\ rising \in Seq(Nat) /\ late \subseteq Nat
    /\ routing \in Route \cup {NoRoute}
    /\ lns \in Nat /\ pushes \in Nat
    /\ deletion \in {"none", "row", "done"} /\ orderly \in BOOLEAN

Init ==
    /\ tag = "present" /\ session = NoKey /\ nonce = 0
    /\ pc = [a \in Starts |-> "idle"]
    /\ mine = [a \in Starts |-> 0]
    /\ derived = [a \in Starts |-> NoKey]
    /\ running = None
    /\ joined = [a \in Starts |-> FALSE]
    /\ slot = [a \in Starts |-> NoPdu]
    /\ open = [a \in Starts |-> FALSE]
    /\ up = [a \in Starts |-> <<>>]
    /\ down = [a \in Starts |-> <<>>]
    /\ handler = [a \in Starts |-> "none"]
    /\ registry = None
    /\ air = <<>> /\ rising = <<>> /\ late = {} /\ routing = NoRoute
    /\ lns = 0 /\ pushes = 0
    /\ deletion = "none" /\ orderly = TRUE

-----------------------------------------------------------------------------
(* Orchestrator.Start.                                                     *)

Goto(a, where) == pc' = [pc EXCEPT ![a] = where]

\* Mutant: the connection is left open.
GiveUpLeaking(a) == Goto(a, "returned") /\ open' = open

\* An error path of Start: cancel, conn.Close, return.
GiveUp(a) == Goto(a, "returned") /\ open' = [open EXCEPT ![a] = FALSE]

Send(a, env) == up' = [up EXCEPT ![a] = Append(@, env)]

\* No other Start is in progress, no connection is left, and nothing is on its way
\* between gateway and network server: no downlink for the tag, no join-request of it.
Settled ==
    /\ \A b \in Starts : /\ pc[b] \in {"idle", "returned"}
                         /\ ~open[b] /\ handler[b] \in {"none", "gone"}
    /\ air = <<>> /\ routing = NoRoute /\ rising = <<>> /\ late = {}

\* The check under o.mu; the lock is released before anything else happens.
CheckRunning(a) ==
    /\ pc[a] = "idle"
    /\ IF running = None
       THEN Goto(a, "dial") /\ orderly' = (orderly /\ Settled)
       ELSE Goto(a, "returned") /\ orderly' = orderly
    /\ UNCHANGED <<rowVars, mine, derived, running, clientVars, connVars, registry,
                   routing, lnsVars, deletion>>

\* Tags.Get, NewDevice, Dial, NewClient; Run starts reading downlinks, and the
\* gateway's server starts a goroutine for the connection.
Dial(a) ==
    /\ pc[a] = "dial"
    /\ IF tag = "present"
       THEN /\ Goto(a, "hello")
            /\ open' = [open EXCEPT ![a] = TRUE]
            /\ handler' = [handler EXCEPT ![a] = "reading"]
       ELSE Goto(a, "returned") /\ UNCHANGED <<open, handler>>
    /\ UNCHANGED <<rowVars, mine, derived, running, clientVars, up, down, registry,
                   routing, lnsVars, deletion, orderly>>

SendHello(a) ==
    /\ pc[a] = "hello"
    /\ Send(a, Hello)
    /\ Goto(a, "session")
    /\ UNCHANGED <<rowVars, mine, derived, running, clientVars, open, down, handler,
                   registry, routing, lnsVars, deletion, orderly>>

\* Mutant: every Start joins.
ReadSessionAlwaysJoin(a) ==
    /\ pc[a] = "session"
    /\ Goto(a, "nonce")
    /\ UNCHANGED <<rowVars, mine, derived, running, clientVars, connVars, registry,
                   routing, lnsVars, deletion, orderly>>

\* Sessions.Get: a stored session skips the join; the row of a deleted tag is
\* gone with it.
ReadSession(a) ==
    /\ pc[a] = "session"
    /\ CASE tag = "deleted" -> GiveUp(a)
         [] tag = "present" /\ session = NoKey -> Goto(a, "nonce") /\ open' = open
         [] tag = "present" /\ session # NoKey -> Goto(a, "register") /\ open' = open
    /\ UNCHANGED <<rowVars, mine, derived, running, clientVars, up, down, handler,
                   registry, routing, lnsVars, deletion, orderly>>

\* BuildJoinRequest.
TakeNonce(a) ==
    /\ pc[a] = "nonce"
    /\ IF tag = "present"
       THEN /\ nonce' = nonce + 1
            /\ mine' = [mine EXCEPT ![a] = nonce + 1]
            /\ Goto(a, "request") /\ open' = open
       ELSE GiveUp(a) /\ UNCHANGED <<nonce, mine>>
    /\ UNCHANGED <<tag, session, derived, running, clientVars, up, down, handler,
                   registry, routing, lnsVars, deletion, orderly>>

SendRequest(a) ==
    /\ pc[a] = "request"
    /\ Send(a, Jreq(mine[a]))
    /\ Goto(a, "wait")
    /\ UNCHANGED <<rowVars, mine, derived, running, clientVars, open, down, handler,
                   registry, routing, lnsVars, deletion, orderly>>

\* Join takes what Run put in joinCh.  Any accept of this tag passes the MIC,
\* which does not cover the DevNonce; a data downlink fails the join.
TakeAccept(a) ==
    /\ pc[a] = "wait"
    /\ slot[a] # NoPdu
    /\ slot' = [slot EXCEPT ![a] = NoPdu]
    /\ IF slot[a].kind = "accept"
       THEN /\ derived' = [derived EXCEPT ![a] = [nonce |-> mine[a], answers |-> slot[a].req]]
            /\ Goto(a, "save") /\ open' = open
       ELSE GiveUp(a) /\ derived' = derived
    /\ UNCHANGED <<rowVars, mine, running, joined, up, down, handler, registry,
                   routing, lnsVars, deletion, orderly>>

SaveSession(a) ==
    /\ pc[a] = "save"
    /\ IF tag = "present"
       THEN session' = derived[a] /\ Goto(a, "mark") /\ open' = open
       ELSE GiveUp(a) /\ session' = session
    /\ UNCHANGED <<tag, nonce, mine, derived, running, clientVars, up, down, handler,
                   registry, routing, lnsVars, deletion, orderly>>

MarkJoined(a) ==
    /\ pc[a] = "mark"
    /\ joined' = [joined EXCEPT ![a] = TRUE]
    /\ Goto(a, "register")
    /\ UNCHANGED <<rowVars, mine, derived, running, slot, connVars, registry,
                   routing, lnsVars, deletion, orderly>>

Register(a) ==
    /\ pc[a] = "register"
    /\ running' = a
    /\ Goto(a, "returned")
    /\ UNCHANGED <<rowVars, mine, derived, clientVars, connVars, registry, routing,
                   lnsVars, deletion, orderly>>

\* A statement or a write fails, or the caller's context is cancelled.
Fail(a) ==
    /\ pc[a] \in {"dial", "hello", "session", "nonce", "request", "wait", "save"}
    /\ GiveUp(a)
    /\ UNCHANGED <<rowVars, mine, derived, running, clientVars, up, down, handler,
                   registry, routing, lnsVars, deletion, orderly>>

StartStep(a) ==
    \/ CheckRunning(a) \/ Dial(a) \/ SendHello(a) \/ ReadSession(a) \/ TakeNonce(a)
    \/ SendRequest(a) \/ TakeAccept(a) \/ SaveSession(a) \/ MarkJoined(a) \/ Register(a)

-----------------------------------------------------------------------------
(* Orchestrator.Stop, the DELETE handler, and the process.                 *)

\* Mutant: the connection is closed, the entry stays.
DisconnectListed ==
    /\ running' = running
    /\ open' = [a \in Starts |-> open[a] /\ a # running]

\* running is emptied under o.mu, then the connection it held is closed.  One step:
\* a Start in between meets the old connection, as one does whose goroutine at the
\* gateway has not left yet.
Disconnect ==
    /\ running' = None
    /\ open' = [a \in Starts |-> open[a] /\ a # running]

Stop ==
    /\ running # None
    /\ Disconnect
    /\ UNCHANGED <<rowVars, startVars, clientVars, up, down, handler, registry,
                   routing, lnsVars, deletion, orderly>>

\* deleteTag stops the tag, running or not, ...
DeleteStop ==
    /\ deletion = "none"
    /\ deletion' = "row"
    /\ Disconnect
    /\ UNCHANGED <<rowVars, startVars, clientVars, up, down, handler, registry,
                   routing, lnsVars, orderly>>

\* ... then deletes its row, and the session row with it.
DeleteRow ==
    /\ deletion = "row"
    /\ deletion' = "done"
    /\ tag' = "deleted" /\ session' = NoKey /\ nonce' = 0
    /\ UNCHANGED <<startVars, running, clientVars, connVars, registry, routing,
                   lnsVars, orderly>>

\* The process ends and starts again: the tags, the orchestrator and the gateway
\* live in it, the database and the network server do not.  What the gateway had sent
\* to the network server may still arrive there; nothing comes back.
Restart ==
    /\ pc' = [a \in Starts |-> IF pc[a] = "idle" THEN "idle" ELSE "returned"]
    /\ running' = None
    /\ joined' = [a \in Starts |-> FALSE]
    /\ slot' = [a \in Starts |-> NoPdu]
    /\ open' = [a \in Starts |-> FALSE]
    /\ up' = [a \in Starts |-> <<>>]
    /\ down' = [a \in Starts |-> <<>>]
    /\ handler' = [a \in Starts |-> IF handler[a] = "none" THEN "none" ELSE "gone"]
    /\ registry' = None /\ routing' = NoRoute /\ air' = <<>>
    /\ deletion' = IF deletion = "row" THEN "none" ELSE deletion
    /\ rising' = <<>> /\ late' = late \cup {rising[i] : i \in DOMAIN rising}
    /\ UNCHANGED <<rowVars, mine, derived, lns, pushes, orderly>>

-----------------------------------------------------------------------------
(* Client.Run.                                                             *)

\* Mutant: the read loop starts after the join.
RunReadJoined(a) ==
    /\ open[a] /\ down[a] # <<>> /\ joined[a]
    /\ down' = [down EXCEPT ![a] = Tail(@)]
    /\ UNCHANGED <<rowVars, startVars, running, clientVars, open, up, handler,
                   registry, routing, lnsVars, deletion, orderly>>

\* A downlink that comes before the join is an accept: it goes to joinCh, which
\* holds one.  Later ones go to HandleDownlink (DeviceSession).
RunRead(a) ==
    /\ open[a] /\ down[a] # <<>>
    /\ down' = [down EXCEPT ![a] = Tail(@)]
    /\ IF ~joined[a] /\ slot[a] = NoPdu
       THEN slot' = [slot EXCEPT ![a] = Head(down[a])]
       ELSE slot' = slot
    /\ UNCHANGED <<rowVars, startVars, running, joined, open, up, handler, registry,
                   routing, lnsVars, deletion, orderly>>

-----------------------------------------------------------------------------
(* The gateway.                                                            *)

\* Mutant: a DevEUI that was seen before is not registered again.
AnnounceNew(a) ==
    /\ handler[a] \in {"reading", "announced"}
    /\ up[a] # <<>> /\ Head(up[a]) = Hello
    /\ up' = [up EXCEPT ![a] = Tail(@)]
    /\ handler' = [handler EXCEPT ![a] = "announced"]
    /\ registry' = IF \E b \in Starts \ {a} : handler[b] = "gone" THEN registry ELSE a
    /\ UNCHANGED <<rowVars, startVars, running, clientVars, open, down, routing,
                   lnsVars, deletion, orderly>>

\* handleConn, hello.
Announce(a) ==
    /\ handler[a] \in {"reading", "announced"}
    /\ up[a] # <<>> /\ Head(up[a]) = Hello
    /\ up' = [up EXCEPT ![a] = Tail(@)]
    /\ handler' = [handler EXCEPT ![a] = "announced"]
    /\ registry' = a
    /\ UNCHANGED <<rowVars, startVars, running, clientVars, open, down, routing,
                   lnsVars, deletion, orderly>>

\* handleConn, up: the join-request goes into the WebSocket.
ForwardJreq(a) ==
    /\ handler[a] \in {"reading", "announced"}
    /\ up[a] # <<>> /\ Head(up[a]).type = "jreq"
    /\ up' = [up EXCEPT ![a] = Tail(@)]
    /\ rising' = Append(rising, Head(up[a]).nonce)
    /\ UNCHANGED <<rowVars, startVars, running, clientVars, open, down, handler,
                   registry, routing, air, late, lns, pushes, deletion, orderly>>

\* Mutant: the entry is never removed.
LeaveRegistered(a) ==
    /\ handler[a] \in {"reading", "announced"}
    /\ ~open[a] /\ (up[a] = <<>> \/ down[a] # <<>>)
    /\ handler' = [handler EXCEPT ![a] = "gone"]
    /\ UNCHANGED <<rowVars, startVars, running, clientVars, open, up, down, registry,
                   routing, lnsVars, deletion, orderly>>

\* Mutant: only EOF ends the loop, a reset does not.
LeaveOnEOF(a) ==
    /\ handler[a] \in {"reading", "announced"}
    /\ ~open[a] /\ up[a] = <<>> /\ down[a] = <<>>
    /\ handler' = [handler EXCEPT ![a] = "gone"]
    /\ registry' = IF handler[a] = "announced" THEN None ELSE registry
    /\ UNCHANGED <<rowVars, startVars, running, clientVars, open, up, down, routing,
                   lnsVars, deletion, orderly>>

\* The read ends: all was read, or the tag closed without reading its downlinks
\* and TCP reset the connection.  The deferred unregister deletes the entry of
\* the DevEUI, whichever connection it holds.
Leave(a) ==
    /\ handler[a] \in {"reading", "announced"}
    /\ ~open[a] /\ (up[a] = <<>> \/ down[a] # <<>>)
    /\ handler' = [handler EXCEPT ![a] = "gone"]
    /\ registry' = IF handler[a] = "announced" THEN None ELSE registry
    /\ UNCHANGED <<rowVars, startVars, running, clientVars, open, up, down, routing,
                   lnsVars, deletion, orderly>>

\* OnDnmsg, first half: lookup under the read lock.
Lookup ==
    /\ air # <<>> /\ routing = NoRoute
    /\ air' = Tail(air)
    /\ routing' = IF registry = None THEN NoRoute
                  ELSE [conn |-> registry, pdu |-> Head(air)]
    /\ UNCHANGED <<rowVars, startVars, running, clientVars, connVars, registry, rising,
                   late, lns, pushes, deletion, orderly>>

\* OnDnmsg, second half: the write.  Writing to a connection the tag has closed
\* resets it, and what the gateway had not read from it may be gone.
WriteDown ==
    /\ routing # NoRoute
    /\ routing' = NoRoute
    /\ LET a == routing.conn IN
       IF open[a]
       THEN down' = [down EXCEPT ![a] = Append(@, routing.pdu)] /\ up' = up
       ELSE down' = down /\ up' \in {up, [up EXCEPT ![a] = <<>>]}
    /\ UNCHANGED <<rowVars, startVars, running, clientVars, open, handler, registry,
                   lnsVars, deletion, orderly>>

\* The network server reads a join-request, starts a session for it and sends an
\* accept (mocklns handleJreq).
Answer ==
    /\ rising # <<>>
    /\ rising' = Tail(rising)
    /\ lns' = Head(rising)
    /\ air' = Append(air, Accept(Head(rising)))
    /\ UNCHANGED <<rowVars, startVars, running, clientVars, connVars, registry, routing,
                   late, pushes, deletion, orderly>>

\* One that the gateway sent before it went down is read now, and its accept has
\* nowhere to go; or it never arrives.
AnswerLate ==
    /\ \E n \in late : late' = late \ {n} /\ lns' \in {n, lns}
    /\ UNCHANGED <<rowVars, startVars, running, clientVars, connVars, registry, routing,
                   air, rising, pushes, deletion, orderly>>

\* The network server pushes a data downlink under its session (PushClassC).  It notes
\* the session before it writes the accept, so the push may come before that.
Push ==
    /\ lns # 0 /\ pushes < MaxPush
    /\ pushes' = pushes + 1
    /\ \/ air' = Append(air, Data(lns))
       \/ /\ air # <<>> /\ air[Len(air)].kind = "accept"
          /\ air' = Append([air EXCEPT ![Len(air)] = Data(lns)], air[Len(air)])
    /\ UNCHANGED <<rowVars, startVars, running, clientVars, connVars, registry,
                   routing, rising, late, lns, deletion, orderly>>

HandlerStep(a) == Announce(a) \/ ForwardJreq(a) \/ Leave(a)

Next ==
    \/ \E a \in Starts : StartStep(a) \/ Fail(a) \/ RunRead(a) \/ HandlerStep(a)
    \/ Stop \/ DeleteStop \/ DeleteRow \/ Restart
    \/ Lookup \/ WriteDown \/ Answer \/ AnswerLate \/ Push

\* The goroutines of the process run on, and the network server answers what it reads;
\* nobody has to call Start, Stop or the DELETE handler, and it need not push.
Fairness ==
    /\ \A a \in Starts : /\ WF_vars(StartStep(a) /\ pc[a] # "idle")
                         /\ WF_vars(RunRead(a))
                         /\ WF_vars(HandlerStep(a))
    /\ WF_vars(DeleteRow) /\ WF_vars(Lookup) /\ WF_vars(WriteDown) /\ WF_vars(Answer)

Spec == Init /\ [][Next]_vars /\ Fairness

-----------------------------------------------------------------------------
(* Safety.                                                                 *)

\* A registered connection is served by a goroutine that will unregister it when
\* the connection ends (Gateway.handleConn's deferred unregister).
RegistryServed == registry # None => handler[registry] = "announced"

\* A tag the orchestrator lists as running has an open connection: no Stop, no
\* failed Start and no restart leaves a closed one listed (Orchestrator.running).
RunningConnected == running # None => open[running]

\* Downlinks for a running tag reach it, once the gateway has read its hello
\* (Gateway: "routes LNS dnmsg downlinks back to the addressed tag").
Routable == running # None /\ up[running] = <<>> => registry = running

\* ... as long as no Start begins before the tag's last connection is gone.
OrderlyRoutable == orderly => Routable

\* Under the same condition the stored session is the one the network server
\* serves the tag under (Client.Join, ParseJoinAccept): failed, cancelled and
\* interrupted joins in between have not left the two apart.
KeyAgreement == session # NoKey => session = NetworkKey(lns)
OrderlyKeyAgreement == orderly => KeyAgreement

\* ... and every open connection belongs to a Start in progress or to the running
\* entry, so that Stop can close it (Orchestrator.Start's error paths).
Owned == \A a \in Starts : open[a] => running = a \/ pc[a] \notin {"idle", "returned"}
OrderlyOwned == orderly => Owned

\* A running tag is routable when its connection is the only one the gateway still
\* serves, whatever connections the tag had before (Gateway.unregister).
SoleRoutable ==
    (\A a \in Starts : handler[a] \in {"none", "gone"} \/ a = running) => Routable

\* A running tag can send an uplink, even if no two Starts ever overlapped: it
\* passes SendUplink's joined check.
RunningCanUplink == orderly /\ running # None => joined[running]

\* A deleted tag is offline once the Start calls it raced with have returned.
DeletedOffline ==
    deletion = "done" /\ (\A a \in Starts : pc[a] \in {"idle", "returned"})
        => running = None

-----------------------------------------------------------------------------
(* Liveness.                                                               *)

\* The gateway eventually reaps every connection the tag closed (handleConn).
ClosedReaped ==
    \A a \in Starts : ~open[a] /\ handler[a] # "none" ~> handler[a] = "gone"

\* As long as no Start begins before the last connection is gone, and the network
\* server answers, every Start returns: the accept finds its way (Client.Join).
OrderlyStartReturns ==
    []orderly => \A a \in Starts : pc[a] # "idle" ~> pc[a] = "returned"

=============================================================================
