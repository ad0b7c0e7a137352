------------------------------ MODULE EventFeed ------------------------------
(***************************************************************************)
(* The live event feed (api/publisher.go, api/hub.go): goroutines publish  *)
(* events one after another; the hub offers each to the buffer of every    *)
(* connected browser under its read lock; a goroutine per browser writes   *)
(* the buffer out; browsers come, stall and go.                            *)
(*                                                                         *)
(* An event is <<p, k>>, the k-th of publisher p.                          *)
(***************************************************************************)
EXTENDS Naturals, Sequences, FiniteSets

CONSTANTS
    Publishers,     \* goroutines that publish: uplinks, joins, downlink hooks
    PerPublisher,   \* events each of them publishes
    Browsers,       \* WebSocket connections, each used once
    Cap             \* capacity of a send channel (64 in the code)

ASSUME FeedAssumption == PerPublisher \in Nat /\ Cap \in Nat \ {0}

Events == Publishers \X (1 .. PerPublisher)

VARIABLES
    status,     \* how far the Publish call of each event is
    todo,       \* the browsers its Broadcast has not visited yet
    hub,        \* h.clients
    serve,      \* what the ServeWS goroutine of each browser is doing
    send,       \* its send channel
    online,     \* browsers whose connection is up
    seen,       \* history: the latest event of each publisher the browser got
    before,     \* history: what had been broadcast when the browser was added
    dropped     \* history: browsers that met an event with a full buffer

vars == <<status, todo, hub, serve, send, online, seen, before, dropped>>

Readers == {e \in Events : status[e] = "offering"}
LockWaiters == {b \in Browsers : serve[b] \in {"adding", "removing"}}

TypeOK ==
    /\ status \in [Events -> {"none", "stored", "offering", "done"}]
    /\ todo \in [Events -> SUBSET Browsers]
    /\ hub \subseteq Browsers /\ online \subseteq Browsers
    /\ serve \in [Browsers -> {"new", "adding", "reading", "removing", "exited"}]
    /\ send \in [Browsers -> Seq(Events)]
    /\ seen \in [Browsers -> [Publishers -> 0 .. PerPublisher]]
    /\ before \in [Browsers -> SUBSET Events] /\ dropped \subseteq Browsers
    /\ \A b \in Browsers : Len(send[b]) <= Cap

Init ==
    /\ status = [e \in Events |-> "none"]
    /\ todo = [e \in Events |-> {}]
    /\ hub = {} /\ online = {}
    /\ serve = [b \in Browsers |-> "new"]
    /\ send = [b \in Browsers |-> <<>>]
    /\ seen = [b \in Browsers |-> [p \in Publishers |-> 0]]
    /\ before = [b \in Browsers |-> {}] /\ dropped = {}

-----------------------------------------------------------------------------
(* Publisher.Publish and Hub.Broadcast.                                    *)

Move(e, from, to) == status[e] = from /\ status' = [status EXCEPT ![e] = to]

\* Mutant: Broadcast runs in a goroutine of its own.
StoreAsync(e) ==
    /\ Move(e, "none", "stored")
    /\ \A k \in 1 .. e[2] - 1 : status[<<e[1], k>>] # "none"
    /\ UNCHANGED <<todo, hub, serve, send, seen, online, before, dropped>>

\* EventRepo.Append returns, with the row written or with an error (a cancelled
\* context, a deleted tag): the event is broadcast all the same.  A publisher's
\* calls do not overlap.
Store(e) ==
    /\ Move(e, "none", "stored")
    /\ \A k \in 1 .. e[2] - 1 : status[<<e[1], k>>] = "done"
    /\ UNCHANGED <<todo, hub, serve, send, seen, online, before, dropped>>

\* RLock: granted unless a writer holds the lock or waits for it.
BeginBroadcast(e) ==
    /\ Move(e, "stored", "offering")
    /\ LockWaiters = {}
    /\ todo' = [todo EXCEPT ![e] = hub]
    /\ UNCHANGED <<hub, serve, send, seen, online, before, dropped>>

\* Mutant: the send has no default case.
OfferBlocking(e, b) ==
    /\ status[e] = "offering" /\ b \in todo[e]
    /\ Len(send[b]) < Cap
    /\ send' = [send EXCEPT ![b] = Append(@, e)]
    /\ todo' = [todo EXCEPT ![e] = @ \ {b}]
    /\ UNCHANGED <<status, hub, serve, seen, online, before, dropped>>

\* A full buffer drops the event.
Offer(e, b) ==
    /\ status[e] = "offering" /\ b \in todo[e]
    /\ send' = IF Len(send[b]) < Cap THEN [send EXCEPT ![b] = Append(@, e)] ELSE send
    /\ dropped' = IF Len(send[b]) < Cap THEN dropped ELSE dropped \cup {b}
    /\ todo' = [todo EXCEPT ![e] = @ \ {b}]
    /\ UNCHANGED <<status, hub, serve, seen, online, before>>

EndBroadcast(e) ==
    /\ Move(e, "offering", "done")
    /\ todo[e] = {}
    /\ UNCHANGED <<todo, hub, serve, send, seen, online, before, dropped>>

-----------------------------------------------------------------------------
(* Hub.ServeWS.                                                            *)

Serve(b, from, to) == serve[b] = from /\ serve' = [serve EXCEPT ![b] = to]

Connect(b) ==
    /\ Serve(b, "new", "adding")
    /\ online' = online \cup {b}
    /\ UNCHANGED <<status, todo, hub, send, seen, before, dropped>>

\* Mutant: add does not take the lock.
AddUnlocked(b) ==
    /\ Serve(b, "adding", "reading")
    /\ hub' = hub \cup {b}
    /\ before' = [before EXCEPT ![b] = {e \in Events : status[e] = "done"}]
    /\ UNCHANGED <<status, todo, send, seen, online, dropped>>

\* h.add: Lock waits for the broadcasts that hold the read lock.
Add(b) ==
    /\ Serve(b, "adding", "reading")
    /\ Readers = {}
    /\ hub' = hub \cup {b}
    /\ before' = [before EXCEPT ![b] = {e \in Events : status[e] = "done"}]
    /\ UNCHANGED <<status, todo, send, seen, online, dropped>>

\* The writer goroutine, which the handler starts after the add, writes one message
\* to the browser.  It ends with the connection.
Write(b) ==
    /\ serve[b] = "reading" /\ b \in online
    /\ send[b] # <<>>
    /\ LET e == Head(send[b]) IN seen' = [seen EXCEPT ![b][e[1]] = e[2]]
    /\ send' = [send EXCEPT ![b] = Tail(@)]
    /\ UNCHANGED <<status, todo, hub, serve, online, before, dropped>>

Disconnect(b) ==
    /\ b \in online
    /\ online' = online \ {b}
    /\ UNCHANGED <<status, todo, hub, serve, send, seen, before, dropped>>

\* The blocking read fails and the deferred remove asks for the lock.
ReadFails(b) ==
    /\ b \notin online
    /\ Serve(b, "reading", "removing")
    /\ UNCHANGED <<status, todo, hub, send, seen, online, before, dropped>>

\* Mutant: the client stays in the map.
RemoveNot(b) ==
    /\ Serve(b, "removing", "exited")
    /\ Readers = {}
    /\ UNCHANGED <<status, todo, hub, send, seen, online, before, dropped>>

Remove(b) ==
    /\ Serve(b, "removing", "exited")
    /\ Readers = {}
    /\ hub' = hub \ {b}
    /\ UNCHANGED <<status, todo, send, seen, online, before, dropped>>

-----------------------------------------------------------------------------
Publish(e) ==
    \/ Store(e) \/ BeginBroadcast(e) \/ EndBroadcast(e)
    \/ \E b \in Browsers : Offer(e, b)

ServeStep(b) == Add(b) \/ ReadFails(b) \/ Remove(b)

Next ==
    \/ \E e \in Events : Publish(e)
    \/ \E b \in Browsers : Connect(b) \/ Disconnect(b) \/ ServeStep(b)
    \/ \E b \in Browsers : Write(b)

\* Goroutines run on, except that a write lasts as long as the browser's network
\* makes it last: Write has no fairness.
Fairness ==
    /\ \A e \in Events : WF_vars(Publish(e) /\ status[e] # "none")
    /\ \A b \in Browsers : WF_vars(ServeStep(b))

Spec == Init /\ [][Next]_vars /\ Fairness

-----------------------------------------------------------------------------
(* Properties.                                                             *)

\* What a browser gets of one publisher comes in the order it was published, and
\* nothing comes twice, whatever was dropped in between (Publish, Broadcast).
PublisherOrder ==
    \A b \in Browsers : \A i \in DOMAIN send[b] :
        LET e == send[b][i] IN
        /\ seen[b][e[1]] < e[2]
        /\ \A j \in 1 .. i - 1 : send[b][j][1] = e[1] => send[b][j][2] < e[2]

Got(b, e) == e[2] <= seen[b][e[1]] \/ \E i \in DOMAIN send[b] : send[b][i] = e

\* A connected browser that never met an event with a full buffer has every event
\* whose broadcast ended since it was added, in its buffer or on its screen: browsers
\* that join and leave never cut a broadcast short (Broadcast, add, remove).
FeedWhole ==
    \A b \in online \ dropped : serve[b] = "reading" =>
        \A e \in Events \ before[b] : status[e] = "done" => Got(b, e)

\* Publish never waits for a browser (Hub: "Slow clients drop messages rather than
\* blocking the publisher"): there are finitely many calls, and all that begin end.
PublishCompletes == <>[](\A e \in Events : status[e] \in {"none", "done"})

\* A browser that went away leaves the hub.
BrowserReaped ==
    \A b \in Browsers : serve[b] = "reading" /\ b \notin online ~> b \notin hub
=============================================================================
