--------------------------- MODULE TransportServer ---------------------------
(***************************************************************************)
(* The gateway's TCP server (transport/server.go): the accept loop, one    *)
(* handler goroutine per connection, and Close, which may run at any point *)
(* of an accept.  Tags connect, disconnect, and get their connection       *)
(* closed.                                                                 *)
(*                                                                         *)
(* The WaitGroup is the set of the goroutines that have been added to it   *)
(* and have not called Done.                                               *)
(***************************************************************************)
EXTENDS FiniteSets

CONSTANTS
    Conns,      \* connections the tags open
    Closers,    \* calls of Server.Close
    Loop        \* the accept goroutine

ASSUME ServerAssumption == Loop \notin Conns /\ IsFiniteSet(Conns)

VARIABLES
    tagOpen,    \* connections whose tag has not closed its end
    backlog,    \* connections the kernel holds for Accept
    open,       \* accepted connections whose server end is open
    loop,       \* what the accept goroutine is doing
    hand,       \* the connection it accepted last
    active,     \* s.active
    wg,         \* s.wg
    closed,     \* s.closed
    listening,  \* s.ln is open
    handler,    \* the handler goroutine of each connection
    closer      \* what each Close call is doing

netVars == <<tagOpen, backlog>>
loopVars == <<loop, hand>>
vars == <<netVars, open, loopVars, active, wg, closed, listening, handler, closer>>

TypeOK ==
    /\ tagOpen \subseteq Conns /\ backlog \subseteq Conns /\ open \subseteq Conns
    /\ loop \in {"accept", "failed", "admit", "spawn", "done", "exited"}
    /\ hand \in Conns \cup {Loop} /\ (loop \in {"admit", "spawn"} => hand \in Conns)
    /\ active \subseteq Conns /\ wg \subseteq Conns \cup {Loop}
    /\ closed \in BOOLEAN /\ listening \in BOOLEAN
    /\ handler \in [Conns -> {"none", "serving", "returned", "removed", "closed", "exited"}]
    /\ closer \in [Closers -> {"idle", "listener", "wait", "returned"}]

\* Mutant: the accept goroutine is not counted.
InitUncounted ==
    /\ tagOpen = {} /\ backlog = {} /\ open = {}
    /\ loop = "accept" /\ hand = Loop
    /\ active = {} /\ wg = {}
    /\ closed = FALSE /\ listening = TRUE
    /\ handler = [c \in Conns |-> "none"]
    /\ closer = [k \in Closers |-> "idle"]

\* Listen.
Init ==
    /\ tagOpen = {} /\ backlog = {} /\ open = {}
    /\ loop = "accept" /\ hand = Loop
    /\ active = {} /\ wg = {Loop}
    /\ closed = FALSE /\ listening = TRUE
    /\ handler = [c \in Conns |-> "none"]
    /\ closer = [k \in Closers |-> "idle"]

-----------------------------------------------------------------------------
(* The tags' ends.                                                         *)

\* Dial succeeds once the kernel has queued the connection; each c is used once.
Connect(c) ==
    /\ listening /\ c \notin tagOpen \cup backlog /\ handler[c] = "none" /\ hand # c
    /\ tagOpen' = tagOpen \cup {c}
    /\ backlog' = backlog \cup {c}
    /\ UNCHANGED <<open, loopVars, active, wg, closed, listening, handler, closer>>

Disconnect(c) ==
    /\ c \in tagOpen
    /\ tagOpen' = tagOpen \ {c}
    /\ UNCHANGED <<backlog, open, loopVars, active, wg, closed, listening, handler,
                   closer>>

-----------------------------------------------------------------------------
(* Server.accept.                                                          *)

Accept(c) ==
    /\ loop = "accept" /\ listening /\ c \in backlog
    /\ backlog' = backlog \ {c}
    /\ open' = open \cup {c}
    /\ loop' = "admit" /\ hand' = c
    /\ UNCHANGED <<tagOpen, active, wg, closed, listening, handler, closer>>

\* Accept fails: the listener is closed, or an error of the system.
AcceptError ==
    /\ loop = "accept"
    /\ loop' = "failed"
    /\ UNCHANGED <<netVars, open, hand, active, wg, closed, listening, handler, closer>>

\* Mutant: every error ends the loop.
CheckNothing ==
    /\ loop = "failed"
    /\ loop' = "done"
    /\ UNCHANGED <<netVars, open, hand, active, wg, closed, listening, handler, closer>>

\* The loop ends only if Close has been called.
CheckClosed ==
    /\ loop = "failed"
    /\ loop' = IF closed THEN "done" ELSE "accept"
    /\ UNCHANGED <<netVars, open, hand, active, wg, closed, listening, handler, closer>>

\* Mutant: the goroutine adds itself to the WaitGroup.
AdmitUncounted ==
    /\ loop = "admit"
    /\ IF closed
       THEN loop' = "done" /\ open' = open \ {hand} /\ active' = active
       ELSE loop' = "spawn" /\ open' = open /\ active' = active \cup {hand}
    /\ UNCHANGED <<netVars, hand, wg, closed, listening, handler, closer>>

\* Under s.mu: a connection that Close cannot know of is closed on the spot.
Admit ==
    /\ loop = "admit"
    /\ IF closed
       THEN /\ loop' = "done"
            /\ open' = open \ {hand}
            /\ UNCHANGED <<active, wg>>
       ELSE /\ loop' = "spawn"
            /\ active' = active \cup {hand}
            /\ wg' = wg \cup {hand}
            /\ open' = open
    /\ UNCHANGED <<netVars, hand, closed, listening, handler, closer>>

Spawn ==
    /\ loop = "spawn"
    /\ loop' = "accept"
    /\ handler' = [handler EXCEPT ![hand] = "serving"]
    /\ UNCHANGED <<netVars, open, hand, active, wg, closed, listening, closer>>

\* The deferred wg.Done of the accept goroutine.
LoopDone ==
    /\ loop = "done"
    /\ loop' = "exited"
    /\ wg' = wg \ {Loop}
    /\ UNCHANGED <<netVars, open, hand, active, closed, listening, handler, closer>>

-----------------------------------------------------------------------------
(* The handler goroutine of a connection.                                  *)

\* s.handler reads until the connection ends, at either end.
HandlerReturns(c) ==
    /\ handler[c] = "serving"
    /\ c \notin open \/ c \notin tagOpen
    /\ handler' = [handler EXCEPT ![c] = "returned"]
    /\ UNCHANGED <<netVars, open, loopVars, active, wg, closed, listening, closer>>

\* The first deferred call: out of active under s.mu, ...
Remove(c) ==
    /\ handler[c] = "returned"
    /\ handler' = [handler EXCEPT ![c] = "removed"]
    /\ active' = active \ {c}
    /\ UNCHANGED <<netVars, open, loopVars, wg, closed, listening, closer>>

\* Mutant: the connection is left open.
CloseConnNot(c) ==
    /\ handler[c] = "removed"
    /\ handler' = [handler EXCEPT ![c] = "closed"]
    /\ UNCHANGED <<netVars, open, loopVars, active, wg, closed, listening, closer>>

\* ... then the connection is closed.
CloseConn(c) ==
    /\ handler[c] = "removed"
    /\ handler' = [handler EXCEPT ![c] = "closed"]
    /\ open' = open \ {c}
    /\ UNCHANGED <<netVars, loopVars, active, wg, closed, listening, closer>>

\* The second deferred call, wg.Done.
HandlerDone(c) ==
    /\ handler[c] = "closed"
    /\ handler' = [handler EXCEPT ![c] = "exited"]
    /\ wg' = wg \ {c}
    /\ UNCHANGED <<netVars, open, loopVars, active, closed, listening, closer>>

-----------------------------------------------------------------------------
(* Server.Close.                                                           *)

\* Under s.mu.
CloseActive(k) ==
    /\ closer[k] = "idle"
    /\ closer' = [closer EXCEPT ![k] = "listener"]
    /\ closed' = TRUE
    /\ open' = open \ active
    /\ UNCHANGED <<netVars, loopVars, active, wg, listening, handler>>

\* s.ln.Close; the kernel resets what it still holds.
CloseListener(k) ==
    /\ closer[k] = "listener"
    /\ closer' = [closer EXCEPT ![k] = "wait"]
    /\ listening' = FALSE
    /\ backlog' = {}
    /\ UNCHANGED <<tagOpen, open, loopVars, active, wg, closed, handler>>

\* s.wg.Wait.
CloseReturns(k) ==
    /\ closer[k] = "wait"
    /\ wg = {}
    /\ closer' = [closer EXCEPT ![k] = "returned"]
    /\ UNCHANGED <<netVars, open, loopVars, active, wg, closed, listening, handler>>

-----------------------------------------------------------------------------
AcceptStep ==
    \/ \E c \in Conns : Accept(c)
    \/ AcceptError \/ CheckClosed \/ Admit \/ Spawn \/ LoopDone
HandlerStep(c) == HandlerReturns(c) \/ Remove(c) \/ CloseConn(c) \/ HandlerDone(c)
CloseStep(k) == CloseListener(k) \/ CloseReturns(k)

Next ==
    \/ \E c \in Conns : Connect(c) \/ Disconnect(c) \/ HandlerStep(c)
    \/ AcceptStep
    \/ \E k \in Closers : CloseActive(k) \/ CloseStep(k)

\* Who calls Close, and when, and the fairness of it all, is Serve's.
Spec == Init /\ [][Next]_vars

-----------------------------------------------------------------------------
(* Properties.                                                             *)

Closed == \E k \in Closers : closer[k] = "returned"

\* When Close returns, nothing of the server is left: no connection is open, no
\* handler runs or will run, the accept loop is over (Server.Close: "waits for
\* in-flight handlers to return").
CloseLeavesNothing ==
    Closed => /\ open = {} /\ active = {}
              /\ loop = "exited"
              /\ \A c \in Conns : handler[c] \in {"none", "exited"}

\* No open connection is forgotten: it is in active, where Close finds it, or the
\* accept loop has it in hand and will look at closed, or its own goroutine is
\* about to close it (Server.accept, Server.Close).
OpenReachable ==
    open \subseteq active \cup (IF loop = "admit" THEN {hand} ELSE {})
                          \cup {c \in Conns : handler[c] = "removed"}

\* The WaitGroup is never added to once it has reached zero, which Go forbids
\* while a Wait may be running (Server.accept's wg.Add).
NoAddAfterZero == [][wg = {} => wg' = {}]_wg

\* While the server is not closed, a tag that connected and stays is served, even
\* after failed Accepts (Server.accept's continue).
ConnectionServed ==
    \A c \in Conns : c \in backlog ~> (handler[c] # "none" \/ closed \/ c \notin tagOpen)
=============================================================================
