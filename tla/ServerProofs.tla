---------------------------- MODULE ServerProofs ----------------------------
(***************************************************************************)
(* Proofs about TransportServer, for every number of connections and of    *)
(* Close calls; and about Serve, which uses the TCP server only as         *)
(* TransportServer allows, so that what Close promises holds when serve    *)
(* ends, and the LNS connection is closed after everybody who writes to it *)
(* is gone.                                                                *)
(***************************************************************************)
EXTENDS Serve, TLAPS

-----------------------------------------------------------------------------
(* Type correctness.                                                       *)

\* Every step of the accept loop, the handlers and Close keeps the types.
LEMMA ServerTypeStep == TypeOK /\ [Next]_vars => TypeOK'
<1> SUFFICES ASSUME TypeOK, [Next]_vars PROVE TypeOK'
  OBVIOUS
<1> USE DEF TypeOK, netVars, loopVars
<1>1. ASSUME NEW c \in Conns, Connect(c) \/ Disconnect(c) PROVE TypeOK'
  BY <1>1 DEF Connect, Disconnect
<1>2. ASSUME NEW c \in Conns, HandlerStep(c) PROVE TypeOK'
  BY <1>2 DEF HandlerStep, HandlerReturns, Remove, CloseConn, HandlerDone
<1>3. CASE AcceptStep
  <2>1. ASSUME NEW c \in Conns, Accept(c) PROVE TypeOK'
    BY <2>1 DEF Accept
  <2>2. CASE AcceptError
    BY <2>2 DEF AcceptError
  <2>3. CASE CheckClosed
    BY <2>3 DEF CheckClosed
  <2>4. CASE Admit
    BY <2>4 DEF Admit
  <2>5. CASE Spawn
    BY <2>5 DEF Spawn
  <2>6. CASE LoopDone
    BY <2>6 DEF LoopDone
  <2> QED
    BY <1>3, <2>1, <2>2, <2>3, <2>4, <2>5, <2>6 DEF AcceptStep
<1>4. ASSUME NEW k \in Closers, CloseActive(k) \/ CloseStep(k) PROVE TypeOK'
  BY <1>4 DEF CloseActive, CloseStep, CloseListener, CloseReturns
<1>5. CASE UNCHANGED vars
  BY <1>5 DEF vars
<1> QED
  BY <1>1, <1>2, <1>3, <1>4, <1>5 DEF Next

\* The variables keep their types, and the accept loop admits only a connection.
THEOREM ServerTypeCorrect == Spec => []TypeOK
<1>1. Init => TypeOK
  BY DEF Init, TypeOK
<1> QED
  BY <1>1, ServerTypeStep, PTL DEF Spec

-----------------------------------------------------------------------------
(* The WaitGroup counts exactly the goroutines that run, active holds      *)
(* exactly the connections they serve.                                     *)

\* The accept loop has put c in active and is about to start its goroutine.
InHand(c) == loop = "spawn" /\ hand = c

\* One conjunct per fact about a connection the actions hand each other.
ConnOf(c) ==
    /\ c \in wg <=> InHand(c) \/ handler[c] \in {"serving", "returned", "removed", "closed"}
    /\ c \in active <=> InHand(c) \/ handler[c] \in {"serving", "returned"}
    /\ c \in backlog => handler[c] = "none" /\ (loop \in {"admit", "spawn"} => hand # c)
    /\ loop \in {"admit", "spawn"} /\ hand = c => handler[c] = "none"
    /\ c \in open => c \in active \/ (loop = "admit" /\ hand = c) \/ handler[c] = "removed"

LoopInv == Loop \in wg <=> loop # "exited"

ConnsInv == \A c \in Conns : ConnOf(c)

WaitInv == (\E k \in Closers : closer[k] = "returned") => wg = {}

\* Every step of the accept loop keeps the facts about a connection.
LEMMA AcceptKeepsConn ==
    ASSUME TypeOK, ConnsInv, AcceptStep, NEW c \in Conns
    PROVE  ConnOf(c)'
<1> USE DEF TypeOK, netVars, loopVars, ConnOf, InHand
<1>0. ConnOf(c) /\ c # Loop
  BY ServerAssumption DEF ConnsInv
<1>1. ASSUME NEW d \in Conns, Accept(d) PROVE ConnOf(c)'
  BY <1>0, <1>1 DEF Accept
<1>2. CASE AcceptError
  BY <1>0, <1>2 DEF AcceptError
<1>3. CASE CheckClosed
  BY <1>0, <1>3 DEF CheckClosed
<1>4. CASE Admit
  BY <1>0, <1>4 DEF Admit
<1>5. CASE Spawn
  BY <1>0, <1>5 DEF Spawn
<1>6. CASE LoopDone
  BY <1>0, <1>6 DEF LoopDone
<1> QED
  BY <1>1, <1>2, <1>3, <1>4, <1>5, <1>6 DEF AcceptStep

\* Every step of the server keeps the facts about every connection.
LEMMA ConnsStep == TypeOK /\ ConnsInv /\ [Next]_vars => ConnsInv'
<1> SUFFICES ASSUME TypeOK, ConnsInv, [Next]_vars, NEW c \in Conns PROVE ConnOf(c)'
  BY DEF ConnsInv
<1> USE DEF TypeOK, netVars, loopVars, ConnOf, InHand
<1>0. ConnOf(c)
  BY DEF ConnsInv
<1>1. ASSUME NEW d \in Conns, Connect(d) \/ Disconnect(d) PROVE ConnOf(c)'
  BY <1>0, <1>1 DEF Connect, Disconnect
<1>2. ASSUME NEW d \in Conns, HandlerStep(d) PROVE ConnOf(c)'
  <2>1. CASE HandlerReturns(d)
    BY <1>0, <2>1 DEF HandlerReturns
  <2>2. CASE Remove(d)
    BY <1>0, <2>2 DEF Remove
  <2>3. CASE CloseConn(d)
    BY <1>0, <2>3 DEF CloseConn
  <2>4. CASE HandlerDone(d)
    BY <1>0, <2>4 DEF HandlerDone
  <2> QED
    BY <1>2, <2>1, <2>2, <2>3, <2>4 DEF HandlerStep
<1>3. CASE AcceptStep
  BY <1>3, AcceptKeepsConn
<1>4. ASSUME NEW k \in Closers, CloseActive(k) \/ CloseStep(k) PROVE ConnOf(c)'
  BY <1>0, <1>4 DEF CloseActive, CloseStep, CloseListener, CloseReturns
<1>5. CASE UNCHANGED vars
  BY <1>0, <1>5 DEF vars
<1> QED
  BY <1>1, <1>2, <1>3, <1>4, <1>5 DEF Next

\* The accept goroutine is counted until it exits, and wg is not added to after it
\* has become empty: only the accept loop adds, and it counts itself.
LEMMA WaitGroupStep ==
    TypeOK /\ LoopInv /\ ConnsInv /\ [Next]_vars => LoopInv' /\ (wg = {} => wg' = {})
<1> SUFFICES ASSUME TypeOK, LoopInv, ConnsInv, [Next]_vars
             PROVE  LoopInv' /\ (wg = {} => wg' = {})
  OBVIOUS
<1> USE DEF TypeOK, netVars, loopVars, LoopInv
<1>1. ASSUME NEW c \in Conns, Connect(c) \/ Disconnect(c) \/ HandlerStep(c)
      PROVE  LoopInv' /\ (wg = {} => wg' = {})
  BY <1>1, ServerAssumption
     DEF Connect, Disconnect, HandlerStep, HandlerReturns, Remove, CloseConn, HandlerDone
<1>2. CASE AcceptStep
  BY <1>2, ServerAssumption
     DEF AcceptStep, Accept, AcceptError, CheckClosed, Admit, Spawn, LoopDone
<1>3. ASSUME NEW k \in Closers, CloseActive(k) \/ CloseStep(k)
      PROVE  LoopInv' /\ (wg = {} => wg' = {})
  BY <1>3 DEF CloseActive, CloseStep, CloseListener, CloseReturns
<1>4. CASE UNCHANGED vars
  BY <1>4 DEF vars
<1> QED
  BY <1>1, <1>2, <1>3, <1>4 DEF Next

\* A Close that has returned saw an empty WaitGroup, and it stays empty.
LEMMA WaitStep ==
    TypeOK /\ LoopInv /\ ConnsInv /\ WaitInv /\ [Next]_vars => WaitInv'
<1> SUFFICES ASSUME TypeOK, LoopInv, ConnsInv, WaitInv, [Next]_vars,
                    NEW k \in Closers, closer'[k] = "returned"
             PROVE  wg' = {}
  BY DEF WaitInv
<1>1. wg = {} => wg' = {}
  BY WaitGroupStep
<1>2. CASE closer[k] = "returned"
  BY <1>1, <1>2 DEF WaitInv
<1>3. CASE closer[k] # "returned"
  <2>1. \E j \in Closers : CloseReturns(j)
    BY <1>3 DEF Next, vars, TypeOK, Connect, Disconnect, HandlerStep, HandlerReturns, Remove,
                CloseConn, HandlerDone, AcceptStep, Accept, AcceptError, CheckClosed, Admit,
                Spawn, LoopDone, CloseActive, CloseStep, CloseListener
  <2> QED
    BY <1>1, <2>1 DEF CloseReturns
<1> QED
  BY <1>2, <1>3

\* The inductive invariant holds in every reachable state.
LEMMA ServerAlways == Spec => [](TypeOK /\ LoopInv /\ ConnsInv /\ WaitInv)
<1>1. Init => TypeOK /\ LoopInv /\ ConnsInv /\ WaitInv
  BY ServerAssumption DEF Init, TypeOK, LoopInv, ConnsInv, ConnOf, InHand, WaitInv
<1>2. TypeOK /\ LoopInv /\ ConnsInv /\ WaitInv /\ [Next]_vars
        => (TypeOK /\ LoopInv /\ ConnsInv /\ WaitInv)'
  BY ServerTypeStep, ConnsStep, WaitGroupStep, WaitStep
<1> QED
  BY <1>1, <1>2, PTL DEF Spec

-----------------------------------------------------------------------------
(* What Close promises.                                                    *)

\* No open connection is out of Close's reach.
THEOREM ServerOpenReachable == Spec => []OpenReachable
<1>1. TypeOK /\ ConnsInv => OpenReachable
  BY DEF TypeOK, ConnsInv, ConnOf, OpenReachable
<1> QED
  BY <1>1, ServerAlways, PTL

\* When Close returns, no connection, handler or accept loop is left.
THEOREM ServerCloseLeavesNothing == Spec => []CloseLeavesNothing
<1>1. TypeOK /\ LoopInv /\ ConnsInv /\ WaitInv => CloseLeavesNothing
  <2> SUFFICES ASSUME TypeOK, LoopInv, ConnsInv, WaitInv, Closed
               PROVE  /\ open = {} /\ active = {} /\ loop = "exited"
                      /\ \A c \in Conns : handler[c] \in {"none", "exited"}
    BY DEF CloseLeavesNothing
  <2>1. wg = {} /\ loop = "exited"
    BY DEF WaitInv, LoopInv, Closed
  <2>2. \A c \in Conns : handler[c] \in {"none", "exited"} /\ c \notin active /\ c \notin open
    BY <2>1 DEF TypeOK, ConnsInv, ConnOf, InHand
  <2> QED
    BY <2>1, <2>2 DEF TypeOK
<1> QED
  BY <1>1, ServerAlways, PTL

\* The WaitGroup is never added to once it has reached zero.
THEOREM ServerNoAddAfterZero == Spec => NoAddAfterZero
<1>1. TypeOK /\ LoopInv /\ ConnsInv /\ [Next]_vars => [wg = {} => wg' = {}]_wg
  BY WaitGroupStep
<1> QED
  BY <1>1, ServerAlways, PTL DEF Spec, NoAddAfterZero

-----------------------------------------------------------------------------
(* Serve implements TransportServer.                                       *)

\* Every step of serve is a step of the server, or leaves the server alone.
LEMMA ServeStepsServer == [ServeNext]_serveVars => [Next]_vars
<1> SUFFICES ASSUME [ServeNext]_serveVars PROVE [Next]_vars
  OBVIOUS
<1>1. ASSUME NEW c \in Conns, Connect(c) \/ Disconnect(c) PROVE Next
  BY <1>1 DEF Next
<1>2. CASE AcceptStep
  BY <1>2 DEF Next
<1>3. ASSUME NEW c \in Conns, BeginSend(c) \/ EndSend(c) PROVE UNCHANGED vars
  BY <1>3 DEF BeginSend, EndSend
<1>4. ASSUME NEW c \in Conns, HandlerRuns(c) PROVE Next
  BY <1>4 DEF HandlerRuns, Next
<1>5. CASE \/ LnsChanges \/ Signal \/ ListenError
            \/ BeginConfirm \/ EndConfirm \/ RunReturns
  BY <1>5 DEF LnsChanges, Signal, ListenError, BeginConfirm, EndConfirm, RunReturns
<1>6. CASE MainStep
  <2>1. CASE CloseGateway
    BY <2>1, MainAssumption DEF CloseGateway, CloseStep, Next
  <2> QED
    BY <1>6, <2>1 DEF MainStep, SeeSignal, ShutdownReturns, StopAllReturns, CloseLns,
                      StopSignals
<1>7. CASE UNCHANGED serveVars
  BY <1>7 DEF serveVars
<1> QED
  BY <1>1, <1>2, <1>3, <1>4, <1>5, <1>6, <1>7 DEF ServeNext

\* Serve implements TransportServer: it adds the one caller of Close and what the
\* handlers do, and takes nothing back.
THEOREM ServeImplementsServer == ServeSpec => Spec
<1>1. ServeInit => Init
  BY DEF ServeInit
<1> QED
  BY <1>1, ServeStepsServer, PTL DEF ServeSpec, Spec

-----------------------------------------------------------------------------
(* What TransportServer promises holds while serve ends.                   *)

\* When Gateway.Close has returned, nothing of the TCP server is left.
THEOREM ServeCloseLeavesNothing == ServeSpec => []CloseLeavesNothing
  BY ServeImplementsServer, ServerCloseLeavesNothing, PTL

\* No open connection is out of Gateway.Close's reach.
THEOREM ServeOpenReachable == ServeSpec => []OpenReachable
  BY ServeImplementsServer, ServerOpenReachable, PTL

\* The WaitGroup is never added to once it has reached zero.
THEOREM ServeNoAddAfterZero == ServeSpec => NoAddAfterZero
  BY ServeImplementsServer, ServerNoAddAfterZero, PTL

-----------------------------------------------------------------------------
(* Type correctness.                                                       *)

\* Every step of serve keeps the types.
LEMMA ServeTypeStep == ServeTypeOK /\ [ServeNext]_serveVars => ServeTypeOK'
<1> SUFFICES ASSUME ServeTypeOK, [ServeNext]_serveVars PROVE ServeTypeOK'
  OBVIOUS
<1>1. TypeOK'
  BY ServeStepsServer, ServerTypeStep DEF ServeTypeOK
<1> USE DEF ServeTypeOK, mainVars
<1>2. ASSUME NEW c \in Conns, BeginSend(c) \/ EndSend(c) PROVE ServeTypeOK'
  BY <1>1, <1>2 DEF BeginSend, EndSend, SendEnds, GiveUpIO
<1>3. ASSUME NEW c \in Conns, HandlerRuns(c) PROVE ServeTypeOK'
  BY <1>1, <1>3 DEF HandlerRuns
<1>4. CASE \/ LnsChanges \/ Signal \/ ListenError
            \/ BeginConfirm \/ EndConfirm \/ RunReturns
  BY <1>1, <1>4 DEF LnsChanges, Signal, ListenError, BeginConfirm, EndConfirm, RunReturns,
                    SendEnds, GiveUpIO, Proceed
<1>5. CASE MainStep
  BY <1>1, <1>5 DEF MainStep, SeeSignal, ShutdownReturns, StopAllReturns, CloseGateway,
                    CloseLns, StopSignals, Proceed
<1>6. CASE UNCHANGED serveVars
  BY <1>1, <1>6 DEF serveVars
<1> QED
  BY <1>1, <1>2, <1>3, <1>4, <1>5, <1>6 DEF ServeNext

\* The variables of serve keep their types.
THEOREM ServeTypesCorrect == ServeSpec => []ServeTypeOK
<1>1. ServeInit => ServeTypeOK
  BY DEF ServeInit, Init, ServeTypeOK, TypeOK
<1> QED
  BY <1>1, ServeTypeStep, PTL DEF ServeSpec

-----------------------------------------------------------------------------
(* The order of the deferred calls.                                        *)

\* LNS.Close comes after Gateway.Close and before the stop of the signal context, and
\* only a handler that serves is in a send.
OrderInv ==
    /\ main \in {"lns", "stop", "exited"} => closer[Main] = "returned"
    /\ lns = "closed" <=> main \in {"stop", "exited"}
    /\ context = "stopped" => main = "exited"
    /\ lns = "torn" => context = "signalled"
    /\ \A c \in writing : handler[c] = "serving"

\* Every step of serve keeps the order.
LEMMA OrderStep == ServeTypeOK /\ OrderInv /\ [ServeNext]_serveVars => OrderInv'
<1> SUFFICES ASSUME ServeTypeOK, OrderInv, [ServeNext]_serveVars PROVE OrderInv'
  OBVIOUS
<1> USE DEF ServeTypeOK, TypeOK, OrderInv, mainVars, vars, netVars, loopVars
<1>1. ASSUME NEW c \in Conns, Connect(c) \/ Disconnect(c), UNCHANGED mainVars
      PROVE  OrderInv'
  BY <1>1 DEF Connect, Disconnect
<1>2. CASE AcceptStep /\ UNCHANGED mainVars
  <2>1. loop = "spawn" => hand \in Conns
    OBVIOUS
  <2>2. \A c \in Conns : handler[c] = "serving" => handler'[c] = "serving"
    BY <1>2, <2>1 DEF AcceptStep, Accept, AcceptError, CheckClosed, Admit, Spawn, LoopDone
  <2>3. closer' = closer
    BY <1>2 DEF AcceptStep, Accept, AcceptError, CheckClosed, Admit, Spawn, LoopDone
  <2> QED
    BY <1>2, <2>2, <2>3
<1>3. ASSUME NEW c \in Conns, BeginSend(c) \/ EndSend(c) PROVE OrderInv'
  BY <1>3 DEF BeginSend, EndSend, SendEnds, GiveUpIO, Cancelled
<1>4. ASSUME NEW c \in Conns, HandlerRuns(c) PROVE OrderInv'
  BY <1>4 DEF HandlerRuns, HandlerStep, HandlerReturns, Remove, CloseConn, HandlerDone
<1>5. CASE \/ LnsChanges \/ Signal \/ ListenError
            \/ BeginConfirm \/ EndConfirm \/ RunReturns
  BY <1>5 DEF LnsChanges, Signal, ListenError, BeginConfirm, EndConfirm, RunReturns,
              SendEnds, GiveUpIO, Cancelled, Proceed
<1>6. CASE MainStep
  BY <1>6, MainAssumption
     DEF MainStep, SeeSignal, ShutdownReturns, StopAllReturns, CloseGateway, CloseActive,
         CloseListener, CloseReturns, CloseLns, StopSignals, Proceed
<1>7. CASE UNCHANGED serveVars
  BY <1>7 DEF serveVars
<1> QED
  BY <1>1, <1>2, <1>3, <1>4, <1>5, <1>6, <1>7 DEF ServeNext

\* When LNS.Close closes the connection, no handler is left to write to it; before that
\* nothing of serve ends the connection but a signal.
THEOREM ServeNoUplinkCut == ServeSpec => []NoUplinkCut
<1>1. ServeInit => OrderInv
  BY DEF ServeInit, OrderInv
<1>2. ServeTypeOK /\ OrderInv /\ CloseLeavesNothing => NoUplinkCut
  BY MainAssumption
     DEF ServeTypeOK, OrderInv, CloseLeavesNothing, Closed, NoUplinkCut
<1> QED
  BY <1>1, <1>2, OrderStep, ServeTypesCorrect, ServeCloseLeavesNothing, PTL DEF ServeSpec
=============================================================================
