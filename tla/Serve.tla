-------------------------------- MODULE Serve --------------------------------
(***************************************************************************)
(* How cylon serve ends (cmd/cylon/serve.go): on a signal, or when one of  *)
(* its HTTP servers cannot listen.  The deferred calls stop the tags, the  *)
(* gateway's TCP server, the LNS connection and the signal context, one    *)
(* after the other, while tags connect, handlers write to an LNS that may  *)
(* have stopped reading, and LNS.Run, for which nobody waits, routes its   *)
(* downlinks.                                                              *)
(*                                                                         *)
(* TransportServer is the server that Gateway.Close closes; Main is its    *)
(* only caller.                                                            *)
(***************************************************************************)
EXTENDS TransportServer

CONSTANT Main       \* the goroutine of RunE

ASSUME MainAssumption == Closers = {Main}

VARIABLES
    main,       \* what RunE is about to do
    context,    \* the signal context: live, or done by a signal or by its stop
    lns,        \* the LNS connection, stalled when its peer does not read, torn when
                \* the end of the context has ended it
    run,        \* the goroutine of LNS.Run: in its read, in SendDntxed, or ended
    writing     \* connections whose handler is inside LNS.send

mainVars == <<main, context, lns, run, writing>>
serveVars == <<vars, mainVars>>

ServeTypeOK ==
    /\ TypeOK
    /\ main \in {"up", "shutdown", "tags", "gateway", "lns", "stop", "exited"}
    /\ context \in {"live", "signalled", "stopped"}
    /\ lns \in {"up", "stalled", "dropped", "torn", "closed"}
    /\ run \in {"reading", "confirming", "ended"}
    /\ writing \subseteq Conns

ServeInit ==
    /\ Init
    /\ main = "up" /\ context = "live" /\ lns = "up" /\ run = "reading" /\ writing = {}

-----------------------------------------------------------------------------
(* The LNS, and the goroutines that write to it and read from it.          *)

Cancelled == context # "live"

\* A read or a write on the connection gives up because its context is done: one that
\* is under way ends the connection, one that only begins may leave it as it is.
GiveUpIO == Cancelled /\ lns' \in IF lns \in {"up", "stalled"} THEN {lns, "torn"} ELSE {lns}

\* The peer stops reading, or reads on, or the connection breaks.
LnsChanges ==
    /\ lns \in {"up", "stalled"}
    /\ lns' \in {"up", "stalled", "dropped"} \ {lns}
    /\ UNCHANGED <<vars, main, context, run, writing>>

\* An uplink has been read; it may have been in the buffer of a connection that the
\* tag, or Gateway.Close, has closed.
BeginSend(c) ==
    /\ handler[c] = "serving" /\ c \notin writing
    /\ writing' = writing \cup {c}
    /\ UNCHANGED <<vars, main, context, lns, run>>

\* Mutant: send has a context of its own.
EndSendUncancelled(c) ==
    /\ c \in writing /\ lns # "stalled"
    /\ writing' = writing \ {c}
    /\ UNCHANGED <<vars, main, context, lns, run>>

\* A write is done, or fails: it fails at once when the connection is gone or the
\* context done, and else waits for the peer.
SendEnds == (lns # "stalled" /\ lns' = lns) \/ GiveUpIO

EndSend(c) ==
    /\ c \in writing /\ SendEnds
    /\ writing' = writing \ {c}
    /\ UNCHANGED <<vars, main, context, run>>

\* LNS.Run hands a dnmsg for a connected tag to OnDnmsg, which has written it to the
\* tag's connection and begins to confirm it.  Nobody waits for this goroutine, so
\* where it is before that tells nothing apart.
BeginConfirm ==
    /\ run = "reading" /\ lns \notin {"torn", "closed"}
    /\ \E c \in Conns : handler[c] = "serving"
    /\ run' = "confirming"
    /\ UNCHANGED <<vars, main, context, lns, writing>>

EndConfirm ==
    /\ run = "confirming" /\ SendEnds
    /\ run' = "reading"
    /\ UNCHANGED <<vars, main, context, writing>>

\* Its read fails: the connection is gone, or the context done.
RunReturns ==
    /\ run = "reading"
    /\ (lns \in {"dropped", "torn", "closed"} /\ lns' = lns) \/ GiveUpIO
    /\ run' = "ended"
    /\ UNCHANGED <<vars, main, context, writing>>

HandlerRuns(c) ==
    /\ c \notin writing
    /\ HandlerStep(c)
    /\ UNCHANGED mainVars

-----------------------------------------------------------------------------
(* RunE.                                                                   *)

Proceed(from, to) == main = from /\ main' = to

\* The context is listened to until stop.  It is the parent of the one that the LNS
\* connection is read and written under.
Signal ==
    /\ main # "exited" /\ context = "live"
    /\ context' = "signalled"
    /\ UNCHANGED <<vars, main, lns, run, writing>>

\* ListenAndServe fails: RunE returns without cancelling anything.
ListenError ==
    /\ Proceed("up", "tags")
    /\ UNCHANGED <<vars, context, lns, run, writing>>

SeeSignal ==
    /\ Cancelled
    /\ Proceed("up", "shutdown")
    /\ UNCHANGED <<vars, context, lns, run, writing>>

\* Both HTTP servers are idle, or the 10 seconds are over.
ShutdownReturns ==
    /\ Proceed("shutdown", "tags")
    /\ UNCHANGED <<vars, context, lns, run, writing>>

\* Mutant: the LNS connection is closed before the gateway.
StopAllLnsFirst ==
    /\ Proceed("tags", "gateway")
    /\ lns' = "closed"
    /\ UNCHANGED <<vars, context, run, writing>>

\* Orchestrator.StopAll is over.  The ends it closes one by one are Disconnect steps,
\* which may come at any time; tags of other processes and Starts in progress stay.
StopAllReturns ==
    /\ Proceed("tags", "gateway")
    /\ UNCHANGED <<vars, context, lns, run, writing>>

\* Gateway.Close.
CloseGateway ==
    /\ main = "gateway"
    /\ \/ CloseActive(Main) /\ main' = main
       \/ CloseListener(Main) /\ main' = main
       \/ CloseReturns(Main) /\ main' = "lns"
    /\ UNCHANGED <<context, lns, run, writing>>

\* LNS.Close.
CloseLns ==
    /\ Proceed("lns", "stop")
    /\ lns' = "closed"
    /\ UNCHANGED <<vars, context, run, writing>>

\* The stop of NotifyContext, and database.Close.
StopSignals ==
    /\ Proceed("stop", "exited")
    /\ context' = IF context = "live" THEN "stopped" ELSE context
    /\ UNCHANGED <<vars, lns, run, writing>>

-----------------------------------------------------------------------------
MainStep == SeeSignal \/ ShutdownReturns \/ StopAllReturns \/ CloseGateway
                \/ CloseLns \/ StopSignals

ServeNext ==
    \/ \E c \in Conns : (Connect(c) \/ Disconnect(c)) /\ UNCHANGED mainVars
    \/ AcceptStep /\ UNCHANGED mainVars
    \/ \E c \in Conns : BeginSend(c) \/ EndSend(c) \/ HandlerRuns(c)
    \/ BeginConfirm \/ EndConfirm \/ RunReturns
    \/ LnsChanges \/ Signal \/ ListenError \/ MainStep

\* Goroutines run on.  Accept fails for good once the listener is closed, and takes in
\* turn what the kernel holds while it is open.  A send ends if the peer keeps reading,
\* even if it pauses; a handler gets to see the end of its connection, because what was
\* buffered before it is finite.  No tag has to disconnect, nobody has to send a signal.
ServeFairness ==
    /\ WF_serveVars(AcceptError /\ ~listening /\ UNCHANGED mainVars)
    /\ \A c \in Conns : SF_serveVars(Accept(c) /\ UNCHANGED mainVars)
    /\ WF_serveVars((CheckClosed \/ Admit \/ Spawn \/ LoopDone) /\ UNCHANGED mainVars)
    /\ \A c \in Conns : SF_serveVars(EndSend(c)) /\ SF_serveVars(HandlerRuns(c))
    /\ WF_serveVars(MainStep)

ServeSpec == ServeInit /\ [][ServeNext]_serveVars /\ ServeFairness

-----------------------------------------------------------------------------
(* Properties.                                                             *)

\* Serve cuts no uplink short of its own accord.  When LNS.Close has closed the
\* connection, no handler runs, none will start, and none is in a send (the order of
\* gw.Close and lns.Close in startGateway's close function); and what ends the
\* connection before that, under the handlers, is a signal, never the end of serve
\* after a failed listen.  A confirmation of LNS.Run may still be under way.
NoUplinkCut ==
    /\ lns = "closed" => /\ loop = "exited" /\ writing = {}
                         /\ \A c \in Conns : handler[c] \in {"none", "exited"}
    /\ lns = "torn" => context = "signalled"

\* Serve never stays on the way from up to exited, unless the LNS never reads again and
\* no signal comes: after a failed listen nothing has cancelled the send that a handler
\* waits in, Gateway.Close waits for the handler, and LNS.Close comes after it.  After
\* a signal it always ends (serve.go's select and deferred calls).
ExitCompletes ==
    []<>(main \in {"up", "exited"}) \/ <>[](lns = "stalled" /\ ~Cancelled)
=============================================================================
