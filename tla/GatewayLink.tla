----------------------------- MODULE GatewayLink -----------------------------
(***************************************************************************)
(* The gateway between its tags and its network server (gateway/lns.go,    *)
(* gateway/gateway.go, startGateway in cmd/cylon/serve.go): the version /  *)
(* router_config handshake, the goroutine that reads downlinks and plans,  *)
(* the handler goroutines that register tags and forward their uplinks,    *)
(* and a WebSocket that may drop and is not dialled again.                 *)
(*                                                                         *)
(* A tag is registered under the text of its DevEUI, a device and a        *)
(* spelling; what the network server addresses is the text ParseUplink     *)
(* made of the eight bytes of a join-request, which is in lower case.      *)
(* TagLifecycle looks at one tag and its successive connections; here      *)
(* several tags share the gateway.                                         *)
(***************************************************************************)
EXTENDS Naturals, Sequences

CONSTANTS
    Conns,      \* connections the tags open, each used once
    Devices,    \* end-devices, told apart by the eight bytes of their DevEUI
    Spellings,  \* ways in which tags are provisioned to write it
    None,
    MaxSent,    \* messages the network server sends
    MaxUp       \* join-requests of all tags

ASSUME LinkAssumption ==
    /\ MaxSent \in Nat \ {0} /\ MaxUp \in Nat
    /\ Spellings \subseteq {"lower", "upper"}
    /\ None \notin Conns \cup Devices \cup (Devices \X {"lower", "upper"})

VARIABLES
    station,    \* where startGateway and then LNS.Run are
    link,       \* the WebSocket is up
    config,     \* l.config: the number of a router_config, 0 for none
    sent,       \* what the network server sent, in order
    greeted,    \* the network server has answered the first message
    read,       \* how many of its messages the gateway has read
    target,     \* the connection OnDnmsg found, and has not written to yet
    routed,     \* downlinks written, with the connection they were written to
    acks,       \* the dntxed confirmations sent
    ups,        \* the join-requests sent to the network server
    xtime,      \* g.xtime
    stamp,      \* the xtime of the uplink each handler is forwarding, 0 for none
    side,       \* the tag's end of each connection
    name,       \* devEUI of the handler of each connection, None before a hello
    gone,       \* connections whose handler has returned
    registry    \* g.byDevEUI

linkVars == <<link, config>>
serverVars == <<sent, greeted>>
routeVars == <<target, routed, acks>>
uplinkVars == <<ups, xtime, stamp>>
tagVars == <<side, name, gone, registry>>
vars == <<station, linkVars, serverVars, read, routeVars, uplinkVars, tagVars>>

Names == Devices \X {"lower", "upper"}

\* Mutant: the digits are written in capitals.
WireNameUpper(d) == <<d, "upper">>

\* hex.EncodeToString of a join-request's DevEUI.
WireName(d) == <<d, "lower">>

\* "other" is a message the gateway does not know (runcmd, timesync).
Messages == [type : {"router_config", "other"}, to : {None}]
            \cup [type : {"dnmsg"}, to : Devices]

Unread == read < Len(sent)
Incoming == sent[read + 1]
Addressee == sent[read].to      \* of the downlink in OnDnmsg's hands

Listening == {"serve", "lookup", "write", "confirm", "ended"}

TypeOK ==
    /\ station \in {"dial", "version", "await", "listen", "failed"} \cup Listening
    /\ link \in BOOLEAN /\ greeted \in BOOLEAN
    /\ sent \in Seq(Messages) /\ read \in 0 .. Len(sent) /\ config \in 0 .. read
    /\ target \in Conns \cup {None} /\ (station = "write" => target # None)
    /\ routed \subseteq (1 .. read) \X Conns /\ acks \in Seq(1 .. read)
    /\ ups \in Seq([xtime : 1 .. MaxUp, from : Devices])
    /\ xtime \in 0 .. MaxUp /\ stamp \in [Conns -> 0 .. xtime]
    /\ side \in [Conns -> {"new", "open", "stalled", "closed"}]
    /\ name \in [Conns -> Names \cup {None}]
    /\ gone \subseteq Conns
    /\ registry \in [Names -> Conns \cup {None}]

Init ==
    /\ station = "dial" /\ link = FALSE /\ config = 0
    /\ sent = <<>> /\ read = 0 /\ greeted = FALSE
    /\ target = None /\ routed = {} /\ acks = <<>>
    /\ ups = <<>> /\ xtime = 0 /\ stamp = [c \in Conns |-> 0]
    /\ side = [c \in Conns |-> "new"] /\ name = [c \in Conns |-> None]
    /\ gone = {} /\ registry = [n \in Names |-> None]

-----------------------------------------------------------------------------
(* startGateway: ConnectLNS, then the tags' server.                        *)

Dial ==
    /\ station = "dial"
    /\ \/ station' = "version" /\ link' = TRUE
       \/ station' = "failed" /\ link' = link
    /\ UNCHANGED <<config, serverVars, read, routeVars, uplinkVars, tagVars>>

\* A write to a connection that has dropped fails, or is lost in its buffers.
SendVersion ==
    /\ station = "version"
    /\ station' \in IF link THEN {"await"} ELSE {"await", "failed"}
    /\ UNCHANGED <<linkVars, serverVars, read, routeVars, uplinkVars, tagVars>>

\* awaitRouterConfig: everything else is skipped, downlinks included.
AwaitConfig ==
    /\ station = "await" /\ Unread
    /\ read' = read + 1
    /\ IF Incoming.type = "router_config"
       THEN station' = "listen" /\ config' = read + 1
       ELSE UNCHANGED <<station, config>>
    /\ UNCHANGED <<link, serverVars, routeVars, uplinkVars, tagVars>>

\* ListenTCP; when it fails the LNS connection is closed.
Listen ==
    /\ station = "listen"
    /\ \/ station' = "serve" /\ link' = link
       \/ station' = "failed" /\ link' = FALSE
    /\ UNCHANGED <<config, serverVars, read, routeVars, uplinkVars, tagVars>>

\* Mutant: the handshake takes a read error for an unknown message.
ReadFailsOnlyServing ==
    /\ ~link /\ station = "serve"
    /\ station' = "ended"
    /\ UNCHANGED <<linkVars, serverVars, read, routeVars, uplinkVars, tagVars>>

\* The connection is gone; what had arrived may or may not have been read before.
ReadFails ==
    /\ ~link
    /\ \/ station = "await" /\ station' = "failed"
       \/ station = "serve" /\ station' = "ended"
    /\ UNCHANGED <<linkVars, serverVars, read, routeVars, uplinkVars, tagVars>>

-----------------------------------------------------------------------------
(* LNS.Run and Gateway.OnDnmsg, on one goroutine.                          *)

\* Mutant: only the handshake sets the configuration.
ReadIgnoringConfig ==
    /\ station = "serve" /\ Unread
    /\ read' = read + 1
    /\ station' = IF Incoming.type = "dnmsg" THEN "lookup" ELSE "serve"
    /\ UNCHANGED <<linkVars, serverVars, routeVars, uplinkVars, tagVars>>

\* Mutant: an unknown message ends the loop.
ReadStopping ==
    /\ station = "serve" /\ Unread
    /\ read' = read + 1
    /\ station' = CASE Incoming.type = "dnmsg" -> "lookup"
                    [] Incoming.type = "other" -> "ended"
                    [] OTHER -> "serve"
    /\ config' = IF Incoming.type = "router_config" THEN read + 1 ELSE config
    /\ UNCHANGED <<link, serverVars, routeVars, uplinkVars, tagVars>>

Read ==
    /\ station = "serve" /\ Unread
    /\ read' = read + 1
    /\ station' = IF Incoming.type = "dnmsg" THEN "lookup" ELSE "serve"
    /\ config' = IF Incoming.type = "router_config" THEN read + 1 ELSE config
    /\ UNCHANGED <<link, serverVars, routeVars, uplinkVars, tagVars>>

\* g.lookup: an unknown tag's downlink is dropped.
Lookup ==
    /\ station = "lookup"
    /\ target' = registry[WireName(Addressee)]
    /\ station' = IF target' = None THEN "serve" ELSE "write"
    /\ UNCHANGED <<linkVars, serverVars, read, routed, acks, uplinkVars, tagVars>>

\* Mutant: a failed write is confirmed too.
WriteUnchecked ==
    /\ station = "write" /\ side[target] # "stalled"
    /\ station' = "confirm"
    /\ routed' = IF side[target] = "closed" THEN routed ELSE routed \cup {<<read, target>>}
    /\ target' = None
    /\ UNCHANGED <<linkVars, serverVars, read, acks, uplinkVars, tagVars>>

\* conn.Write waits for a tag that does not read, and may fail once it has closed.
Write ==
    /\ station = "write" /\ side[target] # "stalled"
    /\ \/ station' = "confirm" /\ routed' = routed \cup {<<read, target>>}
       \/ side[target] = "closed" /\ station' = "serve" /\ routed' = routed
    /\ target' = None
    /\ UNCHANGED <<linkVars, serverVars, read, acks, uplinkVars, tagVars>>

\* SendDntxed; its error is logged.
Confirm ==
    /\ station = "confirm" /\ station' = "serve"
    /\ acks' = IF link THEN Append(acks, read) ELSE acks
    /\ UNCHANGED <<linkVars, serverVars, read, target, routed, uplinkVars, tagVars>>

-----------------------------------------------------------------------------
(* Gateway.handleConn and handleUplink, on the goroutine of a connection.  *)

Connect(c) ==
    /\ station \in Listening /\ side[c] = "new"
    /\ side' = [side EXCEPT ![c] = "open"]
    /\ UNCHANGED <<station, linkVars, serverVars, read, routeVars, uplinkVars, name, gone,
                   registry>>

Serving(c) == side[c] # "new" /\ c \notin gone

\* A hello is read: register under the text it carries.
Hello(c, n) ==
    /\ Serving(c) /\ name[c] = None
    /\ name' = [name EXCEPT ![c] = n]
    /\ registry' = [registry EXCEPT ![n] = c]
    /\ UNCHANGED <<station, linkVars, serverVars, read, routeVars, uplinkVars, side, gone>>

\* A join-request is read; xtime.Add(1).
Stamp(c) ==
    /\ Serving(c) /\ name[c] # None /\ stamp[c] = 0 /\ xtime < MaxUp
    /\ xtime' = xtime + 1
    /\ stamp' = [stamp EXCEPT ![c] = xtime + 1]
    /\ UNCHANGED <<station, linkVars, serverVars, read, routeVars, ups, tagVars>>

\* ParseUplink rejects the frame, or it is sent; an error is logged.
Forward(c) ==
    /\ stamp[c] # 0
    /\ \/ link /\ ups' = Append(ups, [xtime |-> stamp[c], from |-> name[c][1]])
       \/ ups' = ups
    /\ stamp' = [stamp EXCEPT ![c] = 0]
    /\ UNCHANGED <<station, linkVars, serverVars, read, routeVars, xtime, tagVars>>

\* The connection has ended, all it carried is read, and unregister runs.
Leave(c) ==
    /\ Serving(c) /\ side[c] = "closed" /\ stamp[c] = 0
    /\ gone' = gone \cup {c}
    /\ registry' = IF name[c] = None THEN registry ELSE [registry EXCEPT ![name[c]] = None]
    /\ UNCHANGED <<station, linkVars, serverVars, read, routeVars, uplinkVars, side, name>>

-----------------------------------------------------------------------------
(* The tags' ends, and the network server.                                 *)

\* The tag stops reading and its buffers fill, or it goes away.
TagEnds(c, how) ==
    /\ side[c] \in {"open", "stalled"} \ {how}
    /\ side' = [side EXCEPT ![c] = how]
    /\ UNCHANGED <<station, linkVars, serverVars, read, routeVars, uplinkVars, name, gone,
                   registry>>

\* The first message a network server reads is answered with a plan.
Greet ==
    /\ link /\ ~greeted /\ station \notin {"dial", "version"}
    /\ greeted' = TRUE
    /\ sent' = Append(sent, [type |-> "router_config", to |-> None])
    /\ UNCHANGED <<station, linkVars, read, routeVars, uplinkVars, tagVars>>

\* A downlink to a device that asked to join (mocklns handleJreq, PushClassC), a
\* changed plan, an unknown message; one place is left for the greeting.
ServerSends(m) ==
    /\ link /\ Len(sent) + (IF greeted THEN 0 ELSE 1) < MaxSent
    /\ m.type = "dnmsg" => \E i \in DOMAIN ups : ups[i].from = m.to
    /\ sent' = Append(sent, m)
    /\ UNCHANGED <<station, linkVars, greeted, read, routeVars, uplinkVars, tagVars>>

Drop ==
    /\ link /\ link' = FALSE
    /\ UNCHANGED <<station, config, serverVars, read, routeVars, uplinkVars, tagVars>>

-----------------------------------------------------------------------------
Gateway ==
    \/ Dial \/ SendVersion \/ AwaitConfig \/ Listen \/ ReadFails
    \/ Read \/ Lookup \/ Write \/ Confirm

Handler(c) ==
    \/ \E n \in Names : n[2] \in Spellings /\ Hello(c, n)
    \/ Stamp(c) \/ Forward(c) \/ Leave(c)

Next ==
    \/ Gateway
    \/ \E c \in Conns :
        \/ Connect(c) \/ Handler(c)
        \/ \E how \in {"stalled", "closed"} : TagEnds(c, how)
    \/ Greet \/ Drop
    \/ \E m \in Messages : ServerSends(m)

\* The gateway's goroutine runs on, and the network server reads what it gets and
\* answers the version.
Fairness == WF_vars(Gateway) /\ WF_vars(Greet)

Spec == Init /\ [][Next]_vars /\ Fairness

-----------------------------------------------------------------------------
(* Properties.                                                             *)

\* RouterConfig is the most recent plan among all the messages read, in the
\* handshake and by Run (LNS.RouterConfig).
ConfigCurrent ==
    LET plans == {i \in 1 .. read : sent[i].type = "router_config"} IN
    /\ config \in plans \cup {0}
    /\ \A i \in plans : i <= config

\* A downlink is confirmed at most once, in the order of the downlinks, and only if
\* it was written to the device it addresses (Gateway.OnDnmsg).
ConfirmedRouted ==
    /\ \A i \in DOMAIN acks :
        \E c \in Conns : /\ <<acks[i], c>> \in routed
                         /\ name[c][1] = sent[acks[i]].to
    /\ \A i, j \in DOMAIN acks : i < j => acks[i] < acks[j]

\* The device's only connection so far, which has said hello and not ended.
Reachable(c, d) ==
    /\ Serving(c) /\ name[c] # None /\ name[c][1] = d
    /\ \A o \in Conns \ {c} : name[o] # None => name[o][1] # d

\* A downlink is dropped as one for an unknown tag only if the device it addresses
\* is not connected, whatever the other tags do (Gateway.OnDnmsg, register,
\* unregister; README: downlinks "are routed to the right tag by DevEUI").
AddresseeFound ==
    [][station = "lookup" /\ station' = "serve"
       => ~ \E c \in Conns : Reachable(c, Addressee)]_vars

\* Every uplink carries an xtime of its own (Gateway.handleUplink): handlers that
\* run at the same time never share one.
XTimeUnique ==
    \A i, j \in DOMAIN ups : ups[i].xtime = ups[j].xtime => i = j

\* The handshake ends, whatever else the network server sends: with a plan, or
\* because the connection dropped (ConnectLNS).
HandshakeEnds == station = "await" ~> station \in Listening \cup {"failed"}

\* Every message is read as long as the connection is up and every tag reads its
\* downlinks: no unknown, unroutable or unconfirmable message stops those behind it,
\* and neither does a tag that goes away (awaitRouterConfig, LNS.Run, OnDnmsg).
MessagesRead ==
    \A n \in 1 .. MaxSent :
        Len(sent) >= n ~> \/ read >= n \/ ~link
                          \/ \E c \in Conns : side[c] = "stalled"
=============================================================================
