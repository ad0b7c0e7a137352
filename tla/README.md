# Verification of Cylon (LoRa-sim)

Cylon simulates LoRaWAN end-devices ("tags") and the gateway they talk to. Tags
keep their session in SQLite, connect to the gateway over TCP, and the gateway
speaks Basic Station over a WebSocket to a network server (LNS). A REST API
starts, stops, deletes and drives the tags, and a WebSocket feed shows what
happens.

This directory holds TLA+ models of the parts that run concurrently, TLC
configurations that check them, and TLAPS proofs. Paths below are relative to
`src/`.

## 1. Inventory

| Component | State it keeps | Operations | Correct when |
|---|---|---|---|
| Session store, `internal/store/sessions.go` | one row per tag: keys, `joined`, `fcnt_up`, `fcnt_down`, `dev_nonce` | `Get`, `NextDevNonce`, `SaveJoinResult`, `TakeFCntUp`, `SetFCntDown`, one SQL statement each under the write mutex | a nonce or a counter once given is never given again, also after a crash |
| End device, `internal/tag/device.go`, `join.go`, `data.go` | none of its own | build join-request, complete join, build uplink, handle downlink | no frame repeats (keys, counter); downlink counters do not go back; the session belongs to the request it answers |
| Tag client, `internal/tag/client.go`, `cmd/tag` | `joined` flag, `joinCh` (one slot), a TCP connection | `Hello`, `Run`, `Join`, `SendUplink` | a join gets its accept; a running tag can send |
| Orchestrator, `internal/sim/orchestrator.go` | `running`: tag id to client, connection, cancel | `Start`, `Stop`, `StopAll`, `Uplink`, `JoinAll`, `Burst` | every open connection has an owner; a listed tag is online, a deleted one is not; bursts are bounded and end |
| Gateway, `internal/gateway/gateway.go` | `byDevEUI`, `xtime` | `handleConn`, `handleUplink`, `OnDnmsg`, `Close` | a downlink reaches the tag it addresses, whatever other tags do; only written downlinks are confirmed |
| LNS client, `internal/gateway/lns.go`, `startGateway` in `cmd/cylon/serve.go` | the WebSocket, the latest `router_config` | `ConnectLNS`, `Run`, `Send*` | handshake before anything else; the plan is current; no message blocks the next |
| TCP server, `internal/transport/server.go` | `active`, `closed`, a WaitGroup, the listener | `accept`, handler goroutines, `Close` | `Close` ends everything at any point of an accept |
| Event feed, `internal/api/publisher.go`, `hub.go` | connected browsers and their 64-message buffers | `Publish`, `Broadcast`, `ServeWS` | publishers never wait for a browser; a publisher's events stay in order |
| Start and end of `cylon serve`, `cmd/cylon/serve.go` | the deferred calls | `RunE`, `startGateway` | ends once it has begun to; `LNS.Close` cuts no uplink |
| Gateway identity, `internal/store/gateway.go`, `cmd/cylon` | one row | `EnsureEUI`, `SetEUI`, `UpdateConfig` | who serves, serves under the stored EUI; no update is lost unless two overlap |
| Tag store, `internal/store/tags.go` | tags, each with its session | `Create`, `Get`, `List`, `Delete` | tag and session 1:1; ids never reused |
| Secrets, `internal/secret`, `newCipher` | the key a column is sealed under | `Encrypt`, `Decrypt` | who can read a tag can read its session |
| REST API, `internal/api` | none | gateway settings, tag creation, lists, delete, join, uplink, scenarios | lists miss no tag; a fleet is complete when reported |
| Mock LNS, `internal/mocklns` | joins it answered, downlink counters | greeting, join-accept, Class C push | environment of the models |
| Config, metrics, payload generators, web UI, flags | nothing another part reads back | | not modelled, section 7 |

How they interact. An API call (or `JoinAll`) runs `Orchestrator.Start`, which
dials the gateway, starts a goroutine running `Client.Run`, sends hello, reads the
session row, joins if it is not joined, and only then enters the tag in `running`.
The TCP server gives each connection a goroutine (`Gateway.handleConn`) that
registers the DevEUI on hello, forwards uplinks to the LNS, and unregisters it
when the connection ends. One goroutine (`LNS.Run`) reads downlinks and calls
`OnDnmsg`, which looks the connection up and writes to it; `Client.Run` hands what
it reads to `joinCh` before the join and to `HandleDownlink` after it. Everything
that happens is published: appended to the event table and offered to the browsers.
`cylon serve` settles the gateway's EUI, connects to the LNS, listens for tags and
then serves HTTP; when it ends, deferred calls stop the tags, the TCP server and the
LNS connection, in this order; the context that a signal cancels is the parent of the
one the LNS connection is read and written under. `cylon gateway-eui`, `cmd/tag` and a second `serve` may
share the database file.

What is hard: `Start` holds no lock between its check of `running` and its entry in
it; uplinks and the Run loop read the row in one statement and write it in
another; a stopped tag's goroutines outlive it; the end of an old connection
races with the hello of the next; join-requests and accepts arrive late, downlinks
repeated or in another order; the process dies between two statements; `Close` races with accepts;
counters reach the width of their Go type; processes on one database read, then write;
a send to an LNS that does not read holds up the shutdown; one text of a DevEUI is
looked up under another. `PROJECT.json` lists each of these with
its line and the properties that watch it.

## 2. Modules

| Module | Models | Extends |
|---|---|---|
| `SessionRow` | the session row, one operator per SQL statement | |
| `EndDevice` | abstract: what a 1.0.3 device promises on the air | `SessionRow` |
| `DeviceSession` | one tag's device, clients and goroutines over the row; implements `EndDevice` | `SessionRow` |
| `MCDeviceSession` | symmetry for TLC | `DeviceSession` |
| `TagLifecycle` | one tag from the orchestrator through the gateway to the LNS and back | |
| `TransportServer` | the TCP server, `Close` called by anyone | |
| `Serve` | the end of `cylon serve`: signal, failed listen, deferred calls, handlers writing to the LNS; implements `TransportServer` | `TransportServer` |
| `Scenario` | `Burst` and `JoinAll` over the running map | |
| `EventFeed` | publisher and hub | |
| `GatewayLink` | LNS handshake, `LNS.Run`, several tags registering, routing, uplink forwarding | |
| `Provisioning` | processes on one database: gateway identity and settings, tag creation, lists, joins, deletion, keys that change | |
| `MCProvisioning` | symmetry for TLC | `Provisioning` |
| `DeviceSessionProofs`, `DeviceSerialProofs`, `LifecycleProofs`, `ServerProofs`, `ScenarioProofs`, `EventFeedProofs`, `GatewayLinkProofs`, `ProvisioningProofs` | theorems | the module they are about |

The modules meet at named seams. `DeviceSession` takes connections and routing as
given and looks at counters; `TagLifecycle` reduces the row to keys and nonce
and looks at connections and routing; `Scenario` reduces a Start or an uplink to
success or failure; `GatewayLink` gives each connection one tag and looks at several
of them and at the LNS; `Provisioning` reduces a join to its two statements.
`TransportServer` is what `TagLifecycle` and `GatewayLink` assume of the goroutine per
connection; `Serve` extends it, so that its properties hold in the program that calls
`Close`.

### SessionRow, DeviceSession

A session key is the pair (DevNonce the tag put in, request the network
answered). `DeriveNwkSKey` depends on exactly these, because each answer has its own
JoinNonce; the network has the same keys if and only if both are the same
request. `DerivedKey` is `ParseJoinAccept`: the MIC of a 1.0 accept covers the frame
and not the DevNonce, so the accept of any earlier request is valid.

`pc[c]` is where `Start` and `Join` are; each SQL statement, each write to the
connection and the `joined.Store` is one action, and anything can happen in between.
`worker[w]` is a goroutine inside `SendUplink`: the row's keys and counter it
holds are what it read, not what the row now has. `loop[c]` is the Run loop
between `HandleDownlink`'s read and its `SetFCntDown`. A stopped client is not
removed: its `joined` flag and goroutines stay. `Crash` drops everything but the row
and the air. `Readable` models the scan: SQLite integers do not wrap, and a value
that does not fit the Go type makes `Get` fail from then on, while
`NextDevNonce` and `TakeFCntUp` have already written it. A downlink carries 16 bits of
its counter (`OnWire`) and a MIC over all 32; `ParseDownlink` takes the unseen bits as
zero (`Authentic`), so a counter above them is heard as a forgery.

`SerialStarts` says whether Starts of one tag may overlap. The code does not
prevent it (`device_overlap` shows what follows); `cmd/tag` has one client by
construction. `requests`, `answered`, `uplinks` and `delivered` are the air, as an
observer would record it; the network may send any accept or data downlink of a
request it answered, any number of times and in any order.

### TagLifecycle

One action per step of `Start` that another goroutine can observe. `Starts` are the
calls; each names the connection it dials. `handler[a]` is the gateway's goroutine
of that connection, `up`/`down` are the bytes in flight, `registry` is `byDevEUI`,
`routing` is the downlink `OnDnmsg` holds after its lookup. A join-request goes through
three hands: `SendRequest` puts it on the tag's connection, `ForwardJreq` on the WebSocket
(`rising`), and `Answer` is the network server reading it, starting a session and sending
the accept on `air`. The server notes the session before it writes the accept, so a
`Push` may come before that accept. `Disconnect` empties
`running` and closes the connection in one step: a Start that runs between the two
would meet the same old connection it meets when the handler has not left yet.
`Fail` is any error or cancellation of `Start`; its error paths close the connection.
`Leave` covers both ends of a connection: everything read (EOF), or a reset because
the tag closed with unread downlinks. `Restart` ends the cylon process; tags and
gateway live in it, the database and the network server do not. Downlinks
on the WebSocket are lost with it, but a join-request that was already sent may still
arrive (`late`); its accept then has nowhere to go (`AnswerLate`). A deleted tag's row is gone, and its DevEUI is not
created again.

`orderly` is a history variable: every Start so far began with no other Start in
progress, no connection left, and nothing on its way between gateway and network
server, neither a downlink nor a join-request. The last matters: a request that a
cancelled `Start` leaves behind outlives its connection. The properties that fail
without it are the findings; under it they hold, which shows that the races below
are the only reason.

### TransportServer, Serve

`TransportServer` follows `server.go` lock by lock. The WaitGroup is the set of
goroutines added and not done. `Connect` is the kernel queueing a connection,
`Accept` the return of `ln.Accept`, `Admit` the block under `s.mu`.

`Serve` adds RunE (`main`), the signal context (`context`: live, signalled, or stopped by
RunE's last deferred call), the LNS connection (`lns`), the handlers inside `LNS.send`
(`writing`) and the goroutine of `LNS.Run` (`run`). RunE leaves its select on a signal or
on a failed listen; only the signal cancels the context before RunE returns. That
context is the parent of the LNS connection's: a read or write that is under way when it
ends tears the connection down (`torn`, `GiveUpIO`), with handlers still running. `LNS.Run`
confirms downlinks on that connection too, and nobody waits for it. A handler may still
send what was buffered when `Close` closed its connection. `CloseGateway` is the three
steps of `Close`; `CloseLns` comes after it. A send waits while the LNS does not read,
until the context is done. `StopAll` takes no step on the connections of its own: closing
them is `Disconnect`, which any tag may do at any time.

### Scenario, EventFeed

`Scenario` keeps the semaphore, both WaitGroups and the counters as numbers beside
what each goroutine does, so that "Burst returns after its uplinks" is a claim
about the counting. Tags start and stop under it at any time.

`EventFeed` models the read-write lock as Go's: a reader waits while a writer waits.
`Broadcast` visits the clients in any order, a full buffer drops the event, and a
write to a browser may take forever. Three history variables watch what a browser gets:
`seen`, the latest event of each publisher; `before`, what was broadcast before it was
added; `dropped`, whether it met an event with a full buffer.

### GatewayLink

`station` follows `startGateway` and then `LNS.Run`: dial, version, await
`router_config`, listen, read. Messages of the LNS are numbered by position; `config` is
the number of the plan in force. `Lookup`, `Write` and `Confirm` are `OnDnmsg`: between
the lookup and the write the connection found may end and another take its name.
`registry` is `byDevEUI`, keyed by the text of a hello: a device and a spelling.
`WireName` is what `ParseUplink` makes of the eight bytes, always lower case. A tag may
stop reading (`stalled`), and then the write to it does not return. The WebSocket may
drop at any time and is not dialled again.

### Provisioning

Every SQL statement and every transaction is a step of its own, of any of several
processes on one database file; the write mutex is per process, so it does not order
the statements of two. `proc` is a process's start-up: look, insert or update, read
again. A command that prints the EUI is a process that gets `up` and exits. `req` is a
request by what it still has to do and what it holds: the row `putGateway` filled in,
the ids a fleet creation was given, the tags a list has shown. Any statement may fail and
fails its request, but one: a list shows a tag without its session whatever error
`Sessions.Get` returns (`AddSession`, `tags.go:81`), and remembers it
in `erred`. A process may end between two statements, with its requests, and come back
with another key. A sealed column is the key it is sealed under; `Opens` is `Decrypt`. `connection_mode`
is a third field treated as the other two, and is left out. `renamed`, `asked` and
`overlap` are history variables.

## 3. Runs and bounds

| Run | States | Bounds, and why they are enough |
|---|---|---|
| `device_session` | 921 k (symmetric) | 2 clients: a stopped client and its successor. 2 uplink goroutines: one counter taken between another's read and take. 2 nonces: a failed join and a next one; 3 counters 0..2, so both types overflow. 3 downlink counters: first, later or stale, and one that a frame does not carry whole |
| `device_overlap` | violation | 2 clients starting together, 1 goroutine |
| `lifecycle` | 180 k | 2 Starts: every race in question is between a connection and its successor. 1 pushed downlink besides the accepts |
| `lifecycle_restored`, `_unregister`, `_deleted` | violation | 2 Starts, no push |
| `serve` | 102 k | 2 connections: one served, or stuck in a send, while one is accepted |
| `scenario` | 101 k | 3 uplinks over at most 2 tags, 2 at once: the round wraps, the semaphore fills. 1 `JoinAll` |
| `event_feed` | 555 k | buffers of 1, so they fill; 2 publishers with 2 events; 2 browsers |
| `gateway_link` | 537 k | 2 connections of 2 tags, or one after the other of 1; the greeting and 2 more messages; 2 join-requests |
| `link_spelling` | violation | 1 tag in upper case |
| `provisioning` | 3.01 M (symmetric) | 2 processes with a key or without, so the key changes under each; 2 requests, of any kinds; 2 EUIs, 2 values per field; 2 tags, so that a fleet of 2 is whole or cut short |

`MaxDevNonce` and `MaxFCnt` stand for the widths of `uint16` and `uint32`, `MaxWire` for
the 16 bits of a counter that are transmitted; the model reaches and passes all three. `MaxPush`, `MaxSent`, `MaxUp`, `Count`, `PerPublisher`, `MaxTags`, `MaxFleet` bound
how much the environment asks for. All type invariants,
`InFlightBounded` and `XTimeUnique` are proved and need no run. Deadlock checking is off except for the device
runs, where a crash is always possible: elsewhere the system may stop, once
everything is closed, returned or used up.

### What the passing runs show

* `device_session`: with Starts one at a time, a tag never reuses a DevNonce and
  sends them in increasing order; no two uplink frames share keys and counter; a
  counter is persisted before its frame exists; a session is never replaced; the
  stored downlink counter does not go back although it is compared with a row read
  earlier; and the whole implements `EndDevice` (`ImplementsEndDevice`).
* `lifecycle`: with overlapping Starts too, the registry only holds connections whose
  goroutine is alive, the running entry only open ones, and the gateway reaps every
  closed connection. In an orderly history, where also no request of an earlier `Start` is
  on its way, a running tag is routable, tag and
  network agree on the keys, no connection is orphaned, and every Start returns.
* `serve`: `Gateway.Close` returns and leaves nothing, no open connection is forgotten,
  the WaitGroup is not added to from zero, connections are served even after failed
  accepts. `LNS.Close` cuts no uplink: no handler is left when it is called, and before it
  only a signal ends the LNS connection, which it does under the handlers; a confirmation
  by `LNS.Run` may be under way in either case (`NoUplinkCut`). Serve exits, with
  one exception: after a failed listen nothing has cancelled the context, so a handler
  stuck in a send to an LNS that never reads keeps `Gateway.Close`, and the process,
  waiting until a signal comes (`ExitCompletes` states this).
* `scenario`: uplinks evenly spread; `Burst` returns, after its last goroutine, even if
  the tags are stopped under it; `JoinAll` accounts for every enabled tag and returns
  once its request is cancelled.
* `event_feed`: publishers never wait for a browser; a browser sees a publisher's
  events in order, none twice; a connected browser whose buffer never filled misses none
  since it was added, whoever joins or leaves meanwhile; a gone browser leaves the hub.
* `gateway_link`: the plan is the latest one read; a downlink is confirmed once, in
  order, only if it was written to the device it addresses; a tag on its first
  connection, with its DevEUI in lower case, gets its downlinks; the handshake ends; and
  every message is read unless the connection dropped or a tag stopped reading: one
  such tag blocks the downlinks of all (`OnDnmsg` writes on the reading goroutine).
* `provisioning`: whoever serves does so under the stored EUI, unless it was changed;
  of two start-ups on an empty database one may fail, but they never disagree.
  `putGateway` does not undo a change of the EUI, and loses a field only when two
  overlap. Ids are never reused, a fleet reported as created is complete, tag and
  session are 1:1 and sealed under one key. A list that succeeds misses no tag that stays,
  and shows one without its session only if reading that session failed (`ListingWhole`);
  a tag row under another key makes every list fail.

### Findings (violation runs)

1. `device_overlap`: overlapping Starts of one tag reuse an uplink counter under the
   same keys (`orchestrator.go:61` checks, `:117` registers).
2. `lifecycle_restored`: a tag started from a stored session cannot send
   (`client.go:100,110`).
3. `lifecycle_unregister`: the end of an old connection unregisters the new one
   (`gateway.go:174`).
4. `lifecycle_deleted`: a deleted tag can be left running (`api/tags.go:225`).
5. `link_spelling`: a tag with its DevEUI in upper case never gets its join-accept
   (`gateway.go:141`).

Two more ways of the code are modelled as they are, and the properties allow for them:
a downlink that repeats the stored counter is delivered again (`device.go:173` compares
with `<`), and the accept of an earlier request is valid for a later one (`join.go:64`:
the MIC does not cover the DevNonce), after which tag and network hold different keys
until the tag is created anew. It takes no overlap of Starts: it is enough that the request
of a cancelled `Start` is still on its way up when the next one begins.
`OrderlyKeyAgreement` says when it cannot happen.

## 4. Fairness

Weak fairness stands for goroutines that are scheduled and calls that return.
What the code does not make happen gets none: nobody has to call `Start`, `Stop`,
delete or `Close`, no tag has to disconnect, the LNS need not push, a browser
need not read (`EventFeed.Write`), a statement need not fail, and a `Start` waiting
for an accept need not return until its context is cancelled (`Scenario`). In
`TagLifecycle` the network server answers every join-request it can read (weak fairness of
`Answer`), so `Start` is fair after its first step; the run loop, the gateway's goroutines and the rest of a
delete that has begun are fair as well. In `GatewayLink` the gateway's goroutine is
fair, and so is the network server's answer to the version; handlers and tags are not.

Strong fairness is assumed of three actions, which are enabled and disabled as others
go on. `Accept` of a queued connection: the kernel hands them out in order. In `Serve`,
`EndSend`: a write gets through if the peer keeps reading, even with pauses; and
`HandlerRuns`: what a closed connection still had buffered is finite, so its handler
gets to see the end. `LNS.Run` gets no fairness there, because nothing waits for it. None
of this makes an LNS read, a tag disconnect or a signal arrive.

## 5. What is proved

For every value of the constants, by TLAPS:

* `DeviceSessionProofs`, no assumption on Starts: `TypeCorrect`,
  `NonceNeverReused`, `CounterAhead`, `DownCounterOnWire`. `DevNonceNeverReused` is not inductive: it needs
  that every nonce in a client's hands or on the air is at most `dev_nonce`, and that
  two clients past `TakeNonce` hold different ones, which `NextDevNonce` preserves
  because it increments. `CounterPersistedFirst` needs in addition that a session key
  about to be saved is new to the air, which follows from the nonce in it.
  `DownCounterOnWire`: the stored downlink counter always fits the transmitted bits, which
  is why `Readable` may ignore its column; it also says that no counter beyond them is
  ever delivered, the limit the comment at `data.go:102` accepts.
* `DeviceSerialProofs`, assuming `SerialStarts`: `SerialUplinkFresh`,
  `SerialDevNonceIncreases`. The invariant adds that at most one client is past
  `off`, that the row is not joined while it joins, and that a goroutine past its read
  holds the row's keys; so no join comes between the read and `TakeFCntUp`. Its second
  half adds `SerialSessionKept`, `SerialDownMonotone`, and `SerialImplementsEndDevice`, which maps every action to an
  action of `EndDevice` or a stutter. `SerialOneSession` is derived from those abstract
  actions alone: all frames of a tag, either way, are of one session. Only the client object that did the join ever
  handles data downlinks (the other side of finding 2), so no other Run loop can move
  `fcnt_down` between its read and its write; a repair of finding 2 has to keep that.
* `LifecycleProofs`: `LifecycleTypeCorrect`, `LifecycleRegistryServed`,
  `LifecycleRunningConnected`, from an invariant per connection: who holds it open, which
  goroutine serves it, and where its hello is. From a second one about orderly
  histories, at most one Start or connection is alive and an announced one is the
  registered one: `LifecycleOrderlyRoutable` and `LifecycleOrderlyOwned`. From a third,
  `LifecycleOrderlyKeyAgreement`: a call sends one join-request, which is in its connection
  or on the WebSocket or answered; none of another call is anywhere, and while one is on
  its way no session is stored; an accept on its way to a live call answers that request,
  and no request was read by the network server since. What leaves `joinCh` is then what the network
  holds, although the accept does not name its request. `LifecycleJoinedCanUplink` needs no
  orderly history: a client that did its join itself passes `SendUplink`'s check, so
  finding 2 is about restored sessions only.
* `ServerProofs`: `ServerTypeCorrect`, `ServerOpenReachable`,
  `ServerCloseLeavesNothing`, `ServerNoAddAfterZero`, from an invariant that ties the
  WaitGroup to the goroutines that have not called `Done`. `ServeImplementsServer` shows
  that every step of `Serve` is one of `TransportServer` or leaves it alone, which gives
  the same theorems for `Serve`; `ServeNoUplinkCut` follows from them and the order of the
  deferred calls: past `gateway`, `Close` has returned, so no handler is left; and the
  context's own `stop` comes after `LNS.Close`, so what tears the connection down is a
  signal.
* `ScenarioProofs`: `ScenarioInFlightBounded`, `ScenarioBurstWaits`,
  `ScenarioJoinAllCounts`, `ScenarioRoundRobin`. The invariant says that the semaphore and the WaitGroups are
  the cardinalities of the sets of goroutines that hold them, and that what is counted
  and what is pending add up to the enabled tags. For `RoundRobin`, that the snapshot of the
  running tags repeats none, and that the tags before the current place of the round have
  had one uplink more than those after it.
* `EventFeedProofs`: `FeedTypeCorrect`; `FeedPublisherOrder`, because a publisher's events
  are broadcast one after another and what a browser has was offered and is not offered
  again; `FeedComplete`, because a browser that is served is in the hub before any later
  broadcast begins, and an offer either reaches its buffer or marks it.
* `GatewayLinkProofs`: `LinkConfigCurrent`; `LinkConfirmedRouted`, which needs that a name
  once said stays, that an entry of the registry was said by its connection, and that
  the downlink in hand is above all confirmed; `LinkXTimeUnique`, because a stamp is
  above all earlier ones; `LinkAddresseeFound`, assuming `Spellings \subseteq {"lower"}`:
  the first connection of a device stays registered until it leaves.
* `ProvisioningProofs`: all six properties of the run. Row by row: a process past its
  `INSERT` holds the only row there is; a filled-in row differs from what was asked only
  if another update overlapped. Table by table: rows of a table have ids up to `lastId`,
  a join or a list holds ids that were there, a tag that goes does not come back, and a
  list's bare tags still there are among those whose session could not be read.
  Fleets: the ids a request made are distinct, its own, and not above `lastId`.

The proofs use the modules' assumptions on the constants and nothing else. The
invariants were checked with TLC before they were proved.

Every safety property of the passing runs is stated by one of these theorems. Only
model-checked: all liveness, which needs fairness and ENABLED.

## 6. Plan

Done: session row and device with its abstract specification; lifecycle; TCP server and
the end of serve; scenarios; feed; LNS link with several tags; provisioning by several
processes; proofs about all of them.

Left: the feed hook of the web UI, history against live events and reconnection.

## 7. Not modelled

* The cryptography at rest, EUI generation (any EUI may be generated), configuration
  files, migrations, metrics, logging: no state that another part reads back while the
  system runs.
* `getTag`, `getGateway`, `listEvents`, `/healthz`: they read one row, or one page, and
  change nothing.
* Payload generators: stateless functions of the counter; their failure is
  `AbortUplink`.
* LoRaWAN and Basic Station encodings, MAC commands, RX window choice: fields copied
  from one frame to another. A frame is whose keys sign it and its counter.
* The channel plan: nothing outside its tests uses it. `devAddrToEUI`: written, never
  read.
* The web UI and flag parsing: presentation and wiring, with the one hazard
  listed in `PROJECT.json`.

## 8. Running

    tlc -config MCDeviceSession.cfg MCDeviceSession.tla
    tlc -config TagLifecycle.cfg TagLifecycle.tla
    tlc -config Provisioning.cfg MCProvisioning.tla
    tlapm DeviceSessionProofs.tla

`PROJECT.json` lists every run with its module and configuration, the correspondence
of definitions to source lines, and for each checked property a changed definition
that violates it.
