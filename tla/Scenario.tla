------------------------------ MODULE Scenario ------------------------------
(***************************************************************************)
(* The scenario primitives of the orchestrator (Burst and JoinAll in       *)
(* sim/orchestrator.go) over the map of running tags, which Start, Stop    *)
(* and StopAll change meanwhile.  What a Start or an uplink does for its   *)
(* tag is the subject of TagLifecycle and DeviceSession; here it succeeds  *)
(* or fails.                                                               *)
(***************************************************************************)
EXTENDS Integers, FiniteSets, SequencesExt

CONSTANTS
    Tags,       \* the tags of the store
    Enabled,    \* those with enabled = 1
    Calls,      \* JoinAll calls
    None,       \* no tag
    Count,      \* uplinks of the burst
    AtOnce      \* at_once of the request, any integer

ASSUME ScenarioAssumption ==
    /\ Enabled \subseteq Tags /\ IsFiniteSet(Tags) /\ None \notin Tags
    /\ Count \in Nat /\ AtOnce \in Int

Uplinks == 1 .. Count

\* Burst: if atOnce <= 0 { atOnce = 1 }.
Limit == IF AtOnce <= 0 THEN 1 ELSE AtOnce

VARIABLES
    running,    \* the tags in o.running
    burst,      \* what Burst is doing
    ids,        \* its snapshot of the running tags
    next,       \* the uplink it spawns next
    sem,        \* elements in the semaphore channel
    wg,         \* the count of its WaitGroup
    target,     \* the tag of each spawned uplink
    uplink,     \* what the goroutine of each uplink is doing
    joinAll,    \* what each JoinAll call is doing
    cancelled,  \* JoinAll calls whose context is cancelled
    starting,   \* what each call's goroutine of each tag is doing
    waiting,    \* the count of each call's WaitGroup
    started,    \* the counters of each call
    errs

burstVars == <<burst, ids, next, sem, wg, target, uplink>>
joinVars == <<joinAll, cancelled, starting, waiting, started, errs>>
vars == <<running, burstVars, joinVars>>

InFlight == {n \in Uplinks : uplink[n] \in {"lookup", "send", "release"}}

TypeOK ==
    /\ running \subseteq Tags
    /\ burst \in {"idle", "spawn", "failed", "returned"}
    /\ ids \in Seq(Tags) /\ (burst = "spawn" => Len(ids) > 0)
    /\ next \in 1 .. Count + 1
    /\ sem = Cardinality(InFlight) /\ wg \in 0 .. Count
    /\ target \in [Uplinks -> Tags \cup {None}]
    /\ uplink \in [Uplinks -> {"none", "lookup", "send", "release", "finish", "done"}]
    /\ joinAll \in [Calls -> {"idle", "wait", "returned"}]
    /\ cancelled \subseteq Calls
    /\ starting \in [Calls -> [Tags -> {"none", "start", "ok", "error", "done"}]]
    /\ waiting \in [Calls -> Nat] /\ started \in [Calls -> Nat] /\ errs \in [Calls -> Nat]

Init ==
    /\ running = {}
    /\ burst = "idle" /\ ids = <<>> /\ next = 1 /\ sem = 0 /\ wg = 0
    /\ target = [n \in Uplinks |-> None]
    /\ uplink = [n \in Uplinks |-> "none"]
    /\ joinAll = [j \in Calls |-> "idle"]
    /\ cancelled = {}
    /\ starting = [j \in Calls |-> [t \in Tags |-> "none"]]
    /\ waiting = [j \in Calls |-> 0]
    /\ started = [j \in Calls |-> 0]
    /\ errs = [j \in Calls |-> 0]

-----------------------------------------------------------------------------
(* Burst.                                                                  *)

\* The snapshot is taken under o.mu, in the order the map is iterated.
BurstBegin ==
    /\ burst = "idle"
    /\ ids' \in SetToSeqs(running)
    /\ burst' = IF running = {} THEN "failed" ELSE "spawn"
    /\ UNCHANGED <<running, next, sem, wg, target, uplink, joinVars>>

\* Mutant: consecutive uplinks in pairs.
SpawnPairs ==
    /\ burst = "spawn" /\ next <= Count
    /\ sem < Limit
    /\ sem' = sem + 1 /\ wg' = wg + 1
    /\ target' = [target EXCEPT ![next] = ids[(((next - 1) \div 2) % Len(ids)) + 1]]
    /\ uplink' = [uplink EXCEPT ![next] = "lookup"]
    /\ next' = next + 1
    /\ UNCHANGED <<running, burst, ids, joinVars>>

\* The loop body blocks on the semaphore before it starts the goroutine.
Spawn ==
    /\ burst = "spawn" /\ next <= Count
    /\ sem < Limit
    /\ sem' = sem + 1 /\ wg' = wg + 1
    /\ target' = [target EXCEPT ![next] = ids[((next - 1) % Len(ids)) + 1]]
    /\ uplink' = [uplink EXCEPT ![next] = "lookup"]
    /\ next' = next + 1
    /\ UNCHANGED <<running, burst, ids, joinVars>>

\* Mutant: Burst waits for the semaphore to drain instead.
BurstDrains ==
    /\ burst = "spawn" /\ next > Count
    /\ sem = 0
    /\ burst' = "returned"
    /\ UNCHANGED <<running, ids, next, sem, wg, target, uplink, joinVars>>

\* wg.Wait.
BurstReturns ==
    /\ burst = "spawn" /\ next > Count
    /\ wg = 0
    /\ burst' = "returned"
    /\ UNCHANGED <<running, ids, next, sem, wg, target, uplink, joinVars>>

Advance(n, from, to) == uplink[n] = from /\ uplink' = [uplink EXCEPT ![n] = to]

\* Uplink reads the running entry under o.mu; a stopped tag fails.
Lookup(n) ==
    /\ Advance(n, "lookup", IF target[n] \in running THEN "send" ELSE "release")
    /\ UNCHANGED <<running, burst, ids, next, sem, wg, target, joinVars>>

\* SendUplink returns, with the uplink sent or with an error.
Send(n) ==
    /\ Advance(n, "send", "release")
    /\ UNCHANGED <<running, burst, ids, next, sem, wg, target, joinVars>>

\* Mutant: only an uplink that was sent gives its place back.
ReleaseSent(n) ==
    /\ Advance(n, "release", "finish")
    /\ sem' = IF target[n] \in running THEN sem - 1 ELSE sem
    /\ UNCHANGED <<running, burst, ids, next, wg, target, joinVars>>

\* The deferred calls: first the semaphore, ...
Release(n) ==
    /\ Advance(n, "release", "finish")
    /\ sem' = sem - 1
    /\ UNCHANGED <<running, burst, ids, next, wg, target, joinVars>>

\* ... then wg.Done.
Done(n) ==
    /\ Advance(n, "finish", "done")
    /\ wg' = wg - 1
    /\ UNCHANGED <<running, burst, ids, next, sem, target, joinVars>>

-----------------------------------------------------------------------------
(* JoinAll.                                                                *)

\* Tags.List, and one goroutine per enabled tag; the list may fail.
JoinAllBegin(j) ==
    /\ joinAll[j] = "idle"
    /\ \/ /\ joinAll' = [joinAll EXCEPT ![j] = "wait"]
          /\ starting' = [starting EXCEPT ![j] =
                [t \in Tags |-> IF t \in Enabled THEN "start" ELSE "none"]]
          /\ waiting' = [waiting EXCEPT ![j] = Cardinality(Enabled)]
          /\ errs' = errs
       \/ /\ joinAll' = [joinAll EXCEPT ![j] = "returned"]
          /\ UNCHANGED <<starting, waiting>>
          /\ errs' = [errs EXCEPT ![j] = 1]
    /\ UNCHANGED <<running, burstVars, cancelled, started>>

\* The client of the request goes away.
Cancel(j) ==
    /\ joinAll[j] = "wait" /\ j \notin cancelled
    /\ cancelled' = cancelled \cup {j}
    /\ UNCHANGED <<running, burstVars, joinAll, starting, waiting, started, errs>>

\* Start succeeds: the tag is running, because of this call or of another.
StartOk(j, t) ==
    /\ starting[j][t] = "start"
    /\ starting' = [starting EXCEPT ![j][t] = "ok"]
    /\ running' = running \cup {t}
    /\ UNCHANGED <<burstVars, joinAll, cancelled, waiting, started, errs>>

StartFails(j, t) ==
    /\ starting[j][t] = "start"
    /\ starting' = [starting EXCEPT ![j][t] = "error"]
    /\ UNCHANGED <<running, burstVars, joinAll, cancelled, waiting, started, errs>>

\* Mutant: wg.Done is skipped when the Start failed.
TallyOk(j, t) ==
    /\ starting[j][t] \in {"ok", "error"}
    /\ starting' = [starting EXCEPT ![j][t] = "done"]
    /\ IF starting[j][t] = "ok"
       THEN /\ started' = [started EXCEPT ![j] = @ + 1] /\ errs' = errs
            /\ waiting' = [waiting EXCEPT ![j] = @ - 1]
       ELSE /\ errs' = [errs EXCEPT ![j] = @ + 1]
            /\ UNCHANGED <<started, waiting>>
    /\ UNCHANGED <<running, burstVars, joinAll, cancelled>>

\* Mutant: a failed Start is not counted.
TallyStarted(j, t) ==
    /\ starting[j][t] \in {"ok", "error"}
    /\ starting' = [starting EXCEPT ![j][t] = "done"]
    /\ waiting' = [waiting EXCEPT ![j] = @ - 1]
    /\ started' = [started EXCEPT ![j] = @ + (IF starting[j][t] = "ok" THEN 1 ELSE 0)]
    /\ UNCHANGED <<running, burstVars, joinAll, cancelled, errs>>

\* The counters are kept under a mutex; wg.Done is deferred.
Tally(j, t) ==
    /\ starting[j][t] \in {"ok", "error"}
    /\ starting' = [starting EXCEPT ![j][t] = "done"]
    /\ waiting' = [waiting EXCEPT ![j] = @ - 1]
    /\ IF starting[j][t] = "ok"
       THEN started' = [started EXCEPT ![j] = @ + 1] /\ errs' = errs
       ELSE errs' = [errs EXCEPT ![j] = @ + 1] /\ started' = started
    /\ UNCHANGED <<running, burstVars, joinAll, cancelled>>

JoinAllReturns(j) ==
    /\ joinAll[j] = "wait"
    /\ waiting[j] = 0
    /\ joinAll' = [joinAll EXCEPT ![j] = "returned"]
    /\ UNCHANGED <<running, burstVars, cancelled, starting, waiting, started, errs>>

-----------------------------------------------------------------------------
(* The other calls of the API.                                             *)

Start(t) ==
    /\ running' = running \cup {t}
    /\ UNCHANGED <<burstVars, joinVars>>

Stop(t) ==
    /\ t \in running
    /\ running' = running \ {t}
    /\ UNCHANGED <<burstVars, joinVars>>

StopAll ==
    /\ running' = {}
    /\ UNCHANGED <<burstVars, joinVars>>

UplinkStep(n) == Lookup(n) \/ Send(n) \/ Release(n) \/ Done(n)
StartReturns(j, t) == StartOk(j, t) \/ StartFails(j, t)

Next ==
    \/ BurstBegin \/ Spawn \/ BurstReturns
    \/ \E n \in Uplinks : UplinkStep(n)
    \/ \E j \in Calls : JoinAllBegin(j) \/ Cancel(j) \/ JoinAllReturns(j)
    \/ \E j \in Calls, t \in Tags : StartReturns(j, t) \/ Tally(j, t)
    \/ \E t \in Tags : Start(t) \/ Stop(t)
    \/ StopAll

\* A Start may wait for an accept that never comes: it need not return until its
\* context is cancelled.  The goroutines run on otherwise.
Fairness ==
    /\ WF_vars(Spawn) /\ WF_vars(BurstReturns)
    /\ \A n \in Uplinks : WF_vars(UplinkStep(n))
    /\ \A j \in Calls : WF_vars(JoinAllReturns(j))
    /\ \A j \in Calls, t \in Tags : /\ WF_vars(StartReturns(j, t) /\ j \in cancelled)
                                    /\ WF_vars(Tally(j, t))

Spec == Init /\ [][Next]_vars /\ Fairness

-----------------------------------------------------------------------------
(* Properties.                                                             *)

\* Never more than at_once uplinks in flight, nor fewer than one allowed (Burst:
\* "up to atOnce uplinks in flight at a time").
InFlightBounded == Cardinality(InFlight) <= Limit

\* The uplinks go round the tags that ran when the burst began: at any point no
\* tag is ahead of another by more than one (Burst: "round-robin").
RoundRobin ==
    LET sent(t) == Cardinality({n \in Uplinks : target[n] = t}) IN
    \A t, u \in {ids[k] : k \in DOMAIN ids} : sent(t) <= sent(u) + 1

\* Burst returns after the last of its goroutines (Burst's wg.Wait).
BurstWaits == burst = "returned" => \A n \in Uplinks : uplink[n] = "done"

\* The counts JoinAll returns add up to the enabled tags, or report the failed
\* list, whatever stops and other calls do meanwhile (JoinAll).
JoinAllCounts ==
    \A j \in Calls : joinAll[j] = "returned" =>
        started[j] + errs[j] = Cardinality(Enabled) \/ (started[j] = 0 /\ errs[j] = 1)

\* A burst ends, even if its tags are stopped under it (Burst's semaphore).
BurstCompletes == burst = "spawn" ~> burst = "returned"

\* JoinAll returns once its request is gone: no Start outlives its context.
JoinAllCancellable == \A j \in Calls : j \in cancelled ~> joinAll[j] = "returned"
=============================================================================
