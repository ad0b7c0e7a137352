--------------------------- MODULE ScenarioProofs ---------------------------
(***************************************************************************)
(* Proofs about Scenario, for every number of tags, of uplinks and of      *)
(* JoinAll calls: the semaphore and both WaitGroups count the goroutines   *)
(* that are still to answer, so a burst stays within its limit, returns    *)
(* after its last uplink, and JoinAll accounts for every enabled tag.  The *)
(* uplinks of a burst are dealt out to the tags of its snapshot in turn.   *)
(***************************************************************************)
EXTENDS Scenario, FiniteSetTheorems, TLAPS

-----------------------------------------------------------------------------
(* Types without the counts.                                               *)

Types ==
    /\ running \subseteq Tags
    /\ burst \in {"idle", "spawn", "failed", "returned"}
    /\ ids \in Seq(Tags) /\ (burst = "spawn" => Len(ids) > 0)
    /\ next \in 1 .. Count + 1
    /\ target \in [Uplinks -> Tags \cup {None}]
    /\ uplink \in [Uplinks -> {"none", "lookup", "send", "release", "finish", "done"}]
    /\ joinAll \in [Calls -> {"idle", "wait", "returned"}]
    /\ cancelled \subseteq Calls
    /\ starting \in [Calls -> [Tags -> {"none", "start", "ok", "error", "done"}]]

\* The snapshot of the running tags is a sequence of tags, empty only if none runs.
LEMMA SnapshotTyped ==
    ASSUME NEW S \in SUBSET Tags, NEW s \in SetToSeqs(S)
    PROVE  s \in Seq(Tags) /\ (S # {} => Len(s) > 0)
<1>1. IsFiniteSet(S)
  BY FS_Subset, ScenarioAssumption
<1>2. /\ Cardinality(S) \in Nat /\ (S # {} => Cardinality(S) > 0)
      /\ s \in [1 .. Cardinality(S) -> S]
  BY <1>1, FS_CardinalityType, FS_EmptySet DEF SetToSeqs
<1>3. s \in Seq(S) /\ Len(s) = Cardinality(S)
  BY <1>2
<1> QED
  BY <1>2, <1>3

\* The round-robin place of an uplink is a place of the snapshot.
LEMMA PlaceInSnapshot ==
    ASSUME NEW s \in Seq(Tags), Len(s) > 0, NEW n \in Nat \ {0}
    PROVE  s[((n - 1) % Len(s)) + 1] \in Tags
<1>1. Len(s) \in Nat \ {0} /\ n - 1 \in Nat
  OBVIOUS
<1>2. (n - 1) % Len(s) \in 0 .. Len(s) - 1
  BY <1>1
<1> QED
  BY <1>1, <1>2

\* Every step keeps the types.
LEMMA TypesStep == Types /\ [Next]_vars => Types'
<1> SUFFICES ASSUME Types, [Next]_vars PROVE Types'
  OBVIOUS
<1> USE ScenarioAssumption DEF Types, Uplinks, joinVars, burstVars
<1>1. CASE BurstBegin
  BY <1>1, SnapshotTyped DEF BurstBegin
<1>2. CASE Spawn
  <2>1. /\ next \in Uplinks /\ next \in Nat \ {0} /\ next' = next + 1
        /\ ids \in Seq(Tags) /\ Len(ids) > 0
        /\ target' = [target EXCEPT ![next] = ids[((next - 1) % Len(ids)) + 1]]
    BY <1>2 DEF Spawn
  <2>2. target' \in [Uplinks -> Tags \cup {None}] /\ next' \in 1 .. Count + 1
    BY <2>1, PlaceInSnapshot
  <2> QED
    BY <1>2, <2>2 DEF Spawn
<1>3. CASE BurstReturns
  BY <1>3 DEF BurstReturns
<1>4. ASSUME NEW n \in Uplinks, UplinkStep(n) PROVE Types'
  BY <1>4 DEF UplinkStep, Lookup, Send, Release, Done, Advance
<1>5. ASSUME NEW j \in Calls, JoinAllBegin(j) PROVE Types'
  <2> DEFINE row == [t \in Tags |-> IF t \in Enabled THEN "start" ELSE "none"]
  <2>1. row \in [Tags -> {"none", "start", "ok", "error", "done"}]
    OBVIOUS
  <2>2. starting' = starting \/ starting' = [starting EXCEPT ![j] = row]
    BY <1>5 DEF JoinAllBegin
  <2>3. starting' \in [Calls -> [Tags -> {"none", "start", "ok", "error", "done"}]]
    <3> HIDE DEF row
    <3> QED
      BY <2>1, <2>2
  <2> QED
    BY <1>5, <2>3 DEF JoinAllBegin
<1>6. ASSUME NEW j \in Calls, Cancel(j) \/ JoinAllReturns(j) PROVE Types'
  BY <1>6 DEF Cancel, JoinAllReturns
<1>7. ASSUME NEW j \in Calls, NEW t \in Tags, StartReturns(j, t) \/ Tally(j, t) PROVE Types'
  <2>1. PICK v \in {"ok", "error", "done"} : starting' = [starting EXCEPT ![j][t] = v]
    BY <1>7 DEF StartReturns, StartOk, StartFails, Tally
  <2>2. starting' \in [Calls -> [Tags -> {"none", "start", "ok", "error", "done"}]]
    BY <2>1
  <2> QED
    BY <1>7, <2>2 DEF StartReturns, StartOk, StartFails, Tally
<1>8. CASE StopAll \/ \E t \in Tags : Start(t) \/ Stop(t)
  BY <1>8 DEF StopAll, Start, Stop
<1>9. CASE UNCHANGED vars
  BY <1>9 DEF vars
<1> QED
  BY <1>1, <1>2, <1>3, <1>4, <1>5, <1>6, <1>7, <1>8, <1>9 DEF Next

-----------------------------------------------------------------------------
(* The counts of a burst.                                                  *)

Unfinished == {n \in Uplinks : uplink[n] \notin {"none", "done"}}

\* The semaphore counts the uplinks in flight, the WaitGroup the goroutines; the
\* uplinks from next on have none yet.
BurstInv ==
    /\ sem = Cardinality(InFlight) /\ sem <= Limit
    /\ wg = Cardinality(Unfinished)
    /\ \A n \in Uplinks : uplink[n] = "none" <=> n >= next
    /\ burst = "returned" => next > Count /\ Unfinished = {}

\* The two sets are finite.
LEMMA BurstFinite ==
    /\ IsFiniteSet(Uplinks) /\ Cardinality(Uplinks) = Count
    /\ IsFiniteSet(InFlight) /\ Cardinality(InFlight) \in Nat
    /\ IsFiniteSet(Unfinished) /\ Cardinality(Unfinished) \in 0 .. Count
<1>1. IsFiniteSet(Uplinks) /\ Cardinality(Uplinks) = Count
  BY FS_Interval, ScenarioAssumption DEF Uplinks
<1>2. InFlight \in SUBSET Uplinks /\ Unfinished \in SUBSET Uplinks
  BY DEF InFlight, Unfinished
<1>3. /\ IsFiniteSet(InFlight) /\ IsFiniteSet(Unfinished)
      /\ Cardinality(Unfinished) <= Count
  BY <1>1, <1>2, FS_Subset
<1> QED
  BY <1>1, <1>3, FS_CardinalityType, ScenarioAssumption

\* Steps that leave the burst alone leave its counts alone.
LEMMA BurstUntouched ==
    ASSUME BurstInv, UNCHANGED <<sem, wg, uplink, next, burst>>
    PROVE  BurstInv'
  BY DEF BurstInv, InFlight, Unfinished, Limit

\* Spawn adds the next uplink to both sets.
LEMMA SpawnCounts == Types /\ BurstInv /\ Spawn => BurstInv'
<1> SUFFICES ASSUME Types, BurstInv, Spawn PROVE BurstInv'
  OBVIOUS
<1>1. /\ next \in Uplinks /\ next \in Nat /\ Limit \in Int /\ uplink[next] = "none"
      /\ sem < Limit /\ sem' = sem + 1 /\ wg' = wg + 1 /\ next' = next + 1
      /\ uplink' = [uplink EXCEPT ![next] = "lookup"] /\ burst' = "spawn"
  BY ScenarioAssumption DEF Spawn, Types, Uplinks, BurstInv, Limit
<1>2. /\ InFlight' = InFlight \cup {next} /\ next \notin InFlight
      /\ Unfinished' = Unfinished \cup {next} /\ next \notin Unfinished
  BY <1>1 DEF InFlight, Unfinished, Types
<1>3. sem' = Cardinality(InFlight)' /\ sem' <= Limit' /\ wg' = Cardinality(Unfinished)'
  <2>1. /\ Cardinality(InFlight \cup {next}) = Cardinality(InFlight) + 1
        /\ Cardinality(Unfinished \cup {next}) = Cardinality(Unfinished) + 1
    BY <1>2, BurstFinite, FS_AddElement
  <2>2. sem' = Cardinality(InFlight') /\ wg' = Cardinality(Unfinished')
    BY <1>1, <1>2, <2>1 DEF BurstInv
  <2>3. sem' <= Limit
    BY <1>1, BurstFinite DEF BurstInv
  <2> QED
    BY <2>2, <2>3 DEF Limit
<1>4. (\A n \in Uplinks : uplink[n] = "none" <=> n >= next)'
  BY <1>1 DEF BurstInv, Types, Uplinks
<1> QED
  BY <1>1, <1>3, <1>4 DEF BurstInv

\* Release takes an uplink out of the first set, Done out of the second.
LEMMA UplinkCounts ==
    ASSUME Types, BurstInv, NEW n \in Uplinks, UplinkStep(n)
    PROVE  BurstInv'
<1>1. CASE Lookup(n) \/ Send(n)
  <2>1. InFlight' = InFlight /\ Unfinished' = Unfinished
    BY <1>1 DEF Lookup, Send, Advance, InFlight, Unfinished, Types
  <2> QED
    BY <1>1, <2>1 DEF BurstInv, Lookup, Send, Advance, Types, Limit
<1>2. CASE Release(n)
  <2>1. InFlight' = InFlight \ {n} /\ n \in InFlight /\ Unfinished' = Unfinished
    BY <1>2 DEF Release, Advance, InFlight, Unfinished, Types
  <2>2. sem' = sem - 1 /\ Limit' = Limit /\ Limit \in Int
    BY <1>2, ScenarioAssumption DEF Release, Limit
  <2>3. sem' = Cardinality(InFlight)' /\ sem' <= Limit'
    <3>1. Cardinality(InFlight \ {n}) = Cardinality(InFlight) - 1
      BY <2>1, BurstFinite, FS_RemoveElement
    <3>2. sem' = Cardinality(InFlight')
      BY <2>1, <2>2, <3>1 DEF BurstInv
    <3> QED
      BY <2>2, <3>2, BurstFinite DEF BurstInv
  <2> QED
    BY <1>2, <2>1, <2>3 DEF BurstInv, Release, Advance, Types
<1>3. CASE Done(n)
  <2>1. Unfinished' = Unfinished \ {n} /\ n \in Unfinished /\ InFlight' = InFlight
    BY <1>3 DEF Done, Advance, InFlight, Unfinished, Types
  <2>2. wg' = Cardinality(Unfinished)'
    BY <1>3, <2>1, BurstFinite, FS_RemoveElement DEF BurstInv, Done
  <2> QED
    BY <1>3, <2>1, <2>2 DEF BurstInv, Done, Advance, Types, Limit
<1> QED
  BY <1>1, <1>2, <1>3 DEF UplinkStep

\* Every step keeps the counts.
LEMMA BurstStep == Types /\ BurstInv /\ [Next]_vars => BurstInv'
<1> SUFFICES ASSUME Types, BurstInv, [Next]_vars PROVE BurstInv'
  OBVIOUS
<1>1. CASE BurstBegin
  BY <1>1 DEF BurstBegin, BurstInv, InFlight, Unfinished, Limit
<1>2. CASE BurstReturns
  <2>1. Unfinished = {}
    BY <1>2, BurstFinite, FS_EmptySet DEF BurstReturns, BurstInv
  <2> QED
    BY <1>2, <2>1 DEF BurstReturns, BurstInv, InFlight, Unfinished, Limit
<1>3. \/ BurstBegin \/ Spawn \/ BurstReturns \/ \E n \in Uplinks : UplinkStep(n)
      \/ UNCHANGED <<sem, wg, uplink, next, burst>>
  BY DEF Next, vars, burstVars, JoinAllBegin, Cancel, JoinAllReturns, StartReturns, StartOk,
         StartFails, Tally, Start, Stop, StopAll
<1> QED
  BY <1>1, <1>2, <1>3, SpawnCounts, UplinkCounts, BurstUntouched

-----------------------------------------------------------------------------
(* The counts of JoinAll.                                                  *)

Pending(j) == {t \in Tags : starting[j][t] \in {"start", "ok", "error"}}

\* The WaitGroup counts the goroutines that have not reported; with what they
\* reported it makes up the enabled tags, unless the list failed.
CallInv(j) ==
    /\ started[j] \in Nat /\ errs[j] \in Nat
    /\ waiting[j] = Cardinality(Pending(j))
    /\ joinAll[j] = "idle" => Pending(j) = {} /\ started[j] = 0 /\ errs[j] = 0
    /\ joinAll[j] = "returned" => waiting[j] = 0
    /\ \/ joinAll[j] = "idle"
       \/ started[j] + errs[j] + waiting[j] = Cardinality(Enabled)
       \/ started[j] = 0 /\ errs[j] = 1 /\ waiting[j] = 0

Counters ==
    /\ waiting \in [Calls -> Nat] /\ started \in [Calls -> Nat] /\ errs \in [Calls -> Nat]

JoinInv == Counters /\ \A j \in Calls : CallInv(j)

\* The goroutines of a call are finitely many.
LEMMA PendingFinite ==
    ASSUME NEW j \in Calls
    PROVE  IsFiniteSet(Pending(j)) /\ Cardinality(Pending(j)) \in Nat
<1>1. Pending(j) \in SUBSET Tags
  BY DEF Pending
<1> QED
  BY <1>1, FS_Subset, FS_CardinalityType, ScenarioAssumption

\* JoinAll adds to its WaitGroup what it starts.
LEMMA BeginCounts ==
    ASSUME Types, JoinInv, NEW j \in Calls, JoinAllBegin(j)
    PROVE  Counters' /\ CallInv(j)'
<1>1. IsFiniteSet(Enabled) /\ Cardinality(Enabled) \in Nat
  BY FS_Subset, FS_CardinalityType, ScenarioAssumption
<1>2. /\ joinAll[j] = "idle" /\ Pending(j) = {} /\ started[j] = 0 /\ errs[j] = 0
      /\ waiting[j] = 0 /\ started' = started
  BY FS_EmptySet DEF JoinAllBegin, JoinInv, CallInv
<1>3. CASE joinAll' = [joinAll EXCEPT ![j] = "wait"]
  <2> DEFINE row == [t \in Tags |-> IF t \in Enabled THEN "start" ELSE "none"]
  <2>1. /\ starting' = [starting EXCEPT ![j] = row] /\ errs' = errs
        /\ waiting' = [waiting EXCEPT ![j] = Cardinality(Enabled)]
    BY <1>3 DEF JoinAllBegin, Types
  <2>2. starting'[j] = row
    BY <2>1 DEF Types
  <2>3. Pending(j)' = Enabled
    BY <2>2, ScenarioAssumption DEF Pending
  <2>4. waiting'[j] = Cardinality(Enabled) /\ joinAll'[j] = "wait"
    BY <1>3, <2>1 DEF JoinInv, Counters, Types
  <2> QED
    BY <1>1, <1>2, <2>1, <2>3, <2>4 DEF JoinInv, CallInv, Counters
<1>4. CASE joinAll' = [joinAll EXCEPT ![j] = "returned"]
  <2>1. /\ UNCHANGED <<starting, waiting>> /\ errs' = [errs EXCEPT ![j] = 1]
        /\ joinAll'[j] = "returned"
    BY <1>4 DEF JoinAllBegin, Types
  <2>2. Pending(j)' = {} /\ Cardinality({}) = 0
    BY <1>2, <2>1, FS_EmptySet DEF Pending
  <2> QED
    BY <1>1, <1>2, <2>1, <2>2 DEF JoinInv, CallInv, Counters
<1> QED
  BY <1>3, <1>4 DEF JoinAllBegin

\* Tally moves one goroutine from the WaitGroup to a counter.
LEMMA TallyCounts ==
    ASSUME Types, JoinInv, NEW j \in Calls, NEW t \in Tags, Tally(j, t)
    PROVE  Counters' /\ CallInv(j)'
<1>1. /\ CallInv(j) /\ Counters /\ t \in Pending(j) /\ joinAll' = joinAll
      /\ waiting' = [waiting EXCEPT ![j] = @ - 1]
  BY DEF JoinInv, Tally, Pending
<1>2. Pending(j)' = Pending(j) \ {t}
  BY DEF Tally, Pending, Types
<1>3. /\ Cardinality(Pending(j) \ {t}) = Cardinality(Pending(j)) - 1
      /\ Cardinality(Pending(j)) \in Nat /\ Cardinality(Pending(j)) # 0
  BY <1>1, PendingFinite, FS_RemoveElement, FS_EmptySet
<1>4. Cardinality(Pending(j)') = Cardinality(Pending(j)) - 1 /\ Cardinality(Enabled) \in Nat
  BY <1>2, <1>3, FS_Subset, FS_CardinalityType, ScenarioAssumption
<1>5. waiting'[j] = waiting[j] - 1 /\ waiting[j] > 0 /\ waiting' \in [Calls -> Nat]
  BY <1>1, <1>3 DEF CallInv, Counters
<1>6. /\ started' \in [Calls -> Nat] /\ errs' \in [Calls -> Nat]
      /\ started'[j] + errs'[j] = started[j] + errs[j] + 1
  BY <1>1 DEF Tally, Counters
<1>7. joinAll[j] \notin {"idle", "returned"}
  BY <1>1, <1>5 DEF CallInv
<1> QED
  BY <1>1, <1>3, <1>4, <1>5, <1>6, <1>7 DEF CallInv, Counters

\* A Start that ends is still one to wait for, and so it is after the call returned
\* or was cancelled.
LEMMA OtherCounts ==
    ASSUME Types, JoinInv, NEW j \in Calls,
           \/ JoinAllReturns(j) \/ Cancel(j)
           \/ \E t \in Tags : StartReturns(j, t)
    PROVE  Counters' /\ CallInv(j)'
<1>1. UNCHANGED <<waiting, started, errs>>
  BY DEF JoinAllReturns, Cancel, StartReturns, StartOk, StartFails
<1>2. Pending(j)' = Pending(j)
  BY DEF JoinAllReturns, Cancel, StartReturns, StartOk, StartFails, Pending, Types
<1>3. joinAll' = joinAll \/ (joinAll'[j] = "returned" /\ joinAll[j] = "wait" /\ waiting[j] = 0)
  BY DEF JoinAllReturns, Cancel, StartReturns, StartOk, StartFails, Types
<1> QED
  BY <1>1, <1>2, <1>3 DEF JoinInv, CallInv, Counters

\* A call's step leaves the other calls alone.
LEMMA CallAlone ==
    ASSUME Types, JoinInv, NEW j \in Calls, NEW k \in Calls, k # j,
           \/ JoinAllBegin(j) \/ Cancel(j) \/ JoinAllReturns(j)
           \/ \E t \in Tags : StartReturns(j, t) \/ Tally(j, t)
    PROVE  CallInv(k)'
<1>1. /\ starting'[k] = starting[k] /\ joinAll'[k] = joinAll[k] /\ waiting'[k] = waiting[k]
      /\ started'[k] = started[k] /\ errs'[k] = errs[k]
  BY DEF JoinAllBegin, Cancel, JoinAllReturns, StartReturns, StartOk, StartFails, Tally,
         Types, JoinInv, Counters
<1>2. Pending(k)' = Pending(k)
  BY <1>1 DEF Pending
<1> QED
  BY <1>1, <1>2 DEF JoinInv, CallInv

\* Every step keeps the counts.
LEMMA JoinStep == Types /\ JoinInv /\ [Next]_vars => JoinInv'
<1> SUFFICES ASSUME Types, JoinInv, [Next]_vars PROVE JoinInv'
  OBVIOUS
<1>1. CASE UNCHANGED joinVars
  BY <1>1 DEF joinVars, JoinInv, CallInv, Counters, Pending
<1>2. ASSUME NEW j \in Calls,
             \/ JoinAllBegin(j) \/ Cancel(j) \/ JoinAllReturns(j)
             \/ \E t \in Tags : StartReturns(j, t) \/ Tally(j, t)
      PROVE  JoinInv'
  <2>1. Counters' /\ CallInv(j)'
    BY <1>2, BeginCounts, TallyCounts, OtherCounts
  <2>2. \A k \in Calls \ {j} : CallInv(k)'
    BY <1>2, CallAlone
  <2> QED
    BY <2>1, <2>2 DEF JoinInv
<1>3. \/ UNCHANGED joinVars
      \/ \E j \in Calls : \/ JoinAllBegin(j) \/ Cancel(j) \/ JoinAllReturns(j)
                        \/ \E t \in Tags : StartReturns(j, t) \/ Tally(j, t)
  BY DEF Next, vars, BurstBegin, Spawn, BurstReturns, UplinkStep, Lookup, Send, Release, Done,
         Start, Stop, StopAll
<1> QED
  BY <1>1, <1>2, <1>3

-----------------------------------------------------------------------------
(* The rounds of a burst.                                                  *)

Sent(t) == {n \in Uplinks : target[n] = t}

\* The place of the snapshot the current round has come to.
Place == (next - 1) % Len(ids)

\* The tags up to that place have had one uplink more than the others.
Even ==
    \E q \in Nat : \A k \in 1 .. Len(ids) :
        Cardinality(Sent(ids[k])) = IF k <= Place THEN q + 1 ELSE q

\* The snapshot names no tag twice, and the uplinks from next on have no tag yet.
RoundInv ==
    /\ \A n \in Uplinks : n >= next => target[n] = None
    /\ burst = "idle" => ids = <<>> /\ next = 1
    /\ \A k, l \in 1 .. Len(ids) : ids[k] = ids[l] => k = l
    /\ Len(ids) > 0 => Even

\* The next remainder is one more, or the first again.
LEMMA ModNext ==
    ASSUME NEW L \in Nat \ {0}, NEW x \in Nat
    PROVE  (x + 1) % L = IF x % L = L - 1 THEN 0 ELSE (x % L) + 1
<1> DEFINE q == x \div L
           p == (x + 1) \div L
           r == x % L
           s == (x + 1) % L
<1>1. q \in Int /\ p \in Int /\ r \in 0 .. L - 1 /\ s \in 0 .. L - 1
  OBVIOUS
<1>2. x = L * q + r
  OBVIOUS
<1>3. x + 1 = L * p + s
  OBVIOUS
<1>4. L * (p - q) = L * p - L * q
  BY <1>1
<1>5. L * (p - q) = r + 1 - s
  <2> HIDE DEF q, p, r, s
  <2> QED
    BY <1>1, <1>2, <1>3, <1>4
<1>6. \A d \in Int : (d > 1 => L * d > L) /\ (d < 0 => L * d <= 0 - L)
  OBVIOUS
<1>7. p - q \in {0, 1}
  <2> HIDE DEF q, p, r, s
  <2>1. p - q \in Int /\ L * (p - q) <= L /\ L * (p - q) > 0 - L
    BY <1>1, <1>5
  <2> QED
    BY <1>6, <2>1
<1>8. L * 0 = 0 /\ L * 1 = L
  OBVIOUS
<1> HIDE DEF q, p
<1> QED
  BY <1>1, <1>5, <1>7, <1>8

\* The burst begins with a snapshot of different tags and no uplink sent.
LEMMA RoundBegin == Types /\ RoundInv /\ BurstBegin => RoundInv'
<1> SUFFICES ASSUME Types, RoundInv, BurstBegin PROVE RoundInv'
  OBVIOUS
<1>1. /\ burst = "idle" /\ burst' # "idle" /\ next = 1 /\ next' = 1 /\ target' = target
      /\ ids' \in SetToSeqs(running) /\ running \in SUBSET Tags
  BY DEF BurstBegin, RoundInv, Types
<1>2. ids' \in Seq(Tags)
  BY <1>1, SnapshotTyped
<1>3. \A k, l \in 1 .. Len(ids') : ids'[k] = ids'[l] => k = l
  <2>1. DOMAIN ids' = 1 .. Len(ids')
    BY <1>2
  <2>2. \A k, l \in DOMAIN ids' : ids'[k] = ids'[l] => k = l
    BY <1>1 DEF SetToSeqs, IsInjective
  <2> QED
    BY <2>1, <2>2
<1>4. ASSUME Len(ids') > 0 PROVE Even'
  <2>1. Place' = 0
    <3>1. Len(ids') \in Nat \ {0}
      BY <1>2, <1>4
    <3>2. 0 % Len(ids') = 0
      BY <3>1
    <3> QED
      BY <1>1, <3>2 DEF Place
  <2>2. \A t \in Tags : Sent(t)' = {}
    BY <1>1, ScenarioAssumption DEF RoundInv, Sent, Uplinks
  <2>3. \A k \in 1 .. Len(ids') : Cardinality(Sent(ids[k])') = 0
    <3>1. \A k \in 1 .. Len(ids') : ids'[k] \in Tags
      BY <1>2
    <3> QED
      BY <2>2, <3>1, FS_EmptySet DEF Sent
  <2> QED
    BY <2>1, <2>3 DEF Even
<1> QED
  BY <1>1, <1>3, <1>4 DEF RoundInv

\* A tag's uplinks are finitely many.
LEMMA SentFinite ==
    ASSUME NEW t
    PROVE  IsFiniteSet(Sent(t)) /\ Cardinality(Sent(t)) \in Nat
<1>1. Sent(t) \in SUBSET Uplinks
  BY DEF Sent
<1> QED
  BY <1>1, BurstFinite, FS_Subset, FS_CardinalityType

\* Spawn gives the next uplink to the tag at the next place.
LEMMA RoundSpawn == Types /\ RoundInv /\ Spawn => RoundInv'
<1> SUFFICES ASSUME Types, RoundInv, Spawn PROVE RoundInv'
  OBVIOUS
<1>1. /\ burst' = "spawn" /\ ids' = ids /\ ids \in Seq(Tags) /\ Len(ids) \in Nat \ {0}
      /\ next \in Uplinks /\ next \in Nat \ {0} /\ next' = next + 1
      /\ target \in [Uplinks -> Tags \cup {None}]
      /\ target' = [target EXCEPT ![next] = ids[Place + 1]]
  <2>1. target' = [target EXCEPT ![next] = ids[Place + 1]]
    BY DEF Spawn, Place
  <2>2. next \in Uplinks /\ next \in Nat \ {0}
    BY ScenarioAssumption DEF Spawn, Types, Uplinks
  <2>3. ids \in Seq(Tags) /\ Len(ids) \in Nat \ {0}
    BY DEF Spawn, Types
  <2>4. /\ burst' = "spawn" /\ ids' = ids /\ next' = next + 1
        /\ target \in [Uplinks -> Tags \cup {None}]
    BY DEF Spawn, Types
  <2> QED
    BY <2>1, <2>2, <2>3, <2>4
<1>2. PICK L \in Nat \ {0}, m \in Nat : L = Len(ids) /\ m = Place /\ m <= L - 1
  <2>1. next - 1 \in Nat
    BY <1>1
  <2>2. Place \in 0 .. Len(ids) - 1
    BY <1>1, <2>1 DEF Place
  <2> QED
    BY <1>1, <2>2
<1>3. Place' = IF m = L - 1 THEN 0 ELSE m + 1
  <2>1. next' - 1 = (next - 1) + 1 /\ next - 1 \in Nat
    BY <1>1
  <2>2. ((next - 1) + 1) % Len(ids)
           = IF (next - 1) % Len(ids) = Len(ids) - 1 THEN 0 ELSE ((next - 1) % Len(ids)) + 1
    BY <1>1, <2>1, ModNext
  <2> QED
    BY <1>1, <1>2, <2>1, <2>2 DEF Place
<1> PICK t \in Tags : t = ids[m + 1]
  BY <1>1, <1>2
<1>4. next \notin Sent(t) /\ Sent(t)' = Sent(t) \cup {next}
  <2>1. target[next] = None
    BY <1>1 DEF RoundInv
  <2> QED
    BY <1>1, <1>2, <2>1, ScenarioAssumption DEF Sent, Uplinks
<1>5. Cardinality(Sent(t)') = Cardinality(Sent(t)) + 1
  BY <1>4, SentFinite, FS_AddElement
<1>6. ASSUME NEW k \in 1 .. L, k # m + 1 PROVE Sent(ids[k])' = Sent(ids[k])
  <2>1. ids[k] # t /\ ids[k] \in Tags
    BY <1>1, <1>2, <1>6 DEF RoundInv
  <2>2. target[next] # ids[k]
    BY <1>1, <2>1, ScenarioAssumption DEF RoundInv
  <2>3. \A n \in Uplinks : target'[n] = ids[k] <=> target[n] = ids[k]
    BY <1>1, <1>2, <2>1, <2>2
  <2> QED
    BY <1>1, <2>3 DEF Sent
<1>7. Even'
  <2>1. PICK q \in Nat : \A k \in 1 .. L :
                Cardinality(Sent(ids[k])) = IF k <= m THEN q + 1 ELSE q
    BY <1>1, <1>2 DEF RoundInv, Even
  <2>2. ASSUME NEW k \in 1 .. L
        PROVE  Cardinality(Sent(ids[k])') = IF k <= m + 1 THEN q + 1 ELSE q
    <3>1. CASE k = m + 1
      <4>1. ids[k] = t /\ ids'[k] = t /\ Cardinality(Sent(t)) = q
        BY <1>1, <2>1, <3>1
      <4>2. Cardinality(Sent(ids[k])') = q + 1
        BY <1>5, <4>1 DEF Sent
      <4> QED
        BY <3>1, <4>2
    <3>2. CASE k # m + 1
      BY <1>6, <2>1, <3>2
    <3> QED
      BY <3>1, <3>2
  <2>3. CASE m = L - 1
    <3>1. Place' = 0 /\ q + 1 \in Nat
      BY <1>3, <2>3
    <3>2. \A k \in 1 .. L : Cardinality(Sent(ids[k])') = q + 1
      BY <2>2, <2>3
    <3> QED
      BY <1>1, <1>2, <3>1, <3>2 DEF Even
  <2>4. CASE m # L - 1
    BY <1>1, <1>2, <1>3, <2>2, <2>4 DEF Even
  <2> QED
    BY <2>3, <2>4
<1>8. \A n \in Uplinks : n >= next' => target'[n] = None
  BY <1>1 DEF RoundInv, Uplinks
<1> QED
  BY <1>1, <1>7, <1>8 DEF RoundInv

\* Every step keeps the rounds even.
LEMMA RoundStep == Types /\ RoundInv /\ [Next]_vars => RoundInv'
<1> SUFFICES ASSUME Types, RoundInv, [Next]_vars PROVE RoundInv'
  OBVIOUS
<1>1. \/ BurstBegin \/ Spawn
      \/ UNCHANGED <<ids, next, target>> /\ (burst' = "idle" => burst = "idle")
  BY DEF Next, vars, burstVars, BurstReturns, UplinkStep, Lookup, Send, Release, Done,
         JoinAllBegin, Cancel, JoinAllReturns, StartReturns, StartOk, StartFails, Tally,
         Start, Stop, StopAll
<1>2. CASE UNCHANGED <<ids, next, target>> /\ (burst' = "idle" => burst = "idle")
  <2>1. Even' = Even
    BY <1>2 DEF Even, Place, Sent
  <2> QED
    BY <1>2, <2>1 DEF RoundInv
<1> QED
  BY <1>1, <1>2, RoundBegin, RoundSpawn

-----------------------------------------------------------------------------
(* The theorems.                                                           *)

\* The initial state has the types and the counts.
LEMMA ScenarioInit == Init => Types /\ BurstInv /\ JoinInv
<1> SUFFICES ASSUME Init PROVE Types /\ BurstInv /\ JoinInv
  OBVIOUS
<1>1. Types
  <2>1. ids \in Seq(Tags) /\ next \in 1 .. Count + 1
    BY ScenarioAssumption DEF Init
  <2>2. \A j \in Calls : starting[j] \in [Tags -> {"none", "start", "ok", "error", "done"}]
    BY DEF Init
  <2> QED
    BY <2>1, <2>2 DEF Init, Types
<1>2. InFlight = {} /\ Unfinished = {} /\ Cardinality({}) = 0
  BY FS_EmptySet DEF Init, InFlight, Unfinished
<1>3. BurstInv
  BY <1>2, ScenarioAssumption DEF Init, BurstInv, Limit, Uplinks
<1>4. \A j \in Calls : Pending(j) = {}
  BY DEF Init, Pending
<1>5. JoinInv
  BY <1>2, <1>4 DEF Init, JoinInv, CallInv, Counters
<1> QED
  BY <1>1, <1>3, <1>5

\* Types and counts hold together.
LEMMA ScenarioAlways == Spec => [](Types /\ BurstInv /\ JoinInv)
<1>1. Types /\ BurstInv /\ JoinInv /\ [Next]_vars => (Types /\ BurstInv /\ JoinInv)'
  BY TypesStep, BurstStep, JoinStep
<1> QED
  BY <1>1, ScenarioInit, PTL DEF Spec

\* The variables keep their types, and the semaphore holds one element per uplink in
\* flight.
THEOREM ScenarioTypeCorrect == Spec => []TypeOK
<1>1. Types /\ BurstInv /\ JoinInv => TypeOK
  BY BurstFinite DEF Types, BurstInv, JoinInv, Counters, TypeOK
<1> QED
  BY <1>1, ScenarioAlways, PTL

\* A burst never has more uplinks in flight than its limit.
THEOREM ScenarioInFlightBounded == Spec => []InFlightBounded
<1>1. BurstInv => InFlightBounded
  BY DEF BurstInv, InFlightBounded
<1> QED
  BY <1>1, ScenarioAlways, PTL

\* A burst that returned has no goroutine left.
THEOREM ScenarioBurstWaits == Spec => []BurstWaits
<1>1. Types /\ BurstInv => BurstWaits
  <2> SUFFICES ASSUME Types, BurstInv, burst = "returned", NEW n \in Uplinks
               PROVE  uplink[n] = "done"
    BY DEF BurstWaits
  <2>1. n \in Int /\ n <= Count /\ next > Count /\ next \in Int /\ Count \in Int
    BY ScenarioAssumption DEF Uplinks, BurstInv, Types
  <2>2. uplink[n] # "none"
    BY <2>1 DEF BurstInv
  <2>3. n \notin Unfinished
    BY DEF BurstInv
  <2> QED
    BY <2>2, <2>3 DEF Unfinished
<1> QED
  BY <1>1, ScenarioAlways, PTL

\* What JoinAll returns adds up to the enabled tags, or reports the failed list.
THEOREM ScenarioJoinAllCounts == Spec => []JoinAllCounts
<1>1. JoinInv => JoinAllCounts
  BY DEF JoinInv, CallInv, JoinAllCounts
<1> QED
  BY <1>1, ScenarioAlways, PTL

\* However many tags and uplinks: no tag of the snapshot is ever ahead of another by
\* more than one.
THEOREM ScenarioRoundRobin == Spec => []RoundRobin
<1>1. Init => RoundInv
  BY DEF Init, RoundInv
<1>2. Types /\ RoundInv /\ [Next]_vars => RoundInv'
  BY RoundStep
<1>3. Types /\ RoundInv => RoundRobin
  <2> SUFFICES ASSUME Types, RoundInv,
                      NEW k \in 1 .. Len(ids), NEW l \in 1 .. Len(ids)
               PROVE  Cardinality(Sent(ids[k])) <= Cardinality(Sent(ids[l])) + 1
    <3>1. DOMAIN ids = 1 .. Len(ids)
      BY DEF Types
    <3> QED
      BY <3>1 DEF RoundRobin, Sent
  <2>1. Len(ids) > 0
    BY DEF Types
  <2>2. PICK q \in Nat : \A i \in 1 .. Len(ids) :
                Cardinality(Sent(ids[i])) = IF i <= Place THEN q + 1 ELSE q
    BY <2>1 DEF RoundInv, Even
  <2>3. \A i \in 1 .. Len(ids) : Cardinality(Sent(ids[i])) \in {q, q + 1}
    BY <2>2
  <2> QED
    BY <2>3
<1> QED
  BY <1>1, <1>2, <1>3, ScenarioAlways, PTL DEF Spec
=============================================================================
