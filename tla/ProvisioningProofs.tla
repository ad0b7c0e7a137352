------------------------- MODULE ProvisioningProofs -------------------------
(***************************************************************************)
(* Proofs about Provisioning, for any number of processes, requests, EUIs, *)
(* keys and tags.                                                          *)
(***************************************************************************)
EXTENDS Provisioning, FiniteSetTheorems, TLAPS

-----------------------------------------------------------------------------
(* Type correctness.                                                       *)

\* A row is made of what the schema allows.
LEMMA RowFields ==
    /\ \A eui \in Stored : FreshRow(eui) \in GatewayRow
    /\ \A row \in GatewayRow, eui \in Stored : [row EXCEPT !.eui = eui] \in GatewayRow
    /\ \A row \in GatewayRow, f \in Fields, v \in Values : [row EXCEPT ![f] = v] \in GatewayRow
  BY ProvisioningAssumption DEF FreshRow, GatewayRow, Fields

\* Start-up steps keep the types of the gateway row.
LEMMA StartUpGateway ==
    ASSUME TypeOK, NEW p \in Procs, StartUp(p) \/ Exit(p)
    PROVE  GatewayTypeOK'
<1> USE NoneIsNoRow DEF TypeOK, GatewayTypeOK, ProcTypeOK, gatewayVars, Step
<1>1. CASE Boot(p) \/ Look(p) \/ Reread(p) \/ Exit(p)
  BY <1>1 DEF Boot, Look, Reread, Exit
<1>2. CASE Insert(p)
  <2>1. proc[p].want \in Stored \cup {None}
    BY DEF Process, Off
  <2> QED
    BY <1>2, <2>1, RowFields DEF Insert
<1>3. CASE Update(p)
  <2>1. gateway \in GatewayRow /\ asked \in GatewayRow
    BY <1>3 DEF Update
  <2>2. proc[p].want \in Stored
    BY <1>3 DEF Update, Process, Off
  <2> QED
    BY <1>3, <2>1, <2>2, RowFields DEF Update
<1> QED
  BY <1>1, <1>2, <1>3 DEF StartUp

\* A process moves to a state of its type.
LEMMA ProcessMoves ==
    ASSUME ProcTypeOK, NEW p \in Procs, NEW to \in Process,
           proc' = [proc EXCEPT ![p] = to],
           gateway # None => gateway' # None,
           to.pc \in {"update", "reread", "up"} => gateway' # None,
           to.pc = "update" => to.want # None
    PROVE  ProcTypeOK'
  BY DEF ProcTypeOK

\* Start-up steps keep the types of the processes.
LEMMA StartUpProcesses ==
    ASSUME TypeOK, NEW p \in Procs, StartUp(p) \/ Exit(p)
    PROVE  ProcTypeOK'
<1> USE NoneIsNoRow DEF TypeOK, GatewayTypeOK, gatewayVars, Step
<1>1. CASE Boot(p)
  <2>1. \A text \in Texts : NormalizeEUI(text) \in Stored
    BY DEF Texts, Stored, NormalizeEUI
  <2>2. \A key \in Ciphers, want \in Stored \cup {None} :
          [pc |-> "look", key |-> key, eui |-> None, want |-> want] \in Process
    BY DEF Process
  <2>3. PICK key \in Ciphers, want \in Stored \cup {None} :
          proc' = [proc EXCEPT ![p] = [pc |-> "look", key |-> key, eui |-> None,
                                       want |-> want]]
    BY <1>1, <2>1 DEF Boot
  <2> QED
    BY <1>1, <2>2, <2>3, ProcessMoves DEF Boot
<1>2. CASE Look(p)
  <2>1. gateway # None => gateway.eui \in Stored
    BY DEF GatewayRow
  <2>2. proc[p].pc = "look" /\ proc[p] \in Process
    BY <1>2 DEF Look, ProcTypeOK
  <2>3. proc[p] \in [pc : {"look"}, key : Ciphers, want : Stored \cup {None},
                     eui : Stored \cup {None}]
    BY <2>2 DEF Process, Off
  <2>4. CASE gateway = None
    <3>1. proc' = [proc EXCEPT ![p] = [proc[p] EXCEPT !.pc = "insert"]]
      BY <1>2, <2>4 DEF Look
    <3>2. /\ [proc[p] EXCEPT !.pc = "insert"] \in Process
          /\ [proc[p] EXCEPT !.pc = "insert"].pc = "insert"
      BY <2>3 DEF Process
    <3> QED
      BY <1>2, <3>1, <3>2, ProcessMoves DEF Look
  <2>5. CASE gateway # None /\ proc[p].want # None
    <3>1. proc' = [proc EXCEPT ![p] = [proc[p] EXCEPT !.pc = "update"]]
      BY <1>2, <2>5 DEF Look
    <3>2. /\ [proc[p] EXCEPT !.pc = "update"] \in Process
          /\ [proc[p] EXCEPT !.pc = "update"].want # None
      BY <2>3, <2>5 DEF Process
    <3> QED
      BY <1>2, <2>5, <3>1, <3>2, ProcessMoves DEF Look
  <2>6. CASE gateway # None /\ proc[p].want = None
    <3>1. proc' = [proc EXCEPT ![p] = [proc[p] EXCEPT !.pc = "up", !.eui = gateway.eui]]
      BY <1>2, <2>6 DEF Look
    <3>2. /\ [proc[p] EXCEPT !.pc = "up", !.eui = gateway.eui] \in Process
          /\ [proc[p] EXCEPT !.pc = "up", !.eui = gateway.eui].pc = "up"
      BY <2>1, <2>3, <2>6 DEF Process
    <3> QED
      BY <1>2, <2>6, <3>1, <3>2, ProcessMoves DEF Look
  <2> QED
    BY <2>4, <2>5, <2>6
<1>3. CASE Insert(p)
  <2>1. gateway' # None
    <3>1. proc[p].want \in Stored \cup {None}
      BY DEF ProcTypeOK, Process, Off
    <3> QED
      BY <1>3, <3>1, RowFields DEF Insert
  <2>2. Off \in Process /\ Off.pc = "off"
    BY DEF Process, Off
  <2>3. /\ [proc[p] EXCEPT !.pc = "reread"] \in Process
        /\ [proc[p] EXCEPT !.pc = "reread"].pc = "reread"
    BY <1>3 DEF Insert, ProcTypeOK, Process, Off
  <2> QED
    BY <1>3, <2>1, <2>2, <2>3, ProcessMoves DEF Insert
<1>4. CASE Update(p)
  <2>1. gateway' # None
    <3>1. gateway \in GatewayRow /\ proc[p].want \in Stored
      BY <1>4 DEF Update, ProcTypeOK, Process, Off
    <3> QED
      BY <1>4, <3>1, RowFields DEF Update
  <2>2. /\ [proc[p] EXCEPT !.pc = "reread"] \in Process
        /\ [proc[p] EXCEPT !.pc = "reread"].pc = "reread"
    BY <1>4 DEF Update, ProcTypeOK, Process, Off
  <2> QED
    BY <1>4, <2>1, <2>2, ProcessMoves DEF Update
<1>5. CASE Reread(p)
  <2>1. gateway # None /\ gateway.eui \in Stored
    BY <1>5 DEF Reread, ProcTypeOK, GatewayRow
  <2>2. Off \in Process /\ Off.pc = "off"
    BY DEF Process, Off
  <2>3. proc[p] \in [pc : {"reread"}, key : Ciphers, want : Stored \cup {None},
                     eui : Stored \cup {None}]
    BY <1>5 DEF Reread, ProcTypeOK, Process, Off
  <2>4. /\ [proc[p] EXCEPT !.pc = "up", !.eui = gateway.eui] \in Process
        /\ [proc[p] EXCEPT !.pc = "up", !.eui = gateway.eui].pc = "up"
    BY <2>1, <2>3 DEF Process
  <2>5. \/ proc' = [proc EXCEPT ![p] = [proc[p] EXCEPT !.pc = "up", !.eui = gateway.eui]]
        \/ proc' = [proc EXCEPT ![p] = Off]
    BY <1>5 DEF Reread
  <2> QED
    BY <1>5, <2>1, <2>2, <2>4, <2>5, ProcessMoves DEF Reread
<1>6. CASE Exit(p)
  <2>1. Off \in Process /\ Off.pc = "off"
    BY DEF Process, Off
  <2> QED
    BY <1>6, <2>1, ProcessMoves DEF Exit
<1> QED
  BY <1>1, <1>2, <1>3, <1>4, <1>5, <1>6 DEF StartUp

\* Start-up steps keep the types of the requests: those of a process that ends fail.
LEMMA StartUpRequests ==
    ASSUME TypeOK, NEW p \in Procs, StartUp(p) \/ Exit(p)
    PROVE  RequestTypeOK'
<1> USE DEF TypeOK, RequestTypeOK
<1>1. CASE StartUp(p)
  <2>1. req' = req /\ proc[p].pc # "up"
    BY <1>1 DEF StartUp, Boot, Look, Insert, Update, Reread, Step
  <2>2. \A q \in Procs : proc[q].pc = "up" => proc'[q].pc = "up"
    BY <1>1, <2>1 DEF StartUp, Boot, Look, Insert, Update, Reread, Step, ProcTypeOK
  <2>3. \A r \in Requests : req[r].pc \in Over \/ req[r].at \in Procs
    BY DEF Ended, Putting, Creating, Listing, Joining, Over
  <2> QED
    BY <2>1, <2>2, <2>3
<1>2. CASE Exit(p)
  <2> SUFFICES ASSUME NEW r \in Requests
               PROVE  /\ req'[r] \in Ended \cup Putting \cup Creating \cup Listing
                                     \cup Joining
                      /\ req'[r].pc \in Over \/ proc'[req'[r].at].pc = "up"
    BY <1>2 DEF Exit
  <2>1. CASE req[r].pc \notin Over /\ req[r].at = p
    <3>1. req'[r] = [req[r] EXCEPT !.pc = "failed"]
      BY <1>2, <2>1 DEF Exit
    <3> QED
      BY <3>1 DEF Ended, Putting, Creating, Listing, Joining, Over
  <2>2. CASE ~(req[r].pc \notin Over /\ req[r].at = p)
    <3>1. req'[r] = req[r]
      BY <1>2, <2>2 DEF Exit
    <3>2. req[r].pc \in Over \/ req[r].at \in Procs
      BY DEF Ended, Putting, Creating, Listing, Joining, Over
    <3> QED
      BY <1>2, <2>2, <3>1, <3>2 DEF Exit, ProcTypeOK
  <2> QED
    BY <2>1, <2>2
<1> QED
  BY <1>1, <1>2

-----------------------------------------------------------------------------
(* The types of the requests.                                              *)

Request == Ended \cup Putting \cup Creating \cup Listing \cup Joining

\* What a request is, by how far it got.
LEMMA RequestShapes ==
    ASSUME NEW x \in Request
    PROVE  /\ x.pc \in Over \/ x.at \in Procs
           /\ x.pc = "get" => x \in [pc : {"get"}, at : Procs, field : Fields, value : Values]
           /\ x.pc = "put" => x \in [pc : {"put"}, at : Procs, field : Fields, row : GatewayRow]
           /\ x.pc \in {"insert", "fetch", "created"} =>
                x \in [pc : {"insert", "fetch", "created"}, at : Procs, count : 1 .. MaxFleet,
                       made : SUBSET Ids]
           /\ x.pc = "query" => x \in [pc : {"query"}, at : Procs]
           /\ x.pc \in {"sessions", "listed"} =>
                x \in [pc : {"sessions", "listed"}, at : Procs, upto : 0 .. MaxTags,
                       shown : SUBSET Ids, todo : SUBSET Ids, bare : SUBSET Ids,
                       erred : SUBSET Ids]
           /\ x.pc = "join" => x \in [pc : {"join"}, at : Procs, id : Ids]
           /\ [x EXCEPT !.pc = "failed"] \in Request
  BY DEF Request, Ended, Putting, Creating, Listing, Joining, Over

\* A request moves to a state of its type, in a process that is up.
LEMMA RequestMoves ==
    ASSUME RequestTypeOK, proc' = proc, NEW r \in Requests, NEW new \in Request,
           new.pc \in Over \/ proc[new.at].pc = "up", Becomes(r, new)
    PROVE  RequestTypeOK'
  BY DEF RequestTypeOK, Request, Becomes

\* Every arrival keeps the types.
LEMMA ArriveTypes ==
    ASSUME TypeOK, NEW r \in Requests, NEW p \in Procs, Arrive(r, p)
    PROVE  TypeOK'
<1> USE DEF TypeOK, At
<1>1. UNCHANGED <<gatewayVars, tagVars, proc>>
  BY DEF Arrive, PutBegin, CreateBegin, ListBegin, JoinBegin
<1>2. GatewayTypeOK' /\ TagTypeOK' /\ ProcTypeOK'
  BY <1>1 DEF GatewayTypeOK, TagTypeOK, ProcTypeOK, gatewayVars, tagVars
<1>3. CASE PutBegin(r, p)
  <2>1. PICK field \in Fields, value \in Values :
          Becomes(r, [pc |-> "get", at |-> p, field |-> field, value |-> value])
    BY <1>3 DEF PutBegin
  <2>2. [pc |-> "get", at |-> p, field |-> field, value |-> value] \in Request
    BY DEF Request, Putting
  <2> QED
    BY <1>2, <1>3, <2>1, <2>2, RequestMoves DEF PutBegin
<1>4. CASE CreateBegin(r, p)
  <2>1. PICK count \in 1 .. MaxFleet :
          Becomes(r, [pc |-> "insert", at |-> p, count |-> count, made |-> {}])
    BY <1>4 DEF CreateBegin
  <2>2. [pc |-> "insert", at |-> p, count |-> count, made |-> {}] \in Request
    BY DEF Request, Creating
  <2> QED
    BY <1>2, <1>4, <2>1, <2>2, RequestMoves DEF CreateBegin
<1>5. CASE ListBegin(r, p)
  <2>1. [pc |-> "query", at |-> p] \in Request
    BY DEF Request, Listing
  <2> QED
    BY <1>2, <1>5, <2>1, RequestMoves DEF ListBegin
<1>6. ASSUME NEW id \in Ids, JoinBegin(r, p, id) PROVE TypeOK'
  <2>1. [pc |-> "join", at |-> p, id |-> id] \in Request
    BY DEF Request, Joining
  <2> QED
    BY <1>2, <1>6, <2>1, RequestMoves DEF JoinBegin
<1> QED
  BY <1>3, <1>4, <1>5, <1>6 DEF Arrive

\* Every step of a request keeps its type.
LEMMA HandleRequests ==
    ASSUME TypeOK, NEW r \in Requests, Handle(r)
    PROVE  RequestTypeOK'
<1> USE DEF TypeOK, At
<1>1. proc' = proc
  BY DEF Handle, PutGet, PutWrite, InsertTag, FetchTag, Query, AddSession, SaveJoin, Fail
<1>2. req[r] \in Request /\ (req[r].pc \in Over \/ proc[req[r].at].pc = "up")
  BY DEF RequestTypeOK, Request
<1>3. CASE PutGet(r)
  <2>1. req[r].pc = "get" /\ proc[req[r].at].pc = "up"
    BY <1>2, <1>3 DEF PutGet, Over
  <2>2. gateway \in GatewayRow
    BY <1>2, <2>1, RequestShapes DEF GatewayTypeOK, ProcTypeOK, Over
  <2>3. [pc |-> "put", at |-> req[r].at, field |-> req[r].field,
         row |-> [gateway EXCEPT ![req[r].field] = req[r].value]] \in Request
    BY <1>2, <2>1, <2>2, RequestShapes, RowFields DEF Request, Putting
  <2> QED
    BY <1>1, <1>3, <2>1, <2>3, RequestMoves DEF PutGet
<1>4. CASE PutWrite(r) \/ SaveJoin(r)
  <2>1. [pc |-> "done"] \in Request
    BY DEF Request, Ended
  <2> QED
    BY <1>1, <1>4, <2>1, RequestMoves DEF PutWrite, SaveJoin, Over
<1>5. CASE InsertTag(r)
  <2>1. req[r].pc = "insert" /\ proc[req[r].at].pc = "up"
    BY <1>2, <1>5 DEF InsertTag, Over
  <2>2. lastId' \in Ids
    BY <1>5, ProvisioningAssumption DEF InsertTag, TagTypeOK, Ids
  <2>3. [req[r] EXCEPT !.pc = "fetch", !.made = @ \cup {lastId'}] \in Request
    BY <1>2, <2>1, <2>2, RequestShapes DEF Request, Creating
  <2>4. [req[r] EXCEPT !.pc = "fetch", !.made = @ \cup {lastId'}].at = req[r].at
    BY <1>2, <2>1, RequestShapes
  <2> QED
    BY <1>1, <1>5, <2>1, <2>3, <2>4, RequestMoves DEF InsertTag
<1>6. CASE FetchTag(r)
  <2>1. req[r].pc = "fetch" /\ proc[req[r].at].pc = "up"
    BY <1>2, <1>6 DEF FetchTag, Over
  <2>2. \A pc \in {"failed", "insert", "created"} :
          [req[r] EXCEPT !.pc = pc] \in Request /\ [req[r] EXCEPT !.pc = pc].at = req[r].at
    BY <1>2, <2>1, RequestShapes DEF Request, Creating
  <2>3. \E pc \in {"failed", "insert", "created"} : Becomes(r, [req[r] EXCEPT !.pc = pc])
    BY <1>6 DEF FetchTag
  <2> QED
    BY <1>1, <2>1, <2>2, <2>3, RequestMoves
<1>7. CASE Query(r)
  <2>1. req[r].pc = "query" /\ proc[req[r].at].pc = "up" /\ req[r].at \in Procs
    BY <1>2, <1>7, RequestShapes DEF Query, Over
  <2>2. [pc |-> "failed"] \in Request
    BY DEF Request, Ended
  <2>3. DOMAIN tags \in SUBSET Ids /\ lastId \in 0 .. MaxTags
    BY ProvisioningAssumption DEF TagTypeOK, Ids
  <2>4. Shown(r, DOMAIN tags) \in Request /\ Shown(r, DOMAIN tags).at = req[r].at
    BY <2>1, <2>3 DEF Shown, Request, Listing
  <2> QED
    BY <1>1, <1>7, <2>1, <2>2, <2>4, RequestMoves DEF Query, Over
<1>8. ASSUME NEW id \in Ids, AddSession(r, id) PROVE RequestTypeOK'
  <2>1. req[r].pc = "sessions" /\ proc[req[r].at].pc = "up"
    BY <1>2, <1>8 DEF AddSession, Over
  <2>2. PICK pc \in {"sessions", "listed"}, bare \in SUBSET Ids, erred \in SUBSET Ids :
          Becomes(r, [req[r] EXCEPT !.pc = pc, !.todo = @ \ {id}, !.bare = bare,
                                    !.erred = erred])
    <3>1. req[r] \in [pc : {"sessions", "listed"}, at : Procs, upto : 0 .. MaxTags,
                      shown : SUBSET Ids, todo : SUBSET Ids, bare : SUBSET Ids,
                      erred : SUBSET Ids]
      BY <1>2, <2>1, RequestShapes
    <3>2. /\ req[r].bare \in SUBSET Ids /\ req[r].bare \cup {id} \in SUBSET Ids
          /\ req[r].erred \in SUBSET Ids /\ req[r].erred \cup {id} \in SUBSET Ids
      BY <3>1
    <3> QED
      BY <1>8, <2>1, <3>2 DEF AddSession
  <2>3. /\ [req[r] EXCEPT !.pc = pc, !.todo = @ \ {id}, !.bare = bare, !.erred = erred]
              \in Request
        /\ [req[r] EXCEPT !.pc = pc, !.todo = @ \ {id}, !.bare = bare, !.erred = erred].at
              = req[r].at
    BY <1>2, <2>1, RequestShapes DEF Request, Listing
  <2> QED
    BY <1>1, <2>1, <2>2, <2>3, RequestMoves
<1>9. CASE Fail(r)
  <2>1. [req[r] EXCEPT !.pc = "failed"] \in Request
    BY <1>2, RequestShapes
  <2>2. [req[r] EXCEPT !.pc = "failed"].pc = "failed"
    BY <1>2 DEF Request, Ended, Putting, Creating, Listing, Joining
  <2> QED
    BY <1>1, <1>9, <2>1, <2>2, RequestMoves DEF Fail, Over
<1> QED
  BY <1>3, <1>4, <1>5, <1>6, <1>7, <1>8, <1>9 DEF Handle

-----------------------------------------------------------------------------
(* The types of the rows.                                                  *)

\* What With and Without make of a table.
LEMMA Tables ==
    ASSUME NEW f, NEW id, NEW v
    PROVE  /\ DOMAIN With(f, id, v) = DOMAIN f \cup {id} /\ With(f, id, v)[id] = v
           /\ \A i \in DOMAIN f \ {id} : With(f, id, v)[i] = f[i]
           /\ \A S : f \in [DOMAIN f -> S] /\ v \in S
                    => With(f, id, v) \in [DOMAIN f \cup {id} -> S]
           /\ DOMAIN Without(f, id) = DOMAIN f \ {id}
           /\ \A i \in DOMAIN f \ {id} : Without(f, id)[i] = f[i]
           /\ \A S : f \in [DOMAIN f -> S] => Without(f, id) \in [DOMAIN f \ {id} -> S]
  BY DEF With, Without

\* A process that is up has a cipher.
LEMMA UpHasKey ==
    ASSUME TypeOK, NEW p \in Procs, proc[p].pc = "up"
    PROVE  proc[p].key \in Ciphers
  BY DEF TypeOK, ProcTypeOK, Process, Off

\* A request that goes on is in a process that is up.
LEMMA HandledWhileUp ==
    ASSUME TypeOK, NEW r \in Requests, req[r].pc \notin Over
    PROVE  req[r] \in Request /\ req[r].at \in Procs /\ proc[req[r].at].pc = "up"
<1>1. req[r] \in Request
  BY DEF TypeOK, RequestTypeOK, Request
<1> QED
  BY <1>1, RequestShapes DEF TypeOK, RequestTypeOK

\* Requests and deletions keep the types of tags and sessions.
LEMMA RowTypes ==
    ASSUME TypeOK, (\E r \in Requests : Handle(r)) \/ (\E p \in Procs, id \in Ids : Delete(p, id))
    PROVE  TagTypeOK'
<1> USE DEF TypeOK, At
<1>1. ASSUME NEW r \in Requests, Handle(r), ~InsertTag(r), ~SaveJoin(r) PROVE TagTypeOK'
  BY <1>1 DEF Handle, PutGet, PutWrite, FetchTag, Query, AddSession, Fail, TagTypeOK, tagVars
<1>2. ASSUME NEW r \in Requests, InsertTag(r) PROVE TagTypeOK'
  <2>1. proc[req[r].at].key \in Ciphers
    BY <1>2, HandledWhileUp, UpHasKey DEF InsertTag, Over
  <2>2. tags' \in [DOMAIN tags \cup {lastId'} -> Ciphers] /\ DOMAIN tags' = DOMAIN tags \cup {lastId'}
    BY <1>2, <2>1, Tables DEF InsertTag, TagTypeOK
  <2>3. sessions \in [DOMAIN sessions -> Ciphers \cup {None}]
    BY DEF TagTypeOK
  <2>4. /\ DOMAIN sessions' = DOMAIN sessions \cup {lastId'}
        /\ sessions' \in [DOMAIN sessions \cup {lastId'} -> Ciphers \cup {None}]
    BY <1>2, <2>3, Tables DEF InsertTag
  <2>5. lastId' \in 0 .. MaxTags /\ DOMAIN tags' \cup DOMAIN sessions' \subseteq 1 .. lastId'
    BY <1>2, <2>2, <2>4, ProvisioningAssumption DEF InsertTag, TagTypeOK
  <2> QED
    BY <2>2, <2>4, <2>5 DEF TagTypeOK
<1>3. ASSUME NEW r \in Requests, SaveJoin(r) PROVE TagTypeOK'
  <2>1. proc[req[r].at].key \in Ciphers
    BY <1>3, HandledWhileUp, UpHasKey DEF SaveJoin, Over
  <2> QED
    BY <1>3, <2>1 DEF SaveJoin, TagTypeOK
<1>4. ASSUME NEW p \in Procs, NEW id \in Ids, Delete(p, id) PROVE TagTypeOK'
  <2>1. sessions \in [DOMAIN sessions -> Ciphers \cup {None}]
    BY DEF TagTypeOK
  <2>2. DOMAIN tags' = DOMAIN tags \ {id} /\ tags' \in [DOMAIN tags \ {id} -> Ciphers]
    BY <1>4, Tables DEF Delete, TagTypeOK
  <2>3. /\ DOMAIN sessions' = DOMAIN sessions \ {id}
        /\ sessions' \in [DOMAIN sessions \ {id} -> Ciphers \cup {None}]
    BY <1>4, <2>1, Tables DEF Delete
  <2> QED
    BY <1>4, <2>2, <2>3 DEF Delete, TagTypeOK
<1> QED
  BY <1>1, <1>2, <1>3, <1>4

\* Requests keep the types of the gateway row.
LEMMA HandleGateway ==
    ASSUME TypeOK, NEW r \in Requests, Handle(r)
    PROVE  GatewayTypeOK' /\ (gateway = None <=> gateway' = None)
<1> USE DEF TypeOK, At
<1>1. CASE PutGet(r)
  BY <1>1 DEF PutGet, GatewayTypeOK
<1>2. CASE PutWrite(r)
  <2>1. req[r] \in [pc : {"put"}, at : Procs, field : Fields, row : GatewayRow]
        /\ proc[req[r].at].pc = "up"
    BY <1>2, HandledWhileUp, RequestShapes DEF PutWrite, Over
  <2>2. gateway \in GatewayRow /\ asked \in GatewayRow
    BY <2>1 DEF GatewayTypeOK, ProcTypeOK
  <2>3. gateway.eui \in Stored /\ req[r].row[req[r].field] \in Values
    BY <2>1, <2>2 DEF GatewayRow, Fields
  <2>4. gateway' \in GatewayRow /\ asked' \in GatewayRow
    BY <1>2, <2>1, <2>2, <2>3, RowFields DEF PutWrite
  <2> QED
    BY <1>2, <2>2, <2>4, NoneIsNoRow DEF PutWrite, GatewayTypeOK
<1>3. CASE ~PutGet(r) /\ ~PutWrite(r)
  BY <1>3 DEF Handle, InsertTag, FetchTag, Query, AddSession, SaveJoin, Fail, GatewayTypeOK,
              gatewayVars
<1> QED
  BY <1>1, <1>2, <1>3

\* Every step keeps the types.
LEMMA TypeStep == TypeOK /\ [Next]_vars => TypeOK'
<1> SUFFICES ASSUME TypeOK, [Next]_vars PROVE TypeOK'
  OBVIOUS
<1>1. ASSUME NEW p \in Procs, StartUp(p) \/ Exit(p) PROVE TypeOK'
  <2>1. TagTypeOK'
    BY <1>1 DEF StartUp, Boot, Look, Insert, Update, Reread, Exit, TypeOK, TagTypeOK, tagVars
  <2> QED
    BY <1>1, <2>1, StartUpGateway, StartUpProcesses, StartUpRequests DEF TypeOK
<1>2. ASSUME NEW r \in Requests, NEW p \in Procs, Arrive(r, p) PROVE TypeOK'
  BY <1>2, ArriveTypes
<1>3. ASSUME NEW r \in Requests, Handle(r) PROVE TypeOK'
  <2>1. proc' = proc
    BY <1>3 DEF Handle, PutGet, PutWrite, InsertTag, FetchTag, Query, AddSession, SaveJoin, Fail
  <2>2. ProcTypeOK'
    BY <1>3, <2>1, HandleGateway DEF TypeOK, ProcTypeOK
  <2> QED
    BY <1>3, <2>2, HandleRequests, RowTypes, HandleGateway DEF TypeOK
<1>4. ASSUME NEW p \in Procs, NEW id \in Ids, Delete(p, id) PROVE TypeOK'
  <2>1. TagTypeOK'
    BY <1>4, RowTypes
  <2> QED
    BY <1>4, <2>1
       DEF Delete, TypeOK, GatewayTypeOK, ProcTypeOK, RequestTypeOK, gatewayVars
<1>5. CASE UNCHANGED vars
  BY <1>5 DEF vars, gatewayVars, tagVars, TypeOK, GatewayTypeOK, TagTypeOK, ProcTypeOK,
              RequestTypeOK
<1> QED
  BY <1>1, <1>2, <1>3, <1>4, <1>5 DEF Next

\* The rows, the processes and the requests keep their types.
THEOREM ProvisioningTypeCorrect == Spec => []TypeOK
<1>1. Init => TypeOK
  <2> SUFFICES ASSUME Init PROVE TypeOK
    OBVIOUS
  <2>1. GatewayTypeOK /\ ProcTypeOK
    BY DEF Init, GatewayTypeOK, ProcTypeOK, Process, Off
  <2>2. TagTypeOK
    BY ProvisioningAssumption DEF Init, TagTypeOK
  <2>3. RequestTypeOK
    BY DEF Init, RequestTypeOK, Idle, Ended, Over
  <2> QED
    BY <2>1, <2>2, <2>3 DEF TypeOK
<1> QED
  BY <1>1, TypeStep, PTL DEF Spec

-----------------------------------------------------------------------------
(* The gateway row.                                                        *)

\* Updates that do not overlap: one at a time, each with a current row.
PutInv ==
    ~overlap => \A r \in Requests : At(r, "put") =>
        /\ \A q \in Requests : At(q, "put") => q = r
        /\ \A f \in Fields \ {req[r].field} : req[r].row[f] = gateway[f]

RowInv == IdentityAgreed /\ LastWriteStands /\ PutInv

\* Start-up steps keep the row in agreement with the processes and with what was asked.
LEMMA StartUpRow ==
    ASSUME TypeOK, RowInv, NEW p \in Procs, StartUp(p) \/ Exit(p)
    PROVE  RowInv'
<1> USE DEF TypeOK, RowInv, gatewayVars
<1>1. CASE Boot(p) \/ Look(p) \/ Reread(p) \/ Exit(p)
  <2>1. UNCHANGED gatewayVars
    BY <1>1 DEF Boot, Look, Reread, Exit
  <2>2. \A q \in Procs \ {p} : proc'[q] = proc[q]
    BY <1>1 DEF Boot, Look, Reread, Exit, Step, ProcTypeOK
  <2>3. proc'[p].pc = "up" => proc'[p].eui = gateway.eui
    <3>1. CASE Boot(p) \/ Exit(p)
      <4>1. CASE Boot(p)
        BY <4>1 DEF Boot, Step, ProcTypeOK
      <4>2. CASE Exit(p)
        BY <4>2 DEF Exit, ProcTypeOK, Off
      <4> QED
        BY <3>1, <4>1, <4>2
    <3>2. CASE Look(p) \/ Reread(p)
      <4>1. CASE Look(p)
        <5>1. proc[p] \in [pc : {"look"}, key : Ciphers, want : Stored \cup {None},
                           eui : Stored \cup {None}]
          BY <4>1 DEF Look, Step, ProcTypeOK, Process, Off
        <5>2. proc'[p].pc = "up" => proc'[p] = [proc[p] EXCEPT !.pc = "up", !.eui = gateway.eui]
          BY <4>1, <5>1 DEF Look, Step, ProcTypeOK
        <5> QED
          BY <5>1, <5>2
      <4>2. CASE Reread(p)
        <5>1. proc[p] \in [pc : {"reread"}, key : Ciphers, want : Stored \cup {None},
                           eui : Stored \cup {None}]
          BY <4>2 DEF Reread, Step, ProcTypeOK, Process, Off
        <5>2. \/ proc'[p] = [proc[p] EXCEPT !.pc = "up", !.eui = gateway.eui]
              \/ proc'[p].pc = "off"
          BY <4>2 DEF Reread, Step, ProcTypeOK, Off
        <5> QED
          BY <5>1, <5>2
      <4> QED
        BY <3>2, <4>1, <4>2
    <3> QED
      BY <1>1, <3>1, <3>2
  <2>4. IdentityAgreed'
    BY <2>1, <2>2, <2>3 DEF IdentityAgreed
  <2>5. \A r \in Requests : At(r, "put")' => req'[r] = req[r]
    BY <1>1, HandledWhileUp DEF Boot, Look, Reread, Exit, At, RequestTypeOK, Request,
        Ended, Putting, Creating, Listing, Joining
  <2> QED
    BY <2>1, <2>4, <2>5 DEF LastWriteStands, PutInv, At
<1>2. CASE Insert(p)
  <2>1. req' = req /\ UNCHANGED <<renamed, overlap>>
    BY <1>2 DEF Insert
  <2>2. CASE gateway = None
    <3>1. gateway' = asked'
      BY <1>2, <2>2 DEF Insert
    <3>2. \A r \in Requests : ~At(r, "put")
      BY <2>2, HandledWhileUp DEF At, Over, ProcTypeOK
    <3>3. \A q \in Procs : proc'[q].pc # "up"
      BY <1>2, <2>2 DEF Insert, Step, ProcTypeOK, Process, Off
    <3> QED
      BY <2>1, <3>1, <3>2, <3>3 DEF IdentityAgreed, LastWriteStands, PutInv, At
  <2>3. CASE gateway # None
    BY <1>2, <2>1, <2>3
       DEF Insert, Step, Off, IdentityAgreed, LastWriteStands, PutInv, At, ProcTypeOK
  <2> QED
    BY <2>2, <2>3
<1>3. CASE Update(p)
  <2>1. gateway \in GatewayRow /\ asked \in GatewayRow /\ proc[p].want \in Stored
    BY <1>3 DEF Update, Step, GatewayTypeOK, ProcTypeOK, Process, Off
  <2>2. /\ gateway'.eui = proc[p].want /\ asked'.eui = proc[p].want
        /\ \A f \in Fields : gateway'[f] = gateway[f]
        /\ gateway = asked => gateway' = asked'
    BY <1>3, <2>1 DEF Update, GatewayRow, Fields
  <2>3. req' = req /\ overlap' = overlap
    BY <1>3 DEF Update
  <2>4. IdentityAgreed'
    <3>1. \A q \in Procs : proc'[q].pc = "up" => proc[q].pc = "up" /\ proc'[q] = proc[q]
      BY <1>3 DEF Update, Step, ProcTypeOK, Process, Off
    <3>2. ~renamed' => ~renamed /\ gateway'.eui = gateway.eui
      BY <1>3, <2>2 DEF Update, GatewayTypeOK
    <3> QED
      BY <3>1, <3>2 DEF IdentityAgreed
  <2> QED
    BY <2>1, <2>2, <2>3, <2>4, NoneIsNoRow DEF LastWriteStands, PutInv, At
<1> QED
  BY <1>1, <1>2, <1>3 DEF StartUp

\* Writing back a row that differs in one field is writing the field.
LEMMA SettingsAlike ==
    ASSUME NEW g \in GatewayRow, NEW row \in GatewayRow, NEW field \in Fields,
           \A f \in Fields \ {field} : row[f] = g[f]
    PROVE  [row EXCEPT !.eui = g.eui] = [g EXCEPT ![field] = row[field]]
<1>1. CASE field = "region"
  BY <1>1 DEF GatewayRow, Fields
<1>2. CASE field = "sub_band"
  BY <1>2 DEF GatewayRow, Fields
<1> QED
  BY <1>1, <1>2 DEF Fields

\* Requests keep it too: a write leaves the EUI alone, and changes but one field of
\* the row unless another update has come between.
LEMMA HandleRow ==
    ASSUME TypeOK, RowInv, NEW r \in Requests, Handle(r)
    PROVE  RowInv'
<1> USE DEF TypeOK, RowInv, gatewayVars
<1>0. proc' = proc
  BY DEF Handle, PutGet, PutWrite, InsertTag, FetchTag, Query, AddSession, SaveJoin, Fail
<1>1. CASE PutGet(r)
  <2>1. gateway \in GatewayRow /\ req[r].field \in Fields
    BY <1>1, HandledWhileUp, RequestShapes DEF PutGet, At, Over, GatewayTypeOK, ProcTypeOK
  <2>2. \A f \in Fields \ {req[r].field} : [gateway EXCEPT ![req[r].field] = req[r].value][f] = gateway[f]
    BY <2>1 DEF GatewayRow, Fields
  <2>3. UNCHANGED <<gateway, asked, renamed>>
    BY <1>1 DEF PutGet
  <2>4. req'[r].field = req[r].field /\ req'[r].row = [gateway EXCEPT ![req[r].field] = req[r].value]
    BY <1>1 DEF PutGet, Becomes, RequestTypeOK
  <2>5. \A q \in Requests \ {r} : req'[q] = req[q]
    BY <1>1 DEF PutGet, Becomes, RequestTypeOK
  <2>6. overlap' = (overlap \/ \E q \in Requests : At(q, "put"))
    BY <1>1 DEF PutGet
  <2>7. PutInv'
    <3>1. \A q \in Requests \ {r} : At(q, "put")' <=> At(q, "put")
      BY <2>5 DEF At
    <3>2. ASSUME ~overlap', NEW q \in Requests, At(q, "put")' PROVE q = r
      BY <2>6, <3>1, <3>2
    <3>3. \A f \in Fields \ {req'[r].field} : req'[r].row[f] = gateway'[f]
      BY <2>2, <2>3, <2>4
    <3> HIDE DEF TypeOK
    <3> QED
      BY <3>2, <3>3 DEF PutInv
  <2> QED
    BY <1>0, <2>3, <2>6, <2>7 DEF IdentityAgreed, LastWriteStands
<1>2. CASE PutWrite(r)
  <2>1. req[r] \in [pc : {"put"}, at : Procs, field : Fields, row : GatewayRow]
        /\ proc[req[r].at].pc = "up"
    BY <1>2, HandledWhileUp, RequestShapes DEF PutWrite, At, Over
  <2>2. gateway \in GatewayRow /\ asked \in GatewayRow
    BY <2>1 DEF GatewayTypeOK, ProcTypeOK
  <2>0. /\ gateway' = [req[r].row EXCEPT !.eui = gateway.eui]
        /\ asked' = [asked EXCEPT ![req[r].field] = req[r].row[req[r].field]]
        /\ req[r].row \in GatewayRow /\ req[r].field \in Fields
    BY <1>2, <2>1 DEF PutWrite
  <2>3. gateway'.eui = gateway.eui /\ asked'.eui = asked.eui
    <3> HIDE DEF TypeOK
    <3> QED
      BY <2>0, <2>2 DEF GatewayRow, Fields
  <2>4. UNCHANGED <<renamed, overlap>> /\ ~At(r, "put")'
    BY <1>2 DEF PutWrite, Becomes, At, RequestTypeOK
  <2>5. \A q \in Requests \ {r} : req'[q] = req[q]
    BY <1>2 DEF PutWrite, Becomes, RequestTypeOK
  <2>6. ~overlap => gateway' = asked'
    <3> SUFFICES ASSUME ~overlap PROVE gateway' = asked'
      OBVIOUS
    <3>1. gateway = asked /\ \A f \in Fields \ {req[r].field} : req[r].row[f] = gateway[f]
      <4>1. gateway # None /\ At(r, "put")
        BY <1>2, <2>2, NoneIsNoRow DEF PutWrite
      <4> HIDE DEF TypeOK
      <4> QED
        BY <4>1 DEF LastWriteStands, PutInv
    <3> QED
      <4> DEFINE row == req[r].row
                 field == req[r].field
      <4>1. row \in GatewayRow /\ field \in Fields
        BY <2>0
      <4>2. \A f \in Fields \ {field} : row[f] = gateway[f]
        BY <3>1
      <4>3. gateway' = [row EXCEPT !.eui = gateway.eui]
            /\ asked' = [gateway EXCEPT ![field] = row[field]]
        BY <2>0, <3>1
      <4> HIDE DEF TypeOK, row, field
      <4>4. [row EXCEPT !.eui = gateway.eui] = [gateway EXCEPT ![field] = row[field]]
        BY <2>2, <4>1, <4>2, SettingsAlike
      <4> QED
        BY <4>3, <4>4
  <2>7. ~overlap => \A q \in Requests : ~At(q, "put")'
    BY <1>2, <2>4, <2>5 DEF PutInv, PutWrite, At
  <2> QED
    BY <1>0, <2>2, <2>3, <2>4, <2>6, <2>7, NoneIsNoRow
       DEF IdentityAgreed, LastWriteStands, PutInv
<1>3. CASE ~PutGet(r) /\ ~PutWrite(r)
  <2>1. UNCHANGED gatewayVars
    BY <1>3 DEF Handle, InsertTag, FetchTag, Query, AddSession, SaveJoin, Fail
  <2>2. \A q \in Requests : At(q, "put")' => req'[q] = req[q]
    <3>1. req[r] \in Request
      BY DEF RequestTypeOK, Request
    <3>2. \A q \in Requests \ {r} : req'[q] = req[q]
      BY <1>3 DEF Handle, InsertTag, FetchTag, Query, AddSession, SaveJoin, Fail, Becomes,
                  RequestTypeOK
    <3>3. ~At(r, "put")'
      <4> USE DEF Becomes, At, RequestTypeOK
      <4>1. CASE InsertTag(r)
        BY <3>1, <4>1, RequestShapes DEF InsertTag
      <4>2. CASE FetchTag(r)
        BY <3>1, <4>2, RequestShapes DEF FetchTag
      <4>3. CASE Query(r) \/ SaveJoin(r)
        BY <4>3 DEF Query, SaveJoin, Shown
      <4>4. ASSUME NEW id \in Ids, AddSession(r, id) PROVE ~At(r, "put")'
        BY <3>1, <4>4, RequestShapes DEF AddSession
      <4>5. CASE Fail(r)
        BY <3>1, <4>5 DEF Fail, Request, Ended, Putting, Creating, Listing, Joining
      <4> QED
        BY <1>3, <4>1, <4>2, <4>3, <4>4, <4>5 DEF Handle
    <3> QED
      BY <3>2, <3>3
  <2> QED
    BY <1>0, <2>1, <2>2 DEF IdentityAgreed, LastWriteStands, PutInv, At
<1> QED
  BY <1>1, <1>2, <1>3

\* Every step keeps the row in agreement.
LEMMA RowStep == TypeOK /\ RowInv /\ [Next]_vars => RowInv'
<1> SUFFICES ASSUME TypeOK, RowInv, [Next]_vars PROVE RowInv'
  OBVIOUS
<1>1. ASSUME NEW r \in Requests, NEW p \in Procs, Arrive(r, p) PROVE RowInv'
  <2>1. UNCHANGED <<gatewayVars, proc>>
    BY <1>1 DEF Arrive, PutBegin, CreateBegin, ListBegin, JoinBegin
  <2>2. \A q \in Requests \ {r} : req'[q] = req[q]
    BY <1>1 DEF Arrive, PutBegin, CreateBegin, ListBegin, JoinBegin, Becomes, TypeOK,
                RequestTypeOK
  <2>3. ~At(r, "put")'
    BY <1>1 DEF Arrive, PutBegin, CreateBegin, ListBegin, JoinBegin, Becomes, At, TypeOK,
                RequestTypeOK
  <2> QED
    BY <2>1, <2>2, <2>3 DEF RowInv, IdentityAgreed, LastWriteStands, PutInv, At, gatewayVars
<1>2. ASSUME NEW p \in Procs, NEW id \in Ids, Delete(p, id) PROVE RowInv'
  BY <1>2 DEF Delete, RowInv, IdentityAgreed, LastWriteStands, PutInv, At, gatewayVars
<1>3. CASE UNCHANGED vars
  BY <1>3 DEF vars, RowInv, IdentityAgreed, LastWriteStands, PutInv, At, gatewayVars
<1> QED
  BY <1>1, <1>2, <1>3, StartUpRow, HandleRow DEF Next

\* The row agrees with processes and requests in every reachable state.
LEMMA RowAlways == Spec => []RowInv
<1>1. Init => RowInv
  BY DEF Init, RowInv, IdentityAgreed, LastWriteStands, PutInv, At, Off, Idle
<1> QED
  BY <1>1, RowStep, ProvisioningTypeCorrect, PTL DEF Spec

\* Whoever serves does so under the stored EUI, unless that was changed.
THEOREM ProvisioningIdentityAgreed == Spec => []IdentityAgreed
  BY RowAlways, PTL DEF RowInv

\* The row holds what was asked last, unless two updates overlapped.
THEOREM ProvisioningLastWriteStands == Spec => []LastWriteStands
  BY RowAlways, PTL DEF RowInv

-----------------------------------------------------------------------------
(* Tags, sessions, and the requests that hold their ids.                   *)

JoinOf(q) == At(q, "join") =>
    /\ req[q].id <= lastId
    /\ req[q].id \in DOMAIN tags => tags[req[q].id] = proc[req[q].at].key

\* What a list has read stays readable while it goes on.
ListOf(q) == req[q].pc \in {"sessions", "listed"} =>
    /\ req[q].upto <= lastId
    /\ \A i \in req[q].shown : i <= req[q].upto
    /\ req[q].todo \subseteq req[q].shown /\ req[q].bare \subseteq req[q].shown
    /\ \A i \in DOMAIN tags : i <= req[q].upto => i \in req[q].shown
    /\ req[q].bare \cap DOMAIN tags \subseteq req[q].erred
    /\ At(q, "sessions") => \A i \in req[q].shown \cap DOMAIN tags :
                               tags[i] = proc[req[q].at].key

TableInv ==
    /\ SessionPerTag /\ SecretsTogether
    /\ \A q \in Requests : JoinOf(q) /\ ListOf(q)

\* Tags stay what they are, and a new one has a new id.
TagsKept ==
    /\ lastId <= lastId'
    /\ \A i \in DOMAIN tags' : i > lastId \/ (i \in DOMAIN tags /\ tags'[i] = tags[i])

\* Every step keeps the tags there are.
LEMMA StepKeepsTags == TypeOK /\ [Next]_vars => TagsKept
<1> SUFFICES ASSUME TypeOK, [Next]_vars PROVE TagsKept
  OBVIOUS
<1> USE DEF TagsKept, tagVars
<1>0. lastId \in Nat
  BY ProvisioningAssumption DEF TypeOK, TagTypeOK
<1>1. ASSUME NEW r \in Requests, InsertTag(r) PROVE TagsKept
  <2>1. lastId' = lastId + 1 /\ tags' = With(tags, lastId', proc[req[r].at].key)
    BY <1>1 DEF InsertTag
  <2>2. DOMAIN tags' = DOMAIN tags \cup {lastId'}
    BY <2>1, Tables
  <2>3. \A i \in DOMAIN tags : i # lastId' => tags'[i] = tags[i]
    BY <2>1 DEF With
  <2> QED
    BY <1>0, <2>1, <2>2, <2>3
<1>2. ASSUME NEW p \in Procs, NEW id \in Ids, Delete(p, id) PROVE TagsKept
  <2>1. lastId' = lastId /\ tags' = Without(tags, id)
    BY <1>2 DEF Delete
  <2>2. DOMAIN tags' = DOMAIN tags \ {id}
    BY <2>1, Tables
  <2>3. \A i \in DOMAIN tags \ {id} : tags'[i] = tags[i]
    BY <2>1 DEF Without
  <2> QED
    BY <1>0, <2>1, <2>2, <2>3
<1>3. ASSUME tags' = tags, lastId' = lastId PROVE TagsKept
  BY <1>0, <1>3
<1>4. ASSUME NEW p \in Procs, StartUp(p) \/ Exit(p) PROVE TagsKept
  BY <1>3, <1>4 DEF StartUp, Boot, Look, Insert, Update, Reread, Exit
<1>5. ASSUME NEW r \in Requests, NEW p \in Procs, Arrive(r, p) PROVE TagsKept
  BY <1>3, <1>5 DEF Arrive, PutBegin, CreateBegin, ListBegin, JoinBegin
<1>6. ASSUME NEW r \in Requests, Handle(r) PROVE TagsKept
  BY <1>1, <1>3, <1>6
     DEF Handle, PutGet, PutWrite, FetchTag, Query, AddSession, SaveJoin, Fail
<1>7. CASE UNCHANGED vars
  BY <1>3, <1>7 DEF vars
<1> QED
  BY <1>2, <1>4, <1>5, <1>6, <1>7 DEF Next

\* A request that does not move keeps what it holds.
LEMMA HeldKept ==
    ASSUME TypeOK, TagsKept, TagTypeOK', NEW q \in Requests, JoinOf(q), ListOf(q),
           req'[q] = req[q],
           req[q].pc \notin Over => proc'[req[q].at].key = proc[req[q].at].key
    PROVE  JoinOf(q)' /\ ListOf(q)'
<1>1. req[q] \in Request /\ lastId \in Nat /\ lastId' \in Nat
  BY ProvisioningAssumption DEF TypeOK, RequestTypeOK, TagTypeOK, Request
<1>2. JoinOf(q)'
  <2> SUFFICES ASSUME At(q, "join") PROVE JoinOf(q)'
    BY DEF JoinOf, At
  <2>1. req[q] \in [pc : {"join"}, at : Procs, id : Ids]
    BY <1>1, RequestShapes DEF At
  <2>2. req[q].id \in Nat /\ req[q].pc \notin Over
    BY <2>1, ProvisioningAssumption DEF Ids, Over
  <2> QED
    BY <1>1, <2>2 DEF JoinOf, At, TagsKept
<1>3. ListOf(q)'
  <2> SUFFICES ASSUME req[q].pc \in {"sessions", "listed"} PROVE ListOf(q)'
    BY DEF ListOf
  <2>1. req[q] \in [pc : {"sessions", "listed"}, at : Procs, upto : 0 .. MaxTags,
                    shown : SUBSET Ids, todo : SUBSET Ids, bare : SUBSET Ids,
                    erred : SUBSET Ids]
    BY <1>1, RequestShapes
  <2>2. req[q].upto \in Nat /\ \A i \in req[q].shown : i \in Nat
    BY <2>1, ProvisioningAssumption DEF Ids
  <2>3. DOMAIN tags' \subseteq Nat
    BY <1>1 DEF TagTypeOK
  <2>4. req[q].upto <= lastId /\ req[q].upto <= lastId'
    BY <1>1, <2>2 DEF ListOf, TagsKept
  <2>5. \A i \in DOMAIN tags' : i <= req[q].upto => i \in DOMAIN tags /\ tags'[i] = tags[i]
    BY <1>1, <2>2, <2>3, <2>4 DEF TagsKept
  <2>6. At(q, "sessions") => req[q].pc \notin Over
    BY DEF At, Over
  <2> QED
    BY <2>4, <2>5, <2>6 DEF ListOf, At
<1> QED
  BY <1>2, <1>3

\* Requests and deletions keep a session for every tag, sealed as the tag is.
LEMMA SessionsStep ==
    ASSUME TypeOK, TableInv,
           (\E r \in Requests : Handle(r)) \/ (\E p \in Procs, id \in Ids : Delete(p, id))
    PROVE  SessionPerTag' /\ SecretsTogether'
<1> USE DEF TableInv, SessionPerTag, SecretsTogether
<1>1. ASSUME NEW r \in Requests, Handle(r), ~InsertTag(r), ~SaveJoin(r)
      PROVE  SessionPerTag' /\ SecretsTogether'
  BY <1>1 DEF Handle, PutGet, PutWrite, FetchTag, Query, AddSession, Fail, tagVars
<1>2. ASSUME NEW r \in Requests, InsertTag(r) PROVE SessionPerTag' /\ SecretsTogether'
  <2>1. /\ tags' = With(tags, lastId', proc[req[r].at].key)
        /\ sessions' = With(sessions, lastId', None)
    BY <1>2 DEF InsertTag
  <2>2. DOMAIN tags' = DOMAIN tags \cup {lastId'} /\ DOMAIN sessions' = DOMAIN sessions \cup {lastId'}
    BY <2>1, Tables
  <2>3. \A i \in DOMAIN sessions : i # lastId' => sessions'[i] = sessions[i] /\ tags'[i] = tags[i]
    BY <2>1 DEF With
  <2>4. sessions'[lastId'] = None
    BY <2>1 DEF With
  <2> QED
    BY <2>2, <2>3, <2>4
<1>3. ASSUME NEW r \in Requests, SaveJoin(r) PROVE SessionPerTag' /\ SecretsTogether'
  <2>1. JoinOf(r) /\ tags' = tags
    BY <1>3 DEF SaveJoin
  <2>2. DOMAIN sessions' = DOMAIN sessions
    BY <1>3 DEF SaveJoin
  <2>3. \A i \in DOMAIN sessions : sessions'[i] = sessions[i] \/ (i = req[r].id /\ sessions'[i] = proc[req[r].at].key)
    BY <1>3 DEF SaveJoin
  <2> QED
    BY <1>3, <2>1, <2>2, <2>3 DEF JoinOf, SaveJoin
<1>4. ASSUME NEW p \in Procs, NEW id \in Ids, Delete(p, id)
      PROVE  SessionPerTag' /\ SecretsTogether'
  <2>1. tags' = Without(tags, id) /\ sessions' = Without(sessions, id)
    BY <1>4 DEF Delete
  <2>2. DOMAIN tags' = DOMAIN tags \ {id} /\ DOMAIN sessions' = DOMAIN sessions \ {id}
    BY <2>1, Tables
  <2>3. \A i \in DOMAIN sessions \ {id} : sessions'[i] = sessions[i] /\ tags'[i] = tags[i]
    BY <2>1 DEF Without
  <2> QED
    BY <2>2, <2>3
<1> QED
  BY <1>1, <1>2, <1>3, <1>4

\* A request that moves holds the right ids.
LEMMA MovedHolds ==
    ASSUME TypeOK, TableInv, NEW r \in Requests, Handle(r)
    PROVE  JoinOf(r)' /\ ListOf(r)'
<1> USE DEF At, Becomes
<1>0. req[r] \in Request /\ req \in [Requests -> Request] /\ proc' = proc
  BY DEF TypeOK, RequestTypeOK, Request, Handle, PutGet, PutWrite, InsertTag, FetchTag, Query,
         AddSession, SaveJoin, Fail
<1>1. CASE PutGet(r) \/ PutWrite(r) \/ SaveJoin(r)
  BY <1>0, <1>1 DEF PutGet, PutWrite, SaveJoin, JoinOf, ListOf
<1>2. CASE InsertTag(r)
  BY <1>0, <1>2, RequestShapes DEF InsertTag, JoinOf, ListOf
<1>3. CASE FetchTag(r)
  BY <1>0, <1>3, RequestShapes DEF FetchTag, JoinOf, ListOf
<1>4. CASE Fail(r)
  <2>1. req'[r].pc = "failed"
    BY <1>0, <1>4 DEF Fail, Request, Ended, Putting, Creating, Listing, Joining
  <2> QED
    BY <2>1 DEF JoinOf, ListOf
<1>5. CASE Query(r)
  <2>1. UNCHANGED <<tags, lastId>> /\ DOMAIN tags \subseteq 1 .. lastId /\ lastId \in Nat
    BY <1>5, ProvisioningAssumption DEF Query, tagVars, TypeOK, TagTypeOK
  <2>2. CASE \A i \in DOMAIN tags : Opened(r, tags[i])
    <3>1. req'[r] = Shown(r, DOMAIN tags)
      BY <1>0, <1>5, <2>2 DEF Query
    <3> QED
      BY <1>0, <2>1, <2>2, <3>1 DEF JoinOf, ListOf, Shown, Opened, Opens
  <2>3. CASE ~\A i \in DOMAIN tags : Opened(r, tags[i])
    BY <1>0, <1>5, <2>3 DEF Query, JoinOf, ListOf
  <2> QED
    BY <2>2, <2>3
<1>6. ASSUME NEW id \in Ids, AddSession(r, id) PROVE JoinOf(r)' /\ ListOf(r)'
  <2>1. req[r] \in [pc : {"sessions", "listed"}, at : Procs, upto : 0 .. MaxTags,
                    shown : SUBSET Ids, todo : SUBSET Ids, bare : SUBSET Ids,
                    erred : SUBSET Ids]
    BY <1>0, <1>6, RequestShapes DEF AddSession
  <2>2. UNCHANGED tagVars /\ ListOf(r) /\ id \in req[r].todo /\ req[r].pc = "sessions"
    BY <1>6 DEF AddSession, TableInv
  <2>3. id \in DOMAIN tags => Readable(r, id)
    BY <2>2 DEF Readable, TableInv, ListOf, SessionPerTag, SecretsTogether, Opened, Opens
  <2>4. /\ req'[r].pc \in {"sessions", "listed"} /\ req'[r].at = req[r].at
        /\ req'[r].upto = req[r].upto /\ req'[r].shown = req[r].shown
        /\ req'[r].todo \subseteq req[r].todo
        /\ req'[r].bare \subseteq req[r].bare \cup {id} /\ req[r].erred \subseteq req'[r].erred
        /\ id \in DOMAIN tags => \/ req'[r].bare = req[r].bare
                                 \/ id \in req'[r].erred
    BY <1>0, <1>6, <2>1, <2>3 DEF AddSession
  <2> QED
    BY <1>0, <2>2, <2>4 DEF JoinOf, ListOf, tagVars
<1> QED
  BY <1>1, <1>2, <1>3, <1>4, <1>5, <1>6 DEF Handle

\* Every step keeps the tables and what the requests hold of them.
LEMMA TableStep == TypeOK /\ TableInv /\ [Next]_vars => TableInv'
<1> SUFFICES ASSUME TypeOK, TableInv, [Next]_vars PROVE TableInv'
  OBVIOUS
<1>0. TagsKept /\ TagTypeOK'
  BY StepKeepsTags, TypeStep DEF TypeOK
<1>1. \A q \in Requests : JoinOf(q) /\ ListOf(q) /\ req[q] \in Request
                            /\ (req[q].pc \notin Over => req[q].at \in Procs)
  BY RequestShapes DEF TableInv, TypeOK, RequestTypeOK, Request
<1>2. ASSUME NEW p \in Procs, StartUp(p) PROVE TableInv'
  <2>1. UNCHANGED <<tagVars, req>> /\ proc[p].pc # "up"
        /\ \A q \in Procs \ {p} : proc'[q] = proc[q]
    BY <1>2 DEF StartUp, Boot, Look, Insert, Update, Reread, Step, TypeOK, ProcTypeOK
  <2>2. \A q \in Requests : req[q].pc \notin Over => proc'[req[q].at] = proc[req[q].at]
    BY <1>1, <2>1 DEF TypeOK, RequestTypeOK
  <2>3. \A q \in Requests : JoinOf(q)' /\ ListOf(q)'
    BY <1>0, <1>1, <2>1, <2>2, HeldKept
  <2> QED
    BY <2>1, <2>3 DEF TableInv, SessionPerTag, SecretsTogether, tagVars
<1>3. ASSUME NEW p \in Procs, Exit(p) PROVE TableInv'
  <2>1. UNCHANGED tagVars /\ \A q \in Procs \ {p} : proc'[q] = proc[q]
    BY <1>3 DEF Exit, TypeOK, ProcTypeOK
  <2>2. ASSUME NEW q \in Requests PROVE JoinOf(q)' /\ ListOf(q)'
    <3>1. CASE req[q].pc \notin Over /\ req[q].at = p
      <4>1. req'[q].pc = "failed"
        BY <1>1, <1>3, <3>1 DEF Exit, Request, Ended, Putting, Creating, Listing, Joining
      <4> QED
        BY <4>1 DEF JoinOf, ListOf, At
    <3>2. CASE ~(req[q].pc \notin Over /\ req[q].at = p)
      <4>1. req'[q] = req[q]
        BY <1>3, <3>2 DEF Exit
      <4> QED
        BY <1>0, <1>1, <2>1, <3>2, <4>1, HeldKept
    <3> QED
      BY <3>1, <3>2
  <2> QED
    BY <2>1, <2>2 DEF TableInv, SessionPerTag, SecretsTogether, tagVars
<1>4. ASSUME NEW r \in Requests, NEW p \in Procs, Arrive(r, p) PROVE TableInv'
  <2>1. UNCHANGED <<tagVars, proc>>
    BY <1>4 DEF Arrive, PutBegin, CreateBegin, ListBegin, JoinBegin
  <2>2. \A q \in Requests \ {r} : req'[q] = req[q]
    BY <1>4 DEF Arrive, PutBegin, CreateBegin, ListBegin, JoinBegin, Becomes, TypeOK,
                RequestTypeOK
  <2>3. \A q \in Requests \ {r} : JoinOf(q)' /\ ListOf(q)'
    BY <1>0, <1>1, <2>1, <2>2, HeldKept
  <2>4. JoinOf(r)' /\ ListOf(r)'
    <3> USE DEF Becomes, At, TypeOK, RequestTypeOK, JoinOf, ListOf
    <3>1. CASE PutBegin(r, p) \/ CreateBegin(r, p) \/ ListBegin(r, p)
      BY <3>1 DEF PutBegin, CreateBegin, ListBegin
    <3>2. ASSUME NEW id \in Ids, JoinBegin(r, p, id) PROVE JoinOf(r)' /\ ListOf(r)'
      <4>1. req'[r] = [pc |-> "join", at |-> p, id |-> id] /\ UNCHANGED <<tags, lastId, proc>>
        BY <3>2 DEF JoinBegin, tagVars
      <4>2. id <= lastId /\ tags[id] = proc[p].key
        BY <3>2, ProvisioningAssumption DEF JoinBegin, Opens, TagTypeOK
      <4> QED
        BY <4>1, <4>2
    <3> QED
      BY <1>4, <3>1, <3>2 DEF Arrive
  <2> QED
    BY <2>1, <2>3, <2>4 DEF TableInv, SessionPerTag, SecretsTogether, tagVars
<1>5. ASSUME NEW r \in Requests, Handle(r) PROVE TableInv'
  <2>1. proc' = proc /\ \A q \in Requests \ {r} : req'[q] = req[q]
    BY <1>5 DEF Handle, PutGet, PutWrite, InsertTag, FetchTag, Query, AddSession, SaveJoin,
                Fail, Becomes, TypeOK, RequestTypeOK
  <2>2. \A q \in Requests \ {r} : JoinOf(q)' /\ ListOf(q)'
    BY <1>0, <1>1, <2>1, HeldKept
  <2> QED
    BY <1>5, <2>2, SessionsStep, MovedHolds DEF TableInv
<1>6. ASSUME NEW p \in Procs, NEW id \in Ids, Delete(p, id) PROVE TableInv'
  <2>1. UNCHANGED <<proc, req>>
    BY <1>6 DEF Delete
  <2>2. \A q \in Requests : JoinOf(q)' /\ ListOf(q)'
    BY <1>0, <1>1, <2>1, HeldKept
  <2> QED
    BY <1>6, <2>2, SessionsStep DEF TableInv
<1>7. CASE UNCHANGED vars
  BY <1>7 DEF vars, tagVars, TableInv, SessionPerTag, SecretsTogether, JoinOf, ListOf, At
<1> QED
  BY <1>2, <1>3, <1>4, <1>5, <1>6, <1>7 DEF Next

\* So do the tables of tags and sessions.
LEMMA TableAlways == Spec => []TableInv
<1>1. Init => TableInv
  BY DEF Init, TableInv, SessionPerTag, SecretsTogether, JoinOf, ListOf, At, Idle
<1> QED
  BY <1>1, TableStep, ProvisioningTypeCorrect, PTL DEF Spec

\* Tags and sessions are 1:1 in every state a crash can leave.
THEOREM ProvisioningSessionPerTag == Spec => []SessionPerTag
  BY TableAlways, PTL DEF TableInv

\* Session keys are sealed as the AppKey is.
THEOREM ProvisioningSecretsTogether == Spec => []SecretsTogether
  BY TableAlways, PTL DEF TableInv

\* A list misses no tag that stays, and shows it with its session unless the statement
\* that reads the session failed in itself.
THEOREM ProvisioningListingWhole == Spec => []ListingWhole
<1>1. TableInv => ListingWhole
  BY DEF TableInv, ListOf, ListingWhole
<1> QED
  BY <1>1, TableAlways, PTL

-----------------------------------------------------------------------------
(* Fleets.                                                                 *)

\* What a creation has made so far, and how much is left.
MadeOf(q) == q \in Creations =>
    /\ \A i \in req[q].made : i \in Nat /\ i <= lastId
    /\ IsFiniteSet(req[q].made)
    /\ At(q, "insert") => Cardinality(req[q].made) < req[q].count
    /\ At(q, "fetch") => Cardinality(req[q].made) <= req[q].count
    /\ At(q, "created") => Cardinality(req[q].made) = req[q].count

FleetInv == CreatedOnce /\ \A q \in Requests : MadeOf(q)

\* A record without a list of made tags is no creation.
LEMMA CreationShape ==
    ASSUME NEW x \in Request
    PROVE  /\ "made" \in DOMAIN x <=> x \in Creating
           /\ x.pc \in {"insert", "fetch", "created"} => x \in Creating
  BY DEF Request, Ended, Putting, Creating, Listing, Joining

\* Requests that make nothing keep the fleets.
LEMMA FleetsKept ==
    ASSUME TypeOK, RequestTypeOK', FleetInv, lastId' = lastId,
           \A q \in Requests : \/ req'[q] = req[q]
                                \/ req'[q] = [req[q] EXCEPT !.pc = "failed"]
                                \/ "made" \notin DOMAIN req'[q]
    PROVE  FleetInv'
<1>1. \A q \in Requests : req[q] \in Request /\ req'[q] \in Request
  BY DEF TypeOK, RequestTypeOK, Request
<1>2. ASSUME NEW q \in Requests, q \in Creations'
      PROVE  /\ q \in Creations /\ req'[q].made = req[q].made
             /\ req'[q].count = req[q].count /\ req'[q].pc \in {req[q].pc, "failed"}
  <2>1. \/ req'[q] = req[q] \/ req'[q] = [req[q] EXCEPT !.pc = "failed"]
    BY <1>2 DEF Creations
  <2> QED
    BY <1>1, <1>2, <2>1, CreationShape DEF Creations, Creating
<1> QED
  BY <1>2 DEF FleetInv, CreatedOnce, MadeOf, At, Creations

\* Making a tag and looking it up again keeps the fleets: the id is a new one.
LEMMA FleetsGrow ==
    ASSUME TypeOK, RequestTypeOK', FleetInv, NEW r \in Requests, InsertTag(r) \/ FetchTag(r)
    PROVE  FleetInv'
<1> DEFINE made == req[r].made
<1>1. req[r] \in Request /\ req'[r] \in Request /\ req \in [Requests -> Request]
  BY DEF TypeOK, RequestTypeOK, Request
<1>2. req[r] \in Creating /\ r \in Creations
  BY <1>1, CreationShape DEF InsertTag, FetchTag, At, Creations
<1>3. lastId \in Nat /\ req[r].count \in Nat
  BY <1>2, ProvisioningAssumption DEF TypeOK, TagTypeOK, Creating
<1>4. \A q \in Requests \ {r} : req'[q] = req[q]
  BY <1>1 DEF InsertTag, FetchTag, Becomes
<1>5. IsFiniteSet(made) /\ \A i \in made : i \in Nat /\ i <= lastId
  BY <1>2 DEF FleetInv, MadeOf
<1>6. Cardinality(made) \in Nat
  BY <1>5, FS_CardinalityType
<1>7. CASE InsertTag(r)
  <2>1. /\ req'[r].made = made \cup {lastId'} /\ req'[r].count = req[r].count
        /\ req'[r].pc = "fetch" /\ lastId' = lastId + 1 /\ req[r].pc = "insert"
    BY <1>1, <1>2, <1>7 DEF InsertTag, Becomes, At, Creating
  <2>2. lastId' \notin made /\ \A q \in Creations : lastId' \notin req[q].made
    BY <1>3, <1>5, <2>1 DEF FleetInv, MadeOf, Creations
  <2>3. IsFiniteSet(made \cup {lastId'}) /\ Cardinality(made \cup {lastId'}) = Cardinality(made) + 1
    BY <1>5, <2>2, FS_AddElement
  <2>4. Cardinality(made) < req[r].count
    BY <1>2, <2>1 DEF FleetInv, MadeOf, At
  <2>5. MadeOf(r)'
    BY <1>3, <1>5, <1>6, <2>1, <2>3, <2>4 DEF MadeOf, At
  <2>6. \A q \in Requests \ {r} : MadeOf(q)'
    BY <1>3, <1>4, <2>1 DEF FleetInv, MadeOf, At, Creations
  <2>7. \A q \in Requests \ {r} : q \in Creations' <=> q \in Creations
    BY <1>4 DEF Creations
  <2>8. CreatedOnce'
    <3>1. ASSUME NEW q \in Creations', NEW s \in Creations', q # s
          PROVE  req'[q].made \cap req'[s].made = {}
      <4>1. q \in Creations /\ s \in Creations
        BY <1>2, <2>7, <3>1 DEF Creations
      <4>2. req[q].made \cap req[s].made = {}
        BY <3>1, <4>1 DEF FleetInv, CreatedOnce
      <4>3. CASE q = r
        BY <1>4, <2>1, <2>2, <3>1, <4>1, <4>2, <4>3 DEF Creations
      <4>4. CASE s = r
        BY <1>4, <2>1, <2>2, <3>1, <4>1, <4>2, <4>4 DEF Creations
      <4>5. CASE q # r /\ s # r
        BY <1>4, <4>1, <4>2, <4>5 DEF Creations
      <4> QED
        BY <4>3, <4>4, <4>5
    <3>2. \A q \in Creations' : At(q, "created")' => Cardinality(req'[q].made) = req'[q].count
      BY <2>1, <2>5, <2>6 DEF MadeOf, Creations, At
    <3> QED
      BY <3>1, <3>2 DEF CreatedOnce
  <2> QED
    BY <2>5, <2>6, <2>8 DEF FleetInv
<1>8. CASE FetchTag(r)
  <2>1. /\ req'[r].made = made /\ req'[r].count = req[r].count /\ req[r].pc = "fetch"
        /\ lastId' = lastId
        /\ \/ req'[r].pc = "failed"
           \/ req'[r].pc = "insert" /\ Cardinality(made) < req[r].count
           \/ req'[r].pc = "created" /\ ~(Cardinality(made) < req[r].count)
    BY <1>1, <1>2, <1>8 DEF FetchTag, Becomes, At, Creating, tagVars
  <2>2. Cardinality(made) <= req[r].count
    BY <1>2, <2>1 DEF FleetInv, MadeOf, At
  <2>3. MadeOf(r)'
    BY <1>3, <1>5, <1>6, <2>1, <2>2 DEF MadeOf, At
  <2>4. \A q \in Requests \ {r} : MadeOf(q)'
    BY <1>4, <2>1 DEF FleetInv, MadeOf, At, Creations
  <2>5. \A q \in Requests \ {r} : q \in Creations' <=> q \in Creations
    BY <1>4 DEF Creations
  <2>6. CreatedOnce'
    <3>1. \A q \in Creations' : q \in Creations /\ req'[q].made = req[q].made
      BY <1>2, <1>4, <2>1, <2>5 DEF Creations
    <3>2. \A q, s \in Creations' : q # s => req'[q].made \cap req'[s].made = {}
      BY <3>1 DEF FleetInv, CreatedOnce
    <3>3. \A q \in Creations' : At(q, "created")' => Cardinality(req'[q].made) = req'[q].count
      BY <2>3, <2>4 DEF MadeOf, Creations, At
    <3> QED
      BY <3>2, <3>3 DEF CreatedOnce
  <2> QED
    BY <2>3, <2>4, <2>6 DEF FleetInv
<1> QED
  BY <1>7, <1>8

\* Every step keeps the fleets.
LEMMA FleetStep == TypeOK /\ FleetInv /\ [Next]_vars => FleetInv'
<1> SUFFICES ASSUME TypeOK, FleetInv, [Next]_vars PROVE FleetInv'
  OBVIOUS
<1>0. RequestTypeOK' /\ req \in [Requests -> Request]
  BY TypeStep DEF TypeOK, RequestTypeOK, Request
<1>1. ASSUME NEW p \in Procs, StartUp(p) PROVE FleetInv'
  BY <1>0, <1>1, FleetsKept DEF StartUp, Boot, Look, Insert, Update, Reread, tagVars
<1>2. ASSUME NEW p \in Procs, Exit(p) PROVE FleetInv'
  <2>1. \A q \in Requests : req'[q] = req[q] \/ req'[q] = [req[q] EXCEPT !.pc = "failed"]
    BY <1>2 DEF Exit
  <2> QED
    BY <1>0, <1>2, <2>1, FleetsKept DEF Exit, tagVars
<1>3. ASSUME NEW r \in Requests, NEW p \in Procs, Arrive(r, p) PROVE FleetInv'
  <2>1. \A q \in Requests \ {r} : req'[q] = req[q]
    BY <1>0, <1>3 DEF Arrive, PutBegin, CreateBegin, ListBegin, JoinBegin, Becomes
  <2>2. UNCHANGED tagVars
    BY <1>3 DEF Arrive, PutBegin, CreateBegin, ListBegin, JoinBegin
  <2>3. CASE "made" \notin DOMAIN req'[r]
    BY <1>0, <2>1, <2>2, <2>3, FleetsKept DEF tagVars
  <2>4. CASE CreateBegin(r, p)
    <3>1. PICK count \in 1 .. MaxFleet :
            req'[r] = [pc |-> "insert", at |-> p, count |-> count, made |-> {}]
      BY <1>0, <2>4 DEF CreateBegin, Becomes
    <3>2. MadeOf(r)'
      BY <3>1, FS_EmptySet, ProvisioningAssumption DEF MadeOf, At
    <3>3. \A q \in Requests \ {r} : MadeOf(q)' /\ (q \in Creations' <=> q \in Creations)
      BY <2>1, <2>2 DEF FleetInv, MadeOf, At, Creations, tagVars
    <3>4. CreatedOnce'
      <4>1. \A q \in Creations' : q = r \/ (q \in Creations /\ req'[q] = req[q])
        BY <2>1, <3>3 DEF Creations
      <4>2. req'[r].made = {} /\ ~At(r, "created")'
        BY <3>1 DEF At
      <4> QED
        BY <4>1, <4>2 DEF FleetInv, CreatedOnce, At
    <3> QED
      BY <3>2, <3>3, <3>4 DEF FleetInv
  <2>5. CASE ~CreateBegin(r, p)
    <3>1. "made" \notin DOMAIN req'[r]
      BY <1>0, <1>3, <2>5 DEF Arrive, PutBegin, ListBegin, JoinBegin, Becomes
    <3> QED
      BY <2>3, <3>1
  <2> QED
    BY <2>4, <2>5
<1>4. ASSUME NEW r \in Requests, Handle(r) PROVE FleetInv'
  <2>1. CASE InsertTag(r) \/ FetchTag(r)
    BY <1>0, <2>1, FleetsGrow
  <2>2. CASE Fail(r)
    BY <1>0, <2>2, FleetsKept DEF Fail, Becomes, tagVars
  <2>3. CASE ~InsertTag(r) /\ ~FetchTag(r) /\ ~Fail(r)
    <3>1. \A q \in Requests \ {r} : req'[q] = req[q]
      BY <1>0, <1>4, <2>3
         DEF Handle, PutGet, PutWrite, Query, AddSession, SaveJoin, Becomes
    <3>2. lastId' = lastId
      BY <1>4, <2>3 DEF Handle, PutGet, PutWrite, Query, AddSession, SaveJoin, tagVars
    <3>3. "made" \notin DOMAIN req'[r]
      <4>1. CASE PutGet(r) \/ PutWrite(r) \/ SaveJoin(r) \/ Query(r)
        BY <1>0, <4>1 DEF PutGet, PutWrite, SaveJoin, Query, Shown, Becomes
      <4>2. ASSUME NEW id \in Ids, AddSession(r, id) PROVE "made" \notin DOMAIN req'[r]
        <5>1. req[r] \in [pc : {"sessions", "listed"}, at : Procs, upto : 0 .. MaxTags,
                          shown : SUBSET Ids, todo : SUBSET Ids, bare : SUBSET Ids,
                          erred : SUBSET Ids]
          BY <1>0, <4>2, RequestShapes DEF AddSession, At
        <5>2. DOMAIN req'[r] = DOMAIN req[r]
          BY <1>0, <4>2 DEF AddSession, Becomes
        <5> QED
          BY <5>1, <5>2
      <4> QED
        BY <1>4, <2>3, <4>1, <4>2 DEF Handle
    <3> QED
      BY <1>0, <3>1, <3>2, <3>3, FleetsKept
  <2> QED
    BY <2>1, <2>2, <2>3
<1>5. ASSUME NEW p \in Procs, NEW id \in Ids, Delete(p, id) PROVE FleetInv'
  BY <1>0, <1>5, FleetsKept DEF Delete
<1>6. CASE UNCHANGED vars
  BY <1>0, <1>6, FleetsKept DEF vars, tagVars
<1> QED
  BY <1>1, <1>2, <1>3, <1>4, <1>5, <1>6 DEF Next

\* No two creations get the same id, and a fleet reported as created is complete.
THEOREM ProvisioningCreatedOnce == Spec => []CreatedOnce
<1>1. Init => FleetInv
  BY DEF Init, FleetInv, CreatedOnce, MadeOf, Creations, Idle
<1>2. FleetInv => CreatedOnce
  BY DEF FleetInv
<1> QED
  BY <1>1, <1>2, FleetStep, ProvisioningTypeCorrect, PTL DEF Spec
=============================================================================
