---------------------------- MODULE Provisioning ----------------------------
(***************************************************************************)
(* The database and the processes that share it: cylon serve and cylon     *)
(* gateway-eui start up and settle the gateway's EUI (store/gateway.go,    *)
(* cmd/cylon); the REST API of a running process configures the gateway,   *)
(* creates, lists, deletes and joins tags (api/tags.go,                    *)
(* api/handlers_misc.go, store/tags.go).  Every SQL statement and every    *)
(* transaction is one step; any of them may fail, and a process may die    *)
(* between two of them and come back with another key or configuration.    *)
(*                                                                         *)
(* A protected column is the key it was sealed under, NoKey for plain      *)
(* text; a value is never moved to another row, so the associated data     *)
(* always fits.                                                            *)
(***************************************************************************)
EXTENDS Naturals, FiniteSets

CONSTANTS
    Procs,          \* operating-system processes
    Requests,       \* HTTP requests, each handled once
    EUIs,           \* gateway identities
    Keys,           \* values of CYLON_DB_KEY
    NoKey,          \* no CYLON_DB_KEY
    None,
    Values,         \* values of a field of the gateway's configuration
    Default,        \* the one the schema gives it
    MaxTags,        \* tags ever created
    MaxFleet        \* largest count of a creation

ASSUME ProvisioningAssumption ==
    /\ NoKey \notin Keys /\ None \notin EUIs \cup Keys \cup {NoKey}
    /\ Default \in Values /\ None \notin Values
    /\ MaxTags \in Nat /\ MaxFleet \in Nat \ {0}

VARIABLES
    gateway,    \* the row of the gateway table, or None
    tags,       \* tags: id to the key its app_key is sealed under
    sessions,   \* sessions: id to the key its session keys are sealed under, or None
    lastId,     \* sqlite_sequence: the last id given
    proc,       \* the processes
    req,        \* the requests
    renamed,    \* history: the stored EUI has been changed
    asked,      \* history: what was last asked of each field of the gateway row
    overlap     \* history: two updates of the configuration have overlapped

gatewayVars == <<gateway, renamed, asked, overlap>>
tagVars == <<tags, sessions, lastId>>
vars == <<gatewayVars, tagVars, proc, req>>

Ciphers == Keys \cup {NoKey}

\* EUIs as people write them, and as they are stored.
Texts == EUIs \X {"lower", "upper"}
Stored == EUIs \X {"lower"}
NormalizeEUI(text) == <<text[1], "lower">>

GatewayRow == [eui : Stored, region : Values, sub_band : Values]
Ids == 1 .. MaxTags

ASSUME NoneIsNoRow == None \notin GatewayRow

Off == [pc |-> "off", key |-> None, want |-> None, eui |-> None]
Process == {Off} \cup [pc : {"look", "insert", "update", "reread", "up"}, key : Ciphers,
                       want : Stored \cup {None}, eui : Stored \cup {None}]

\* A request, by what it asks for and how far it got.
Fields == {"region", "sub_band"}
Ended == [pc : {"idle", "failed", "done"}]
Putting == [pc : {"get", "failed"}, at : Procs, field : Fields, value : Values]
               \cup [pc : {"put", "failed"}, at : Procs, field : Fields, row : GatewayRow]
Creating == [pc : {"insert", "fetch", "failed", "created"}, at : Procs,
             count : 1 .. MaxFleet, made : SUBSET Ids]
Listing == [pc : {"query", "failed"}, at : Procs]
               \cup [pc : {"sessions", "failed", "listed"}, at : Procs, upto : 0 .. MaxTags,
                     shown : SUBSET Ids, todo : SUBSET Ids, bare : SUBSET Ids,
                     erred : SUBSET Ids]
Joining == [pc : {"join", "failed"}, at : Procs, id : Ids]

Idle == [pc |-> "idle"]
Over == {"idle", "failed", "done", "created", "listed"}

\* What decodes: Decrypt refuses a plain value when there is a key, a sealed one when
\* there is none, and one sealed under another key.
Opens(key, sealed) == key = sealed

GatewayTypeOK ==
    /\ gateway \in GatewayRow \cup {None} /\ asked \in GatewayRow \cup {None}
    /\ asked = None <=> gateway = None
    /\ renamed \in BOOLEAN /\ overlap \in BOOLEAN

TagTypeOK ==
    /\ lastId \in 0 .. MaxTags
    /\ DOMAIN tags \subseteq 1 .. lastId /\ tags \in [DOMAIN tags -> Ciphers]
    /\ DOMAIN sessions \subseteq 1 .. lastId
    /\ sessions \in [DOMAIN sessions -> Ciphers \cup {None}]

ProcTypeOK ==
    /\ proc \in [Procs -> Process]
    /\ \A p \in Procs : /\ proc[p].pc \in {"update", "reread", "up"} => gateway # None
                        /\ proc[p].pc = "update" => proc[p].want # None

RequestTypeOK ==
    /\ req \in [Requests -> Ended \cup Putting \cup Creating \cup Listing \cup Joining]
    /\ \A r \in Requests : req[r].pc \in Over \/ proc[req[r].at].pc = "up"

TypeOK == GatewayTypeOK /\ TagTypeOK /\ ProcTypeOK /\ RequestTypeOK

Init ==
    /\ gateway = None /\ renamed = FALSE /\ asked = None /\ overlap = FALSE
    /\ tags = <<>> /\ sessions = <<>> /\ lastId = 0
    /\ proc = [p \in Procs |-> Off]
    /\ req = [r \in Requests |-> Idle]

-----------------------------------------------------------------------------
(* Start-up: EnsureEUI, or SetEUI for gateway-eui --set.  A configured EUI *)
(* makes EnsureEUI a SetEUI.                                               *)

Step(p, from, to) == proc[p].pc = from /\ proc' = [proc EXCEPT ![p] = to]

Boot(p) ==
    /\ \E key \in Ciphers, text \in Texts \cup {None} :
        Step(p, "off", [pc |-> "look", key |-> key, eui |-> None,
                        want |-> IF text = None THEN None ELSE NormalizeEUI(text)])
    /\ UNCHANGED <<gatewayVars, tagVars, req>>

\* The Get of SetEUI and of EnsureEUI.
Look(p) ==
    /\ Step(p, "look", CASE gateway = None -> [proc[p] EXCEPT !.pc = "insert"]
                         [] gateway # None /\ proc[p].want # None
                            -> [proc[p] EXCEPT !.pc = "update"]
                         [] OTHER -> [proc[p] EXCEPT !.pc = "up", !.eui = gateway.eui])
    /\ UNCHANGED <<gatewayVars, tagVars, req>>

FreshRow(eui) == [eui |-> eui, region |-> Default, sub_band |-> Default]

\* Mutant: INSERT OR REPLACE.
InsertReplacing(p) ==
    /\ \E eui \in IF proc[p].want = None THEN Stored ELSE {proc[p].want} :
        gateway' = FreshRow(eui) /\ asked' = gateway'
    /\ Step(p, "insert", [proc[p] EXCEPT !.pc = "reread"])
    /\ UNCHANGED <<renamed, overlap, tagVars, req>>

\* create: the row has id 1, so a second INSERT fails, and the start with it.
\* GenerateEUI may give any EUI.
Insert(p) ==
    /\ \/ /\ gateway = None
          /\ \E eui \in IF proc[p].want = None THEN Stored ELSE {proc[p].want} :
                gateway' = FreshRow(eui) /\ asked' = gateway'
          /\ Step(p, "insert", [proc[p] EXCEPT !.pc = "reread"])
       \/ /\ gateway # None
          /\ Step(p, "insert", Off)
          /\ UNCHANGED <<gateway, asked>>
    /\ UNCHANGED <<renamed, overlap, tagVars, req>>

\* The UPDATE of SetEUI.
Update(p) ==
    /\ Step(p, "update", [proc[p] EXCEPT !.pc = "reread"])
    /\ gateway' = [gateway EXCEPT !.eui = proc[p].want]
    /\ asked' = [asked EXCEPT !.eui = proc[p].want]
    /\ renamed' = (renamed \/ gateway.eui # proc[p].want)
    /\ UNCHANGED <<overlap, tagVars, req>>

\* The row is read again: serve runs with what it finds, gateway-eui prints it.
Reread(p) ==
    /\ \/ Step(p, "reread", [proc[p] EXCEPT !.pc = "up", !.eui = gateway.eui])
       \/ Step(p, "reread", Off)
    /\ UNCHANGED <<gatewayVars, tagVars, req>>

\* A statement fails, the process is stopped or dies; its requests die with it.
Exit(p) ==
    /\ proc[p].pc # "off"
    /\ proc' = [proc EXCEPT ![p] = Off]
    /\ req' = [r \in Requests |-> IF req[r].pc \notin Over /\ req[r].at = p
                                  THEN [req[r] EXCEPT !.pc = "failed"] ELSE req[r]]
    /\ UNCHANGED <<gatewayVars, tagVars>>

-----------------------------------------------------------------------------
(* Requests.                                                               *)

At(r, pc) == req[r].pc = pc
Becomes(r, new) == req' = [req EXCEPT ![r] = new]
Opened(r, sealed) == Opens(proc[req[r].at].key, sealed)

\* A statement fails, or the client of the request goes away.  A list that got past its
\* query does not mind (AddSession).
Fail(r) ==
    /\ req[r].pc \notin Over \cup {"sessions"}
    /\ Becomes(r, [req[r] EXCEPT !.pc = "failed"])
    /\ UNCHANGED <<gatewayVars, tagVars, proc>>

\* putGateway.
PutBegin(r, p) ==
    /\ At(r, "idle") /\ proc[p].pc = "up"
    /\ \E field \in Fields, value \in Values :
        Becomes(r, [pc |-> "get", at |-> p, field |-> field, value |-> value])
    /\ UNCHANGED <<gatewayVars, tagVars, proc>>

\* What the request leaves out is filled in from the row.
PutGet(r) ==
    /\ At(r, "get")
    /\ Becomes(r, [pc |-> "put", at |-> req[r].at, field |-> req[r].field,
                   row |-> [gateway EXCEPT ![req[r].field] = req[r].value]])
    /\ overlap' = (overlap \/ \E q \in Requests : At(q, "put"))
    /\ UNCHANGED <<gateway, renamed, asked, tagVars, proc>>

\* Mutant: the whole row is written back.
PutWriteAll(r) ==
    /\ At(r, "put")
    /\ gateway' = req[r].row
    /\ asked' = [asked EXCEPT ![req[r].field] = req[r].row[req[r].field]]
    /\ Becomes(r, [pc |-> "done"])
    /\ UNCHANGED <<renamed, overlap, tagVars, proc>>

\* UpdateConfig.
PutWrite(r) ==
    /\ At(r, "put")
    /\ gateway' = [req[r].row EXCEPT !.eui = gateway.eui]
    /\ asked' = [asked EXCEPT ![req[r].field] = req[r].row[req[r].field]]
    /\ Becomes(r, [pc |-> "done"])
    /\ UNCHANGED <<renamed, overlap, tagVars, proc>>

\* createTags: one tag, or a fleet.
CreateBegin(r, p) ==
    /\ At(r, "idle") /\ proc[p].pc = "up"
    /\ \E count \in 1 .. MaxFleet :
        Becomes(r, [pc |-> "insert", at |-> p, count |-> count, made |-> {}])
    /\ UNCHANGED <<gatewayVars, tagVars, proc>>

With(f, id, value) == [i \in DOMAIN f \cup {id} |-> IF i = id THEN value ELSE f[i]]
Without(f, id) == [i \in DOMAIN f \ {id} |-> f[i]]

\* Mutant: ids without AUTOINCREMENT.
InsertLowId(r) ==
    /\ At(r, "insert")
    /\ \E id \in Ids :
        /\ id \notin DOMAIN tags /\ \A i \in 1 .. id - 1 : i \in DOMAIN tags
        /\ lastId' = IF id > lastId THEN id ELSE lastId
        /\ tags' = With(tags, id, proc[req[r].at].key)
        /\ sessions' = With(sessions, id, None)
        /\ Becomes(r, [req[r] EXCEPT !.pc = "fetch", !.made = @ \cup {id}])
    /\ UNCHANGED <<gatewayVars, proc>>

\* TagRepo.Create: tag and session in one transaction.
InsertTag(r) ==
    /\ At(r, "insert") /\ lastId < MaxTags
    /\ lastId' = lastId + 1
    /\ tags' = With(tags, lastId', proc[req[r].at].key)
    /\ sessions' = With(sessions, lastId', None)
    /\ Becomes(r, [req[r] EXCEPT !.pc = "fetch", !.made = @ \cup {lastId'}])
    /\ UNCHANGED <<gatewayVars, proc>>

Newest(made) == CHOOSE i \in made : \A j \in made : j <= i

\* Create reads the committed tag back; when it is gone the request fails.
FetchTag(r) ==
    /\ At(r, "fetch")
    /\ Becomes(r, [req[r] EXCEPT !.pc =
                    CASE Newest(req[r].made) \notin DOMAIN tags -> "failed"
                      [] Cardinality(req[r].made) < req[r].count -> "insert"
                      [] OTHER -> "created"])
    /\ UNCHANGED <<gatewayVars, tagVars, proc>>

ListBegin(r, p) ==
    /\ At(r, "idle") /\ proc[p].pc = "up"
    /\ Becomes(r, [pc |-> "query", at |-> p])
    /\ UNCHANGED <<gatewayVars, tagVars, proc>>

Shown(r, shown) ==
    [pc |-> IF shown = {} THEN "listed" ELSE "sessions", at |-> req[r].at,
     upto |-> lastId, shown |-> shown, todo |-> shown,
     bare |-> {}, erred |-> {}]

\* Mutant: a row that cannot be read is passed over.
QuerySkipping(r) ==
    /\ At(r, "query")
    /\ Becomes(r, Shown(r, {i \in DOMAIN tags : Opened(r, tags[i])}))
    /\ UNCHANGED <<gatewayVars, tagVars, proc>>

\* TagRepo.List: one row that cannot be read fails the whole list.
Query(r) ==
    /\ At(r, "query")
    /\ Becomes(r, IF \A i \in DOMAIN tags : Opened(r, tags[i])
                  THEN Shown(r, DOMAIN tags) ELSE [pc |-> "failed"])
    /\ UNCHANGED <<gatewayVars, tagVars, proc>>

\* Whether Sessions.Get finds the row and opens its keys.
Readable(r, id) ==
    id \in DOMAIN sessions /\ (sessions[id] = None \/ Opened(r, sessions[id]))

\* listTags adds the session of each tag and ignores every error of Sessions.Get: the
\* tag is shown bare then.  The statement may also fail on a row that is there (a busy
\* database, a client that went away, a counter that no longer scans).
AddSession(r, id) ==
    /\ At(r, "sessions") /\ id \in req[r].todo
    /\ \E errs \in BOOLEAN :
        Becomes(r, [req[r] EXCEPT
            !.pc = IF req[r].todo = {id} THEN "listed" ELSE @,
            !.todo = @ \ {id},
            !.bare = IF Readable(r, id) /\ ~errs THEN @ ELSE @ \cup {id},
            !.erred = IF Readable(r, id) /\ errs THEN @ \cup {id} ELSE @])
    /\ UNCHANGED <<gatewayVars, tagVars, proc>>

\* Mutant: a tag is joined although its AppKey could not be read.
JoinUnread(r, p, id) ==
    /\ At(r, "idle") /\ proc[p].pc = "up" /\ id \in DOMAIN tags
    /\ sessions[id] = None
    /\ Becomes(r, [pc |-> "join", at |-> p, id |-> id])
    /\ UNCHANGED <<gatewayVars, tagVars, proc>>

\* Orchestrator.Start reads the tag and its session, and joins if it has none.
JoinBegin(r, p, id) ==
    /\ At(r, "idle") /\ proc[p].pc = "up" /\ id \in DOMAIN tags
    /\ Opens(proc[p].key, tags[id]) /\ sessions[id] = None
    /\ Becomes(r, [pc |-> "join", at |-> p, id |-> id])
    /\ UNCHANGED <<gatewayVars, tagVars, proc>>

\* SaveJoinResult; the session of a tag deleted meanwhile is not there to update.
SaveJoin(r) ==
    /\ At(r, "join")
    /\ IF req[r].id \in DOMAIN sessions
       THEN sessions' = [sessions EXCEPT ![req[r].id] = proc[req[r].at].key]
       ELSE sessions' = sessions
    /\ Becomes(r, [pc |-> "done"])
    /\ UNCHANGED <<gatewayVars, tags, lastId, proc>>

\* Mutant: foreign keys are off.
DeleteAlone(p, id) ==
    /\ proc[p].pc = "up" /\ id \in DOMAIN tags
    /\ tags' = Without(tags, id)
    /\ UNCHANGED <<gatewayVars, sessions, lastId, proc, req>>

\* TagRepo.Delete, cascading to the session; the key does not matter.
Delete(p, id) ==
    /\ proc[p].pc = "up" /\ id \in DOMAIN tags
    /\ tags' = Without(tags, id)
    /\ sessions' = Without(sessions, id)
    /\ UNCHANGED <<gatewayVars, lastId, proc, req>>

-----------------------------------------------------------------------------
StartUp(p) == Boot(p) \/ Look(p) \/ Insert(p) \/ Update(p) \/ Reread(p)

Arrive(r, p) ==
    \/ PutBegin(r, p) \/ CreateBegin(r, p) \/ ListBegin(r, p)
    \/ \E id \in Ids : JoinBegin(r, p, id)

Handle(r) ==
    \/ PutGet(r) \/ PutWrite(r) \/ InsertTag(r) \/ FetchTag(r) \/ Query(r)
    \/ \E id \in Ids : AddSession(r, id)
    \/ SaveJoin(r) \/ Fail(r)

Next ==
    \/ \E p \in Procs : StartUp(p) \/ Exit(p)
    \/ \E r \in Requests, p \in Procs : Arrive(r, p)
    \/ \E r \in Requests : Handle(r)
    \/ \E p \in Procs, id \in Ids : Delete(p, id)

Spec == Init /\ [][Next]_vars

-----------------------------------------------------------------------------
(* Properties.                                                             *)

\* As long as nobody changes the stored EUI, every process that serves does so under
\* it, whichever of them created it and however their start-ups interleave (EnsureEUI;
\* README: the EUI is "generated and persisted on first run, stable across restarts").
IdentityAgreed ==
    ~renamed => \A p \in Procs : proc[p].pc = "up" => proc[p].eui = gateway.eui

\* The gateway row holds what was last asked of each of its fields: putGateway never
\* takes the EUI back to one it read earlier, and loses no update of another field
\* unless two of them overlap (putGateway, UpdateConfig, SetEUI).
LastWriteStands ==
    gateway # None => /\ gateway.eui = asked.eui
                      /\ ~overlap => gateway = asked

Creations == {r \in Requests : "made" \in DOMAIN req[r]}

\* No two creations ever get the same id, deletions or not, so an id that somebody
\* still holds cannot come to name another tag (tags.id AUTOINCREMENT, createTags);
\* a fleet reported as created is complete.
CreatedOnce ==
    /\ \A q, r \in Creations : q # r => req[q].made \cap req[r].made = {}
    /\ \A r \in Creations : At(r, "created") => Cardinality(req[r].made) = req[r].count

\* Tags and sessions are 1:1 in every state a crash can leave (TagRepo.Create,
\* Delete; 0001_init.sql: "1:1 with tags").
SessionPerTag == DOMAIN sessions = DOMAIN tags

\* The session keys of a tag are sealed as its AppKey is, so whoever can read the
\* tag can read its session, however often the key changed (SaveJoinResult, scanTag).
SecretsTogether ==
    \A i \in DOMAIN sessions : sessions[i] \in {None, tags[i]}

\* A list that got past its query misses no tag that was there and still is.  It reads
\* each session in a statement of its own and ignores the errors, so a tag without a
\* session in the list tells little; but unless a statement failed in itself, the tag
\* was deleted meanwhile: a tag that is there always has a session row, under the key
\* that its own row opened with (TagRepo.List, listTags).
ListingWhole ==
    \A r \in Requests : req[r].pc \in {"sessions", "listed"} =>
        /\ \A i \in DOMAIN tags : i <= req[r].upto => i \in req[r].shown
        /\ req[r].bare \cap DOMAIN tags \subseteq req[r].erred
=============================================================================
