------------------------------ MODULE CaddySync ------------------------------
(***************************************************************************)
(* How a change of a route reaches the reverse proxy.                      *)
(*                                                                         *)
(* services/routes.js changes the SQLite row first and then awaits         *)
(* caddyConfig.syncToCaddy(), which appends one job to a promise chain.    *)
(* Each job reads the configuration Caddy runs (ownership guard), builds   *)
(* a new one from the database as it is THEN, writes runtime.json, POSTs   *)
(* it to /load, verifies it and self-tests TLS.  A job that throws makes   *)
(* routesSync.withCaddySync undo the request's row.  The circuit breaker   *)
(* pushes through the coalescer of caddySync.js, the reconciler compares   *)
(* route ids every five minutes.  Caddy and the Node process may stop and  *)
(* be restarted by supervisord at any time.                                *)
(*                                                                         *)
(* JavaScript runs to completion between two awaits, so an action is the   *)
(* code from one await to the next.                                        *)
(***************************************************************************)
EXTENDS Naturals, Sequences, FiniteSets

CONSTANTS
    Routes,        \* ids of rows of the table routes
    Targets,       \* the possible contents of a row of routes (target, headers, ...)
    AclPeers,      \* the peers an ACL may list
    BadTargets,    \* those whose configuration Caddy rejects
    Breakers,      \* the routes with circuit_breaker_enabled
    Requests,      \* concurrent admin API requests
    Preloaded,     \* GC_CADDY_CONFIG_PRELOADED: entrypoint.sh exported the JSON
    AutoRepair,    \* GC_CADDY_AUTO_RECONCILE
    Faults,        \* what may go wrong, a subset of FaultKinds
    Absent,        \* no such row
    Caddyfile,     \* the static configuration, without any route
    Foreign,       \* a configuration owned by another GateControl instance
    Nothing        \* previousConfig = null: Caddy does not run

FaultKinds == {"caddy", "admin", "disk", "conflict", "foreign", "node"}

VARIABLES
    db,            \* the table routes, with the rows of route_peer_acl
    chain,         \* _syncChain: the callers whose jobs have not ended, in order
    phase,         \* the await the job at the head is in
    previous,      \* previousConfig of that job, while it may be restored
    built,         \* the configuration buildCaddyConfig returned last
    runtime,       \* /data/caddy/runtime.json
    up,            \* the Caddy process runs
    live,          \* the configuration Caddy serves
    request,       \* status of each admin request
    undo,          \* what its rollback closure captured
    pendingSync,   \* caddySync.js
    expected,      \* the ids a reconciliation cycle read from the database
    reconciling,   \* where that cycle is
    bootSync,      \* the start-up sync timer of server.js is armed
    outcome,       \* how the last job ended
    unpushed       \* circuit changes since the last build that asked for no job:
                   \* a coalesced request whose job was past it, a reset after it

vars == <<db, chain, phase, previous, built, runtime, up, live, request, undo,
          pendingSync, expected, reconciling, bootSync, outcome, unpushed>>

jobVars    == <<chain, phase, previous, built, runtime, outcome>>
caddyVars  == <<up, live>>
clientVars == <<request, undo>>
otherVars  == <<expected, reconciling, bootSync>>

-----------------------------------------------------------------------------
(* The data *)

\* acl is what route_peer_acl holds for the route: it goes with the row (ON DELETE
\* CASCADE), but a table of its own keeps it.
Circuit == {"closed", "open", "half-open"}
Acls    == SUBSET AclPeers
Row     == [enabled : BOOLEAN, target : Targets, acl : Acls, circuit : Circuit]
MaybeRow == Row \cup {Absent}

\* What buildCaddyConfig emits for one row: nothing, the 503 answer of an open
\* circuit, or a proxy to the target, for the listed peers or, without any, for all.
Handler == [target : Targets \cup {"off", "503"}, acl : Acls]

Served(row) ==
    IF row = Absent \/ ~row.enabled THEN [target |-> "off", acl |-> {}]
    ELSE IF row.circuit = "open" THEN [target |-> "503", acl |-> {}]
    ELSE [target |-> row.target, acl |-> row.acl]

Config       == [Routes -> Handler]
ConfigOf(d)  == [r \in Routes |-> Served(d[r])]
Loadable(c)  == \A r \in Routes : c[r].target \notin BadTargets
Live         == Config \cup {Caddyfile, Foreign}

\* The reconciler's two id sets.  Only a proxied route carries @id gc_route_<id>:
\* the branch for an open circuit emits none.
ExpectedIds(d) == {r \in Routes : d[r] # Absent /\ d[r].enabled}
LiveIds(c)     == IF c \in Config THEN {r \in Routes : c[r].target \in Targets} ELSE {}

Callers == Requests \cup {"coalesced", "reconciler", "boot"}
Waiting == {"preparing", "syncing"}

\* Rollback closures: rows[r] # Absent are the rows the request touched.  "reset" is
\* the update that ends with resetStatus, "logged" has no closure and no error.
UndoKind == {"none", "create", "toggle", "restore", "remove", "reinsert", "reset", "logged"}
Undo     == [kind : UndoKind, rows : [Routes -> MaybeRow]]
NoUndo   == [kind |-> "none", rows |-> [r \in Routes |-> Absent]]

Only(d, S) == [r \in Routes |-> IF r \in S THEN d[r] ELSE Absent]

RollbackRowForgettingDeletes(row, was, kind) ==
    IF was = Absent THEN row
    ELSE IF kind = "create" \/ row = Absent THEN Absent
    ELSE IF kind = "toggle" THEN [row EXCEPT !.enabled = was.enabled]
    ELSE [was EXCEPT !.acl = row.acl]

\* The closures of routes.js: delete the inserted row, re-insert the deleted one
\* (batch with its peers, remove() without), or UPDATE ... WHERE id = ?, which does
\* nothing when the row is gone and leaves route_peer_acl as the request made it.
RollbackRow(row, was, kind) ==
    IF was = Absent THEN row
    ELSE IF kind = "reinsert" THEN was
    ELSE IF kind = "remove" THEN [was EXCEPT !.acl = {}]
    ELSE IF kind = "create" \/ row = Absent THEN Absent
    ELSE IF kind = "toggle" THEN [row EXCEPT !.enabled = was.enabled]
    ELSE [was EXCEPT !.acl = row.acl]

RolledBack(d, u) == [r \in Routes |-> RollbackRow(d[r], u.rows[r], u.kind)]

ASSUME CaddySyncAssumption ==
    /\ BadTargets \subseteq Targets
    /\ Breakers \subseteq Routes
    /\ Preloaded \in BOOLEAN
    /\ AutoRepair \in BOOLEAN
    /\ Faults \subseteq FaultKinds
    /\ Requests \cap {"coalesced", "reconciler", "boot"} = {}
    /\ {"off", "503", "keep"} \cap Targets = {}
    /\ Absent \notin Row
    /\ {Caddyfile, Foreign, Nothing} \cap Config = {}
    /\ Caddyfile # Foreign /\ Nothing \notin {Caddyfile, Foreign}

-----------------------------------------------------------------------------
(* The chain *)

\* _syncChain.then(_syncToCaddyInner, _syncToCaddyInner)
Enqueue(caller) == chain' = Append(chain, caller)

\* Jobs that have not called buildCaddyConfig yet.
BuildPending ==
    \/ Len(chain) >= 2
    \/ Len(chain) = 1 /\ phase \in {"idle", "read"}
    \/ pendingSync = "tick"

Init ==
    /\ db \in [Routes -> {Absent} \cup [enabled : {TRUE}, target : Targets \ BadTargets,
                                       acl : Acls, circuit : {"closed"}]]
    /\ chain = <<>> /\ phase = "idle"
    /\ previous = Nothing
    /\ built = ConfigOf(db) /\ runtime = ConfigOf(db)
    /\ up = TRUE
    /\ live = IF Preloaded THEN ConfigOf(db) ELSE Caddyfile
    /\ request = [q \in Requests |-> "idle"]
    /\ undo = [q \in Requests |-> NoUndo]
    /\ pendingSync = "none"
    /\ expected = {} /\ reconciling = "idle"
    /\ bootSync = ~Preloaded
    /\ outcome = "none"
    /\ unpushed = {}

-----------------------------------------------------------------------------
(* Admin requests: routes.js create, update, remove, toggle, batch, bulkUpdate *)

\* The row write and the enqueueing of the sync happen in one turn.
Mutate(q, d, u) ==
    /\ db' = d
    /\ undo' = [undo EXCEPT ![q] = u]
    /\ request' = [request EXCEPT ![q] = "syncing"]
    /\ Enqueue(q)
    /\ UNCHANGED <<phase, previous, built, runtime, outcome, caddyVars,
                   pendingSync, otherVars, unpushed>>

Free(q) == request[q] \notin Waiting

\* routes.id is AUTOINCREMENT: a new row never gets an id some request holds.
Create(q, r, t, a) ==
    /\ Free(q) /\ db[r] = Absent
    /\ \A p \in Requests : request[p] \in Waiting => undo[p].rows[r] = Absent
    /\ LET row == [enabled |-> TRUE, target |-> t, acl |-> a, circuit |-> "closed"]
           d   == [db EXCEPT ![r] = row]
       IN  Mutate(q, d, [kind |-> "create", rows |-> Only(d, {r})])

Toggle(q, r) ==
    /\ Free(q) /\ db[r] # Absent
    /\ Mutate(q, [db EXCEPT ![r].enabled = ~@], [kind |-> "toggle", rows |-> Only(db, {r})])

\* The rows of S go, their rows of route_peer_acl with them.
Delete(q, S, kind) ==
    /\ Free(q) /\ S # {} /\ \A r \in S : db[r] # Absent
    /\ Mutate(q, [r \in Routes |-> IF r \in S THEN Absent ELSE db[r]],
              [kind |-> kind, rows |-> Only(db, S)])

\* remove() captures the row, the groups and the access rules; batch('delete') the
\* rows of route_peer_acl too.
Remove(q, r)      == Delete(q, {r}, "remove")
BatchDelete(q, S) == Delete(q, S, "reinsert")

\* batch('enable') and batch('disable')
BatchEnable(q, S, e) ==
    /\ Free(q) /\ S # {} /\ \A r \in S : db[r] # Absent
    /\ Mutate(q, [r \in Routes |-> IF r \in S THEN [db[r] EXCEPT !.enabled = e] ELSE db[r]],
              [kind |-> "restore", rows |-> Only(db, S)])

\* bulkUpdate(): the fields of set are written to several routes in one turn; rows
\* that would not change are neither written nor captured.
BulkSet == [enabled : {"keep", "on", "off"}, target : Targets \cup {"keep"}]

BulkNext(row, set) ==
    [row EXCEPT !.enabled = IF set.enabled = "keep" THEN @ ELSE set.enabled = "on",
                !.target  = IF set.target = "keep" THEN @ ELSE set.target]

BulkUpdate(q, S, set) ==
    /\ Free(q) /\ \A r \in S : db[r] # Absent
    /\ LET changed == {r \in S : BulkNext(db[r], set) # db[r]} IN
       /\ changed # {}
       /\ Mutate(q, [r \in Routes |-> IF r \in changed THEN BulkNext(db[r], set) ELSE db[r]],
                 [kind |-> "restore", rows |-> Only(db, changed)])

\* update() reads the row, then awaits bcrypt and the TLS guard; a request with
\* breaker settings resets the circuit once update() has ended ...
BeginUpdate(q, r, resets) ==
    /\ Free(q) /\ db[r] # Absent
    /\ resets => r \in Breakers
    /\ request' = [request EXCEPT ![q] = "preparing"]
    /\ undo' = [undo EXCEPT ![q] = [kind |-> IF resets THEN "reset" ELSE "restore",
                                    rows |-> Only(db, {r})]]
    /\ UNCHANGED <<db, jobVars, caddyVars, pendingSync, otherVars, unpushed>>

\* ... and writes: columns under COALESCE keep their present value when the
\* client did not send them, the others are rewritten from the row read before, and
\* acl_peers replaces the rows of route_peer_acl.
WriteUpdate(q, r, e, t, a) ==
    /\ request[q] = "preparing" /\ undo[q].rows[r] # Absent
    /\ Mutate(q, IF db[r] = Absent THEN db
                 ELSE [db EXCEPT ![r] = [@ EXCEPT !.enabled = e, !.target = t, !.acl = a]],
              undo[q])

\* ... or throws before it has written: the peer it names is gone or disabled by now,
\* or its row is gone and peers cannot be listed for it.
RefuseUpdate(q) ==
    /\ request[q] = "preparing"
    /\ request' = [request EXCEPT ![q] = "idle"]
    /\ undo' = [undo EXCEPT ![q] = NoUndo]
    /\ UNCHANGED <<db, jobVars, caddyVars, pendingSync, otherVars, unpushed>>

\* POST /api/routes/:id/circuit-breaker/reset
ResetBreaker(q, r) ==
    /\ Free(q) /\ r \in Breakers /\ db[r] # Absent
    /\ Mutate(q, [db EXCEPT ![r].circuit = "closed"], [NoUndo EXCEPT !.kind = "logged"])

\* POST /api/caddy/reload, and every other caller that changes no route row.
Reload(q) == Free(q) /\ Mutate(q, db, NoUndo)

-----------------------------------------------------------------------------
(* The circuit breaker and the coalescer *)

\* requestCaddySync(): a pending sync is returned as it is, whatever it has
\* already built.
RequestCaddySync ==
    /\ pendingSync' = IF pendingSync = "none" THEN "tick" ELSE pendingSync
    /\ unpushed' = IF pendingSync = "none" \/ BuildPending THEN unpushed
                   ELSE unpushed \cup {"coalesced"}

BreakerChangePushingOpenOnly(r, c) ==
    /\ r \in Breakers /\ db[r] # Absent
    /\ <<db[r].circuit, c>> \in {<<"closed", "open">>, <<"open", "half-open">>,
                                 <<"half-open", "closed">>, <<"half-open", "open">>}
    /\ db' = [db EXCEPT ![r].circuit = c]
    /\ IF c # "open" THEN UNCHANGED <<pendingSync, unpushed>> ELSE RequestCaddySync
    /\ UNCHANGED <<jobVars, caddyVars, clientVars, otherVars>>

\* circuitBreaker.checkAndUpdate after a health check, and monitor.checkRoute
\* which pushes only the changes to open and to closed.
BreakerChange(r, c) ==
    /\ r \in Breakers /\ db[r] # Absent
    /\ <<db[r].circuit, c>> \in {<<"closed", "open">>, <<"open", "half-open">>,
                                 <<"half-open", "closed">>, <<"half-open", "open">>}
    /\ db' = [db EXCEPT ![r].circuit = c]
    /\ IF c = "half-open" THEN UNCHANGED <<pendingSync, unpushed>> ELSE RequestCaddySync
    /\ UNCHANGED <<jobVars, caddyVars, clientVars, otherVars>>

\* The setImmediate tick has passed: the coalesced call joins the chain.
CoalescedTick ==
    /\ pendingSync = "tick"
    /\ pendingSync' = "chained"
    /\ Enqueue("coalesced")
    /\ UNCHANGED <<db, phase, previous, built, runtime, outcome, caddyVars,
                   clientVars, otherVars, unpushed>>

-----------------------------------------------------------------------------
(* One job of the chain: _syncToCaddyInner *)

\* After an update with breaker settings the handler closes the circuit, without a sync.
AfterUpdate(d, u) ==
    [r \in Routes |-> IF u.kind = "reset" /\ u.rows[r] # Absent /\ d[r] # Absent
                      THEN [d[r] EXCEPT !.circuit = "closed"] ELSE d[r]]

\* The job settles.  The awaiting caller runs before the next job starts: it is
\* the first reaction on the job's promise.
EndJob(result) ==
    LET caller == Head(chain) IN
    /\ chain' = Tail(chain)
    /\ phase' = "idle" /\ previous' = Nothing
    /\ outcome' = result
    /\ IF caller \in Requests
       THEN LET u == undo[caller] IN
            /\ db' = IF result = "fail" THEN RolledBack(db, u) ELSE AfterUpdate(db, u)
            /\ request' = [request EXCEPT ![caller] = "idle"]
            /\ undo' = [undo EXCEPT ![caller] = NoUndo]
            /\ unpushed' = IF result = "fail" \/ AfterUpdate(db, u) = db
                              \/ Len(chain) >= 2 \/ pendingSync = "tick"
                           THEN unpushed ELSE unpushed \cup {"reset"}
            /\ UNCHANGED <<pendingSync, reconciling>>
       ELSE /\ pendingSync' = IF caller = "coalesced" THEN "none" ELSE pendingSync
            /\ reconciling' = IF caller = "reconciler" THEN "idle" ELSE reconciling
            /\ UNCHANGED <<db, clientVars, unpushed>>
    /\ UNCHANGED <<expected, bootSync>>

\* From the build on, how an earlier job ended is of no interest.
NextAwait(p, prev) ==
    /\ phase' = p /\ previous' = prev
    /\ outcome' = IF p = "read" THEN outcome ELSE "none"
    /\ UNCHANGED <<db, chain, clientVars, pendingSync, otherVars>>

StartJobOnEmptyChain ==
    /\ phase = "idle"
    /\ NextAwait("read", previous)
    /\ UNCHANGED <<built, runtime, caddyVars, unpushed>>

StartJobAfterSuccessOnly ==
    /\ chain # <<>> /\ phase = "idle" /\ outcome # "fail"
    /\ NextAwait("read", previous)
    /\ UNCHANGED <<built, runtime, caddyVars, unpushed>>

StartJob ==
    /\ chain # <<>> /\ phase = "idle"
    /\ NextAwait("read", previous)
    /\ UNCHANGED <<built, runtime, caddyVars, unpushed>>

AlwaysProceed == TRUE

\* ownershipDecision: unowned and own configurations may be replaced.
MayProceed == up => live # Foreign

\* GET /config/ failed, or ownershipDecision found another owner: the job
\* returns false, and its caller takes that for success.
RefuseJob ==
    /\ phase = "read" /\ up
    /\ \/ "admin" \in Faults
       \/ ~MayProceed
    /\ EndJob("refused")
    /\ UNCHANGED <<built, runtime, caddyVars>>

\* Otherwise buildCaddyConfig() and _persistRuntimeJson() in the same turn.
BuildConfig ==
    /\ phase = "read"
    /\ MayProceed
    /\ built' = ConfigOf(db)
    /\ \/ runtime' = ConfigOf(db)
       \/ "disk" \in Faults /\ runtime' = runtime
    /\ unpushed' = {}
    /\ NextAwait("load", IF up THEN live ELSE Nothing)
    /\ UNCHANGED caddyVars

\* buildCaddyConfig throws (two L4 routes on one port): nothing was written yet.
BuildThrows ==
    /\ phase = "read" /\ "conflict" \in Faults
    /\ MayProceed
    /\ EndJob("fail")
    /\ UNCHANGED <<built, runtime, caddyVars>>

LoadOk ==
    /\ phase = "load" /\ up /\ Loadable(built)
    /\ live' = built
    /\ NextAwait("verify", previous)
    /\ UNCHANGED <<built, runtime, up, unpushed>>

\* Caddy does not run, rejects the configuration, or the call timed out, in
\* which case the configuration may or may not have been taken over.
LoadFails ==
    /\ phase = "load"
    /\ \/ /\ ~up \/ ~Loadable(built) \/ "admin" \in Faults
          /\ live' = live
       \/ /\ up /\ Loadable(built) /\ "admin" \in Faults
          /\ live' = built
    /\ EndJob("fail")
    /\ UNCHANGED <<built, runtime, up>>

VerifyOk ==
    /\ phase = "verify" /\ up
    /\ NextAwait("tls", Nothing)
    /\ UNCHANGED <<built, runtime, caddyVars, unpushed>>

VerifyFails ==
    /\ phase = "verify"
    /\ ~up \/ "admin" \in Faults
    /\ IF previous = Nothing THEN EndJob("fail")
       ELSE NextAwait("restore", previous) /\ UNCHANGED unpushed
    /\ UNCHANGED <<built, runtime, caddyVars>>

RestorePreviousAsSuccess ==
    /\ phase = "restore"
    /\ \/ up /\ live' = previous
       \/ (~up \/ "admin" \in Faults) /\ live' = live
    /\ EndJob("ok")
    /\ UNCHANGED <<built, runtime, up>>

\* POST /load of previousConfig; that this fails too is only logged.
RestorePrevious ==
    /\ phase = "restore"
    /\ \/ up /\ live' = previous
       \/ (~up \/ "admin" \in Faults) /\ live' = live
    /\ EndJob("fail")
    /\ UNCHANGED <<built, runtime, up>>

\* The handshake worked, there is no host to try, or pkill itself failed, which is
\* only logged.
TlsOk ==
    /\ phase = "tls"
    /\ EndJob("ok")
    /\ UNCHANGED <<built, runtime, caddyVars>>

\* The handshake failed: pkill caddy, supervisord restarts it, wait three seconds.
TlsFails ==
    /\ phase = "tls" /\ "caddy" \in Faults
    /\ up' = FALSE
    /\ NextAwait("settle", Nothing)
    /\ UNCHANGED <<built, runtime, live, unpushed>>

Settled ==
    /\ phase = "settle"
    /\ EndJob("ok")
    /\ UNCHANGED <<built, runtime, caddyVars>>

-----------------------------------------------------------------------------
(* The reconciler: runReconciliationCycle *)

\* Without auto repair a cycle only logs.
ReconcilerRead ==
    /\ AutoRepair /\ reconciling = "idle"
    /\ expected' = ExpectedIds(db)
    /\ reconciling' = "comparing"
    /\ UNCHANGED <<db, jobVars, caddyVars, clientVars, pendingSync, bootSync, unpushed>>

DivergedOnMissing(ids) == ids \ LiveIds(live) # {}

Diverged(ids) == ids # LiveIds(live)

ReconcilerCompare ==
    /\ reconciling = "comparing"
    /\ IF up /\ Diverged(expected)
       THEN reconciling' = "repairing" /\ Enqueue("reconciler")
       ELSE reconciling' = "idle" /\ UNCHANGED chain
    /\ expected' = {}
    /\ UNCHANGED <<db, phase, previous, built, runtime, outcome, caddyVars,
                   clientVars, pendingSync, bootSync, unpushed>>

-----------------------------------------------------------------------------
(* The surroundings *)

CaddyStops ==
    /\ "caddy" \in Faults /\ up
    /\ up' = FALSE
    /\ UNCHANGED <<db, jobVars, live, clientVars, pendingSync, otherVars, unpushed>>

\* supervisord runs scripts/caddy-start.sh with the file entrypoint.sh chose.
BootFile == IF Preloaded THEN runtime ELSE Caddyfile

CaddyStarts ==
    /\ ~up
    /\ BootFile \in Config => Loadable(BootFile)
    /\ up' = TRUE
    /\ live' = BootFile
    /\ UNCHANGED <<db, jobVars, clientVars, pendingSync, otherVars, unpushed>>

\* Another instance on the same host pushes its own configuration.
ForeignLoad ==
    /\ "foreign" \in Faults /\ up
    /\ live' = Foreign
    /\ UNCHANGED <<db, jobVars, up, clientVars, pendingSync, otherVars, unpushed>>

\* The Node process dies and supervisord starts it again: the chain, the
\* requests and the rollbacks are gone, the database keeps what was written.
\* A configuration that was being loaded may have arrived.
NodeRestarts ==
    /\ "node" \in Faults
    /\ \/ live' = live
       \/ phase = "load" /\ up /\ Loadable(built) /\ live' = built
    /\ chain' = <<>> /\ phase' = "idle"
    /\ request' = [q \in Requests |-> "idle"]
    /\ undo' = [q \in Requests |-> NoUndo]
    /\ pendingSync' = "none"
    /\ expected' = {} /\ reconciling' = "idle"
    /\ bootSync' = ~Preloaded
    /\ previous' = Nothing /\ outcome' = "none"
    /\ UNCHANGED <<db, built, runtime, up, unpushed>>

\* server.js: the sync some seconds after the start, only without preloaded JSON
\* and only when there is a route.
BootSync ==
    /\ bootSync
    /\ bootSync' = FALSE
    /\ IF \E r \in Routes : db[r] # Absent THEN Enqueue("boot") ELSE UNCHANGED chain
    /\ UNCHANGED <<db, phase, previous, built, runtime, outcome, caddyVars,
                   clientVars, pendingSync, expected, reconciling, unpushed>>

-----------------------------------------------------------------------------
RequestStep(q) ==
    \/ \E r \in Routes : \/ \E t \in Targets, a \in Acls :
                              \/ Create(q, r, t, a)
                              \/ \E e \in BOOLEAN : WriteUpdate(q, r, e, t, a)
                         \/ Toggle(q, r) \/ Remove(q, r) \/ ResetBreaker(q, r)
                         \/ \E resets \in BOOLEAN : BeginUpdate(q, r, resets)
    \/ \E S \in SUBSET Routes : \/ BatchDelete(q, S)
                                \/ \E e \in BOOLEAN : BatchEnable(q, S, e)
                                \/ \E set \in BulkSet : BulkUpdate(q, S, set)
    \/ RefuseUpdate(q)
    \/ Reload(q)

Job == \/ StartJob \/ RefuseJob \/ BuildConfig \/ BuildThrows \/ LoadOk \/ LoadFails
       \/ VerifyOk \/ VerifyFails \/ RestorePrevious \/ TlsOk \/ TlsFails \/ Settled

Next ==
    \/ \E q \in Requests : RequestStep(q)
    \/ \E r \in Routes, c \in Circuit : BreakerChange(r, c)
    \/ CoalescedTick
    \/ Job
    \/ ReconcilerRead \/ ReconcilerCompare
    \/ CaddyStops \/ CaddyStarts \/ ForeignLoad
    \/ NodeRestarts \/ BootSync

UpdateEnds(q) ==
    \/ RefuseUpdate(q)
    \/ \E r \in Routes, e \in BOOLEAN, t \in Targets, a \in Acls : WriteUpdate(q, r, e, t, a)

\* Every await of a job ends: the admin calls, the TLS probe and pkill have time
\* limits.  The tick and the awaits of update() end too, the timers fire, and
\* supervisord restarts Caddy (autorestart=true).
Fairness ==
    /\ WF_vars(Job)
    /\ WF_vars(CoalescedTick)
    /\ \A q \in Requests : WF_vars(UpdateEnds(q))
    /\ WF_vars(ReconcilerRead) /\ WF_vars(ReconcilerCompare)
    /\ WF_vars(CaddyStarts) /\ WF_vars(BootSync)

Spec == Init /\ [][Next]_vars /\ Fairness

-----------------------------------------------------------------------------
(* Properties *)

Phases == {"idle", "read", "load", "verify", "tls", "settle", "restore"}

\* The values the variables take.  The head of the chain is the job in progress.
TypeOK ==
    /\ db \in [Routes -> MaybeRow]
    /\ chain \in Seq(Callers)
    /\ phase \in Phases
    /\ phase # "idle" => chain # <<>>
    /\ previous \in Live \cup {Nothing}
    /\ phase = "restore" => previous # Nothing
    /\ built \in Config
    /\ runtime \in Config
    /\ up \in BOOLEAN
    /\ live \in Live
    /\ request \in [Requests -> {"idle", "preparing", "syncing"}]
    /\ undo \in [Requests -> Undo]
    /\ pendingSync \in {"none", "tick", "chained"}
    /\ expected \in SUBSET Routes
    /\ reconciling \in {"idle", "comparing", "repairing"}
    /\ bootSync \in BOOLEAN
    /\ outcome \in {"none", "ok", "refused", "fail"}
    /\ unpushed \in SUBSET {"coalesced", "reset"}

AtRest == chain = <<>> /\ pendingSync # "tick"

\* A half-open circuit is not pushed: Caddy answers 503 until the next check.
Agrees(c, d) ==
    \A r \in Routes :
        \/ c[r] = Served(d[r])
        \/ c[r].target = "503" /\ d[r] # Absent /\ d[r].enabled /\ d[r].circuit = "half-open"

\* Whatever requests, breaker changes, reloads and restarts overlapped and whatever
\* failed before: once the chain is empty, the last job succeeded and no change of a
\* circuit was left to nobody, Caddy serves what the database says, unless another
\* instance took it over or it restarted with a file that says something else.
SyncedAtRest ==
    AtRest /\ outcome = "ok" /\ unpushed = {} /\ up /\ live \notin {Foreign, BootFile} \ {built}
        => live \in Config /\ Agrees(live, db)

\* caddySync.js: the coalescer never has two syncs outstanding.
CoalescedOnce ==
    \A i, j \in DOMAIN chain : chain[i] = "coalesced" =>
        /\ pendingSync = "chained"
        /\ chain[j] = "coalesced" => i = j

\* The two facts SyncedAtRest rests on.  The configuration built last is the
\* database's, or a job that has not built yet is on its way, or the last job
\* ended without success ...
BuiltIsCurrent ==
    Agrees(built, db) \/ BuildPending \/ unpushed # {} \/ (phase = "idle" /\ outcome # "ok")

\* ... and after a successful load Caddy serves that configuration, unless it was
\* restarted or taken over since.
LiveIsBuilt ==
    /\ up
    /\ phase \in {"verify", "tls", "settle"} \/ (phase \in {"idle", "read"} /\ outcome = "ok")
    => live \in {built, Foreign, BootFile}

IInv == TypeOK /\ CoalescedOnce /\ BuiltIsCurrent /\ LiveIsBuilt

\* A configuration of another instance is replaced only when it arrived after
\* the ownership read of the job that replaces it, or by a restart of Caddy.
OwnerGuard ==
    [][ up /\ live = Foreign /\ live' # Foreign /\ up'
            => previous # Foreign /\ phase \in {"load", "restore"} ]_vars

\* Every admin request gets its answer (routesSync: also after a failed sync),
\* unless the process dies.
RequestsSettle ==
    \A q \in Requests : request[q] \in Waiting ~> request[q] \notin Waiting

\* With GC_CADDY_AUTO_RECONCILE, once nobody changes routes and nothing fails any
\* more, the ghost and zombie routes a crash left behind disappear for good.
Undisturbed ==
    \/ StartJob \/ BuildConfig \/ LoadOk \/ VerifyOk \/ TlsOk \/ Settled
    \/ ReconcilerRead \/ ReconcilerCompare \/ CaddyStarts \/ BootSync \/ CoalescedTick

DivergenceRepaired ==
    <>[][Undisturbed]_vars => <>[](up /\ LiveIds(live) = ExpectedIds(db))
=============================================================================
