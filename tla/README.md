# GateControl in TLA+

GateControl manages a WireGuard VPN and the Caddy reverse proxy in front of it:
one Node.js process with a SQLite database, an external Caddy, an external
WireGuard interface, and home gateways that report in over the tunnel.  This
directory holds TLA+ models of the parts in which the order of things matters,
TLC configurations that check them on small instances, and proofs for TLAPS.

Paths below are relative to the directory `src/` of the repository.  JavaScript
runs to completion between two awaits, so every model takes one step from one
await to the next; whatever else the process does happens between the steps.

## 1. Inventory

### 1.1 Components

| Component | State | Operations | Interacts with |
|---|---|---|---|
| Route deployment (`services/routes.js`, `routesSync.js`, `routesRollback.js`, `caddyConfig.js`, `caddySync.js`, `caddyReconciler.js`, `caddyOwner.js`, `caddyAdminClient.js`) | table `routes`; promise chain `_syncChain`; `pendingSync`; `runtime.json`; what Caddy serves | create, update, toggle, remove, batch, bulk update, reload, reset of a circuit; a sync job (read, build, write, load, verify, TLS test, restore); the coalesced request; the reconciler; the ownership guard | Caddy (admin API), supervisord, every other component that changes a route |
| Gateway failover (`services/gatewayHealth.js`, `gatewayPool.js`) | `gateway_meta` (alive, went_down_at, recovered_first_hb_at, last_seen_at), `_snapshot`, `_stateChainTail`, `routes.target_peer_id` and `original_peer_id` | heartbeat, watchdog tick, transition handler (park, restore, sync), boot reconciliation, relocation, route update | route deployment, gateways, notifications |
| Circuit breaker and monitor (`circuitBreaker.js`, `monitor.js`) | `routes.circuit_breaker_status`, failure counts and open times in memory | check cycle, result of a probe, timeout, reset | route deployment (coalesced sync) |
| WireGuard peers (`peers.js`, `wireguard.js`) and access windows (`accessRules.js`, `accessReconciler.js`) | table `peers`, `wg0.conf`, the peers of the interface, `_wgRewriteChain`, `lastDenied` | create, update, toggle, remove, batch, expiry, reconcile | `wg`, route deployment |
| Edge channel (`services/edge/hub.js`) | one WebSocket per gateway, numbered events, acknowledgements, queues, open calls | hello, event, ack, pump, call, result, ping, close | plugins, gateways |
| Plugin processes (`services/plugins/index.js`, `runtime.js`, `registry.js`) | table `plugins`; map `procs` of `PluginProcess` objects with child, restart timer, `stopResolve`; promise chain `reconciling` | reconcile, enable, restart, install, update, uninstall, exit, restart timer | licence, plugin databases, edge channel |
| Media areas of plugins (`services/plugins/mediaAreas.js`, `media.js`, `services/storageTargets/`) | tables `plugin_media`, `plugin_media_areas`, `plugin_media_gone`; sealed files on this server; objects on storage targets | claim, move, version, remove, another target; the worker (deletions, transfers, finished moves, cache); the scan | plugins, storage targets, backups |
| Gateway status, probes, pool changes (`gateways.js`, `gatewayProbe.js`, `gatewayLiveState.js`, `gatewayPoolSync.js`) | sliding window per gateway, held alarms, config hashes | heartbeat, probe, release of alarms, confirmed pool change | failover, notifications |
| Domains, TLS, zones | tables `domains`, `domain_zones`; certificates | verification, seeding, retargeting | route deployment, DNS, ACME |
| Accounts, tokens, sessions, one-time codes, lockout | database rows | handlers of single requests | web interface, clients |
| Address blocks, WAF bans | counters, bans | failure, ban, expiry | route deployment |
| Directory, license, backup, notifications, RDP, home features, statistics | rows, files, child processes, remote services | see `PROJECT.json` | |

### 1.2 What is hard here

* **Interleaving.** Admin requests, timers and heartbeats run in one process but
  between their awaits everything else may run.  Four promise chains
  (`_syncChain`, `_stateChainTail`, `_wgRewriteChain`, `reconciling`) order some of
  the work; the database is written outside them.
* **Late undo.** A failed sync undoes a row with values read long before.
* **Two sources of truth.** The database, Caddy's running configuration,
  `runtime.json`, the gateway snapshot and the WireGuard interface are kept in
  step by pushes that may fail, be refused or be coalesced.
* **Restarts.** Caddy, the process, and both; with or without a preloaded
  configuration.
* **Health over time.** Silence, cooldown and recovery overlap with handlers that
  are still waiting for a sync.
* **Delivery.** Frames, acknowledgements and connections of a gateway are lost; what
  was not acknowledged is sent again.
* **Work on rows read before.** Checks, media transfers and scans act on rows read
  before calls that take long, on objects others may have changed.

`PROJECT.json` lists each hazard at its line under `hazards`, with the properties
that cover it or the module that is planned for it.

### 1.3 What makes each component correct

* Route deployment: when nothing is pending and nothing failed, Caddy serves the
  database; a failed request puts back the rows it alone held; every request is answered; another
  instance's configuration is not overwritten; a divergence does not last.
* Failover: handlers take effect in the order of the transitions; a parked route
  goes home and its home is never lost; Caddy follows the rows; health converges
  to what the gateways report; nothing stays on a dead gateway while a sibling lives.
* Circuit breaker: it opens on consecutive failures only and stays open for its
  time; Caddy's answer follows a backend that stays well or stays down.
* WireGuard peers: an enabled peer inside its window is on the interface, any
  other is not, once the requests have been answered.
* Edge channel: the gateway keeps an event until it was handled, and events are
  handled in their order; every call is settled exactly once.
* Plugin processes: at rest a plugin has exactly the process it should have; no
  process runs that nobody can stop; every request is answered; a crashed plugin
  comes back.
* Media areas: no file is lost, no two files share an object, no object is left
  behind, and every file ends where its area wants it.

## 2. Plan

| Order | Module | Contents | State |
|---|---|---|---|
| 1 | `CaddySync`, `CaddySync_proofs` | sync chain, requests, coalescer, reconciler, guard, faults; inductive invariant, `SyncedAtRest` | done |
| 2 | `CaddySyncHistory`, `CaddySyncHistory_proofs` | composes `CaddySync` with the history a rollback is judged by; `FailedRestoresRow` proved for any number of overlapping requests | done |
| 3 | `GatewayFailover`, `GatewayFailover_proofs` | health, handlers, boot reconciliation, edits; inductive invariant, `HomeRestored`, `DeadLeavePools`, `HomeKept` | done |
| 4 | `WireGuardPeers` | rewrite chain, late removals, expiry, access windows, licence limits | done |
| 5 | `CircuitBreaker`, `CircuitBreaker_proofs` | overlapping checks over stale rows, timeouts, resets, settings; `OpensOnStreak`, `OpenLasts` | done |
| 6 | `EdgeConnections`, `EdgeEvents`, `AtLeastOnce`, `EdgeEvents_proofs` | connections, events, acknowledgements, restarts; the abstract specification of at-least-once delivery and the refinement, checked and proved | done |
| 7 | `PluginLifecycle`, `PluginLifecycle_proofs` | reconcile chain, restart, update, uninstall, crashes; inductive invariant, `NothingOutside`, `RunsWhatMayRun` | done |
| 8 | `MediaTransfers`, `MediaAreas`, `MediaAreas_proofs` | files of a media area, the worker call by call; composed with the scan; inductive invariant, `OnePlaceEach`, `NoneLost`, `NoneLeft`, `ScanHarmless` | done |
| 9 | `WireGuardPeers_proofs` | type correctness, `RevokedIsOff` with what a running rewrite may still hold; `DeniedIsOff` and `AllowedIsOn` with what each cycle knows | done |
| 10 | `EdgeCalls` | calls to a gateway, their time limits and results on a connection that was replaced | open |
| 11 | `RouteDeployment` | abstract specification of a deployment (database, served configuration, dirty flag), implemented by `CaddySync` | open |

The `MC` modules give these constants their values for TLC.  Each run is one
question to the system; there are twelve.  What the code does against a property is
named where a passing run excludes it, and in section 10.

## 3. CaddySync

### 3.1 Correspondence

| Variable | Code |
|---|---|
| `db` | the rows of `routes`: `enabled`, a content (`target`, standing for the target, headers and the other columns), `circuit_breaker_status`; and with each its rows of `route_peer_acl` (`acl`), a table of its own that goes with the row (`ON DELETE CASCADE`) |
| `chain`, `phase`, `previous`, `built` | `_syncChain` in `caddyConfig.js`: the callers whose jobs have not ended, the await the head is in, its `previousConfig`, the result of `buildCaddyConfig` |
| `runtime` | `/data/caddy/runtime.json` |
| `up`, `live` | the Caddy process and its running configuration |
| `request`, `undo` | an API request (how it is answered is `outcome`) and the closure it gave to `withCaddySync` |
| `pendingSync` | the promise of `caddySync.js`: none, before its tick, in the chain |
| `expected`, `reconciling` | a cycle of `caddyReconciler.js` |
| `bootSync` | the timer of `server.js` |
| `outcome`, `unpushed` | history: how the last job ended; circuit changes since the last build that asked for no job (`"coalesced"`: the pending job was past its build; `"reset"`: an update closed the circuit after its sync) |

Requests: `Create`, `BeginUpdate` / `WriteUpdate` (the row is read, awaits follow,
then it is written; with breaker settings the handler resets the circuit at the
end, `AfterUpdate`; or it throws before it writes, `RefuseUpdate`), `Toggle`,
`Remove`, `BatchDelete`, `BatchEnable`, `BulkUpdate` (only the rows it changes are
written and captured), `ResetBreaker`, `Reload`.  What a rollback puts back differs:
that of a batch brings the peers of an ACL back, that of `remove()` re-inserts the
row without them, and that of `update()` leaves `route_peer_acl` as the request made
it (`Undo`, `RollbackRow`).  A job:
`StartJob` (ownership read), `RefuseJob`, `BuildConfig` / `BuildThrows`, `LoadOk` /
`LoadFails`, `VerifyOk` / `VerifyFails`, `RestorePrevious`, `TlsOk` / `TlsFails`,
`Settled`.  `EndJob` answers the caller and runs its rollback in the same turn, as
the continuation of the promise does.  Around them: `BreakerChange`,
`CoalescedTick`, `ReconcilerRead` / `ReconcilerCompare`, `CaddyStops` /
`CaddyStarts` (what it boots from is `BootFile`), `ForeignLoad`, `NodeRestarts`,
`BootSync`.

The constant `Faults` says what may go wrong in a run: `caddy` (Caddy stops),
`admin` (an admin call fails, with or without effect), `disk` (`runtime.json` is
not written), `conflict` (`buildCaddyConfig` throws), `foreign` (another instance
loads its configuration), `node` (the process dies).

A configuration is a function from routes to what is served for them (`Handler`: a
target or an answer, and the listed peers); two configurations are told apart by
nothing else.  `BadTargets` are contents that
build but that Caddy rejects.

### 3.2 Runs

| Run | Instance | Shows |
|---|---|---|
| `caddy_safety` | 1 route with breaker, 2 requests, fault `caddy` | `TypeOK`, `SyncedAtRest` |
| `caddy_live` | 1 route, 1 request, all faults, auto repair, no preloaded JSON | `SyncedAtRest`, `OwnerGuard`, `RequestsSettle`, `DivergenceRepaired` |
| `caddy_rollback` | 2 routes, 1 content, 1 peer for ACLs, 2 requests, fault `conflict` | `FailedRestoresRow` |

`SyncedAtRest` is the promise of the component: at rest, after a successful job,
Caddy serves the database.  Its exceptions are named in it, and each is a fact
about the code: the circuit changes nobody pushes (`unpushed`, section 10), a Caddy
that is down, has booted from another file than the last build or was given a
foreign configuration, and a half-open circuit, which the database knows before Caddy
does.

`FailedRestoresRow` is the promise of `routesSync.withCaddySync` (lines 18-20): a
request that fails leaves the rows as they were, while another one overlaps with it
in any order.  Three things are left out, each a fact about the code (section 10): a
row that both requests held (`shared`), whose values the rollbacks take from each
other; the peers of an ACL that an update has replaced, or that went with a removed
row (`relisted`); and the circuit, which is the breaker's to write.

*Why the bounds are enough.* The interesting races need two jobs in the chain (a
write between the build and the end of the first) and a third caller that shares
one (the coalescer), which two requests and one breaker give; a rollback needs a
second route for a batch, a peer to tell an ACL from none, and a second request that
changes other rows meanwhile; a build that throws is enough of a failure, since a
rollback does not look at the reason.  `SyncedAtRest` is checked twice: two requests with a Caddy that stops
between any two steps, and one request with every way in which a job can fail (the
proof covers all faults at once).  The chain has no bound of its own: every caller waits for its job.

*Fairness.* Jobs, the coalescer's tick, the awaits of `update()`, the timers and
the restart of Caddy are weakly fair: the admin client, the TLS test and `pkill`
have time limits, `supervisord` has `autorestart=true`.  Nothing is assumed of
admins, of faults or of the other instance.  `DivergenceRepaired` starts from the
moment at which only undisturbed steps follow, which it states itself.

### 3.3 Proofs (`CaddySync_proofs`)

No assumption on the constants beyond `ASSUME`s of the module; any sets of routes
and requests, any faults.

* `TypeCorrect`: `Spec => []TypeOK`.  One lemma per group of actions
  (`MutateTypeOK`, `EndJobTypeOK`, `RequestTypeOK`, `JobTypeOK`).
* `Inductive`: `Spec => []IInv`, with `IInv` the conjunction of `TypeOK`,
  `CoalescedOnce`, `BuiltIsCurrent` and `LiveIsBuilt`.  `SyncedAtRest` alone is not
  inductive: while a job is under way it says nothing, so what holds at rest has to
  be carried through the job.  `BuiltIsCurrent` carries the half up to the build
  (the configuration is the database's, or a job that has not built yet is queued,
  or a failure is on record), `LiveIsBuilt` the half after the load, and
  `CoalescedOnce` is needed because a write that joins the pending coalesced sync
  must find that sync in the chain.
* `SyncedWhenAtRest`: `Spec => []SyncedAtRest`, a consequence of `IInv`.
* `GuardsOwner`: `Spec => [][OwnerGuard]_vars`.  A job loads in two of its phases, and in
  both what ran when it began was its own: `PreviousOwn` says that what it keeps for a
  restore is never a foreign configuration, since the guard looks at what ran and keeps
  it in one turn.

`CaddySyncHistory_proofs` has `FailedRestoresItsRows`: `HSpec => FailedRestoresRow`, for
any routes, contents, peers, breakers, requests and faults.  `HInv` carries it:
`IdleHoldNothing` (an idle request has no closure left) and `LoneHolders`: of a row that
one request holds and nobody shared, what that request can undo leads back to the row
before it (`Undoable`), whatever it captured before its awaits and whatever was written
to other rows.

## 4. GatewayFailover

### 4.1 Correspondence

| Variable | Code |
|---|---|
| `fresh` | `last_seen_at` lies within `gateway_down_threshold_s` |
| `health` | `alive`, `went_down_at`, `recovered_first_hb_at`: alive, down, in the failback cooldown, cooldown elapsed |
| `snapshot` | `_snapshot`; empty after a start, filled by each evaluation |
| `target`, `original` | `routes.target_peer_id`, `original_peer_id` |
| `chain`, `handler` | `_stateChainTail`: queued handlers; whether the head awaits its sync |
| `unchecked` | what the current watchdog tick has still to evaluate |
| `boot` | `reconcileFailoverState` |
| `edit` | an update of a route, with the row it read, or a relocation |
| `upstream`, `served`, `deployed` | what Caddy forwards to for pinned routes and for routes to a pool; whether the last sync succeeded |
| `overwritten` | history: routes whose home a failed edit has written back |

`Heartbeat`, `RefreshHealth` (writes `last_seen_at` without an evaluation),
`BecomesStale`, `CooldownPasses`, `WatchdogTurn` (evaluates gateways in one turn
until one changes, then awaits its handler), `HandleQuiet`, `HandleDown`,
`HandleUp`, `HandlerSynced`, `NodeRestarts`, `BootReconcile` (in the turn in which
the server starts to listen, hence `Running`), `BootSynced`, `BeginEdit`,
`WriteEdit`, `Relocate`, `EditSynced`, `EditFails`.

A deployment is one step here; its inside is `CaddySync`.  The order in which a
tick visits the gateways is the database's and is left open.  `first_alive` cannot
happen: `alive` starts as 1 and every death sets `went_down_at`.

The status window of `gateways.js` PATCHes handlers of routes of gateways outside
pools into the live configuration (`caddyAdminClient.js:258`).  It sends an object,
or the text `'revert'`, where Caddy expects a list of handlers, and ignores the
answer; whether anything comes of it is outside the repository, and neither model
has it.

### 4.2 Runs

| Run | Instance | Shows |
|---|---|---|
| `failover_safety` | 2 gateways in a pool, 1 pinned route that admins edit, 2 queued handlers | `TypeOK`, `HomeRestored`, `UpstreamFollowsTarget`, `HomeKept` |
| `failover_live` | the same without edits, with a route to the pool, 3 queued handlers | `LastWordIsUp`, `DeadLeavePools`, `HealthConverges`, `FailbackHappens` |
| `failover_stuck` | as `failover_safety` | `NotStuckOnDeadPeer` is refuted |

*Bounds.* `MaxChain` limits queued handlers, `Edited` the routes that are edited,
and one watchdog tick runs at a time.  Two gateways are enough for either to fail
over to the other and back, also crosswise; three queued handlers are the fewest
in which a gateway dies, cools down and returns while its death is still waiting,
the case in which a late handler parks a route whose home is alive.  A third
gateway adds the second failure that the code documents as accepted: a parked
route is not parked again when its sibling dies too.

*Fairness.* Handlers, the boot reconciliation and the cooldown are weakly fair:
their awaits have time limits and time passes.  The watchdog is strongly fair: it
is an interval timer that nothing in the code disables, only `MaxChain` and the
single tick of the model do so now and then.  Gateways and admins owe nothing.
`HealthConverges` assumes that the process stays up from some point on.

### 4.3 Proofs (`GatewayFailover_proofs`)

Any gateways, pools, members, priorities and routes, any pools that balance, any
length of the queue, from the `ASSUME` of the module alone.

* `TypeCorrect`, `Inductive`: `Spec => []IInv`.  `IInv` is `TypeOK` with five facts.
  `HomeRestored` is not inductive alone: when the handler of a death parks a route
  on a sibling, its gateway may be alive again, and it must be known that the
  handler of the return is still behind it in the queue; that is `LastWordIsUp`,
  which follows from the order `serializeStateChange` keeps.  `DeadLeavePools`
  needs `SnapshotSound`: a sync reads the snapshot, so the snapshot must never
  hold a gateway for alive that the database has down.
* `ParkedRoutesGoHome`, `DeadGatewaysLeave`: `[]HomeRestored`, `[]DeadLeavePools`
  as consequences.  TLC checks the latter with a failover pool; the theorem covers
  pools that balance, several pools and any number of members.
* `ReturnsFollowDeaths`, `CaddyFollowsRows`: `[]LastWordIsUp` and
  `[]UpstreamFollowsTarget`, parts of `IInv` themselves.
* `HomeNeverLost`: `Spec => HomeKept`, an action property, one step per action:
  parking and returning both leave `Home` alone, the boot reconciliation too.

## 5. WireGuardPeers

### 5.1 Correspondence

| Variable | Code |
|---|---|
| `row`, `open` | `peers.enabled` of each row; whether `isDenied()` is false for it now |
| `file`, `iface` | the peers in `wg0.conf`, and on the running interface |
| `chain`, `sent` | `_wgRewriteChain`: callers whose jobs have not ended; what the head has given to `wg syncconf` |
| `request`, `todo` | what a request awaits, and the keys it removes after its rewrite |
| `cycle`, `lastDenied` | each running `reconcile()` with the deny-set of its start; the module's set |
| `direct` | the `syncconf` that `enforceLimits` runs outside the chain |
| `boot` | after a start the reconciler runs at once, the rewrite two seconds later |
| `unseen` | history: peers whose denial changed, by a row or by a window, and no cycle has dealt with it |
| `outrun` | history: of these, the peers whose window changed again before that, until a cycle leaves file and interface right about them |
| `flawed` | history: peers that one of the weaknesses below has struck, until file and interface are right again |

`Create`, `Update`, `Toggle`, `BatchEnable`, `BatchDisable`, `Delete` (one or
several) and `Expire` change rows and queue a rewrite in one turn (`Mutate`).
`Rewrite` is the turn of a job that reads the rows, writes the file and starts
`syncconf`; `SyncEnds` is its effect and its end; `RemovePeer` is one removal
after it, outside the chain.  `StartCycle`, `Disconnect`, `CaddyPushed` and the end
of its rewrite are a call of `reconcile()`; several may overlap.  Windows change
with time or with a rule, at any moment (`WindowChanges`).  A restart of the interface is
`wg-quick down` and then `up`, which may fail and leave none.  Around them `EnforceLimits` /
`LimitsSynced`, `BootRewrite`, `InterfaceRestarts`, `NodeRestarts`.

What `wg syncconf` does with peers the file does not name is outside the
repository, whose comments say that it leaves them alone.  `SyncRemoves` admits
either, and the passing run lets it differ from call to call.

### 5.2 Runs

| Run | Instance | Shows |
|---|---|---|
| `wg_peers` | 1 peer with rules, 2 requests, 2 cycles, all faults, either `syncconf` | `TypeOK`, `RevokedIsOff`, `DeniedIsOff`, `AllowedIsOn` |

*What the properties excuse.*  `flawed` names the steps after which the code has
nothing left that would repair the interface: a command that failed (failures are
logged only), a removal that comes after the peer was switched on again, an update
with `enabled = false` (it removes no key), a licence limit, a removal by a cycle of a
peer that is allowed again by then, a rewrite in progress
that brings back a peer a cycle has just removed, a restart that loses removals,
and a restart of the interface from a file that is not current.  A peer leaves
`flawed` as soon as the file and the interface are right about it, so that the
properties speak about all that happens afterwards.

*Windows that outrun the cycles.*  Nothing is assumed of when a window changes.  But the
reconciler compares what is denied now with what its last cycle saw, so that of two
changes between two cycles it sees none, whatever happened to the peer in between.
`outrun` names the peers whose window changed while an earlier change, of the window or of
the row, was not dealt with; they are excused until a cycle that runs alone has seen them
and finds file and interface right.  Without this excuse TLC refutes `DeniedIsOff` and
`AllowedIsOn` (section 10); windows are made of minutes and ticks come every minute, so
that it takes a cycle that fails, or an admin, in between.

*Bounds.*  One peer has every order of rewrites, removals and cycles that concerns it but
one: a cycle takes several peers off one after the other, so that a peer may be allowed
again by the time its turn comes.  The proofs, which hold for any number, brought this
out; a run with two peers shows it too.  Two requests give the late removal, two cycles the overlap of a tick with
`reconcileNow()`.

### 5.3 Proofs (`WireGuardPeers_proofs`)

Any peers, requests, cycles, faults, any times at which windows change and either behaviour
of `syncconf`.
`RevokedIsOff` alone is not inductive: a `syncconf` that has started holds peers that
were switched off since, and it may bring a key back that was just removed.  `IInv`
adds `SentIsFile` (what it was given is what the file holds, since only the chain
writes it) and `SentCovered`: for each such peer a request is queued behind it that
still has the key to remove, or the peer is in `flawed`.  `TypeCorrect`, `Inductive`,
`RevokedStaysOff`.

For the windows, `WInv` adds to `IInv`:

* `CyclesApart`: what a cycle has left to do in each phase, and one place in the chain
  for each that rewrites;
* `SeenAlike`: of a peer that was dealt with, `lastDenied` and the deny-set of every cycle
  under way say what is so.  Overlapping cycles may therefore replace `lastDenied` in any
  order;
* `DeniedLeave`: a peer in `lastDenied`, or one that a cycle has behind it, is off the
  interface, and in the first case no `syncconf` under way holds it either;
* `Missed`: a peer that became allowed after the last job of the chain has read the rows is
  still in `lastDenied`, so that the next cycle finds it and rewrites (unless `outrun`);
* `AllowedArrive`: an allowed peer is on the interface and in the file, or a job will put
  it there, or it is in `lastDenied`, and no cycle that ends without a rewrite forgets it.

`WindowsInductive`, `DeniedStayOff`, `AllowedGetOn`.

## 6. CircuitBreaker

### 6.1 Correspondence

| Variable | Code |
|---|---|
| `status`, `failures`, `age` | `circuit_breaker_status`, `cb_failure_count`, the time since `cb_opened_at` |
| `enabled`, `monitored` | `circuit_breaker_enabled`, `monitoring_enabled` |
| `seen` | `monitoring_status` |
| `check` | each running `checkRoute()`: the status its row had when it was read, and the await it is in (the probe, the alert mail) |
| `pending`, `answer` | a sync was asked for; what Caddy does with requests since the last one |
| `saving` | an update with breaker settings awaits its sync and resets the circuit after it |
| `opened`, `streak`, `unsynced` | history: time since the opening, failures in a row, an update that closed the circuit after its sync |

`BeginRun` is a run of `runChecks()` up to its SELECT, with `CheckTimeouts` before
it; `Probed` and `Mailed` are what `checkRoute()` does after its awaits, both ending in
`CheckAndUpdate` with the result that was probed and the breaker as it is by then.
`BeginCheck` is a check by hand, or the one after an update that switches monitoring
on.  `SaveSettings` / `SettingsSaved`, `ResetByHand` and `SetMonitored` are what
administrators do.  A sync is one step and succeeds; its inside is `CaddySync`.

### 6.2 Run

| Run | Instance | Shows |
|---|---|---|
| `breaker_states` | 2 checks at once, threshold 2, timeout 2 ticks, 2 edits | `TypeOK`, `OpensOnStreak`, `OpenLasts`, `Recovers`, `OutageHolds` |

*Bounds.*  Runs start every minute whether the last one has ended or not; two at once
give every stale result there is, since a third is stale in the same way.  A threshold
of two tells a streak from a single failure, a timeout of two ticks a new opening from
an old one.  `MaxEdits` bounds what administrators do in one behaviour; two edits
switch the breaker or monitoring off and on again.

*Fairness.*  Runs, probes, mails, requested syncs, the sync of an update and the clock
are weakly fair: an interval timer, time limits, the coalescer.  Nothing is assumed of
the backend; `Recovers` and `OutageHolds` start from a backend that stays as it is.
`OutageHolds` does not say that Caddy answers 503 for ever: a circuit is half-open for
each trial.

### 6.3 Proofs (`CircuitBreaker_proofs`)

Any threshold, timeout, number of checks and of edits.  The inductive invariant is
`TypeOK` with two facts: the count never exceeds the failures in a row
(`CountIsBacked`), and an open circuit's age is the time since it opened
(`AgeIsOpened`).  From them `TypeCorrect`, `OpensOnStreakHolds` and `OpenLastsHolds`;
the last two are action properties.

## 7. Edge channel: EdgeConnections, EdgeEvents, AtLeastOnce

### 7.1 Correspondence

`EdgeConnections` has the connections of one gateway: each WebSocket's `readyState`
(`ws`), whose hello was taken (`ready`), the entry of the map `conns` (`current`), and
the connection the gateway itself uses (`gw`), which it may leave before the hub
notices.  A newer connection closes the older, whose `close` comes later, so that both
are read for a while.

`EdgeEvents` extends it with the events of one plugin:

| Variable | Code |
|---|---|
| `up`, `down` | frames on their way: hello and events; states and acknowledgements |
| `queue`, `pump`, `acked` | of each connection, the queue of the plugin, `pumping` or the retry timer, the highest number acknowledged |
| `effective` | plugin, assignment and edge are switched on for the gateway |
| `emitted`, `unacked`, `informed` | the gateway: its newest event, those it keeps, whether its connection has had its first state |
| `handled`, `doubtful` | history: events whose handlers ran; those the promise leaves out |

`Hello`, `Event` (all five branches of `onEvent`), `Delivered`, `DeliveryFails` (the
handlers may have run), `Retry`, `Drop`, `Close` and `ServerRestart` are the hub.
`Emit`, `Leave`, `GatewayState` (all that is kept is sent again) and `GatewayAck` (an
acknowledgement covers all lower numbers) are the gateway.  That is another program;
it is modelled after `scripts/plugin-edge-host.js`, with which the repository tests
the hub, and `Eager` says whether it sends an event before the first state, as that
script does.  The script is made for one connection; what it has had of it (`informed`)
begins anew with each one here, as its comment says of the gateway ("after the first
state of a connection, every unacknowledged event again").

### 7.2 The abstract specification

`AtLeastOnce` says in four steps what the header of `hub.js` promises: the sender keeps
an event until it was handled; an event is handled when all older ones are settled;
only settled events are forgotten.  A *doubtful* event is one the promise leaves out:
it met a full queue or a plugin that was switched off, or a newer one was sent ahead
of it.  `EdgeEvents` implements it (`PromiseKept`, with `kept` mapped to `unacked`):
reconnects, lost frames, repeated deliveries and restarts are stutters or steps of it.

### 7.3 Runs

| Run | Instance | Shows |
|---|---|---|
| `edge_events` | 2 connections, 2 events, queue of 1, switched, eager | `TypeOK`, `QueueAscends`, `PromiseKept`, `AllTaken` |
| `edge_lost` | 1 connection, 3 events, queue of 1 | `NothingLost` is refuted |

*Bounds.*  Two connections give the old one that is still read while the new one
works; two events an overtaking, a full queue and an acknowledgement that covers more
than one.  Larger instances were run once: 2 connections with 3 events and a queue of
1 (856,000 states eager, 227,000 not), and 2 events with a queue of 2 (103,000).

*Fairness.*  Frames that have arrived are read, timers fire, a connection that closes
ends.  `Delivered` is strongly fair: a delivery that fails is tried again by a timer
until the process takes it.  `AllTaken` assumes a connection that stays and a plugin
that stays switched on, and says nothing of doubtful events.

### 7.4 Proofs (`EdgeEvents_proofs`)

Any number of connections and events, any limit of the queues.  `PromiseKept` needs to
know of every place an event can be in: `IInv` is `TypeOK`, `QueueAscends` and

* `Numbered`: only events that exist are under way;
* `AcksSettled`: what is acknowledged, or on its way as an acknowledgement, is settled
  with everything below it;
* `QueueBacked`, `FramesBacked`: no event stands in a queue or travels ahead of an
  older one that is not settled;
* `GatewayBacked`: once the gateway has had the state, its connection carries all that
  is not settled;
* `KeptOrSettled`: the gateway keeps what is not settled.

`TypeCorrect`, `Inductive`, `QueueAscending`, and `Refinement`: `Spec => PromiseKept`,
each action mapped to a step of `AtLeastOnce` or to a stutter.

## 8. PluginLifecycle

### 8.1 Correspondence

| Variable | Code |
|---|---|
| `row`, `entitled` | table `plugins`; what `evaluate()` finds of licence, signature, compatibility |
| `proc` | `PluginProcess` objects: `wanted`, child, restart timer, who waits for `stopResolve` |
| `procs` | the map of `runtime.js` |
| `chain`, `run`, `rows` | `reconciling`, the await its head is in, the rows the head has read and not dealt with |
| `request` | an administrator's request or the nightly update |
| `unseen`, `struck` | history: entitlements no run has looked at since they changed; what got in the way of a stop or a start |

`StartRun`, `WalkStop` / `WalkRun` / `WalkReplace` and `EndRun` are `reconcile()`, one
plugin at a time; `TimerReconcile` its timer.  `SetEnabled`, `Restart`, `Uninstall` and
`Install` are requests, which stop the process themselves, outside the chain, and go
on with `StorageClosed`, `Migrated` or `MigrationFails`.  `Exit`, `ExitForRequest`,
`ExitForRun` and `RestartTimer` are the life of a child; `EntitlementChanges` stands
for licences and settings.

### 8.2 Run

| Run | Instance | Shows |
|---|---|---|
| `plugin_lifecycle` | 1 plugin, 2 versions, 2 requests, 2 process objects | `TypeOK`, `RunsWhatMayRun`, `NothingOutside`, `RequestsAnswered`, `ComesBack` |

*What the properties excuse.*  `struck` records two facts about the code (section 10):
a stop or a start that meets a stop under way, and a start while an uninstall closes
the database.  `Followed`, a state constraint, does not follow a behaviour beyond one of
them, because with a single plugin the properties say nothing of what comes after.  They
therefore do not show what such a meeting leads to; what they cover is all that happens
as long as no two of them meet.  A start during an update is followed: the old version may
run while its database is migrated, which the code allows, and `RunsWhatMayRun` says that
the new one runs in the end.

*Bounds.*  Plugins share nothing but the chain, whose turns between two plugins the
model has as steps of its own.  Two requests beside the chain give every pair that can
meet; two objects a process that was replaced while its successor runs.  One waiting
tick of the timer stands for all.

*Fairness.*  Runs go on, storage calls have time limits, a child that was told to stop
is killed after three seconds, timers fire.  Children crash or not as they like.

### 8.3 Proofs (`PluginLifecycle_proofs`)

Any plugins, versions, requests and process objects; no state is left out, as `Followed`
is not part of the specification.  `TypeCorrect`, `Inductive`, `OneProcess`
(`NothingOutside`), `RunsWhatIsDue` (`RunsWhatMayRun`).
The properties speak about moments of rest or about single awaits; `IInv` carries them
through the awaits of the chain and of the requests:

* `Mapped`, `Stopped`, `Stoppers`: what the map of `runtime.js` names is alive; a child
  whose end is awaited is in the map and not wanted; each waiter waits for one child,
  of the plugin it is about;
* `Asked`, `Chained`: what a request is about at each of its awaits, and who waits for
  the chain;
* `Alone`: a plugin whose row is gone, or whose database an uninstall is closing, has no
  process;
* `RowsFresh`, `WaitsRightly`, `Awaited`: a row that changed since the run has read it is
  followed by another run; a run that waits for a child is about to do what the row still
  asks for, and that child will tell it;
* `RightOrDue`: a plugin has the process its row asks for, or the run under way, a run
  behind it or a request has still to deal with it.  At rest nothing is due, which is
  `RunsWhatMayRun`.

## 9. Media areas: MediaTransfers, MediaAreas

### 9.1 Correspondence

| Variable | Code |
|---|---|
| `area` | target, form (`blocks` sealed, `files` readable), and the target a move goes to |
| `rows`, `used` | `plugin_media`: path, place and form of the object, the key it should have, `missing` |
| `disk` | sealed copies on this server |
| `store`, `settled` | objects on targets; which of them are a minute old |
| `gone` | `plugin_media_gone` |
| `worker` | `tick()`: where it is between two calls, the deletions and tasks it has read, its task |
| `scan` | `doScan()`: the list it has, what of it is new or has changed, what it is about to take in; `old`: the listed keys whose object has changed since |
| `times` | `remote_mtime` of each file: none, its object's, or that of another object |
| `torn` | history: bytes whose last transfer was never written down, that a scan took for something older, or whose path or place a scan gave to another row |

`MediaTransfers` has the commands (`Claim`, `MoveTo`, `Delete`, `SetTarget`; each is
one turn) and the worker call by call: deletions (`GoneKeeps`, `GoneRemoves`,
`RemoveEnds`), tasks (`Rename`, `Fetch`, `Copy`, `Home`, `PutOff`, `Fetched`, `Written`,
`PutEnds`, `RenameEnds`, `TaskFails`), the end of a move and the cache (`TickEnds`).
A task works on the row it has read before; its last UPDATE compares.  `MediaAreas`
composes it with the scan, and with calls that fail and restarts: `Listed` is the list,
`ScanTurn` the turn that compares it with the rows (a file without a time adopts the
list's, one that differs has changed, one missing twice is forgotten), `Taken` an import,
`ConflictMoves` the rename of a file in the way, `Left` what becomes of one that is not
taken in (the restore branch of `takeChanged`).  Nobody changes a file by hand, but a list
older than a transfer shows an object that is no longer there: then the scan may adopt its
time, or find the server's own file changed, now or at its next run.  Objects are told
apart by whose bytes they are; a size that differs stands behind the choice in `ScanTurn`.

### 9.2 Run

| Run | Instance | Shows |
|---|---|---|
| `media_areas` | 2 files, 1 path, 1 target, 3 commands, 1 fault | `TypeOK`, `OnePlaceEach`, `NoneLost`, `NoneLeft`, `ScanHarmless`, `EndsInPlace` |

*Bounds.*  One path for two files makes every conflict over a place; one target and
this server give both directions of a move.  Three commands are a claim and two things
that overlap with its transfer.  Larger instances were run once for
the invariants: 4 commands with 1 fault (9.4 million states), 5 commands without faults
(5.9 million), and 2 paths with 3 commands and 1 fault (9.6 million).

*What the model assumes.*  The target is a folder, whose calls take effect in their
order, and nobody touches it by hand, so that whatever the scan finds is the server's
own.  A list is one look at the whole folder, though the code walks directories over many
awaits (`storageTargets/drivers/local.js:89-107`); the reading of an import and its INSERT
are one step; the time budget and the limits of one scan are left out.  A call that fails has had no effect, except that a look at an object just written
may fail and leave it.

*What the properties excuse.*  `torn` marks a file whose transfer was cut off between
its call and its UPDATE, whose object was written or renamed after the scan had listed its
key, or whose path or place the scan has given to a second row.  The last two need no
fault: the scan is not harmless there, and section 10 says what it does.  `Waiting` names two files that want each other's place (section 10).

*Fairness.*  The worker is weakly fair: an interval timer starts it, and its calls have
deadlines.  Scans owe nothing.

### 9.3 Proofs (`MediaAreas_proofs`)

Any files, paths and targets, any number of commands and faults.  `Inductive` is
`Spec => []Inv`, with `Inv` the conjunction of `IInv`, `TypeOK` and `Timed`; `TypeCorrect`,
 `Apart` (`OnePlaceEach`), `Safe` (`NoneLost`), `Tidy` (`NoneLeft`),
`ScanIsHarmless` (`ScanHarmless`).  The worker acts on rows it has read long before, and
the scan on a list; `IInv` says why neither is wrong when it acts:

* `Keyed`, `HereIsHere`, `StoredWhole`, `StoredOwn`: a row has the key of its path and
  form, what it says is here is here, and the object at its place is its own;
* `TasksApart`, `TaskRows`, `TaskStore`: the tasks of one list are of different files and
  places, and while a task is due nobody changes the place of its row, neither a command
  (which only sets the key it should have) nor the scan, so that the UPDATE that compares
  finds the row as it was;
* `Vacancy`: no other file is where a task will bring its own, except one that the scan
  has found there; then the object lies in the way and the task is put off;
* `JobInHand`, `AllAccounted`: between a call and its UPDATE the object is in the worker's
  hand; any other object belongs to a row, to a deletion that is due, or to a torn file;
* `ScanKnows`: an object that was listed was accounted for then, or has changed since and
  is known to have (`scan.old`), so that what is taken in or forgotten is torn; what is to
  be taken for changed is kept with the row it had;
* `Timed` (beside `IInv`): only a torn file has the time of another object, so that no
  other one is found changed, and a file on this server has none.

`NoneLeft` is strict about the worker: an object in its hand counts as known only
while that very task has put or renamed it.

## 10. Findings and other facts

Two runs refute what the repository says of itself; `PROJECT.json` quotes the lines.

1. *Routes stuck on a dead gateway after a start* (`failover_stuck`,
   `services/gatewayHealth.js:320`): the sibling is alive but not yet in the snapshot.
2. *An event forgotten unhandled* (`edge_lost`, `services/edge/hub.js:322`): one that
   was dropped at a full queue is covered by the acknowledgement of a later one.

Facts about the code that the passing runs name where they exclude them, or that were
seen on the way and are not in a model:

* Deployment.  A circuit change that joins a pending sync past its build is swallowed
  (`services/caddySync.js:11`; `unpushed` in `CaddySync`).  An update with breaker
  settings closes the circuit after its sync, and nobody pushes that
  (`routes/api/routes.js:840`; `unpushed`, `unsynced`).  Rollbacks of requests
  that hold the same row write back values of each other (`services/routes.js:1088`;
  `shared` in `CaddySyncHistory`), and that of a batch restores rows deleted meanwhile
  (`services/routes.js:1292`).  A failed `remove()` brings a route back without its rows of
  `route_peer_acl`, which went with it (`services/routes.js:1174-1178`; a comment at
  1166-1170 says that it does not throw the ACL away), and a failed update with
  `acl_peers` leaves the new peers (1050, 1088; `services/routesSync.js:18-20` says the row
  is put back the way it was); both are `relisted` in `CaddySyncHistory`.  A route with
  `acl_enabled` and no peers or groups listed is open to all
  (`services/caddyConfig.js:718`).  A rejected configuration stays in `runtime.json` until
  the next job; a request whose sync the ownership guard refuses is answered with
  success; a restart with `GC_CADDY_CONFIG_PRELOADED=1` skips the boot sync, so a row
  written just before a crash waits for the next sync or for the reconciler; an open
  circuit has no `@id` in Caddy, so that the reconciler reports drift
  (`services/caddyConfig.js:639`); a snapshot that is partly filled makes a pool serve
  the outage page although a member is alive (`services/caddyConfig.js:107`).
* Peers.  A peer above the licence limit stays connected, since the file still names it
  when `syncconf` runs (`services/license.js:698`).  The reconciler compares with its
  own last cycle and not with what was applied (`services/accessReconciler.js:79`), so that
  it misses what changed twice in between (`outrun`).  A peer that is denied and
  switched on just before its window opens may be left out for good: the rewrite of the
  switch reads it as denied, and no cycle ever saw it so.  A deny is dropped when the push
  to Caddy fails in the cycle that sees a window open: `lastDenied` keeps the peer, an
  admin's rewrite brings it on, its window closes again, and the next cycle finds no
  transition.  The comment at lines 22-24 says that a deny cannot be dropped.  A cycle that
  takes off several peers looks at `lastDenied` before each: another cycle may have
  replaced it since, one of them may be allowed again, and if the push to Caddy fails
  before the rewrite (line 93), that peer stays off until something else rewrites.  `toggle`
  removes a key late, also when the peer was switched on again (`services/peers.js:376`).
* Plugins.  A reconcile tick during an uninstall's `await` of `storage.close` starts the
  process again; the row is then removed, and since `reconcile()` walks rows only, the
  process runs on.  A start that meets a stop under way leaves a process outside the map
  when the stop's caller deletes the entry.  A second `stop()` overwrites `stopResolve`,
  and the first caller waits for ever.  `install()` uses a row it read before its awaits,
  so that a switch made meanwhile is undone.  A reinstall of the same version keeps the
  old code if the process was started again meanwhile.  The reconcile timer may start the
  old version while an update migrates its database (`services/plugins/index.js:286`).
* Edge.  A connection that was ready and is replaced by one that closes before its hello
  leaves the plugin without `$offline`.  Deliveries of two connections may overlap.  An
  event sent before the first state overtakes those that were kept (`Eager`).  The test
  `ev.seq <= q.acked` in `pump` never holds (`QueueAscends`).
* Media.  Two readable files that exchange paths wait for each other
  (`services/plugins/mediaAreas.js:826`), and a move of their area does not end.  A crash
  between a rename on the target and its UPDATE leaves the file unreadable under its id;
  the scan takes the object in as another file.  A crash between a put and its UPDATE
  leaves an object nobody deletes.  A scan whose list is older than a transfer may take
  in a file of the area, also so that two rows name one place or have one path
  (`services/plugins/mediaAreas.js:1126`; a comment at line 362 says a path is unique in
  the area, but no index ensures it); or it
  gives a file the time of the object that was there before, and finds the file changed
  the next time: it is then taken in under a new id, and the old one becomes a version,
  or goes when its sealed copy is no longer here (`services/plugins/mediaAreas.js:1080`,
  990-1011).  A process that stops between the two UPDATEs of `takeChanged` leaves the old
  file without its place.  A put that is tried again
  in the form `files` may find its own object in the way.

## 11. What is proved, checked, left out

* Proved for every instance: `TypeOK`, `SyncedAtRest` and `OwnerGuard` of `CaddySync`,
  `FailedRestoresRow` of `CaddySyncHistory`;
  `TypeOK`, `LastWordIsUp`, `HomeRestored`, `UpstreamFollowsTarget`, `DeadLeavePools` and
  `HomeKept` of `GatewayFailover`; all properties of `WireGuardPeers`;
  `TypeOK`, `OpensOnStreak` and `OpenLasts` of `CircuitBreaker`; `TypeOK`, `QueueAscends`
  and the refinement `PromiseKept` of `EdgeEvents`; all safety properties of
  `PluginLifecycle` and of `MediaAreas`.
* Checked with TLC only: liveness, which is out of the prover's reach together with
  `ENABLED` (`RequestsSettle`, `DivergenceRepaired`, `HealthConverges`, `FailbackHappens`,
  `Recovers`, `OutageHolds`, `RequestsAnswered`, `ComesBack`, `AllTaken`, `EndsInPlace`), and
  what the two runs refute.
* Not modelled:
  * the rendering of handlers, validation and wording; changes of pools and gateways
    while a failover is under way; certificates;
  * peers: the restore of a backup, host names, the effects of a deletion on routes;
  * the breaker: uptime statistics, the probes themselves;
  * the edge: calls, presence, status reports, logs, configuration, a gateway that sends
    again on its own;
  * plugins: the host API, calls to a process, the time limit of a start, a start that
    throws at once, back-off, replacement of one plugin by another, restores, `stopAll`;
  * media: copies on a target, changes made by hand, other drivers (on a NAS a list may
    show a rename before its answer), the virus scan, quotas, direct reads, removal of a
    plugin's files, several areas, the limit of missing files;
  * the components that `PROJECT.json` lists as not modelled, with the reason beside
    each.  Most of the repository is of that kind: pages, handlers of single requests
    over single rows, rendering, migrations and translations, in which no order of steps
    matters beyond what the database ensures.

Every property has a mutant in `PROJECT.json`: an operator beside the definition it
replaces, changed as a plausible mistake in that code would change it.

## 12. Running

    tlc -workers 2 -config CaddySync_safety.cfg MCCaddySync
    tlc -workers 2 -config CaddySync_live.cfg MCCaddySync
    tlc -workers 2 -config CaddySync_rollback.cfg MCCaddySyncHistory
    tlc -workers 2 -config GatewayFailover_safety.cfg MCGatewayFailover
    tlc -workers 2 -config GatewayFailover_live.cfg MCGatewayFailover
    tlc -workers 2 -config GatewayFailover_stuck.cfg MCGatewayFailover
    tlc -workers 2 -config WireGuardPeers_safety.cfg MCWireGuardPeers
    tlc -workers 2 -config CircuitBreaker_states.cfg MCCircuitBreaker
    tlc -workers 2 -config EdgeEvents_events.cfg MCEdgeEvents
    tlc -workers 2 -config EdgeEvents_lost.cfg MCEdgeEvents
    tlc -workers 2 -config PluginLifecycle_lifecycle.cfg MCPluginLifecycle
    tlc -workers 2 -config MediaAreas_areas.cfg MCMediaAreas
    for m in CaddySync CaddySyncHistory GatewayFailover WireGuardPeers CircuitBreaker \
             EdgeEvents PluginLifecycle MediaAreas; do
        tlapm ${m}_proofs.tla
    done

The longest runs, `caddy_safety` and `media_areas`, take a few minutes on two
cores.
