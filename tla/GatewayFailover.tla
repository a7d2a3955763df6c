--------------------------- MODULE GatewayFailover ---------------------------
(***************************************************************************)
(* Failover of routes between home gateways (services/gatewayHealth.js).   *)
(*                                                                         *)
(* A gateway is alive while it was seen within the threshold.  Heartbeats  *)
(* and the watchdog re-evaluate it; every change of its state queues one   *)
(* handler on _stateChainTail.  The handler of a death parks the routes of *)
(* the gateway on the first living member of one of its pools, keeping the *)
(* gateway in original_peer_id; the handler of a return brings them back.  *)
(* Both then deploy to Caddy, which CaddySync.tla models; here a sync is   *)
(* one step that succeeds or fails.                                        *)
(*                                                                         *)
(* The state of a gateway is in the database and survives a restart of the *)
(* process; the snapshot, the queue of handlers and the watchdog do not.   *)
(***************************************************************************)
EXTENDS Naturals, Sequences, FiniteSets

CONSTANTS
    Gateways,      \* enabled peers of type gateway
    Pools,         \* enabled gateway pools
    Members,       \* Members[p]: the gateways of pool p by ascending priority
    Balancing,     \* the pools with mode load_balancing
    Routes,        \* HTTP routes pinned to a gateway
    PoolRoutes,    \* the pools that routes name with target_pool_id
    Edited,        \* the routes admins edit, a bound for model checking only
    None,          \* NULL
    MaxChain       \* bound on queued handlers, for model checking only

VARIABLES
    fresh,         \* last_seen_at is within gateway_down_threshold_s
    health,        \* alive, went_down_at and recovered_first_hb_at
    snapshot,      \* _snapshot, empty after a restart
    target,        \* target_peer_id
    original,      \* original_peer_id
    chain,         \* _stateChainTail: queued handlers, the head may be running
    handler,       \* "syncing" while the head awaits its sync
    unchecked,     \* gateways the watchdog tick has still to evaluate
    boot,          \* reconcileFailoverState: "due" while the process starts
    edit,          \* the route an admin edits: phase, route, row read before
    upstream,      \* upstream of each pinned route in the deployed configuration
    served,        \* upstreams of the routes to a pool in it; {} is the outage page
    deployed,      \* the last sync of this process succeeded
    overwritten    \* routes whose restore a failed edit has undone

vars == <<fresh, health, snapshot, target, original, chain, handler, unchecked,
          boot, edit, upstream, served, deployed, overwritten>>

gatewayVars == <<fresh, health, snapshot>>
routeVars   == <<target, original, overwritten>>
caddyVars   == <<upstream, served, deployed>>
queueVars   == <<chain, handler>>

-----------------------------------------------------------------------------
(* The data *)

\* alive = 1; alive = 0; alive = 0 with recovered_first_hb_at set, and set longer
\* ago than the longest failback cooldown of the gateway's pools.  alive = 0 always
\* comes with went_down_at, so 'first_alive' never happens.
Health == {"alive", "down", "cooldown", "elapsed"}

Row       == [target : Gateways, original : Gateways \cup {None}]
EditPhase == {"idle", "read", "syncing", "relocating"}
NoEdit    == [phase |-> "idle", route |-> None, row |-> None]
Edit      == [phase : EditPhase, route : Routes \cup {None}, row : Row \cup {None}]

\* A queued _onTransition.  Only "down" and "up" do more than log; the watchdog
\* awaits the handlers it queued.
Event == [gateway : Gateways, what : {"down", "up", "quiet"}, watchdog : BOOLEAN]

MembersOf(p) == {Members[p][i] : i \in DOMAIN Members[p]}
PoolsOf(g)   == {p \in Pools : g \in MembersOf(p)}

\* The member of a pool in S with the best priority: a set of one gateway, or of
\* none when S has no member of the pool.
Best(p, S) ==
    {Members[p][i] : i \in {i \in DOMAIN Members[p] :
                               /\ Members[p][i] \in S
                               /\ \A j \in 1 .. (i - 1) : Members[p][j] \notin S}}

ASSUME FailoverAssumption ==
    /\ None \notin Gateways /\ None \notin Routes /\ None \notin Row
    /\ Members \in [Pools -> Seq(Gateways)]
    /\ Balancing \subseteq Pools /\ PoolRoutes \subseteq Pools
    /\ Edited \subseteq Routes
    /\ MaxChain \in Nat

Seen == {g \in Gateways : snapshot[g] = "alive"}
Up   == {g \in Gateways : health[g] = "alive"}

\* resolveActivePeer(pool, _snapshot) of one of the pools of g: listPoolsForPeer
\* has no order, and a pool that yields nothing to move is passed over.
Siblings(g)     == (UNION {Best(p, Seen) : p \in PoolsOf(g)}) \ {g}
BootSiblings(g) == UNION {Best(p, Up) : p \in PoolsOf(g)}

TypeOK ==
    /\ fresh \in [Gateways -> BOOLEAN]
    /\ health \in [Gateways -> Health]
    /\ snapshot \in [Gateways -> {"none", "alive", "down"}]
    /\ target \in [Routes -> Gateways]
    /\ original \in [Routes -> Gateways \cup {None}]
    /\ chain \in Seq(Event)
    /\ handler \in {"idle", "syncing"}
    /\ handler = "syncing" => chain # <<>>
    /\ unchecked \in SUBSET Gateways
    /\ boot \in {"due", "syncing", "done"}
    /\ edit \in Edit
    /\ edit.phase # "idle" => edit.route \in Routes
    /\ edit.phase \in {"read", "syncing"} => edit.row \in Row
    /\ upstream \in [Routes -> Gateways]
    /\ served \in [PoolRoutes -> SUBSET Gateways]
    /\ deployed \in BOOLEAN
    /\ overwritten \in SUBSET Routes

-----------------------------------------------------------------------------
(* Deployment *)

\* resolveRouteUpstreams: an empty snapshot is seeded from the database.
RenderedPool(p) ==
    LET living == IF \A g \in Gateways : snapshot[g] = "none" THEN Up ELSE Seen
    IN  IF p \in Balancing THEN MembersOf(p) \cap living
        ELSE Best(p, living)

\* Mutant: the result of the sync is not looked at.
DeployUnchecked(ok) ==
    /\ deployed' = TRUE
    /\ IF ok
       THEN upstream' = target /\ served' = [p \in PoolRoutes |-> RenderedPool(p)]
       ELSE UNCHANGED <<upstream, served>>

Deploy(ok) ==
    /\ deployed' = ok
    /\ IF ok
       THEN upstream' = target /\ served' = [p \in PoolRoutes |-> RenderedPool(p)]
       ELSE UNCHANGED <<upstream, served>>

Init ==
    /\ fresh = [g \in Gateways |-> TRUE]
    /\ health = [g \in Gateways |-> "alive"]
    /\ snapshot = [g \in Gateways |-> "none"]
    /\ target \in [Routes -> Gateways]
    /\ original = [r \in Routes |-> None]
    /\ chain = <<>> /\ handler = "idle"
    /\ unchecked = {}
    /\ boot = "due"
    /\ edit = NoEdit
    /\ upstream = target
    /\ served = [p \in PoolRoutes |-> IF p \in Balancing THEN MembersOf(p)
                                       ELSE Best(p, Gateways)]
    /\ deployed = TRUE
    /\ overwritten = {}

-----------------------------------------------------------------------------
(* Evaluation: evaluatePeer *)

\* server.js takes requests, starts the watchdog and reconciles in the one turn in
\* which the server begins to listen.
Running == boot # "due"

NextHealth(h, seen) ==
    CASE h = "alive" -> IF seen THEN "alive" ELSE "down"
      [] h = "down" -> IF seen THEN "cooldown" ELSE "down"
      [] h = "cooldown" -> IF seen THEN "cooldown" ELSE "down"
      [] h = "elapsed" -> IF seen THEN "alive" ELSE "down"

\* Mutant: the end of a cooldown is not among the transitions handled.
EventOfDeathsOnly(g, from, to, watchdog) ==
    [gateway  |-> g,
     what     |-> IF from = "alive" THEN "down" ELSE "quiet",
     watchdog |-> watchdog]

EventOf(g, from, to, watchdog) ==
    [gateway  |-> g,
     what     |-> IF to = "alive" THEN "up" ELSE IF from = "alive" THEN "down" ELSE "quiet",
     watchdog |-> watchdog]

\* evaluatePeer for the gateways of S in one turn, at most one of which changes;
\* that one's handler is queued by serializeStateChange.
Evaluate(S, seen, watchdog) ==
    LET next(g) == NextHealth(health[g], seen[g])
        moved   == {g \in S : next(g) # health[g]}
    IN  /\ \A g, h \in moved : g = h
        /\ moved # {} => Len(chain) < MaxChain
        /\ health' = [g \in Gateways |-> IF g \in S THEN next(g) ELSE health[g]]
        /\ snapshot' = [g \in Gateways |->
                            IF g \notin S THEN snapshot[g]
                            ELSE IF next(g) = "alive" THEN "alive" ELSE "down"]
        /\ IF moved = {} THEN UNCHANGED chain
           ELSE \E g \in moved : chain' = Append(chain, EventOf(g, health[g], next(g), watchdog))

\* POST /api/v1/gateway/heartbeat: last_seen_at and the evaluation in one turn.
Heartbeat(g) ==
    /\ Running
    /\ fresh' = [fresh EXCEPT ![g] = TRUE]
    /\ Evaluate({g}, fresh', FALSE)
    /\ UNCHANGED <<routeVars, handler, unchecked, boot, edit, caddyVars>>

\* refreshHealth writes last_seen_at without an evaluation.
RefreshHealth(g) ==
    /\ Running
    /\ fresh' = [fresh EXCEPT ![g] = TRUE]
    /\ UNCHANGED <<health, snapshot, routeVars, queueVars, unchecked, boot, edit, caddyVars>>

\* The threshold passes without a heartbeat.
BecomesStale(g) ==
    /\ fresh[g]
    /\ fresh' = [fresh EXCEPT ![g] = FALSE]
    /\ UNCHANGED <<health, snapshot, routeVars, queueVars, unchecked, boot, edit, caddyVars>>

\* The failback cooldown runs out.
CooldownPasses(g) ==
    /\ health[g] = "cooldown"
    /\ health' = [health EXCEPT ![g] = "elapsed"]
    /\ UNCHANGED <<fresh, snapshot, routeVars, queueVars, unchecked, boot, edit, caddyVars>>

WatchdogWaits == \E i \in DOMAIN chain : chain[i].watchdog

\* Mutant: a gateway that never answered since the start is not evaluated.
WatchdogTurnOfSeen ==
    /\ Running /\ ~WatchdogWaits
    /\ LET left == {g \in IF unchecked = {} THEN Gateways ELSE unchecked :
                        snapshot[g] # "none"} IN
       \E S \in (SUBSET left) \ {{}} :
          /\ Evaluate(S, fresh, TRUE)
          /\ S = left \/ health' # health
          /\ unchecked' = left \ S
    /\ UNCHANGED <<fresh, routeVars, handler, boot, edit, caddyVars>>

\* watchdogTick evaluates gateways up to the first one that changes and awaits
\* the handler of that one before it goes on.
WatchdogTurn ==
    /\ Running /\ ~WatchdogWaits
    /\ LET left == IF unchecked = {} THEN Gateways ELSE unchecked IN
       \E S \in (SUBSET left) \ {{}} :
          /\ Evaluate(S, fresh, TRUE)
          /\ S = left \/ health' # health
          /\ unchecked' = left \ S
    /\ UNCHANGED <<fresh, routeVars, handler, boot, edit, caddyVars>>

-----------------------------------------------------------------------------
(* Handlers: _onTransition *)

Pinned(g) == {r \in Routes : target[r] = g /\ original[r] = None}

\* Mutant: routes that are already parked are parked again.
PivotAgain(g, to) ==
    LET moved == {r \in Routes : target[r] = g} IN
    /\ target' = [r \in Routes |-> IF r \in moved THEN to ELSE target[r]]
    /\ original' = [r \in Routes |-> IF r \in moved THEN g ELSE original[r]]
    /\ UNCHANGED overwritten

\* _pivotRoutes towards a sibling: routes already parked somewhere stay there.
Pivot(g, to) ==
    /\ target' = [r \in Routes |-> IF r \in Pinned(g) THEN to ELSE target[r]]
    /\ original' = [r \in Routes |-> IF r \in Pinned(g) THEN g ELSE original[r]]
    /\ UNCHANGED overwritten

\* _pivotRoutes with restore, for every gateway of S.
Restore(S) ==
    LET back == {r \in Routes : original[r] \in S} IN
    /\ target' = [r \in Routes |-> IF r \in back THEN original[r] ELSE target[r]]
    /\ original' = [r \in Routes |-> IF r \in back THEN None ELSE original[r]]
    /\ overwritten' = overwritten \ back

\* Mutant: the handler is taken from the queue and not marked done.
EndHandlerStillBusy == UNCHANGED handler /\ chain' = Tail(chain)

EndHandler == handler' = "idle" /\ chain' = Tail(chain)

\* cooldown_reset and down_to_cooldown only log.
HandleQuiet ==
    /\ chain # <<>> /\ handler = "idle" /\ Head(chain).what = "quiet"
    /\ EndHandler
    /\ UNCHANGED <<gatewayVars, routeVars, unchecked, boot, edit, caddyVars>>

\* Mutant: only a route that moved is a reason to sync.
AwaitSyncOfRoutes(g) ==
    IF target' # target THEN handler' = "syncing" /\ UNCHANGED chain ELSE EndHandler

\* A sync follows when a route moved or the gateway belongs to a pool.
AwaitSyncOrEnd(g) ==
    IF PoolsOf(g) # {} \/ target' # target
    THEN handler' = "syncing" /\ UNCHANGED chain
    ELSE EndHandler

HandleDown ==
    /\ chain # <<>> /\ handler = "idle" /\ Head(chain).what = "down"
    /\ LET g == Head(chain).gateway IN
       /\ \/ \E to \in Siblings(g) : Pivot(g, to)
          \/ Siblings(g) = {} /\ UNCHANGED routeVars
       /\ AwaitSyncOrEnd(g)
    /\ UNCHANGED <<gatewayVars, unchecked, boot, edit, caddyVars>>

\* Mutant: routes come back only while a sibling serves them.
HandleUpAfterSiblings ==
    /\ chain # <<>> /\ handler = "idle" /\ Head(chain).what = "up"
    /\ LET g == Head(chain).gateway IN
       /\ IF Siblings(g) = {} THEN UNCHANGED routeVars ELSE Restore({g})
       /\ AwaitSyncOrEnd(g)
    /\ UNCHANGED <<gatewayVars, unchecked, boot, edit, caddyVars>>

HandleUp ==
    /\ chain # <<>> /\ handler = "idle" /\ Head(chain).what = "up"
    /\ LET g == Head(chain).gateway IN
       /\ Restore({g})
       /\ AwaitSyncOrEnd(g)
    /\ UNCHANGED <<gatewayVars, unchecked, boot, edit, caddyVars>>

\* A sync that throws is logged; the handler ends either way.
HandlerSynced ==
    /\ handler = "syncing"
    /\ \E ok \in BOOLEAN : Deploy(ok)
    /\ EndHandler
    /\ UNCHANGED <<gatewayVars, routeVars, unchecked, boot, edit>>

-----------------------------------------------------------------------------
(* Restarts: reconcileFailoverState *)

\* Caddy keeps serving; the database keeps the health of the gateways.
NodeRestarts ==
    /\ snapshot' = [g \in Gateways |-> "none"]
    /\ chain' = <<>> /\ handler' = "idle"
    /\ unchecked' = {}
    /\ boot' = "due"
    /\ edit' = NoEdit
    /\ deployed' = FALSE
    /\ UNCHANGED <<fresh, health, routeVars, upstream, served>>

\* Park the routes of the gateways known to be down, then restore those whose
\* home is alive; sync when a row changed.
BootReconcile ==
    /\ boot = "due"
    /\ \E to \in [Gateways -> Gateways \cup {None}] :
         LET moves(r) == original[r] = None /\ to[target[r]] # None
             back(r)  == original[r] \in Up
         IN  /\ \A g \in Gateways :
                   IF g \in Up \/ BootSiblings(g) = {} THEN to[g] = None
                   ELSE to[g] \in BootSiblings(g)
             /\ target' = [r \in Routes |-> IF moves(r) THEN to[target[r]]
                                            ELSE IF back(r) THEN original[r] ELSE target[r]]
             /\ original' = [r \in Routes |-> IF moves(r) THEN target[r]
                                              ELSE IF back(r) THEN None ELSE original[r]]
             /\ overwritten' = {r \in overwritten : ~back(r)}
    /\ boot' = IF <<target, original>>' = <<target, original>> THEN "done" ELSE "syncing"
    /\ UNCHANGED <<gatewayVars, queueVars, unchecked, edit, caddyVars>>

BootSynced ==
    /\ boot = "syncing"
    /\ \E ok \in BOOLEAN : Deploy(ok)
    /\ boot' = "done"
    /\ UNCHANGED <<gatewayVars, routeVars, queueVars, unchecked, edit>>

-----------------------------------------------------------------------------
(* Admin edits *)

\* routes.update reads the row ...
BeginEdit(r) ==
    /\ Running /\ edit.phase = "idle"
    /\ edit' = [phase |-> "read", route |-> r,
                row |-> [target |-> target[r], original |-> original[r]]]
    /\ UNCHANGED <<gatewayVars, routeVars, queueVars, unchecked, boot, caddyVars>>

\* ... and after its awaits writes target_peer_id, when it was sent, and not
\* original_peer_id.
WriteEdit(g) ==
    /\ edit.phase = "read"
    /\ target' = [target EXCEPT ![edit.route] = g]
    /\ edit' = [edit EXCEPT !.phase = "syncing"]
    /\ UNCHANGED <<gatewayVars, original, overwritten, queueVars, unchecked, boot, caddyVars>>

\* POST /routes/relocate ends a failover.
Relocate(r, g) ==
    /\ Running /\ edit.phase = "idle"
    /\ target' = [target EXCEPT ![r] = g]
    /\ original' = [original EXCEPT ![r] = None]
    /\ overwritten' = overwritten \ {r}
    /\ edit' = [phase |-> "relocating", route |-> r, row |-> None]
    /\ UNCHANGED <<gatewayVars, queueVars, unchecked, boot, caddyVars>>

EditSynced ==
    /\ edit.phase \in {"syncing", "relocating"}
    /\ Deploy(TRUE)
    /\ edit' = NoEdit
    /\ UNCHANGED <<gatewayVars, routeVars, queueVars, unchecked, boot>>

\* restoreRouteRow writes every column as it was read, a relocation stays.
EditFails ==
    /\ edit.phase \in {"syncing", "relocating"}
    /\ Deploy(FALSE)
    /\ IF edit.phase = "relocating" THEN UNCHANGED routeVars
       ELSE /\ target' = [target EXCEPT ![edit.route] = edit.row.target]
            /\ original' = [original EXCEPT ![edit.route] = edit.row.original]
            /\ overwritten' = IF edit.row.original = original[edit.route] THEN overwritten
                              ELSE IF edit.row.original = None THEN overwritten \ {edit.route}
                              ELSE overwritten \cup {edit.route}
    /\ edit' = NoEdit
    /\ UNCHANGED <<gatewayVars, queueVars, unchecked, boot>>

-----------------------------------------------------------------------------
Handler == HandleQuiet \/ HandleDown \/ HandleUp \/ HandlerSynced

EditStep ==
    \/ \E r \in Edited : BeginEdit(r) \/ \E g \in Gateways : Relocate(r, g)
    \/ \E g \in Gateways : WriteEdit(g)
    \/ EditSynced \/ EditFails

Next ==
    \/ \E g \in Gateways : Heartbeat(g) \/ RefreshHealth(g) \/ BecomesStale(g) \/ CooldownPasses(g)
    \/ WatchdogTurn
    \/ Handler
    \/ NodeRestarts \/ BootReconcile \/ BootSynced
    \/ EditStep

\* The awaited syncs end, and the start-up code reaches reconcileFailoverState.  The
\* watchdog is an interval timer that nothing in the code holds up: only MaxChain and
\* the one tick at a time of this model disable it for a while, hence SF.  Gateways
\* and admins owe nothing.
Fairness ==
    /\ WF_vars(Handler)
    /\ SF_vars(WatchdogTurn)
    /\ \A g \in Gateways : WF_vars(CooldownPasses(g))
    /\ WF_vars(BootReconcile) /\ WF_vars(BootSynced)

Spec == Init /\ [][Next]_vars /\ Fairness

-----------------------------------------------------------------------------
(* Properties *)

\* The handler at the head has already moved its routes while it syncs.
Waiting(i) == i \in DOMAIN chain /\ (i > 1 \/ handler = "idle")

\* The order serializeStateChange keeps: a queued death of a gateway that is alive
\* again is followed by the handler of its return.
LastWordIsUp ==
    \A i \in DOMAIN chain :
        chain[i].what = "down" /\ health[chain[i].gateway] = "alive" =>
            \E j \in DOMAIN chain :
                j > i /\ chain[j].what = "up" /\ chain[j].gateway = chain[i].gateway

\* A parked route goes home: when its home gateway is alive, either the handler of
\* the return is still queued or the boot reconciliation is still due.  Only a
\* failed edit that writes back an old row can break this.
HomeRestored ==
    \A r \in Routes \ overwritten :
        original[r] # None /\ health[original[r]] = "alive" =>
            \/ boot = "due"
            \/ \E i \in DOMAIN chain :
                  Waiting(i) /\ chain[i].what = "up" /\ chain[i].gateway = original[r]

\* Whatever Caddy forwards to follows the rows: a difference means that a sync is
\* still to come or that the last one failed.
UpstreamFollowsTarget ==
    \/ upstream = target
    \/ handler = "syncing" \/ boot = "syncing"
    \/ edit.phase \in {"syncing", "relocating"}
    \/ ~deployed

\* A gateway that dies leaves the pools it serves: a deployed pool names a gateway
\* that is down only while the handler of that death has not finished.
DeadLeavePools ==
    deployed => \A p \in PoolRoutes : \A g \in served[p] :
        \/ health[g] = "alive"
        \/ \E i \in DOMAIN chain : chain[i].what = "down" /\ chain[i].gateway = g

\* What DeadLeavePools rests on: the snapshot is never better than the database.
SnapshotSound == Seen \subseteq Up /\ \A p \in PoolRoutes : served[p] \subseteq MembersOf(p)

IInv == /\ TypeOK
        /\ LastWordIsUp
        /\ HomeRestored
        /\ UpstreamFollowsTarget
        /\ SnapshotSound
        /\ DeadLeavePools

\* Stale handlers, restarts and double failures never make a route forget the
\* gateway it was pinned to: only an edit changes its home.
Home(r) == IF original[r] = None THEN target[r] ELSE original[r]

HomeKept == [][(\A r \in Routes : Home(r)' = Home(r)) \/ edit' # edit]_vars

\* While the process stays up, a gateway that stays silent is found dead, also when
\* it never answered since the start, and one that keeps reporting is found alive.
HealthConverges ==
    \A g \in Gateways :
        /\ <>[](~fresh[g] /\ boot # "due") => <>[](health[g] # "alive")
        /\ <>[](fresh[g] /\ boot # "due") => <>[](health[g] = "alive")

\* A route is not left behind on a sibling when its home stays alive.
FailbackHappens ==
    \A r \in Routes, g \in Gateways :
        [](original[r] = g /\ health[g] = "alive" /\ r \notin overwritten => 
             <>(original[r] # g \/ health[g] # "alive" \/ r \in overwritten))

-----------------------------------------------------------------------------
(* What comments of the repository promise.  TLC refutes each of these. *)

AtRest == chain = <<>> /\ boot = "done" /\ edit.phase = "idle" /\ unchecked = {}
          /\ \A g \in Gateways : snapshot[g] # "none"

\* gatewayHealth.js: without the boot reconciliation routes of a gateway that was
\* already offline "would stay stuck on the dead peer forever"; with it they do
\* not, as long as a sibling lives.
NotStuckOnDeadPeer ==
    AtRest => \A r \in Routes :
        original[r] = None /\ health[target[r]] # "alive" => BootSiblings(target[r]) = {}
=============================================================================
