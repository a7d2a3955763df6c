----------------------- MODULE GatewayFailover_proofs -----------------------
(***************************************************************************)
(* Proofs about GatewayFailover for every set of gateways, pools and       *)
(* routes and for any number of queued handlers.                           *)
(***************************************************************************)
EXTENDS GatewayFailover, TLAPS

-----------------------------------------------------------------------------
(* Lemmas about the data *)

\* The best of a pool are among its members.
LEMMA BestType ==
    ASSUME NEW p \in Pools, NEW S
    PROVE  Best(p, S) \subseteq MembersOf(p) \cap S
BY DEF Best, MembersOf

\* The members of a pool are gateways.
LEMMA MembersAreGateways ==
    ASSUME NEW p \in Pools
    PROVE  MembersOf(p) \subseteq Gateways
BY FailoverAssumption DEF MembersOf

\* A route is only parked on gateways.
LEMMA SiblingsType ==
    ASSUME NEW g
    PROVE  Siblings(g) \subseteq Gateways \ {g} /\ BootSiblings(g) \subseteq Up
<1>1. \A p \in PoolsOf(g) : p \in Pools
  BY DEF PoolsOf
<1> QED
  BY <1>1, BestType, MembersAreGateways DEF Siblings, BootSiblings

\* A deployed pool names members that the snapshot, or the database when nothing
\* has been evaluated yet, holds for alive.
LEMMA RenderedPoolType ==
    ASSUME Seen \subseteq Up, NEW p \in PoolRoutes
    PROVE  RenderedPool(p) \subseteq MembersOf(p) \cap Up
<1>1. p \in Pools
  BY FailoverAssumption
<1> QED
  BY <1>1, BestType DEF RenderedPool

\* A gateway goes from one state of its health to another.
LEMMA NextHealthType ==
    ASSUME NEW h \in Health, NEW seen \in BOOLEAN
    PROVE  NextHealth(h, seen) \in Health
BY DEF Health, NextHealth

\* Evaluating some gateways: what becomes of health, the snapshot and the queue.
LEMMA EvaluateType ==
    ASSUME TypeOK, NEW S \in SUBSET Gateways, NEW seen \in [Gateways -> BOOLEAN],
           NEW watchdog \in BOOLEAN, Evaluate(S, seen, watchdog)
    PROVE  /\ health' \in [Gateways -> Health]
           /\ snapshot' \in [Gateways -> {"none", "alive", "down"}]
           /\ chain' \in Seq(Event)
           /\ chain # <<>> => chain' # <<>>
<1> DEFINE next(g) == NextHealth(health[g], seen[g])
           moved   == {g \in S : next(g) # health[g]}
<1>1. \A g \in Gateways : next(g) \in Health
  BY NextHealthType DEF TypeOK
<1>2. health' = [g \in Gateways |-> IF g \in S THEN next(g) ELSE health[g]]
  BY DEF Evaluate
<1>3. health' \in [Gateways -> Health]
  BY <1>1, <1>2 DEF TypeOK
<1>4. snapshot' = [g \in Gateways |-> IF g \notin S THEN snapshot[g]
                                      ELSE IF next(g) = "alive" THEN "alive" ELSE "down"]
  BY DEF Evaluate
<1>5. snapshot' \in [Gateways -> {"none", "alive", "down"}]
  BY <1>4 DEF TypeOK
<1>6. CASE moved = {}
  <2>1. chain' = chain
    BY <1>6 DEF Evaluate
  <2> QED
    BY <1>3, <1>5, <2>1 DEF TypeOK
<1>7. CASE moved # {}
  <2>1. PICK g \in moved : chain' = Append(chain, EventOf(g, health[g], next(g), watchdog))
    BY <1>7 DEF Evaluate
  <2>2. EventOf(g, health[g], next(g), watchdog) \in Event
    BY DEF EventOf, Event
  <2>3. chain' \in Seq(Event) /\ chain' # <<>>
    BY <2>1, <2>2 DEF TypeOK
  <2> QED
    BY <1>3, <1>5, <2>3
<1> QED
  BY <1>6, <1>7

\* What is queued is an event of a gateway.
LEMMA QueuedType ==
    ASSUME TypeOK, NEW i \in DOMAIN chain
    PROVE  chain[i] \in Event /\ chain[i].gateway \in Gateways /\ i \in Nat /\ i >= 1
<1>1. chain \in Seq(Event)
  BY DEF TypeOK
<1>2. chain[i] \in Event /\ i \in Nat /\ i >= 1
  BY <1>1
<1> QED
  BY <1>2 DEF Event

\* The handler at the head of the queue.
LEMMA HeadType ==
    ASSUME TypeOK, chain # <<>>
    PROVE  /\ 1 \in DOMAIN chain /\ Head(chain) = chain[1]
           /\ Head(chain) \in Event /\ Head(chain).gateway \in Gateways
<1>1. chain \in Seq(Event)
  BY DEF TypeOK
<1>2. 1 \in DOMAIN chain /\ Head(chain) = chain[1] /\ chain[1] \in Event
  BY <1>1
<1> QED
  BY <1>2 DEF Event

\* The queue after a handler ended.
LEMMA EndHandlerType ==
    ASSUME TypeOK, chain # <<>>, EndHandler
    PROVE  /\ handler' = "idle"
           /\ chain' \in Seq(Event)
           /\ Len(chain') = Len(chain) - 1
           /\ \A i \in DOMAIN chain' : i + 1 \in DOMAIN chain /\ chain'[i] = chain[i + 1]
           /\ \A i \in DOMAIN chain : i > 1 => i - 1 \in DOMAIN chain' /\ chain'[i - 1] = chain[i]
<1>1. chain \in Seq(Event) /\ chain' = Tail(chain) /\ handler' = "idle"
  BY DEF TypeOK, EndHandler
<1>2. /\ Tail(chain) \in Seq(Event)
      /\ Len(Tail(chain)) = Len(chain) - 1
      /\ \A i \in 1 .. (Len(chain) - 1) : Tail(chain)[i] = chain[i + 1]
  BY <1>1
<1>3. DOMAIN chain = 1 .. Len(chain) /\ DOMAIN Tail(chain) = 1 .. (Len(chain) - 1)
  BY <1>1, <1>2
<1> QED
  BY <1>1, <1>2, <1>3

\* Whoever deploys: the upstreams are gateways, the pools their members.
LEMMA DeployType ==
    ASSUME TypeOK, SnapshotSound, NEW ok \in BOOLEAN, Deploy(ok)
    PROVE  /\ upstream' \in [Routes -> Gateways]
           /\ served' \in [PoolRoutes -> SUBSET Gateways]
           /\ deployed' \in BOOLEAN
           /\ \A p \in PoolRoutes : served'[p] \subseteq MembersOf(p)
           /\ deployed' => \A p \in PoolRoutes : served'[p] \subseteq Up
<1>1. \A p \in PoolRoutes : RenderedPool(p) \subseteq MembersOf(p) \cap Up
  BY RenderedPoolType DEF SnapshotSound
<1>2. \A p \in PoolRoutes : MembersOf(p) \subseteq Gateways
  BY MembersAreGateways, FailoverAssumption
<1>3. CASE ok
  <2>1. /\ upstream' = target /\ deployed' = ok
        /\ served' = [p \in PoolRoutes |-> RenderedPool(p)]
    BY <1>3 DEF Deploy
  <2>2. \A p \in PoolRoutes : served'[p] = RenderedPool(p)
    BY <2>1
  <2>3. served' \in [PoolRoutes -> SUBSET Gateways]
    BY <1>1, <1>2, <2>1
  <2>4. upstream' \in [Routes -> Gateways]
    BY <2>1 DEF TypeOK
  <2> QED
    BY <1>1, <1>3, <2>1, <2>2, <2>3, <2>4
<1>4. CASE ~ok
  BY <1>4 DEF Deploy, TypeOK, SnapshotSound
<1> QED
  BY <1>3, <1>4

-----------------------------------------------------------------------------
(* Type correctness, with what it needs to know about the snapshot *)

\* The types hold when the server begins, and the snapshot of the pools is right.
LEMMA InitTypeOK == Init => TypeOK /\ SnapshotSound
<1> SUFFICES ASSUME Init PROVE TypeOK /\ SnapshotSound
  OBVIOUS
<1>1. \A p \in PoolRoutes : MembersOf(p) \subseteq Gateways /\ Best(p, Gateways) \subseteq MembersOf(p)
  BY MembersAreGateways, BestType, FailoverAssumption
<1>2. served \in [PoolRoutes -> SUBSET Gateways] /\ \A p \in PoolRoutes : served[p] \subseteq MembersOf(p)
  BY <1>1 DEF Init
<1>3. fresh \in [Gateways -> BOOLEAN] /\ health \in [Gateways -> Health]
      /\ snapshot \in [Gateways -> {"none", "alive", "down"}]
  BY DEF Init, Health
<1>4. target \in [Routes -> Gateways] /\ original \in [Routes -> Gateways \cup {None}]
      /\ upstream \in [Routes -> Gateways]
  BY DEF Init
<1>5. edit \in Edit /\ edit.phase = "idle"
  BY DEF Init, NoEdit, Edit, EditPhase
<1>6. chain \in Seq(Event)
  BY DEF Init
<1>7. Seen \subseteq Up
  BY DEF Init, Seen, Up
<1> QED
  BY <1>2, <1>3, <1>4, <1>5, <1>6, <1>7 DEF Init, TypeOK, SnapshotSound

\* The handlers and the boot reconciliation move routes between gateways only.
LEMMA RoutesType ==
    ASSUME TypeOK
    PROVE  /\ \A g, to \in Gateways : Pivot(g, to) =>
                 /\ target' \in [Routes -> Gateways]
                 /\ original' \in [Routes -> Gateways \cup {None}]
                 /\ overwritten' \in SUBSET Routes
           /\ \A S \in SUBSET Gateways : Restore(S) =>
                 /\ target' \in [Routes -> Gateways]
                 /\ original' \in [Routes -> Gateways \cup {None}]
                 /\ overwritten' \in SUBSET Routes
<1>1. ASSUME NEW g \in Gateways, NEW to \in Gateways, Pivot(g, to)
      PROVE  /\ target' \in [Routes -> Gateways]
             /\ original' \in [Routes -> Gateways \cup {None}]
             /\ overwritten' \in SUBSET Routes
  BY <1>1 DEF Pivot, TypeOK
<1>2. ASSUME NEW S \in SUBSET Gateways, Restore(S)
      PROVE  /\ target' \in [Routes -> Gateways]
             /\ original' \in [Routes -> Gateways \cup {None}]
             /\ overwritten' \in SUBSET Routes
  BY <1>2, FailoverAssumption DEF Restore, TypeOK
<1> QED
  BY <1>1, <1>2

\* A heartbeat or a tick keeps the snapshot no better than the database.
LEMMA EvaluateSound ==
    ASSUME TypeOK, SnapshotSound, NEW S \in SUBSET Gateways,
           NEW seen \in [Gateways -> BOOLEAN], NEW watchdog \in BOOLEAN,
           Evaluate(S, seen, watchdog)
    PROVE  Seen' \subseteq Up'
<1> SUFFICES ASSUME NEW g \in Gateways, snapshot'[g] = "alive"
             PROVE  health'[g] = "alive"
  BY DEF Seen, Up
<1>1. health'[g] = IF g \in S THEN NextHealth(health[g], seen[g]) ELSE health[g]
  BY DEF Evaluate
<1>2. snapshot'[g] = IF g \notin S THEN snapshot[g]
                     ELSE IF NextHealth(health[g], seen[g]) = "alive" THEN "alive" ELSE "down"
  BY DEF Evaluate
<1> QED
  BY <1>1, <1>2 DEF SnapshotSound, Seen, Up

\* The actions one by one.  Nothing but an evaluation and a restart touches the
\* snapshot; nothing but a deployment touches the served pools.
LEMMA TypeOKStep ==
    ASSUME TypeOK, SnapshotSound, [Next]_vars
    PROVE  TypeOK' /\ SnapshotSound'
<1>1. ASSUME NEW S \in SUBSET Gateways, NEW seen \in [Gateways -> BOOLEAN],
             NEW watchdog \in BOOLEAN, Evaluate(S, seen, watchdog),
             fresh' \in [Gateways -> BOOLEAN], unchecked' \in SUBSET Gateways,
             UNCHANGED <<routeVars, handler, boot, edit, caddyVars>>
      PROVE  TypeOK' /\ SnapshotSound'
  <2>1. Seen' \subseteq Up'
    BY <1>1, EvaluateSound
  <2>2. /\ health' \in [Gateways -> Health]
        /\ snapshot' \in [Gateways -> {"none", "alive", "down"}]
        /\ chain' \in Seq(Event)
        /\ chain # <<>> => chain' # <<>>
    BY <1>1, EvaluateType
  <2>3. TypeOK'
    BY <1>1, <2>2 DEF TypeOK, routeVars, caddyVars
  <2> QED
    BY <1>1, <2>1, <2>3 DEF SnapshotSound, caddyVars
<1>2. ASSUME NEW g \in Gateways, Heartbeat(g)
      PROVE  TypeOK' /\ SnapshotSound'
  <2>1. fresh' \in [Gateways -> BOOLEAN]
    BY <1>2 DEF Heartbeat, TypeOK
  <2>2. Evaluate({g}, fresh', FALSE) /\ unchecked' = unchecked
        /\ UNCHANGED <<routeVars, handler, boot, edit, caddyVars>>
    BY <1>2 DEF Heartbeat
  <2>3. unchecked' \in SUBSET Gateways
    BY <2>2 DEF TypeOK
  <2> QED
    BY <1>1, <2>1, <2>2, <2>3
<1>3. ASSUME NEW g \in Gateways, RefreshHealth(g) \/ BecomesStale(g)
      PROVE  TypeOK' /\ SnapshotSound'
  BY <1>3 DEF RefreshHealth, BecomesStale, TypeOK, SnapshotSound, Seen, Up,
              routeVars, queueVars, caddyVars
<1>4. ASSUME NEW g \in Gateways, CooldownPasses(g)
      PROVE  TypeOK' /\ SnapshotSound'
  <2>1. TypeOK'
    BY <1>4 DEF CooldownPasses, TypeOK, Health, routeVars, queueVars, caddyVars
  <2>2. Seen' = Seen /\ Up' = Up
    BY <1>4 DEF CooldownPasses, Seen, Up, TypeOK
  <2> QED
    BY <1>4, <2>1, <2>2 DEF CooldownPasses, SnapshotSound, caddyVars
<1>5. CASE WatchdogTurn
  <2> DEFINE left == IF unchecked = {} THEN Gateways ELSE unchecked
  <2>1. PICK S \in (SUBSET left) \ {{}} : Evaluate(S, fresh, TRUE) /\ unchecked' = left \ S
    BY <1>5 DEF WatchdogTurn
  <2>2. left \subseteq Gateways /\ fresh \in [Gateways -> BOOLEAN]
    BY DEF TypeOK
  <2>3. S \in SUBSET Gateways /\ unchecked' \in SUBSET Gateways
    BY <2>1, <2>2
  <2>4. fresh' = fresh /\ UNCHANGED <<routeVars, handler, boot, edit, caddyVars>>
    BY <1>5 DEF WatchdogTurn
  <2>5. fresh' \in [Gateways -> BOOLEAN]
    BY <2>2, <2>4
  <2> QED
    BY <1>1, <2>1, <2>2, <2>3, <2>4, <2>5
<1>6. ASSUME UNCHANGED <<gatewayVars, unchecked, boot, edit, caddyVars>>,
             target' \in [Routes -> Gateways],
             original' \in [Routes -> Gateways \cup {None}],
             overwritten' \in SUBSET Routes,
             chain # <<>>, EndHandler \/ (handler' = "syncing" /\ UNCHANGED chain)
      PROVE  TypeOK' /\ SnapshotSound'
  <2>1. chain' \in Seq(Event) /\ handler' \in {"idle", "syncing"}
        /\ (handler' = "syncing" => chain' # <<>>)
    BY <1>6, EndHandlerType DEF TypeOK
  <2>2. Seen' = Seen /\ Up' = Up
    BY <1>6 DEF gatewayVars, Seen, Up
  <2> QED
    BY <1>6, <2>1, <2>2 DEF TypeOK, SnapshotSound, gatewayVars, caddyVars
<1>7. CASE HandleQuiet
  BY <1>6, <1>7 DEF HandleQuiet, routeVars, TypeOK
<1>8. CASE HandleDown
  <2> DEFINE g == Head(chain).gateway
  <2>1. chain # <<>> /\ g \in Gateways
    BY <1>8, HeadType DEF HandleDown
  <2>2. (\E to \in Gateways : Pivot(g, to)) \/ UNCHANGED routeVars
    BY <1>8, SiblingsType DEF HandleDown
  <2>3. /\ target' \in [Routes -> Gateways]
        /\ original' \in [Routes -> Gateways \cup {None}]
        /\ overwritten' \in SUBSET Routes
    BY <2>1, <2>2, RoutesType DEF TypeOK, routeVars
  <2>4. EndHandler \/ (handler' = "syncing" /\ UNCHANGED chain)
    BY <1>8 DEF HandleDown, AwaitSyncOrEnd
  <2>5. UNCHANGED <<gatewayVars, unchecked, boot, edit, caddyVars>>
    BY <1>8 DEF HandleDown
  <2> QED
    BY <1>6, <2>1, <2>3, <2>4, <2>5
<1>9. CASE HandleUp
  <2> DEFINE g == Head(chain).gateway
  <2>1. chain # <<>> /\ g \in Gateways
    BY <1>9, HeadType DEF HandleUp
  <2>2. Restore({g}) /\ {g} \in SUBSET Gateways
    BY <1>9, <2>1 DEF HandleUp
  <2>3. /\ target' \in [Routes -> Gateways]
        /\ original' \in [Routes -> Gateways \cup {None}]
        /\ overwritten' \in SUBSET Routes
    BY <2>2, RoutesType
  <2>4. EndHandler \/ (handler' = "syncing" /\ UNCHANGED chain)
    BY <1>9 DEF HandleUp, AwaitSyncOrEnd
  <2>5. UNCHANGED <<gatewayVars, unchecked, boot, edit, caddyVars>>
    BY <1>9 DEF HandleUp
  <2> QED
    BY <1>6, <2>1, <2>3, <2>4, <2>5
<1>10. ASSUME NEW ok \in BOOLEAN, Deploy(ok), UNCHANGED <<gatewayVars, unchecked>>,
              target' \in [Routes -> Gateways],
              original' \in [Routes -> Gateways \cup {None}],
              overwritten' \in SUBSET Routes,
              chain' \in Seq(Event), handler' \in {"idle", "syncing"},
              handler' = "syncing" => chain' # <<>>,
              boot' \in {"due", "syncing", "done"},
              edit' = edit \/ edit' = NoEdit
       PROVE  TypeOK' /\ SnapshotSound'
  <2>1. /\ upstream' \in [Routes -> Gateways]
        /\ served' \in [PoolRoutes -> SUBSET Gateways]
        /\ deployed' \in BOOLEAN
        /\ \A p \in PoolRoutes : served'[p] \subseteq MembersOf(p)
    BY <1>10, DeployType
  <2>2. NoEdit \in Edit /\ NoEdit.phase = "idle"
    BY DEF NoEdit, Edit, EditPhase
  <2>3. Seen' = Seen /\ Up' = Up
    BY <1>10 DEF gatewayVars, Seen, Up
  <2>4. /\ edit' \in Edit
        /\ edit'.phase # "idle" => edit'.route \in Routes
        /\ edit'.phase \in {"read", "syncing"} => edit'.row \in Row
    BY <1>10, <2>2 DEF TypeOK
  <2> QED
    BY <1>10, <2>1, <2>3, <2>4 DEF TypeOK, SnapshotSound, gatewayVars
<1>11. CASE HandlerSynced
  <2>1. PICK ok \in BOOLEAN : Deploy(ok)
    BY <1>11 DEF HandlerSynced
  <2>2. chain # <<>> /\ EndHandler /\ UNCHANGED <<gatewayVars, routeVars, unchecked, boot, edit>>
    BY <1>11 DEF HandlerSynced, TypeOK
  <2>3. chain' \in Seq(Event) /\ handler' = "idle"
    BY <2>2, EndHandlerType
  <2> QED
    BY <1>10, <2>1, <2>2, <2>3 DEF TypeOK, routeVars
<1>12. CASE NodeRestarts
  <2>1. NoEdit \in Edit /\ NoEdit.phase = "idle"
    BY DEF NoEdit, Edit, EditPhase
  <2>2. Seen' = {}
    BY <1>12 DEF NodeRestarts, Seen
  <2>3. chain' = <<>> /\ chain' \in Seq(Event) /\ handler' = "idle"
    BY <1>12 DEF NodeRestarts
  <2>4. snapshot' \in [Gateways -> {"none", "alive", "down"}]
    BY <1>12 DEF NodeRestarts
  <2>5. TypeOK'
    BY <1>12, <2>1, <2>3, <2>4 DEF NodeRestarts, TypeOK, routeVars
  <2> QED
    BY <1>12, <2>2, <2>5 DEF NodeRestarts, SnapshotSound
<1>13. CASE BootReconcile
  <2>1. PICK to \in [Gateways -> Gateways \cup {None}] :
          LET moves(r) == original[r] = None /\ to[target[r]] # None
              back(r)  == original[r] \in Up
          IN  /\ target' = [r \in Routes |-> IF moves(r) THEN to[target[r]]
                                             ELSE IF back(r) THEN original[r] ELSE target[r]]
              /\ original' = [r \in Routes |-> IF moves(r) THEN target[r]
                                               ELSE IF back(r) THEN None ELSE original[r]]
              /\ overwritten' = {r \in overwritten : ~back(r)}
    BY <1>13 DEF BootReconcile
  <2>2. target' \in [Routes -> Gateways] /\ original' \in [Routes -> Gateways \cup {None}]
        /\ overwritten' \in SUBSET Routes
    BY <2>1, FailoverAssumption DEF TypeOK, Up
  <2>3. Seen' = Seen /\ Up' = Up
    BY <1>13 DEF BootReconcile, gatewayVars, Seen, Up
  <2> QED
    BY <1>13, <2>2, <2>3 DEF BootReconcile, TypeOK, SnapshotSound, gatewayVars, queueVars, caddyVars
<1>14. CASE BootSynced
  BY <1>10, <1>14 DEF BootSynced, TypeOK, routeVars, queueVars
<1>15. ASSUME UNCHANGED <<gatewayVars, queueVars, unchecked, boot, caddyVars>>,
              target' \in [Routes -> Gateways],
              original' \in [Routes -> Gateways \cup {None}],
              overwritten' \in SUBSET Routes,
              edit' \in Edit,
              edit'.phase # "idle" => edit'.route \in Routes,
              edit'.phase \in {"read", "syncing"} => edit'.row \in Row
       PROVE  TypeOK' /\ SnapshotSound'
  <2>1. Seen' = Seen /\ Up' = Up
    BY <1>15 DEF gatewayVars, Seen, Up
  <2> QED
    BY <1>15, <2>1 DEF TypeOK, SnapshotSound, gatewayVars, queueVars, caddyVars
<1>16. ASSUME NEW r \in Routes, BeginEdit(r)
       PROVE  TypeOK' /\ SnapshotSound'
  <2>1. [target |-> target[r], original |-> original[r]] \in Row
    BY DEF TypeOK, Row
  <2>2. /\ edit' \in Edit /\ edit'.route \in Routes /\ edit'.row \in Row
    BY <1>16, <2>1 DEF BeginEdit, Edit, EditPhase
  <2> QED
    BY <1>15, <1>16, <2>2 DEF BeginEdit, TypeOK, routeVars
<1>17. ASSUME NEW g \in Gateways, WriteEdit(g)
       PROVE  TypeOK' /\ SnapshotSound'
  <2>1. edit.route \in Routes /\ edit.row \in Row /\ edit \in Edit
    BY <1>17 DEF WriteEdit, TypeOK
  <2>2. edit' \in Edit /\ edit'.route = edit.route /\ edit'.row = edit.row
    BY <1>17, <2>1 DEF WriteEdit, Edit, EditPhase
  <2>3. target' \in [Routes -> Gateways]
    BY <1>17 DEF WriteEdit, TypeOK
  <2> QED
    BY <1>15, <1>17, <2>1, <2>2, <2>3 DEF WriteEdit, TypeOK
<1>18. ASSUME NEW r \in Routes, NEW g \in Gateways, Relocate(r, g)
       PROVE  TypeOK' /\ SnapshotSound'
  <2>1. edit' \in Edit /\ edit'.phase = "relocating" /\ edit'.route \in Routes
    BY <1>18 DEF Relocate, Edit, EditPhase
  <2>2. target' \in [Routes -> Gateways] /\ original' \in [Routes -> Gateways \cup {None}]
        /\ overwritten' \in SUBSET Routes
    BY <1>18 DEF Relocate, TypeOK
  <2> QED
    BY <1>15, <1>18, <2>1, <2>2 DEF Relocate
<1>19. CASE EditSynced
  BY <1>10, <1>19 DEF EditSynced, TypeOK, routeVars, queueVars
<1>20. CASE EditFails
  <2>1. edit.phase # "relocating" => edit.route \in Routes /\ edit.row \in Row
    BY <1>20 DEF EditFails, TypeOK
  <2>2. target' \in [Routes -> Gateways] /\ original' \in [Routes -> Gateways \cup {None}]
        /\ overwritten' \in SUBSET Routes
    <3>1. CASE edit.phase = "relocating"
      BY <1>20, <3>1 DEF EditFails, TypeOK, routeVars
    <3>2. CASE edit.phase # "relocating"
      <4>1. edit.row.target \in Gateways /\ edit.row.original \in Gateways \cup {None}
        BY <2>1, <3>2 DEF Row
      <4>2. /\ target' = [target EXCEPT ![edit.route] = edit.row.target]
            /\ original' = [original EXCEPT ![edit.route] = edit.row.original]
            /\ \/ overwritten' = overwritten
               \/ overwritten' = overwritten \ {edit.route}
               \/ overwritten' = overwritten \cup {edit.route}
        BY <1>20, <3>2 DEF EditFails
      <4> QED
        BY <2>1, <3>2, <4>1, <4>2 DEF TypeOK
    <3> QED
      BY <3>1, <3>2
  <2>3. Deploy(FALSE) /\ edit' = NoEdit /\ UNCHANGED <<gatewayVars, queueVars, unchecked, boot>>
    BY <1>20 DEF EditFails
  <2> QED
    BY <1>10, <2>2, <2>3 DEF TypeOK, queueVars
<1>21. CASE UNCHANGED vars
  BY <1>21 DEF vars, TypeOK, SnapshotSound, Seen, Up
<1> QED
  BY <1>2, <1>3, <1>4, <1>5, <1>7, <1>8, <1>9, <1>11, <1>12, <1>13, <1>14, <1>16, <1>17,
     <1>18, <1>19, <1>20, <1>21, FailoverAssumption DEF Next, Handler, EditStep

-----------------------------------------------------------------------------
(* The order of the handlers *)

\* One evaluation: either no gateway changes and nothing is queued, or one does and
\* its event is the new last element.
LEMMA EvaluateQueue ==
    ASSUME TypeOK, NEW S \in SUBSET Gateways, NEW seen \in [Gateways -> BOOLEAN],
           NEW watchdog \in BOOLEAN, Evaluate(S, seen, watchdog)
    PROVE  \/ health' = health /\ chain' = chain
           \/ \E g \in Gateways :
                 /\ \A h \in Gateways \ {g} : health'[h] = health[h]
                 /\ health'[g] = NextHealth(health[g], seen[g]) /\ health'[g] # health[g]
                 /\ chain' = Append(chain, EventOf(g, health[g], health'[g], watchdog))
<1> DEFINE next(g) == NextHealth(health[g], seen[g])
           moved   == {g \in S : next(g) # health[g]}
<1>1. health' = [g \in Gateways |-> IF g \in S THEN next(g) ELSE health[g]]
  BY DEF Evaluate
<1>2. CASE moved = {}
  <2>1. chain' = chain
    BY <1>2 DEF Evaluate
  <2>2. \A g \in Gateways : health'[g] = health[g]
    BY <1>1, <1>2
  <2>3. health' = health
    BY <1>1, <2>2 DEF TypeOK
  <2> QED
    BY <2>1, <2>3
<1>3. CASE moved # {}
  <2>1. PICK g \in moved : chain' = Append(chain, EventOf(g, health[g], next(g), watchdog))
    BY <1>3 DEF Evaluate
  <2>2. \A h \in moved : h = g
    BY <2>1 DEF Evaluate
  <2>3. \A h \in Gateways \ {g} : health'[h] = health[h]
    BY <1>1, <2>2
  <2>4. health'[g] = next(g) /\ health'[g] # health[g]
    BY <1>1, <2>1
  <2> QED
    BY <2>1, <2>3, <2>4
<1> QED
  BY <1>2, <1>3

\* What a new last element does to the indices of the queue.
LEMMA AppendIndex ==
    ASSUME TypeOK, NEW e \in Event, chain' = Append(chain, e)
    PROVE  /\ \A i \in DOMAIN chain : i \in DOMAIN chain' /\ chain'[i] = chain[i]
           /\ Len(chain) + 1 \in DOMAIN chain' /\ chain'[Len(chain) + 1] = e
           /\ \A i \in DOMAIN chain : i < Len(chain) + 1 /\ i \in Nat /\ i >= 1
           /\ \A i \in DOMAIN chain' : i \in DOMAIN chain \/ i = Len(chain) + 1
<1>1. chain \in Seq(Event)
  BY DEF TypeOK
<1>2. chain' \in Seq(Event) /\ Len(chain') = Len(chain) + 1 /\ chain'[Len(chain) + 1] = e
      /\ \A i \in 1 .. Len(chain) : chain'[i] = chain[i]
  BY <1>1
<1>3. DOMAIN chain = 1 .. Len(chain) /\ DOMAIN chain' = 1 .. (Len(chain) + 1) /\ Len(chain) \in Nat
  BY <1>1, <1>2
<1> QED
  BY <1>2, <1>3

\* The event of a change of health: down for a death, up for a return.
LEMMA EventOfType ==
    ASSUME NEW g \in Gateways, NEW from, NEW to, NEW watchdog \in BOOLEAN
    PROVE  /\ EventOf(g, from, to, watchdog) \in Event
           /\ EventOf(g, from, to, watchdog).gateway = g
           /\ to = "alive" => EventOf(g, from, to, watchdog).what = "up"
           /\ EventOf(g, from, to, watchdog).what = "down" => to # "alive"
           /\ from = "alive" /\ to # "alive" => EventOf(g, from, to, watchdog).what = "down"
BY DEF EventOf, Event

\* LastWordIsUp depends on the queue and the health only ...
LEMMA LastWordUnchanged ==
    ASSUME LastWordIsUp, chain' = chain,
           \A g \in Gateways : health'[g] = "alive" => health[g] = "alive", TypeOK
    PROVE  LastWordIsUp'
BY QueuedType DEF LastWordIsUp

\* ... survives the end of a handler ...
LEMMA LastWordEndHandler ==
    ASSUME TypeOK, LastWordIsUp, chain # <<>>, EndHandler, health' = health
    PROVE  LastWordIsUp'
<1> SUFFICES ASSUME NEW i \in DOMAIN chain', chain'[i].what = "down",
                    health[chain'[i].gateway] = "alive"
             PROVE  \E j \in DOMAIN chain' :
                        j > i /\ chain'[j].what = "up" /\ chain'[j].gateway = chain'[i].gateway
  BY DEF LastWordIsUp
<1>1. i + 1 \in DOMAIN chain /\ chain'[i] = chain[i + 1] /\ i \in Nat /\ i >= 1
  BY EndHandlerType DEF TypeOK
<1>2. PICK j \in DOMAIN chain :
         j > i + 1 /\ chain[j].what = "up" /\ chain[j].gateway = chain[i + 1].gateway
  BY <1>1 DEF LastWordIsUp
<1>3. j \in Nat
  BY DEF TypeOK
<1>4. j - 1 \in DOMAIN chain' /\ chain'[j - 1] = chain[j]
  BY <1>1, <1>2, <1>3, EndHandlerType
<1> QED
  BY <1>1, <1>2, <1>3, <1>4

\* ... and an evaluation, because the return of a gateway queues its handler last.
LEMMA LastWordEvaluate ==
    ASSUME TypeOK, LastWordIsUp, NEW S \in SUBSET Gateways, NEW seen \in [Gateways -> BOOLEAN],
           NEW watchdog \in BOOLEAN, Evaluate(S, seen, watchdog)
    PROVE  LastWordIsUp'
<1>1. CASE health' = health /\ chain' = chain
  BY <1>1 DEF LastWordIsUp
<1>2. ASSUME NEW g \in Gateways,
             \A h \in Gateways \ {g} : health'[h] = health[h],
             health'[g] # health[g],
             chain' = Append(chain, EventOf(g, health[g], health'[g], watchdog))
      PROVE  LastWordIsUp'
  <2> DEFINE e == EventOf(g, health[g], health'[g], watchdog)
             n == Len(chain) + 1
  <2>1. e \in Event /\ e.gateway = g /\ (health'[g] = "alive" => e.what = "up")
        /\ (e.what = "down" => health'[g] # "alive")
    BY EventOfType
  <2> HIDE DEF e
  <2>2. chain' = Append(chain, e)
    BY <1>2 DEF e
  <2> SUFFICES ASSUME NEW i \in DOMAIN chain', chain'[i].what = "down",
                      health'[chain'[i].gateway] = "alive"
               PROVE  \E j \in DOMAIN chain' :
                         j > i /\ chain'[j].what = "up" /\ chain'[j].gateway = chain'[i].gateway
    BY DEF LastWordIsUp
  <2>3. i \in DOMAIN chain /\ chain'[i] = chain[i] /\ i < n
    BY <2>1, <2>2, AppendIndex
  <2>4. n \in DOMAIN chain' /\ chain'[n] = e
    BY <2>1, <2>2, AppendIndex
  <2>5. chain[i] \in Event
    BY <2>3 DEF TypeOK
  <2>6. CASE chain[i].gateway = g
    BY <2>1, <2>3, <2>4, <2>6
  <2>7. CASE chain[i].gateway # g
    <3>1. health[chain[i].gateway] = "alive"
      BY <1>2, <2>3, <2>5, <2>7 DEF Event
    <3>2. PICK j \in DOMAIN chain :
             j > i /\ chain[j].what = "up" /\ chain[j].gateway = chain[i].gateway
      BY <2>3, <3>1 DEF LastWordIsUp
    <3>3. j \in DOMAIN chain' /\ chain'[j] = chain[j]
      BY <2>1, <2>2, AppendIndex
    <3> QED
      BY <2>3, <3>2, <3>3
  <2> QED
    BY <2>6, <2>7
<1> QED
  BY <1>1, <1>2, EvaluateQueue

\* The two actions that evaluate gateways.
LEMMA EvaluationStep ==
    ASSUME TypeOK, (\E g \in Gateways : Heartbeat(g)) \/ WatchdogTurn
    PROVE  /\ \E S \in SUBSET Gateways, seen \in [Gateways -> BOOLEAN], watchdog \in BOOLEAN :
                 Evaluate(S, seen, watchdog)
           /\ UNCHANGED <<routeVars, handler, boot, edit, caddyVars>>
<1>1. ASSUME NEW g \in Gateways, Heartbeat(g)
      PROVE  /\ \E S \in SUBSET Gateways, seen \in [Gateways -> BOOLEAN], watchdog \in BOOLEAN :
                   Evaluate(S, seen, watchdog)
             /\ UNCHANGED <<routeVars, handler, boot, edit, caddyVars>>
  <2>1. fresh' \in [Gateways -> BOOLEAN] /\ {g} \in SUBSET Gateways /\ Evaluate({g}, fresh', FALSE)
    BY <1>1 DEF Heartbeat, TypeOK
  <2> QED
    BY <1>1, <2>1 DEF Heartbeat
<1>2. CASE WatchdogTurn
  <2> DEFINE left == IF unchecked = {} THEN Gateways ELSE unchecked
  <2>1. PICK S \in (SUBSET left) \ {{}} : Evaluate(S, fresh, TRUE)
    BY <1>2 DEF WatchdogTurn
  <2>2. S \in SUBSET Gateways /\ fresh \in [Gateways -> BOOLEAN]
    BY <2>1 DEF TypeOK
  <2> QED
    BY <1>2, <2>1, <2>2 DEF WatchdogTurn
<1> QED
  BY <1>1, <1>2

\* What the three handlers that start do to the queue.
LEMMA HandlerQueue ==
    ASSUME HandleQuiet \/ HandleDown \/ HandleUp
    PROVE  /\ chain # <<>> /\ handler = "idle"
           /\ EndHandler \/ (handler' = "syncing" /\ chain' = chain)
           /\ UNCHANGED <<gatewayVars, unchecked, boot, edit, caddyVars>>
BY DEF HandleQuiet, HandleDown, HandleUp, AwaitSyncOrEnd

\* Every step keeps the last event of a gateway that is alive: its return.
LEMMA LastWordStep ==
    ASSUME TypeOK, LastWordIsUp, [Next]_vars
    PROVE  LastWordIsUp'
<1>1. CASE (\E g \in Gateways : Heartbeat(g)) \/ WatchdogTurn
  BY <1>1, EvaluationStep, LastWordEvaluate
<1>2. CASE \E g \in Gateways : RefreshHealth(g) \/ BecomesStale(g)
  BY <1>2, LastWordUnchanged DEF RefreshHealth, BecomesStale, queueVars
<1>3. ASSUME NEW g \in Gateways, CooldownPasses(g)
      PROVE  LastWordIsUp'
  <2>1. chain' = chain /\ \A h \in Gateways : health'[h] = "alive" => health[h] = "alive"
    BY <1>3 DEF CooldownPasses, queueVars, TypeOK
  <2> QED
    BY <2>1, LastWordUnchanged
<1>4. CASE HandleQuiet \/ HandleDown \/ HandleUp
  BY <1>4, HandlerQueue, LastWordEndHandler, LastWordUnchanged DEF gatewayVars
<1>5. CASE HandlerSynced
  <2>1. chain # <<>> /\ EndHandler /\ health' = health
    BY <1>5 DEF HandlerSynced, TypeOK, gatewayVars
  <2> QED
    BY <2>1, LastWordEndHandler
<1>6. CASE NodeRestarts
  BY <1>6 DEF NodeRestarts, LastWordIsUp
<1>7. CASE BootReconcile \/ BootSynced \/ EditStep \/ UNCHANGED vars
  <2>1. chain' = chain /\ health' = health
    BY <1>7 DEF BootReconcile, BootSynced, EditStep, BeginEdit, WriteEdit, Relocate,
                EditSynced, EditFails, gatewayVars, queueVars, vars
  <2> QED
    BY <2>1, LastWordUnchanged
<1> QED
  BY <1>1, <1>2, <1>3, <1>4, <1>5, <1>6, <1>7 DEF Next, Handler

-----------------------------------------------------------------------------
(* Parked routes go home *)

\* Steps that leave the queue alone and park nothing.
LEMMA HomeUnchanged ==
    ASSUME TypeOK, HomeRestored, chain' = chain, handler' = handler,
           \A g \in Gateways : health'[g] = "alive" => health[g] = "alive",
           boot = "due" => boot' = "due",
           \A r \in Routes \ overwritten' : original'[r] # None =>
               r \notin overwritten /\ original'[r] = original[r]
    PROVE  HomeRestored'
<1> SUFFICES ASSUME NEW r \in Routes \ overwritten', original'[r] # None,
                    health'[original'[r]] = "alive"
             PROVE  \/ boot' = "due"
                    \/ \E i \in DOMAIN chain' : /\ Waiting(i)'
                                                /\ chain'[i].what = "up"
                                                /\ chain'[i].gateway = original'[r]
  BY DEF HomeRestored
<1>1. r \in Routes \ overwritten /\ original'[r] = original[r] /\ original[r] \in Gateways
  BY DEF TypeOK
<1>2. health[original[r]] = "alive"
  BY <1>1
<1>3. \/ boot = "due"
      \/ \E i \in DOMAIN chain : Waiting(i) /\ chain[i].what = "up" /\ chain[i].gateway = original[r]
  BY <1>1, <1>2 DEF HomeRestored
<1> QED
  BY <1>1, <1>3 DEF Waiting

\* Steps of the handler at the head: what is owed is behind it in the queue.
LEMMA HomeBehindHead ==
    ASSUME TypeOK, chain # <<>>, health' = health, boot' = boot,
           EndHandler \/ (handler' = "syncing" /\ chain' = chain),
           \A r \in Routes \ overwritten' :
               original'[r] # None /\ health[original'[r]] = "alive" =>
                   \/ boot = "due"
                   \/ \E i \in DOMAIN chain :
                         i > 1 /\ chain[i].what = "up" /\ chain[i].gateway = original'[r]
    PROVE  HomeRestored'
<1> SUFFICES ASSUME NEW r \in Routes \ overwritten', original'[r] # None,
                    health'[original'[r]] = "alive", boot' # "due"
             PROVE  \E i \in DOMAIN chain' : /\ Waiting(i)'
                                             /\ chain'[i].what = "up"
                                             /\ chain'[i].gateway = original'[r]
  BY DEF HomeRestored
<1>1. PICK i \in DOMAIN chain :
         i > 1 /\ chain[i].what = "up" /\ chain[i].gateway = original'[r]
  OBVIOUS
<1>2. CASE EndHandler
  <2>1. i - 1 \in DOMAIN chain' /\ chain'[i - 1] = chain[i] /\ handler' = "idle"
    BY <1>1, <1>2, EndHandlerType
  <2> QED
    BY <1>1, <2>1 DEF Waiting
<1>3. CASE handler' = "syncing" /\ chain' = chain
  BY <1>1, <1>3 DEF Waiting
<1> QED
  BY <1>2, <1>3

\* An evaluation queues the return that sends a route home.
LEMMA HomeEvaluate ==
    ASSUME TypeOK, HomeRestored, NEW S \in SUBSET Gateways, NEW seen \in [Gateways -> BOOLEAN],
           NEW watchdog \in BOOLEAN, Evaluate(S, seen, watchdog),
           UNCHANGED <<routeVars, handler, boot>>
    PROVE  HomeRestored'
<1>1. CASE health' = health /\ chain' = chain
  BY <1>1, HomeUnchanged DEF routeVars
<1>2. ASSUME NEW g \in Gateways,
             \A h \in Gateways \ {g} : health'[h] = health[h],
             chain' = Append(chain, EventOf(g, health[g], health'[g], watchdog))
      PROVE  HomeRestored'
  <2> DEFINE e == EventOf(g, health[g], health'[g], watchdog)
             n == Len(chain) + 1
  <2>1. e \in Event /\ e.gateway = g /\ (health'[g] = "alive" => e.what = "up")
    BY EventOfType
  <2> HIDE DEF e
  <2>2. chain' = Append(chain, e)
    BY <1>2 DEF e
  <2> SUFFICES ASSUME NEW r \in Routes \ overwritten, original[r] # None,
                      health'[original[r]] = "alive", boot # "due"
               PROVE  \E i \in DOMAIN chain' : /\ Waiting(i)'
                                               /\ chain'[i].what = "up"
                                               /\ chain'[i].gateway = original[r]
    BY DEF HomeRestored, routeVars
  <2>3. original[r] \in Gateways
    BY DEF TypeOK
  <2>4. CASE original[r] = g
    <3>1. n \in DOMAIN chain' /\ chain'[n] = e
      BY <2>1, <2>2, AppendIndex
    <3>2. n > 1 \/ handler = "idle"
      <4>1. CASE chain = <<>>
        BY <4>1 DEF TypeOK
      <4>2. CASE chain # <<>>
        <5>1. 1 \in DOMAIN chain
          BY <4>2, HeadType
        <5> QED
          BY <2>1, <2>2, <5>1, AppendIndex
      <4> QED
        BY <4>1, <4>2
    <3> QED
      BY <2>1, <2>4, <3>1, <3>2 DEF Waiting
  <2>5. CASE original[r] # g
    <3>1. health[original[r]] = "alive"
      BY <1>2, <2>3, <2>5
    <3>2. PICK i \in DOMAIN chain :
             Waiting(i) /\ chain[i].what = "up" /\ chain[i].gateway = original[r]
      BY <3>1 DEF HomeRestored
    <3>3. i \in DOMAIN chain' /\ chain'[i] = chain[i]
      BY <2>1, <2>2, AppendIndex
    <3> QED
      BY <3>2, <3>3 DEF Waiting
  <2> QED
    BY <2>4, <2>5
<1> QED
  BY <1>1, <1>2, EvaluateQueue

\* Every step keeps routes at home, or their way there open.
LEMMA HomeRestoredStep ==
    ASSUME TypeOK, LastWordIsUp, HomeRestored, [Next]_vars
    PROVE  HomeRestored'
<1>1. CASE (\E g \in Gateways : Heartbeat(g)) \/ WatchdogTurn
  BY <1>1, EvaluationStep, HomeEvaluate DEF routeVars
<1>2. CASE \E g \in Gateways : RefreshHealth(g) \/ BecomesStale(g)
  BY <1>2, HomeUnchanged DEF RefreshHealth, BecomesStale, queueVars, routeVars
<1>3. ASSUME NEW g \in Gateways, CooldownPasses(g)
      PROVE  HomeRestored'
  <2>1. \A h \in Gateways : health'[h] = "alive" => health[h] = "alive"
    BY <1>3 DEF CooldownPasses, TypeOK
  <2> QED
    BY <1>3, <2>1, HomeUnchanged DEF CooldownPasses, queueVars, routeVars
<1>4. ASSUME NEW r \in Routes \ overwritten, original[r] # None, health[original[r]] = "alive",
             boot # "due", chain # <<>>,
             handler = "syncing" \/ Head(chain).what # "up" \/ Head(chain).gateway # original[r]
      PROVE  \E i \in DOMAIN chain : i > 1 /\ chain[i].what = "up" /\ chain[i].gateway = original[r]
  <2>1. PICK i \in DOMAIN chain :
           Waiting(i) /\ chain[i].what = "up" /\ chain[i].gateway = original[r]
    BY <1>4 DEF HomeRestored
  <2>2. i # 1
    BY <1>4, <2>1, HeadType DEF Waiting
  <2> QED
    BY <2>1, <2>2, QueuedType
<1>5. CASE HandleQuiet
  <2>1. Head(chain).what = "quiet" /\ UNCHANGED routeVars
    BY <1>5 DEF HandleQuiet
  <2> QED
    BY <1>4, <1>5, <2>1, HandlerQueue, HomeBehindHead DEF gatewayVars, routeVars
<1>6. CASE HandleDown
  <2> DEFINE g == Head(chain).gateway
  <2>1. Head(chain).what = "down" /\ ((\E to \in Siblings(g) : Pivot(g, to)) \/ UNCHANGED routeVars)
    BY <1>6 DEF HandleDown
  <2>2. chain # <<>> /\ health' = health /\ boot' = boot
        /\ (EndHandler \/ (handler' = "syncing" /\ chain' = chain))
    BY <1>6, HandlerQueue DEF gatewayVars
  <2>3. overwritten' = overwritten
        /\ \A r \in Routes : original'[r] = original[r] \/ original'[r] = g
    BY <2>1 DEF Pivot, routeVars, TypeOK
  <2>4. ASSUME NEW r \in Routes \ overwritten', original'[r] # None,
               health[original'[r]] = "alive", boot # "due"
        PROVE  \E i \in DOMAIN chain :
                  i > 1 /\ chain[i].what = "up" /\ chain[i].gateway = original'[r]
    <3>1. CASE original'[r] = original[r]
      BY <1>4, <2>1, <2>2, <2>3, <2>4, <3>1
    <3>2. CASE original'[r] = g
      <4>1. 1 \in DOMAIN chain /\ chain[1] = Head(chain)
        BY <2>2, HeadType
      <4> QED
        BY <2>1, <2>4, <3>2, <4>1 DEF LastWordIsUp
    <3> QED
      BY <2>3, <3>1, <3>2
  <2> QED
    BY <2>2, <2>4, HomeBehindHead
<1>7. CASE HandleUp
  <2> DEFINE g == Head(chain).gateway
  <2>1. chain # <<>> /\ health' = health /\ boot' = boot
        /\ (EndHandler \/ (handler' = "syncing" /\ chain' = chain))
    BY <1>7, HandlerQueue DEF gatewayVars
  <2>2. Restore({g})
    BY <1>7 DEF HandleUp
  <2>3. \A r \in Routes \ overwritten' : original'[r] # None =>
            r \notin overwritten /\ original'[r] = original[r] /\ original[r] # g
    BY <2>2 DEF Restore, TypeOK
  <2>4. ASSUME NEW r \in Routes \ overwritten', original'[r] # None,
               health[original'[r]] = "alive", boot # "due"
        PROVE  \E i \in DOMAIN chain :
                  i > 1 /\ chain[i].what = "up" /\ chain[i].gateway = original'[r]
    BY <1>4, <2>1, <2>3, <2>4
  <2> QED
    BY <2>1, <2>4, HomeBehindHead
<1>8. CASE HandlerSynced
  <2>1. chain # <<>> /\ handler = "syncing" /\ EndHandler /\ health' = health /\ boot' = boot
        /\ UNCHANGED routeVars
    BY <1>8 DEF HandlerSynced, TypeOK, gatewayVars
  <2> QED
    BY <1>4, <2>1, HomeBehindHead DEF routeVars
<1>9. CASE NodeRestarts
  BY <1>9 DEF NodeRestarts, HomeRestored
<1>10. CASE BootReconcile
  <2>1. PICK to \in [Gateways -> Gateways \cup {None}] :
          /\ \A g \in Up : to[g] = None
          /\ original' = [r \in Routes |->
                IF original[r] = None /\ to[target[r]] # None THEN target[r]
                ELSE IF original[r] \in Up THEN None ELSE original[r]]
    <3>1. Up \subseteq Gateways
      BY DEF Up
    <3> QED
      BY <1>10, <3>1, Zenon DEF BootReconcile
  <2>2. health' = health
    BY <1>10 DEF BootReconcile, gatewayVars
  <2>3. ASSUME NEW r \in Routes, original'[r] # None
        PROVE  health[original'[r]] # "alive"
    <3>1. original'[r] \in Gateways \ Up
      BY <2>1, <2>3 DEF TypeOK
    <3> QED
      BY <3>1 DEF Up
  <2> QED
    BY <2>2, <2>3 DEF HomeRestored
<1>11. CASE BootSynced
  BY <1>11, HomeUnchanged DEF BootSynced, gatewayVars, queueVars, routeVars
<1>12. CASE EditStep
  <2>1. chain' = chain /\ handler' = handler /\ health' = health /\ boot' = boot
    BY <1>12 DEF EditStep, BeginEdit, WriteEdit, Relocate, EditSynced, EditFails,
                 gatewayVars, queueVars
  <2>2. ASSUME NEW r \in Routes \ overwritten', original'[r] # None
        PROVE  r \notin overwritten /\ original'[r] = original[r]
    <3>1. CASE \E s \in Edited : \E g \in Gateways : Relocate(s, g)
      <4>1. PICK s \in Routes : original' = [original EXCEPT ![s] = None]
                                /\ overwritten' = overwritten \ {s}
        BY <3>1, FailoverAssumption DEF Relocate
      <4> QED
        BY <2>2, <4>1 DEF TypeOK
    <3>2. CASE EditFails
      <4>1. CASE edit.phase = "relocating"
        BY <2>2, <3>2, <4>1 DEF EditFails, routeVars
      <4>2. CASE edit.phase # "relocating"
        <5>1. edit.route \in Routes
          BY <3>2 DEF EditFails, TypeOK
        <5>2. /\ original' = [original EXCEPT ![edit.route] = edit.row.original]
              /\ overwritten' = IF edit.row.original = original[edit.route] THEN overwritten
                                ELSE IF edit.row.original = None THEN overwritten \ {edit.route}
                                ELSE overwritten \cup {edit.route}
          BY <3>2, <4>2 DEF EditFails
        <5>3. CASE r = edit.route
          BY <2>2, <5>1, <5>2, <5>3 DEF TypeOK
        <5>4. CASE r # edit.route
          BY <2>2, <5>1, <5>2, <5>4 DEF TypeOK
        <5> QED
          BY <5>3, <5>4
      <4> QED
        BY <4>1, <4>2
    <3>3. CASE (\E s \in Edited : BeginEdit(s)) \/ (\E g \in Gateways : WriteEdit(g)) \/ EditSynced
      BY <2>2, <3>3 DEF BeginEdit, WriteEdit, EditSynced, routeVars
    <3> QED
      BY <1>12, <3>1, <3>2, <3>3 DEF EditStep
  <2> QED
    BY <2>1, <2>2, HomeUnchanged
<1>13. CASE UNCHANGED vars
  BY <1>13, HomeUnchanged DEF vars
<1> QED
  BY <1>1, <1>2, <1>3, <1>5, <1>6, <1>7, <1>8, <1>9, <1>10, <1>11, <1>12, <1>13
  DEF Next, Handler

-----------------------------------------------------------------------------
(* What Caddy serves *)

\* Every step keeps what Caddy forwards to, or has a sync under way.
LEMMA UpstreamStep ==
    ASSUME TypeOK, UpstreamFollowsTarget, [Next]_vars
    PROVE  UpstreamFollowsTarget'
<1>1. ASSUME NEW ok \in BOOLEAN, Deploy(ok), target' = target
      PROVE  UpstreamFollowsTarget'
  BY <1>1 DEF Deploy, UpstreamFollowsTarget
<1>2. ASSUME UNCHANGED <<upstream, target, deployed>>, handler = "syncing" => handler' = "syncing",
             boot = "syncing" => boot' = "syncing",
             edit.phase \in {"syncing", "relocating"} => edit'.phase \in {"syncing", "relocating"}
      PROVE  UpstreamFollowsTarget'
  BY <1>2 DEF UpstreamFollowsTarget
<1>3. CASE \E g \in Gateways : Heartbeat(g) \/ RefreshHealth(g) \/ BecomesStale(g) \/ CooldownPasses(g)
  BY <1>2, <1>3 DEF Heartbeat, RefreshHealth, BecomesStale, CooldownPasses,
                    routeVars, caddyVars, queueVars
<1>4. CASE WatchdogTurn
  BY <1>2, <1>4 DEF WatchdogTurn, routeVars, caddyVars
<1>5. CASE HandleQuiet
  BY <1>2, <1>5 DEF HandleQuiet, routeVars, caddyVars
<1>6. CASE HandleDown \/ HandleUp
  <2>1. UNCHANGED <<upstream, deployed, boot, edit>> /\ handler = "idle"
    BY <1>6 DEF HandleDown, HandleUp, caddyVars
  <2>2. handler' = "syncing" \/ target' = target
    BY <1>6 DEF HandleDown, HandleUp, AwaitSyncOrEnd
  <2> QED
    BY <2>1, <2>2 DEF UpstreamFollowsTarget
<1>7. CASE HandlerSynced \/ BootSynced
  BY <1>1, <1>7 DEF HandlerSynced, BootSynced, routeVars
<1>8. CASE NodeRestarts
  BY <1>8 DEF NodeRestarts, UpstreamFollowsTarget
<1>9. CASE BootReconcile
  <2>1. UNCHANGED <<upstream, deployed, handler, edit>> /\ boot = "due"
        /\ (boot' = "syncing" \/ target' = target)
    BY <1>9 DEF BootReconcile, caddyVars, queueVars
  <2> QED
    BY <2>1 DEF UpstreamFollowsTarget
<1>10. CASE \E r \in Edited : BeginEdit(r)
  BY <1>2, <1>10 DEF BeginEdit, routeVars, caddyVars, queueVars
<1>11. CASE \E g \in Gateways : WriteEdit(g)
  <2>1. (edit').phase = "syncing"
    <3>1. edit \in Edit /\ edit' = [edit EXCEPT !.phase = "syncing"]
      BY <1>11 DEF WriteEdit, TypeOK
    <3> QED
      BY <3>1 DEF Edit
  <2> QED
    BY <1>11, <2>1 DEF WriteEdit, UpstreamFollowsTarget, caddyVars, queueVars
<1>12. CASE \E r \in Edited : \E g \in Gateways : Relocate(r, g)
  BY <1>12 DEF Relocate, UpstreamFollowsTarget
<1>13. CASE EditSynced
  BY <1>1, <1>13 DEF EditSynced, routeVars
<1>14. CASE EditFails
  BY <1>14 DEF EditFails, Deploy, UpstreamFollowsTarget
<1>15. CASE UNCHANGED vars
  BY <1>2, <1>15 DEF vars
<1> QED
  BY <1>3, <1>4, <1>5, <1>6, <1>7, <1>8, <1>9, <1>10, <1>11, <1>12, <1>13, <1>14, <1>15
  DEF Next, Handler, EditStep

\* A step that revives nobody and deploys nothing leaves the pools as they are.
LEMMA PoolsUnchanged ==
    ASSUME TypeOK, DeadLeavePools, chain' = chain, served' = served, deployed' => deployed,
           \A g \in Gateways : health[g] = "alive" => health'[g] = "alive"
    PROVE  DeadLeavePools'
BY DEF DeadLeavePools, TypeOK

\* A deployment takes every gateway out that the snapshot knows to be down.
LEMMA PoolsDeployed ==
    ASSUME TypeOK, SnapshotSound, NEW ok \in BOOLEAN, Deploy(ok), health' = health
    PROVE  DeadLeavePools'
BY DeployType DEF DeadLeavePools, Up

\* A handler that ends without a sync had nothing to take out of a pool.
LEMMA PoolsEndHandler ==
    ASSUME TypeOK, DeadLeavePools, chain # <<>>, EndHandler, health' = health,
           UNCHANGED caddyVars,
           Head(chain).what = "down" =>
               \A p \in PoolRoutes : Head(chain).gateway \notin served[p]
    PROVE  DeadLeavePools'
<1> SUFFICES ASSUME deployed, NEW p \in PoolRoutes, NEW g \in served[p], health[g] # "alive"
             PROVE  \E i \in DOMAIN chain' : chain'[i].what = "down" /\ chain'[i].gateway = g
  BY DEF DeadLeavePools, caddyVars
<1>1. PICK i \in DOMAIN chain : chain[i].what = "down" /\ chain[i].gateway = g
  BY DEF DeadLeavePools
<1>2. i # 1
  BY <1>1, HeadType
<1>3. i - 1 \in DOMAIN chain' /\ chain'[i - 1] = chain[i]
  BY <1>2, QueuedType, EndHandlerType
<1> QED
  BY <1>1, <1>3

\* An evaluation queues the death that takes a gateway out of its pools.
LEMMA PoolsEvaluate ==
    ASSUME TypeOK, DeadLeavePools, NEW S \in SUBSET Gateways, NEW seen \in [Gateways -> BOOLEAN],
           NEW watchdog \in BOOLEAN, Evaluate(S, seen, watchdog), UNCHANGED caddyVars
    PROVE  DeadLeavePools'
<1>1. CASE health' = health /\ chain' = chain
  BY <1>1, PoolsUnchanged DEF caddyVars
<1>2. ASSUME NEW g \in Gateways,
             \A h \in Gateways \ {g} : health'[h] = health[h],
             health'[g] # health[g],
             chain' = Append(chain, EventOf(g, health[g], health'[g], watchdog))
      PROVE  DeadLeavePools'
  <2> DEFINE e == EventOf(g, health[g], health'[g], watchdog)
             n == Len(chain) + 1
  <2>1. e \in Event /\ e.gateway = g
        /\ (health[g] = "alive" /\ health'[g] # "alive" => e.what = "down")
    BY EventOfType
  <2> HIDE DEF e
  <2>2. chain' = Append(chain, e)
    BY <1>2 DEF e
  <2> SUFFICES ASSUME deployed, NEW p \in PoolRoutes, NEW h \in served[p], health'[h] # "alive"
               PROVE  \E i \in DOMAIN chain' : chain'[i].what = "down" /\ chain'[i].gateway = h
    BY DEF DeadLeavePools, caddyVars
  <2>3. h \in Gateways
    BY DEF TypeOK
  <2>4. CASE health[h] = "alive"
    <3>1. h = g
      BY <1>2, <2>3, <2>4
    <3>2. n \in DOMAIN chain' /\ chain'[n] = e
      BY <2>1, <2>2, AppendIndex
    <3> QED
      BY <2>1, <2>4, <3>1, <3>2
  <2>5. CASE health[h] # "alive"
    <3>1. PICK i \in DOMAIN chain : chain[i].what = "down" /\ chain[i].gateway = h
      BY <2>5 DEF DeadLeavePools
    <3>2. i \in DOMAIN chain' /\ chain'[i] = chain[i]
      BY <2>1, <2>2, AppendIndex
    <3> QED
      BY <3>1, <3>2
  <2> QED
    BY <2>4, <2>5
<1> QED
  BY <1>1, <1>2, EvaluateQueue

\* Every step keeps dead gateways out of the pools, or a death in the queue.
LEMMA DeadLeavePoolsStep ==
    ASSUME TypeOK, SnapshotSound, DeadLeavePools, [Next]_vars
    PROVE  DeadLeavePools'
<1>1. CASE (\E g \in Gateways : Heartbeat(g)) \/ WatchdogTurn
  BY <1>1, EvaluationStep, PoolsEvaluate
<1>2. CASE \E g \in Gateways : RefreshHealth(g) \/ BecomesStale(g)
  BY <1>2, PoolsUnchanged DEF RefreshHealth, BecomesStale, queueVars, caddyVars
<1>3. ASSUME NEW g \in Gateways, CooldownPasses(g)
      PROVE  DeadLeavePools'
  <2>1. \A h \in Gateways : health[h] = "alive" => health'[h] = "alive"
    BY <1>3 DEF CooldownPasses, TypeOK
  <2> QED
    BY <1>3, <2>1, PoolsUnchanged DEF CooldownPasses, queueVars, caddyVars
<1>4. CASE HandleQuiet \/ HandleDown \/ HandleUp
  <2>1. chain # <<>> /\ health' = health /\ UNCHANGED caddyVars
        /\ (EndHandler \/ chain' = chain)
    BY <1>4, HandlerQueue DEF gatewayVars
  <2>2. CASE chain' = chain
    BY <2>1, <2>2, PoolsUnchanged DEF caddyVars
  <2>3. CASE EndHandler /\ chain' # chain
    <3>1. ASSUME Head(chain).what = "down", NEW p \in PoolRoutes,
                 Head(chain).gateway \in served[p]
          PROVE  FALSE
      <4>1. HandleDown
        BY <1>4, <3>1 DEF HandleQuiet, HandleUp
      <4>2. PoolsOf(Head(chain).gateway) = {}
        BY <2>3, <4>1 DEF HandleDown, AwaitSyncOrEnd
      <4>3. p \in Pools /\ Head(chain).gateway \in MembersOf(p)
        BY <3>1, FailoverAssumption DEF SnapshotSound
      <4> QED
        BY <4>2, <4>3 DEF PoolsOf
    <3> QED
      BY <2>1, <2>3, <3>1, PoolsEndHandler
  <2> QED
    BY <2>1, <2>2, <2>3
<1>5. CASE HandlerSynced \/ BootSynced \/ EditSynced \/ EditFails
  BY <1>5, PoolsDeployed DEF HandlerSynced, BootSynced, EditSynced, EditFails, gatewayVars
<1>6. CASE NodeRestarts
  BY <1>6 DEF NodeRestarts, DeadLeavePools
<1>7. CASE \/ BootReconcile
           \/ \E r \in Edited : BeginEdit(r) \/ \E g \in Gateways : Relocate(r, g)
           \/ \E g \in Gateways : WriteEdit(g)
           \/ UNCHANGED vars
  <2>1. UNCHANGED <<chain, health, served, deployed>>
    BY <1>7 DEF BootReconcile, BeginEdit, Relocate, WriteEdit, vars, gatewayVars, queueVars, caddyVars
  <2> QED
    BY <2>1, PoolsUnchanged
<1> QED
  BY <1>1, <1>2, <1>3, <1>4, <1>5, <1>6, <1>7 DEF Next, Handler, EditStep

-----------------------------------------------------------------------------
(* The theorems *)

\* Types, the order of the handlers, the way home, and what Caddy serves, together.
THEOREM Inductive == Spec => []IInv
<1>1. Init => IInv
  <2> SUFFICES ASSUME Init PROVE IInv
    OBVIOUS
  <2>1. TypeOK /\ SnapshotSound
    BY InitTypeOK
  <2>2. LastWordIsUp /\ HomeRestored /\ UpstreamFollowsTarget
    BY DEF Init, LastWordIsUp, HomeRestored, UpstreamFollowsTarget
  <2>3. DeadLeavePools
    BY <2>1 DEF Init, DeadLeavePools, TypeOK
  <2> QED
    BY <2>1, <2>2, <2>3 DEF IInv
<1>2. IInv /\ [Next]_vars => IInv'
  BY TypeOKStep, LastWordStep, HomeRestoredStep, UpstreamStep, DeadLeavePoolsStep DEF IInv
<1> QED
  BY <1>1, <1>2, PTL DEF Spec

\* gatewayHealth: the variables keep their types.
THEOREM TypeCorrect == Spec => []TypeOK
<1>1. IInv => TypeOK
  BY DEF IInv
<1> QED
  BY <1>1, Inductive, PTL

\* gatewayHealth._onTransition and reconcileFailoverState: a route that is parked
\* while its home is alive is about to go home.
THEOREM ParkedRoutesGoHome == Spec => []HomeRestored
<1>1. IInv => HomeRestored
  BY DEF IInv
<1> QED
  BY <1>1, Inductive, PTL

\* caddyConfig.resolveRouteUpstreams and _onTransition: a dead gateway is served only
\* until the handler of its death has run.
THEOREM DeadGatewaysLeave == Spec => []DeadLeavePools
<1>1. IInv => DeadLeavePools
  BY DEF IInv
<1> QED
  BY <1>1, Inductive, PTL

\* serializeStateChange: a queued death of a gateway that is alive again is followed by
\* the handler of its return.
THEOREM ReturnsFollowDeaths == Spec => []LastWordIsUp
<1>1. IInv => LastWordIsUp
  BY DEF IInv
<1> QED
  BY <1>1, Inductive, PTL

\* What Caddy forwards pinned routes to is what their rows say, unless a sync is under way
\* or the last one failed (_onTransition, reconcileFailoverState, routes.update).
THEOREM CaddyFollowsRows == Spec => []UpstreamFollowsTarget
<1>1. IInv => UpstreamFollowsTarget
  BY DEF IInv
<1> QED
  BY <1>1, Inductive, PTL

\* _pivotRoutes: no handler, restart or failed sync changes the home of a route.
THEOREM HomeNeverLost == Spec => HomeKept
<1> DEFINE A == (\A r \in Routes : Home(r)' = Home(r)) \/ edit' # edit
<1>1. ASSUME TypeOK, [Next]_vars
      PROVE  [A]_vars
  <2>1. CASE UNCHANGED <<target, original>>
    BY <2>1 DEF Home
  <2>2. CASE HandleDown
    <3>1. PICK g \in Gateways, to \in Gateways : Pivot(g, to) \/ UNCHANGED routeVars
      <4>1. Head(chain).gateway \in Gateways
        BY <1>1, <2>2, HeadType DEF HandleDown
      <4> QED
        BY <2>2, <4>1, SiblingsType DEF HandleDown
    <3>2. CASE Pivot(g, to)
      BY <1>1, <3>2, FailoverAssumption DEF Pivot, Pinned, Home, TypeOK
    <3>3. CASE UNCHANGED routeVars
      BY <2>1, <3>3 DEF routeVars
    <3> QED
      BY <3>1, <3>2, <3>3
  <2>3. CASE HandleUp
    <3>1. PICK g \in Gateways : Restore({g})
      BY <1>1, <2>3, HeadType DEF HandleUp
    <3>2. ASSUME NEW r \in Routes
          PROVE  Home(r)' = Home(r)
      BY <1>1, <3>1, FailoverAssumption DEF Restore, Home, TypeOK
    <3> QED
      BY <3>2
  <2>4. CASE BootReconcile
    <3>1. PICK to \in [Gateways -> Gateways \cup {None}] :
            LET moves(r) == original[r] = None /\ to[target[r]] # None
                back(r)  == original[r] \in Up
            IN  /\ target' = [r \in Routes |-> IF moves(r) THEN to[target[r]]
                                               ELSE IF back(r) THEN original[r] ELSE target[r]]
                /\ original' = [r \in Routes |-> IF moves(r) THEN target[r]
                                                 ELSE IF back(r) THEN None ELSE original[r]]
      BY <2>4 DEF BootReconcile
    <3>2. ASSUME NEW r \in Routes
          PROVE  Home(r)' = Home(r)
      BY <1>1, <3>1, FailoverAssumption DEF Home, TypeOK, Up
    <3> QED
      BY <3>2
  <2>5. CASE EditStep
    <3>1. CASE EditSynced
      BY <2>1, <3>1 DEF EditSynced, routeVars
    <3>2. CASE ~EditSynced
      <4>1. edit \in Edit /\ NoEdit.phase = "idle"
        BY <1>1 DEF TypeOK, NoEdit
      <4>2. (edit').phase # edit.phase
        <5>1. CASE \E r \in Edited : BeginEdit(r) \/ \E g \in Gateways : Relocate(r, g)
          BY <5>1 DEF BeginEdit, Relocate
        <5>2. CASE \E g \in Gateways : WriteEdit(g)
          BY <4>1, <5>2 DEF WriteEdit, Edit
        <5>3. CASE EditFails
          BY <4>1, <5>3 DEF EditFails
        <5> QED
          BY <2>5, <3>2, <5>1, <5>2, <5>3 DEF EditStep
      <4> QED
        BY <4>2
    <3> QED
      BY <3>1, <3>2
  <2>6. CASE \/ \E g \in Gateways : \/ Heartbeat(g) \/ RefreshHealth(g)
                                    \/ BecomesStale(g) \/ CooldownPasses(g)
             \/ WatchdogTurn \/ HandleQuiet \/ HandlerSynced
             \/ NodeRestarts \/ BootSynced
    BY <2>1, <2>6 DEF Heartbeat, RefreshHealth, BecomesStale, CooldownPasses, WatchdogTurn,
                      HandleQuiet, HandlerSynced, NodeRestarts, BootSynced, routeVars
  <2>7. CASE UNCHANGED vars
    BY <2>7
  <2> QED
    BY <1>1, <2>2, <2>3, <2>4, <2>5, <2>6, <2>7 DEF Next, Handler
<1> QED
  BY <1>1, TypeCorrect, PTL DEF Spec, HomeKept
=============================================================================
