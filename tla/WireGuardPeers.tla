---------------------------- MODULE WireGuardPeers ----------------------------
(***************************************************************************)
(* How the table peers reaches the WireGuard interface (services/peers.js, *)
(* wireguard.js, accessReconciler.js).                                     *)
(*                                                                         *)
(* A request changes rows and queues rewriteWgConfig() on a promise chain. *)
(* A job of the chain reads the rows as they are THEN, leaves out the      *)
(* peers whose access window is closed, writes wg0.conf and runs "wg       *)
(* syncconf".  Requests that switch peers off run "wg set ... remove" for  *)
(* them afterwards, outside the chain.  The reconciler compares the denied *)
(* peers with those of its last cycle every minute and after each change   *)
(* of a rule; the license switches peers off and runs "wg syncconf" alone. *)
(*                                                                         *)
(* Commands never reject: a failure is logged and the caller goes on.      *)
(***************************************************************************)
EXTENDS Naturals, Sequences, FiniteSets

CONSTANTS
    Peers,        \* ids of rows of the table peers, each with a key of its own
    Ruled,        \* those that have access rules
    Requests,     \* concurrent requests, the expiry timer included
    Cycles,       \* concurrent calls of reconcile()
    SyncRemoves,  \* whether "wg syncconf" removes what the file does not name
    Faults,       \* what may go wrong, a subset of FaultKinds
    None

FaultKinds == {"wg", "file", "caddy", "license", "node"}

VARIABLES
    row,          \* peers.enabled: "new" before the INSERT, "gone" after the DELETE
    open,         \* isDenied() is false for the peer
    file,         \* the [Peer] sections of wg0.conf
    iface,        \* the peers of the running interface
    chain,        \* _wgRewriteChain: the callers whose jobs have not ended
    sent,         \* what the running syncconf of the chain was given, or None
    request,      \* what each request awaits
    todo,         \* the keys it has still to remove from the interface
    cycle,        \* each call of reconcile()
    lastDenied,   \* accessReconciler.js
    direct,       \* what the syncconf of enforceLimits was given, or None
    boot,         \* what is due after the start: the first cycle, then a rewrite
    unseen,       \* history: peers whose denial changed, by a window or by a row,
                  \* and no cycle has dealt with it
    outrun,       \* history: those whose window changed again before that, until a
                  \* cycle leaves them right
    flawed        \* history: peers that a known weakness left in a wrong state

vars == <<row, open, file, iface, chain, sent, request, todo, cycle, lastDenied,
          direct, boot, unseen, outrun, flawed>>

tableVars == <<row, open>>
chainVars == <<chain, sent>>
jobVars   == <<request, todo>>
cycleVars == <<cycle, lastDenied>>
restVars  == <<direct, boot>>
newsVars  == <<unseen, outrun>>

-----------------------------------------------------------------------------
(* The data *)

Status  == {"new", "on", "off", "gone"}
Callers == Requests \cup Cycles \cup {"boot"}
Idle    == [phase |-> "idle", current |-> {}, rest |-> {}, victim |-> None, changed |-> FALSE]
Cycle   == [phase : {"idle", "removing", "caddy", "rewriting"}, current : SUBSET Peers,
            rest : SUBSET Peers, victim : Peers \cup {None}, changed : BOOLEAN]

On         == {p \in Peers : row[p] = "on"}
Existing   == {p \in Peers : row[p] \in {"on", "off"}}
Wanted     == {p \in On : open[p]}
Denied     == On \ Wanted
Quiet      == chain = <<>> /\ boot = "done"

ASSUME PeersAssumption ==
    /\ Ruled \subseteq Peers
    /\ Requests \cap Cycles = {} /\ "boot" \notin Requests \cup Cycles
    /\ SyncRemoves \in SUBSET BOOLEAN
    /\ Faults \subseteq FaultKinds
    /\ None \notin Peers /\ \A S \in SUBSET Peers : S # None

\* A step that changes rows, or the windows of W, makes denials news for the reconciler.
Notice(W) ==
    /\ unseen' = unseen \cup {p \in Peers : (p \in Denied) # (p \in Denied')}
    /\ outrun' = outrun \cup (W \cap unseen)

\* The file and the interface are right about the peer.
Right(p) == /\ (p \in iface) = (p \in Wanted)
            /\ (p \in file) = (p \in Wanted)

\* A cycle ends: what it saw is dealt with, unless another one is still under way.
Settle(c, current) ==
    LET alone == \A d \in Cycles \ {c} : cycle[d].phase = "idle"
        stale(p) == (p \in current) # (p \in Denied)
    IN  /\ lastDenied' = current
        /\ unseen' = {p \in unseen : alone => stale(p)}
        /\ outrun' = {p \in outrun : alone => stale(p) \/ ~Right(p)'}

\* What the running system can no longer put right is remembered until the file
\* and the interface are right about the peer again.
Blame(S) == flawed' = {p \in flawed \cup S : ~Right(p)'}

Init ==
    /\ row \in [Peers -> {"new", "on", "off"}]
    /\ open \in [Peers -> BOOLEAN]
    /\ \A p \in Peers : open[p] \/ (p \in Ruled /\ row[p] # "new")
    /\ file = Wanted /\ iface = Wanted
    /\ chain = <<>> /\ sent = None
    /\ request = [q \in Requests |-> "idle"]
    /\ todo = [q \in Requests |-> {}]
    /\ cycle = [c \in Cycles |-> Idle]
    /\ lastDenied = {}
    /\ direct = None
    /\ boot = "cycle"
    /\ unseen = Denied /\ outrun = {} /\ flawed = {}

-----------------------------------------------------------------------------
(* Requests of peers.js *)

\* The rows change and the rewrite is queued in one turn.  S are the peers whose
\* keys are removed after the rewrite, F those that stay behind on the interface.
Mutate(q, rows, S, F) ==
    /\ request[q] = "idle"
    /\ row' = rows
    /\ request' = [request EXCEPT ![q] = "rewriting"]
    /\ todo' = [todo EXCEPT ![q] = S]
    /\ chain' = Append(chain, q)
    /\ UNCHANGED <<open, file, iface, sent, cycleVars, restVars>>
    /\ Notice({}) /\ Blame(F)

Set(S, status) == [p \in Peers |-> IF p \in S THEN status ELSE row[p]]

Create(q, p) == row[p] = "new" /\ Mutate(q, Set({p}, "on"), {}, {})

\* enabled = COALESCE(?, enabled); no key is removed.
Update(q, p, status) ==
    /\ p \in Existing
    /\ Mutate(q, Set({p}, status), {}, IF status = "off" THEN {p} ELSE {})

Toggle(q, p) ==
    /\ p \in Existing
    /\ IF row[p] = "on" THEN Mutate(q, Set({p}, "off"), {p}, {})
                        ELSE Mutate(q, Set({p}, "on"), {}, {})

BatchEnable(q, S) == S \subseteq Existing /\ Mutate(q, Set(S, "on"), {}, {})

BatchDisable(q, S) == S \subseteq Existing /\ Mutate(q, Set(S, "off"), S, {})

\* remove() and batch('delete')
Delete(q, S) == S \subseteq Existing /\ Mutate(q, Set(S, "gone"), S, {})

\* Mutant: checkExpiredPeers leaves the keys to syncconf.
ExpireKeepingKeys(q, S) == S \subseteq On /\ Mutate(q, Set(S, "off"), {}, {})

\* checkExpiredPeers: enabled peers whose expires_at has passed.
Expire(q, S) == S \subseteq On /\ Mutate(q, Set(S, "off"), S, {})

\* wireguard.removePeer for one key after the other.  A peer that was switched on
\* again, and that no queued rewrite will add, is taken off by mistake.
RemovePeer(q, p, ok) ==
    /\ request[q] = "removing" /\ p \in todo[q]
    /\ ok \/ "wg" \in Faults
    /\ iface' = IF ok THEN iface \ {p} ELSE iface
    /\ todo' = [todo EXCEPT ![q] = @ \ {p}]
    /\ request' = [request EXCEPT ![q] = IF todo[q] = {p} THEN "idle" ELSE @]
    /\ UNCHANGED <<tableVars, file, chainVars, cycleVars, restVars, newsVars>>
    /\ Blame(IF ~ok \/ chain = <<>> THEN {p} ELSE {})

-----------------------------------------------------------------------------
(* One job of the chain: _rewriteWgConfigInner *)

\* Mutant: the rewrite takes the rows and forgets the access windows.
IncludedByRow == On

Included == Wanted

\* Rows, file and the start of syncconf in one turn.
Rewrite ==
    /\ chain # <<>> /\ sent = None
    /\ file' = Included
    /\ sent' = Included
    /\ UNCHANGED <<tableVars, iface, chain, jobVars, cycleVars, restVars, newsVars>>
    /\ Blame({})

\* Mutant: the request goes on to remove keys although it has none.
AfterRewriteAlways(q) == "removing"

\* Requests that switched peers off have their keys still to remove.
AfterRewrite(q) == IF todo[q] = {} THEN "idle" ELSE "removing"

\* The job ends and its caller goes on.
Answer ==
    LET caller == Head(chain) IN
    /\ UNCHANGED <<tableVars, todo>>
    /\ chain' = Tail(chain)
    /\ sent' = None
    /\ IF caller \in Requests
       THEN request' = [request EXCEPT ![caller] = AfterRewrite(caller)]
       ELSE UNCHANGED request
    /\ IF caller \in Cycles
       THEN /\ cycle' = [cycle EXCEPT ![caller] = Idle]
            /\ Settle(caller, cycle[caller].current)
       ELSE UNCHANGED <<cycleVars, newsVars>>

\* "wg syncconf" with the peers S: it adds, and may or may not remove.
Synced(S) == \E removes \in SyncRemoves : iface' = IF removes THEN S ELSE iface \cup S

\* A peer that a cycle has removed meanwhile is added again.
SyncEnds(ok) ==
    /\ sent # None
    /\ IF ok THEN Synced(sent) ELSE "wg" \in Faults /\ iface' = iface
    /\ UNCHANGED <<file, restVars>>
    /\ Answer
    /\ Blame(IF ~ok THEN Peers
             ELSE {p \in sent : \E c \in Cycles : p \in cycle[c].current})

\* wg0.conf cannot be read or written: nothing happens.
RewriteFails ==
    /\ "file" \in Faults /\ chain # <<>> /\ sent = None
    /\ UNCHANGED <<file, iface, restVars>>
    /\ Answer
    /\ Blame(Peers)

-----------------------------------------------------------------------------
(* The reconciler *)

\* An admin edits a rule, or time passes.
WindowChanges(p) ==
    /\ p \in Ruled \cap Existing
    /\ open' = [open EXCEPT ![p] = ~@]
    /\ UNCHANGED <<row, file, iface, chainVars, jobVars, cycleVars, restVars>>
    /\ Notice({p}) /\ Blame({})

\* Mutant: a denial that is over does not make the cycle rewrite the file.
TransitionsToDenied(c, current) == cycle[c].changed

\* peersChanged: a denial was new, or one of the last cycle is over.
Transitions(c, current) == cycle[c].changed \/ lastDenied \ current # {}

\* Steps 4 and 5: the rewrite if a peer changed, and lastDenied.
PushPeers(c, current, changed) ==
    IF changed
    THEN /\ cycle' = [cycle EXCEPT ![c] = [Idle EXCEPT !.phase = "rewriting", !.current = current]]
         /\ chain' = Append(chain, c)
         /\ UNCHANGED <<lastDenied, newsVars>>
    ELSE /\ cycle' = [cycle EXCEPT ![c] = Idle]
         /\ Settle(c, current)
         /\ UNCHANGED chain

\* The loop over the rules goes on to the next denial that is not in lastDenied and
\* whose row is still there.  After the last one comes Caddy, if a route changed.
Proceed(c, current, rest) ==
    LET news == {p \in rest \ lastDenied : row[p] # "gone"} IN
    IF news # {}
    THEN /\ \E p \in news :
               cycle' = [cycle EXCEPT ![c] = [phase |-> "removing", current |-> current,
                                   rest |-> rest \ {p}, victim |-> p, changed |-> TRUE]]
         /\ UNCHANGED <<chain, lastDenied, newsVars>>
    ELSE \/ PushPeers(c, current, Transitions(c, current))
         \/ /\ "caddy" \in Faults
            /\ cycle' = [cycle EXCEPT ![c] = [Idle EXCEPT !.phase = "caddy", !.current = current,
                                                  !.changed = Transitions(c, current)]]
            /\ UNCHANGED <<chain, lastDenied, newsVars>>

\* The interval of sixty seconds, the start, and reconcileNow() after a rule changed.
StartCycle(c) ==
    /\ cycle[c].phase = "idle"
    /\ UNCHANGED <<tableVars, file, iface, sent, jobVars, direct>>
    /\ Proceed(c, Denied, Denied)
    /\ boot' = IF boot = "cycle" THEN "rewrite" ELSE boot
    /\ Blame({})

\* wireguard.removePeer for a peer that became denied.  One that is allowed again by now
\* is taken off by mistake: no later cycle misses it if this one ends before its rewrite.
Disconnect(c, ok) ==
    /\ cycle[c].phase = "removing"
    /\ ok \/ "wg" \in Faults
    /\ iface' = IF ok THEN iface \ {cycle[c].victim} ELSE iface
    /\ UNCHANGED <<tableVars, file, sent, jobVars, restVars>>
    /\ Proceed(c, cycle[c].current, cycle[c].rest)
    /\ Blame({p \in {cycle[c].victim} : ~ok \/ p \in Wanted})

\* requestCaddySync() comes before the rewrite; when it rejects, the cycle is over
\* and lastDenied stays.
CaddyPushed(c, ok) ==
    /\ cycle[c].phase = "caddy"
    /\ UNCHANGED <<tableVars, file, iface, sent, jobVars, restVars>>
    /\ IF ok THEN PushPeers(c, cycle[c].current, cycle[c].changed)
             ELSE cycle' = [cycle EXCEPT ![c] = Idle] /\ UNCHANGED <<chain, lastDenied, newsVars>>
    /\ Blame({})

-----------------------------------------------------------------------------
(* The surroundings *)

\* enforceLimits switches the oldest peers off and runs syncconf on the file as it is.
EnforceLimits(S) ==
    /\ "license" \in Faults /\ direct = None
    /\ S # {} /\ S \subseteq On
    /\ row' = Set(S, "off")
    /\ direct' = file
    /\ UNCHANGED <<open, file, iface, chainVars, jobVars, cycleVars, boot>>
    /\ Notice({}) /\ Blame(S)

LimitsSynced(ok) ==
    /\ direct # None
    /\ IF ok THEN Synced(direct) ELSE "wg" \in Faults /\ iface' = iface
    /\ direct' = None
    /\ UNCHANGED <<tableVars, file, chainVars, jobVars, cycleVars, boot, newsVars>>
    /\ Blame(Peers)

\* server.js: two seconds after the start.
BootRewrite ==
    /\ boot = "rewrite"
    /\ boot' = "done"
    /\ chain' = Append(chain, "boot")
    /\ UNCHANGED <<tableVars, file, iface, sent, jobVars, cycleVars, direct, newsVars>>
    /\ Blame({})

\* POST /api/wg/restart: wg-quick down, then up, which may fail and leave no interface.
InterfaceRestarts ==
    /\ "wg" \in Faults
    /\ UNCHANGED <<tableVars, file, chainVars, jobVars, cycleVars, restVars, newsVars>>
    /\ \/ iface' = file /\ Blame(file \ Wanted)
       \/ iface' = {} /\ Blame(file \cap Wanted)

\* The process dies, alone or with the container.  A running syncconf may have had
\* its effect; removals that were to follow are lost.
NodeRestarts ==
    /\ "node" \in Faults
    /\ \/ iface' = iface
       \/ iface' = file
       \/ sent # None /\ Synced(sent)
    /\ chain' = <<>> /\ sent' = None
    /\ request' = [q \in Requests |-> "idle"]
    /\ todo' = [q \in Requests |-> {}]
    /\ cycle' = [c \in Cycles |-> Idle]
    /\ lastDenied' = {}
    /\ direct' = None
    /\ boot' = "cycle"
    /\ unseen' = unseen \cup Denied /\ outrun' = {}
    /\ UNCHANGED <<tableVars, file>>
    /\ Blame(Peers \ On)

-----------------------------------------------------------------------------
RequestStep(q) ==
    \/ \E p \in Peers : \/ Create(q, p) \/ Toggle(q, p)
                        \/ \E status \in {"on", "off", row[p]} : Update(q, p, status)
                        \/ \E ok \in BOOLEAN : RemovePeer(q, p, ok)
    \/ \E S \in SUBSET Peers \ {{}} : \/ BatchEnable(q, S) \/ BatchDisable(q, S)
                                      \/ Delete(q, S) \/ Expire(q, S)

CycleStep(c) == StartCycle(c) \/ \E ok \in BOOLEAN : Disconnect(c, ok) \/ CaddyPushed(c, ok)

Next ==
    \/ \E q \in Requests : RequestStep(q)
    \/ \E c \in Cycles : CycleStep(c)
    \/ Rewrite \/ RewriteFails \/ \E ok \in BOOLEAN : SyncEnds(ok)
    \/ \E p \in Peers : WindowChanges(p)
    \/ \E S \in SUBSET Peers : EnforceLimits(S)
    \/ \E ok \in BOOLEAN : LimitsSynced(ok)
    \/ BootRewrite \/ InterfaceRestarts \/ NodeRestarts

Spec == Init /\ [][Next]_vars

-----------------------------------------------------------------------------
(* Properties *)

\* The values the variables take.  A job is in progress only while the chain is not
\* empty, and a request has keys to remove only while it is under way.
TypeOK ==
    /\ row \in [Peers -> Status]
    /\ open \in [Peers -> BOOLEAN]
    /\ file \in SUBSET Peers /\ iface \in SUBSET Peers
    /\ chain \in Seq(Callers)
    /\ sent \in {None} \cup SUBSET Peers
    /\ sent # None => chain # <<>>
    /\ request \in [Requests -> {"idle", "rewriting", "removing"}]
    /\ todo \in [Requests -> SUBSET Peers]
    /\ \A q \in Requests : /\ request[q] = "idle" => todo[q] = {}
                           /\ request[q] = "removing" => todo[q] # {}
    /\ cycle \in [Cycles -> Cycle]
    /\ \A c \in Cycles : cycle[c].phase = "removing" <=> cycle[c].victim # None
    /\ lastDenied \in SUBSET Peers
    /\ direct \in {None} \cup SUBSET Peers
    /\ boot \in {"cycle", "rewrite", "done"}
    /\ unseen \in SUBSET Peers /\ outrun \in SUBSET Peers /\ flawed \in SUBSET Peers

\* wireguard.js, removePeer: a peer that was disabled, deleted or has expired is off
\* the interface as soon as the request that did it has removed its key, whatever
\* rewrites other callers have in progress or start later.
RevokedIsOff ==
    \A p \in Peers \ On :
        p \in iface => p \in flawed \/ \E q \in Requests : p \in todo[q]

\* accessReconciler.js: a peer whose window closed is off the interface once a cycle
\* has dealt with it, and no later rewrite brings it back.  Not so for one whose window
\* changed while an earlier change was not dealt with.
DeniedIsOff == Denied \cap iface \subseteq unseen \cup outrun \cup flawed

\* An enabled peer inside its window is in the file and on the interface when no
\* rewrite is on its way and the change of its window was dealt with, again unless the
\* window outran the cycles.
AllowedIsOn == Quiet => Wanted \ (unseen \cup outrun \cup flawed) \subseteq iface \cap file
=============================================================================
