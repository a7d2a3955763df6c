---------------------------- MODULE PluginLifecycle ----------------------------
(***************************************************************************)
(* The processes of plugins (services/plugins/index.js, runtime.js).       *)
(*                                                                         *)
(* A PluginProcess holds at most one child.  The map procs knows one       *)
(* PluginProcess per plugin; one that was taken out of the map may still   *)
(* have a child or a restart timer.  reconcile() is a promise chain: each  *)
(* run reads the rows once and starts what may run, stops what may not,    *)
(* one plugin after another.  Restart, update and uninstall stop the       *)
(* process themselves, outside the chain, and reconcile at the end.        *)
(*                                                                         *)
(* One step goes from one await to the next; the awaits of a run between   *)
(* two plugins are kept apart as well.  A child that loads and one that is *)
(* ready are the same here: start, stop and exit treat them alike.         *)
(***************************************************************************)
EXTENDS Naturals, Sequences, FiniteSets

CONSTANTS
    Plugins,    \* ids of plugins
    Versions,   \* versions of their packages
    Requests,   \* concurrent requests of administrators and the nightly update
    Procs,      \* PluginProcess objects; the bound on those alive at one time
    None

ASSUME LifecycleAssumption ==
    /\ "timer" \notin Requests /\ "chain" \notin Requests
    /\ None \notin Plugins \cup Procs \cup Requests \cup {"timer", "chain"}
    /\ None \notin [enabled : BOOLEAN, version : Versions]

VARIABLES
    row,        \* table plugins: a row, or None when it is not installed
    entitled,   \* plugins whose licence, signature and compatibility allow them to run
    proc,       \* the PluginProcess objects
    procs,      \* runtime.js procs: the object of each plugin, or None
    chain,      \* reconciling: whose runs have not ended, the head's first
    rows,       \* the rows the head has read and not yet dealt with
    run,        \* what the head awaits: nothing, or the end of the child of a plugin
    request,    \* what each request does and awaits
    unseen,     \* history: plugins whose entitlement no run has looked at since it changed
    struck      \* history: what was in the way of which plugin (see Strike)

vars == <<row, entitled, proc, procs, chain, rows, run, request, unseen, struck>>

processVars == <<proc, procs>>
chainVars   == <<chain, rows, run>>

-----------------------------------------------------------------------------
(* The data *)

Row     == [enabled : BOOLEAN, version : Versions]
Callers == Requests \cup {"timer"}
Gone    == [plugin |-> None, version |-> None, wanted |-> FALSE,
            child |-> FALSE, timer |-> FALSE, stopper |-> None]
Process == [plugin : Plugins \cup {None}, version : Versions \cup {None},
            wanted : BOOLEAN, child : BOOLEAN, timer : BOOLEAN,
            stopper : Requests \cup {"chain", None}]
Run     == [phase : {"between", "walking", "stopping", "replacing"}, plugin : Plugins \cup {None}]
Request == [op : {"none", "enable", "restart", "uninstall", "install"},
            at : {"idle", "stopping", "storage", "migrating", "reconciling"},
            plugin : Plugins \cup {None}, existing : Row \cup {None}, version : Versions \cup {None}]
Phase(phase, p) == [phase |-> phase, plugin |-> p]
Idle    == [op |-> "none", at |-> "idle", plugin |-> None, existing |-> None, version |-> None]

\* A child that was told to end: stop() clears wanted and sends "stop".
Told(i) == proc[i].child /\ ~proc[i].wanted

Alive(i) == proc[i].child \/ proc[i].timer
Free     == {i \in Procs : ~Alive(i) /\ \A p \in Plugins : procs[p] # i}
New      == CHOOSE i \in Free : TRUE

\* evaluate(): the row as the run has read it; the folder of its version is there
\* as long as the row has not changed version.
MayRun(p, r) ==
    /\ r # None /\ r.enabled /\ p \in entitled
    /\ row[p] # None /\ row[p].version = r.version

\* An uninstall closes the database of p; then the row goes.
Leaving(p) == \E q \in Requests : request[q].plugin = p /\ request[q].at = "storage"

Init ==
    /\ row \in [Plugins -> Row \cup {None}]
    /\ entitled = Plugins
    /\ proc = [i \in Procs |-> Gone]
    /\ procs = [p \in Plugins |-> None]
    /\ chain = <<"timer">>
    /\ rows = [p \in Plugins |-> None] /\ run = Phase("between", None)
    /\ request = [q \in Requests |-> Idle]
    /\ unseen = Plugins /\ struck = {}

-----------------------------------------------------------------------------
(* PluginProcess: each operator gives the object after the call *)

\* Mutant: spawn() leaves the restart timer that led to it.
SpawnedKeepsTimer(i) == [i EXCEPT !.child = TRUE]

Spawned(i) == [i EXCEPT !.child = TRUE, !.timer = FALSE]

Fresh(p, version) ==
    Spawned([Gone EXCEPT !.plugin = p, !.version = version, !.wanted = TRUE])

\* start(): a child or a timer, even of a process told to stop, is left as it is.
Started(i) ==
    LET w == [i EXCEPT !.wanted = TRUE]
    IN IF i.child \/ i.timer THEN w ELSE Spawned(w)

\* stop() of a process with a child: one stopResolve, the newest caller's.
Stopping(i, c) == [i EXCEPT !.wanted = FALSE, !.timer = FALSE, !.stopper = c]

\* onExit(): on purpose when nobody wants it, else a crash with a restart timer.
Exited(i) ==
    [i EXCEPT !.child = FALSE, !.stopper = None, !.timer = i.wanted]

-----------------------------------------------------------------------------
(* The map of runtime.js *)

\* What no caller waits for: a stop meets a stop or a start ("stop"), a start meets
\* an uninstall.  What becomes of the plugin after that is left out of the properties.
Strike(p, marks) == struck' = struck \cup {<<p, m>> : m \in marks}

\* A new child of p while an uninstall is under way.
Meets(p) == IF Leaving(p) THEN {"uninstall"} ELSE {}

\* Mutant: stop() waits for an exit although there is no child.
StopsAtOnceUnlessKnown(p) == procs[p] = None

\* ensureStopped(p) for the caller c: returns at once without a child.
StopsAtOnce(p) == \A i \in Procs : procs[p] = i => ~proc[i].child

\* Mutant: stop() without a child forgets the restart timer.
StopNowKeepsTimer(p) ==
    /\ StopsAtOnce(p)
    /\ procs' = [procs EXCEPT ![p] = None]
    /\ UNCHANGED <<proc, struck>>

StopNow(p) ==
    /\ StopsAtOnce(p)
    /\ procs' = [procs EXCEPT ![p] = None]
    /\ proc' = IF procs[p] = None THEN proc ELSE [proc EXCEPT ![procs[p]] = Gone]
    /\ UNCHANGED struck

StopAndWait(p, c) ==
    /\ ~StopsAtOnce(p)
    /\ proc' = [proc EXCEPT ![procs[p]] = Stopping(@, c)]
    /\ Strike(p, IF proc[procs[p]].stopper # None THEN {"stop"} ELSE {})
    /\ UNCHANGED procs

\* ensureRunning(p): a new object, or start() of the one of the same version.
RunNew(p, version) ==
    /\ Free # {}
    /\ proc' = [proc EXCEPT ![New] = Fresh(p, version)]
    /\ procs' = [procs EXCEPT ![p] = New]
    /\ Strike(p, Meets(p))

RunAgain(p) ==
    LET i == procs[p]
    IN /\ proc' = [proc EXCEPT ![i] = Started(@)]
       /\ Strike(p, IF Told(i) THEN {"stop"} ELSE IF Alive(i) THEN {} ELSE Meets(p))
       /\ UNCHANGED procs

-----------------------------------------------------------------------------
(* reconcile() *)

StartRun ==
    /\ chain # <<>> /\ run.phase = "between"
    /\ rows' = row
    /\ run' = Phase("walking", None)
    /\ UNCHANGED <<row, entitled, processVars, chain, request, unseen, struck>>

\* What a run does about one plugin; the rows it has dealt with are gone.
Look(p) ==
    /\ run.phase = "walking" /\ rows[p] # None
    /\ unseen' = unseen \ {p}
    /\ UNCHANGED <<row, entitled, chain, request>>

Without(p) == [rows EXCEPT ![p] = None]

WalkStop(p) ==
    /\ Look(p) /\ ~MayRun(p, rows[p])
    /\ rows' = Without(p)
    /\ \/ StopNow(p) /\ UNCHANGED run
       \/ StopAndWait(p, "chain") /\ run' = Phase("stopping", p)

\* Mutant: the version of the running process is not compared.
ReplacesNever(p) == FALSE

Replaces(p) == \E i \in Procs : procs[p] = i /\ proc[i].version # rows[p].version

WalkRun(p) ==
    /\ Look(p) /\ MayRun(p, rows[p]) /\ ~Replaces(p)
    /\ rows' = Without(p) /\ UNCHANGED run
    /\ IF procs[p] = None THEN RunNew(p, rows[p].version) ELSE RunAgain(p)

\* Another version is stopped first; the new one starts when it has ended.
WalkReplace(p) ==
    /\ Look(p) /\ MayRun(p, rows[p]) /\ Replaces(p)
    /\ IF StopsAtOnce(p)
       THEN /\ proc' = [proc EXCEPT ![procs[p]] = Fresh(p, rows[p].version)]
            /\ rows' = Without(p) /\ UNCHANGED <<procs, run>>
            /\ Strike(p, Meets(p))
       ELSE StopAndWait(p, "chain") /\ run' = Phase("replacing", p) /\ UNCHANGED rows

EndRun ==
    /\ run.phase = "walking" /\ \A p \in Plugins : rows[p] = None
    /\ run' = Phase("between", None)
    /\ chain' = Tail(chain)
    /\ request' = [q \in Requests |-> IF q = Head(chain) THEN Idle ELSE request[q]]
    /\ UNCHANGED <<row, entitled, processVars, rows, unseen, struck>>

\* Every five minutes; one waiting tick stands for all (the bound on the chain).
TimerReconcile ==
    /\ "timer" \notin {chain[k] : k \in DOMAIN chain}
    /\ chain' = Append(chain, "timer")
    /\ UNCHANGED <<row, entitled, processVars, rows, run, request, unseen, struck>>

-----------------------------------------------------------------------------
(* Requests *)

SetEnabled(q, p, on) ==
    /\ request[q].at = "idle" /\ row[p] # None
    /\ row' = [row EXCEPT ![p].enabled = on]
    /\ request' = [request EXCEPT ![q] = [Idle EXCEPT !.op = "enable", !.at = "reconciling", !.plugin = p]]
    /\ chain' = Append(chain, q)
    /\ UNCHANGED <<entitled, processVars, rows, run, unseen, struck>>

\* What follows the stop: the request reconciles, or works on the data of the plugin.
Then(op) == CASE op = "restart"   -> "reconciling"
               [] op = "uninstall" -> "storage"
               [] op = "install"   -> "migrating"

AfterStop(q, r) ==
    /\ request' = [request EXCEPT ![q] = [r EXCEPT !.at = Then(r.op)]]
    /\ chain' = IF r.op = "restart" THEN Append(chain, q) ELSE chain

\* restart(), uninstall() and an update stop the process of the plugin first.
StopFirst(q, r) ==
    \/ StopNow(r.plugin) /\ AfterStop(q, r)
    \/ /\ StopAndWait(r.plugin, q)
       /\ request' = [request EXCEPT ![q] = [r EXCEPT !.at = "stopping"]]
       /\ UNCHANGED chain

Begin(q, op, p, v) ==
    LET r == [op |-> op, at |-> "idle", plugin |-> p, existing |-> IF op = "install" THEN row[p] ELSE None, version |-> v]
    IN /\ request[q].at = "idle"
       /\ IF row[p] # None THEN StopFirst(q, r)
          ELSE AfterStop(q, r) /\ UNCHANGED <<processVars, struck>>
       /\ UNCHANGED <<row, entitled, rows, run, unseen>>

Restart(q, p)    == row[p] # None /\ Begin(q, "restart", p, None)
Uninstall(q, p)  == row[p] # None /\ Begin(q, "uninstall", p, None)
Install(q, p, v) == Begin(q, "install", p, v)

\* removeInstalled() after storage.close(): folders and row go in one turn.
StorageClosed(q) ==
    /\ request[q].at = "storage"
    /\ row' = [row EXCEPT ![request[q].plugin] = None]
    /\ request' = [request EXCEPT ![q] = Idle]
    /\ UNCHANGED <<entitled, processVars, chainVars, unseen, struck>>

\* install() after the migrations: the folder and the row of the new version, with
\* the switch as it was when the request came.
Migrated(q) ==
    LET r == request[q]
        on == IF r.existing = None THEN TRUE ELSE r.existing.enabled
    IN /\ r.at = "migrating"
       /\ row' = [row EXCEPT ![r.plugin] = [enabled |-> on, version |-> r.version]]
       /\ request' = [request EXCEPT ![q].at = "reconciling"]
       /\ chain' = Append(chain, q)
       /\ UNCHANGED <<entitled, processVars, rows, run, unseen, struck>>

MigrationFails(q) ==
    LET r == request[q]
    IN /\ r.at = "migrating"
       /\ IF r.existing = None
          THEN request' = [request EXCEPT ![q] = Idle] /\ UNCHANGED chain
          ELSE request' = [request EXCEPT ![q].at = "reconciling"] /\ chain' = Append(chain, q)
       /\ UNCHANGED <<row, entitled, processVars, rows, run, unseen, struck>>

-----------------------------------------------------------------------------
(* Processes *)

\* A child ends: it crashed, was killed by a watchdog, or did as it was told.
Exit(i) ==
    /\ proc[i].child /\ proc[i].stopper = None
    /\ proc' = [proc EXCEPT ![i] = Exited(@)]
    /\ UNCHANGED <<row, entitled, procs, chainVars, request, unseen, struck>>

\* What is left of an object taken out of the map: its restart timer, if any.
Left(i) == IF proc[i].wanted THEN Exited(proc[i]) ELSE Gone

\* The promise of stop() is resolved: ensureStopped() removes the entry.
ExitForRequest(i) ==
    LET q == proc[i].stopper
    IN /\ proc[i].child /\ q \in Requests
       /\ proc' = [proc EXCEPT ![i] = Left(i)]
       /\ procs' = [procs EXCEPT ![proc[i].plugin] = None]
       /\ AfterStop(q, request[q])
       /\ UNCHANGED <<row, entitled, rows, run, unseen, struck>>

ExitForRun(i) ==
    LET p == proc[i].plugin
    IN /\ proc[i].child /\ proc[i].stopper = "chain"
       /\ run' = Phase("walking", None)
       /\ UNCHANGED <<row, entitled, chain, request, unseen>>
       /\ \/ /\ run.phase = "stopping"
             /\ proc' = [proc EXCEPT ![i] = Left(i)]
             /\ procs' = [procs EXCEPT ![p] = None]
             /\ UNCHANGED <<rows, struck>>
          \/ /\ run.phase = "replacing"
             /\ Free # {}
             /\ proc' = [proc EXCEPT ![i] = Left(i), ![New] = Fresh(p, rows[p].version)]
             /\ procs' = [procs EXCEPT ![p] = New]
             /\ rows' = Without(p)
             /\ Strike(p, Meets(p))

\* Mutant: the timer asks for a process nobody wants.
RestartTimerStopped(i) ==
    /\ proc[i].timer /\ ~proc[i].wanted
    /\ proc' = [proc EXCEPT ![i] = Spawned(@)]
    /\ UNCHANGED <<row, entitled, procs, chainVars, request, unseen, struck>>

\* The restart after a crash, 1 s to 5 min later.
RestartTimer(i) ==
    /\ proc[i].timer
    /\ proc' = [proc EXCEPT ![i] = Spawned(@)]
    /\ UNCHANGED <<row, entitled, procs, chainVars, request, unseen, struck>>

\* A licence ends or comes, unsigned plugins are allowed or not.
EntitlementChanges(p) ==
    /\ entitled' = IF p \in entitled THEN entitled \ {p} ELSE entitled \cup {p}
    /\ unseen' = unseen \cup {p}
    /\ UNCHANGED <<row, processVars, chainVars, request, struck>>

-----------------------------------------------------------------------------
Administer ==
    \E q \in Requests, p \in Plugins :
        \/ \E on \in BOOLEAN : SetEnabled(q, p, on)
        \/ Restart(q, p)
        \/ Uninstall(q, p)
        \/ \E v \in Versions : Install(q, p, v)

Next ==
    \/ Administer
    \/ \E q \in Requests : StorageClosed(q) \/ Migrated(q) \/ MigrationFails(q)
    \/ StartRun \/ EndRun \/ TimerReconcile
    \/ \E p \in Plugins : WalkStop(p) \/ WalkRun(p) \/ WalkReplace(p) \/ EntitlementChanges(p)
    \/ \E i \in Procs :
        Exit(i) \/ ExitForRequest(i) \/ ExitForRun(i) \/ RestartTimer(i)

\* Runs go on, storage calls have time limits, a child told to stop is killed after
\* three seconds, timers fire.  Children crash or not as they like.
Fairness ==
    /\ WF_vars(StartRun) /\ WF_vars(EndRun) /\ WF_vars(TimerReconcile)
    /\ \A p \in Plugins : WF_vars(WalkStop(p) \/ WalkRun(p) \/ WalkReplace(p))
    /\ \A q \in Requests : WF_vars(StorageClosed(q) \/ Migrated(q) \/ MigrationFails(q))
    /\ \A i \in Procs :
        /\ WF_vars(Told(i) /\ (Exit(i) \/ ExitForRequest(i) \/ ExitForRun(i)))
        /\ WF_vars(RestartTimer(i))

Spec == Init /\ [][Next]_vars /\ Fairness

-----------------------------------------------------------------------------
(* Properties *)

\* The variables keep their types; a timer runs only without a child, and stop() is
\* awaited only for a child.
TypeOK ==
    /\ row \in [Plugins -> Row \cup {None}]
    /\ entitled \subseteq Plugins
    /\ proc \in [Procs -> Process]
    /\ \A i \in Procs : (proc[i].timer => ~proc[i].child)
                      /\ (proc[i].stopper # None => proc[i].child)
    /\ procs \in [Plugins -> Procs \cup {None}]
    /\ chain \in Seq(Callers)
    /\ rows \in [Plugins -> Row \cup {None}]
    /\ run \in Run
    /\ request \in [Requests -> Request]
    /\ unseen \subseteq Plugins /\ struck \subseteq Plugins \X {"stop", "uninstall"}

\* Nothing came between the stop and the end of a process of p, nor did a start come
\* between the stop and the end of an uninstall.
Undisturbed(p) == <<p, "stop">> \notin struck /\ <<p, "uninstall">> \notin struck

AtRest == chain = <<>> /\ \A q \in Requests : request[q].at = "idle"

\* When nothing is under way, a plugin has a process, of the installed version,
\* exactly if it is switched on and entitled to run (reconcile(): "start what may
\* run, stop what may not"): whatever rows changed while a run was under way, whatever
\* the reconcile timer did during an update, and however often the process crashed.
\* Of a plugin whose stop ever met another stop or a start, or whose start met an
\* uninstall, it says nothing.
RunsWhatMayRun ==
    AtRest =>
        \A p \in Plugins \ unseen : Undisturbed(p) =>
            IF MayRun(p, row[p])
            THEN /\ procs[p] # None /\ Alive(procs[p])
                 /\ proc[procs[p]].version = row[p].version
            ELSE \A i \in Procs : proc[i].plugin = p => ~Alive(i)

\* A plugin has one process at most: no child or restart timer is left outside the
\* map, where nobody could stop it (runtime.js: "one child process per running plugin").
\* The same plugins are left out.
NothingOutside ==
    \A i \in Procs :
        Alive(i) /\ Undisturbed(proc[i].plugin) => procs[proc[i].plugin] = i

\* A request is answered, unless stops or starts met: every plugin waits in one chain.
RequestsAnswered ==
    \A q \in Requests :
        request[q].at # "idle" ~> request[q].at = "idle" \/ \E p \in Plugins : ~Undisturbed(p)

\* A plugin that may run from some time on is started again after every crash.
ComesBack ==
    \A p \in Plugins :
        <>[](MayRun(p, row[p]) /\ Undisturbed(p)) => []<>(procs[p] # None /\ proc[procs[p]].child)
=============================================================================
