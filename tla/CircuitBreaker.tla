---------------------------- MODULE CircuitBreaker ----------------------------
(***************************************************************************)
(* The circuit breaker of one route, the monitor that drives it and the    *)
(* answer Caddy gives (services/circuitBreaker.js, monitor.js).            *)
(*                                                                         *)
(* A check reads the row, probes the backend, may wait for an alert mail,  *)
(* and only then updates the breaker, as it is by then.  Runs start every  *)
(* minute whether the last one has ended or not, and each first makes open *)
(* circuits half-open when their time is up.  Caddy's answer is rendered   *)
(* from the row by a sync; what a sync goes through is in CaddySync, here  *)
(* one that was asked for is a step of its own and succeeds.               *)
(***************************************************************************)
EXTENDS Naturals

CONSTANTS
    Checks,     \* checks of the route that can be under way at once
    Threshold,  \* circuit_breaker_threshold
    Timeout,    \* circuit_breaker_timeout, in ticks
    MaxEdits,   \* bound: what administrators do in one behaviour
    None

ASSUME BreakerAssumption ==
    /\ Threshold \in Nat \ {0} /\ Timeout \in Nat \ {0} /\ MaxEdits \in Nat
    /\ None \notin Nat

VARIABLES
    healthy,    \* what a probe of the backend finds
    monitored,  \* monitoring_enabled
    enabled,    \* circuit_breaker_enabled
    status,     \* circuit_breaker_status
    failures,   \* cb_failure_count
    age,        \* ticks since cb_opened_at, at most Timeout; None when it is null
    seen,       \* monitoring_status
    check,      \* each check: idle, probing since it has read the row, or mailing
    pending,    \* a sync was asked for
    answer,     \* what Caddy does with requests: "proxy" or "503"
    saving,     \* an update with breaker settings awaits its sync
    edits,      \* what administrators have done
    opened,     \* history: ticks since the circuit opened, at most Timeout
    streak,     \* history: failures in a row the breaker was given, at most Threshold
    unsynced    \* history: an update closed the circuit after its sync

breakerVars == <<status, failures, age, opened>>
adminVars   == <<monitored, enabled, saving, edits>>
vars == <<healthy, adminVars, breakerVars, seen, check, pending, answer, streak, unsynced>>

Statuses == {"closed", "open", "half-open"}
AtMost(n, bound) == IF n < bound THEN n ELSE bound
Idle     == [at |-> "idle", old |-> "none", up |-> FALSE]

Init ==
    /\ healthy = TRUE /\ monitored = TRUE /\ enabled = TRUE
    /\ status = "closed" /\ failures = 0 /\ age = None /\ opened = 0 /\ seen = "none"
    /\ check = [k \in Checks |-> Idle]
    /\ pending = FALSE /\ answer = "proxy" /\ saving = FALSE
    /\ edits = 0 /\ streak = 0 /\ unsynced = FALSE

-----------------------------------------------------------------------------
(* circuitBreaker.js: operators give the new status, count and age *)

Breaker(s, n, a) ==
    /\ status' = s /\ failures' = n /\ age' = a
    /\ opened' = IF s = "open" /\ status # "open" THEN 0 ELSE opened
AsItIs == UNCHANGED breakerVars

TimeIsUp == age = None \/ age >= Timeout

\* Mutant: a success does not forget the failures before it.
CloseUpKeeps(up) ==
    IF up THEN AsItIs
    ELSE IF failures + 1 >= Threshold THEN Breaker("open", 0, 0)
    ELSE Breaker("closed", failures + 1, age)

\* Mutant: the circuit opens on one failure more.
CloseUpLate(up) ==
    IF up THEN Breaker("closed", 0, age)
    ELSE IF failures + 1 > Threshold THEN Breaker("open", 0, 0)
    ELSE Breaker("closed", failures + 1, age)

\* A result while closed: Threshold failures in a row open the circuit.
CloseUp(up) ==
    IF up THEN Breaker("closed", 0, age)
    ELSE IF failures + 1 >= Threshold THEN Breaker("open", 0, 0)
    ELSE Breaker("closed", failures + 1, age)

\* Mutant: the time of the new opening is not stored.
TryUpKeepsTime(up) == IF up THEN Breaker("closed", 0, None) ELSE Breaker("open", failures, age)

\* A result while half-open decides.
TryUp(up) == IF up THEN Breaker("closed", 0, None) ELSE Breaker("open", failures, 0)

\* checkAndUpdate(): while open only the time counts.
CheckAndUpdate(up) ==
    /\ streak' = IF ~enabled THEN streak ELSE IF up THEN 0 ELSE AtMost(streak + 1, Threshold)
    /\ \/ ~enabled /\ AsItIs
       \/ enabled /\ status = "closed" /\ CloseUp(up)
       \/ enabled /\ status = "open" /\ IF TimeIsUp THEN Breaker("half-open", failures, age) ELSE AsItIs
       \/ enabled /\ status = "half-open" /\ TryUp(up)

\* resetStatus()
Reset == Breaker("closed", 0, None)

\* Mutant: a circuit whose time is up is closed without a trial.
CheckTimeoutsCloses ==
    IF enabled /\ status = "open" /\ TimeIsUp THEN Breaker("closed", 0, None) ELSE AsItIs

\* checkTimeouts(): no sync follows.
CheckTimeouts ==
    IF enabled /\ status = "open" /\ TimeIsUp
    THEN IF age = None THEN Breaker("open", failures, 0) ELSE Breaker("half-open", failures, age)
    ELSE AsItIs

-----------------------------------------------------------------------------
(* monitor.js *)

Begun(k) == check' = [check EXCEPT ![k] = [Idle EXCEPT !.at = "probing", !.old = seen]]

\* runChecks(): its SELECT follows the timeouts.
BeginRun(k) ==
    /\ check[k].at = "idle"
    /\ CheckTimeouts
    /\ IF monitored THEN Begun(k) ELSE UNCHANGED check
    /\ UNCHANGED <<healthy, adminVars, seen, pending, answer, streak, unsynced>>

\* POST /:id/check, and the check right after an update that switches monitoring on.
BeginCheck(k) ==
    /\ edits < MaxEdits /\ edits' = edits + 1
    /\ check[k].at = "idle" /\ Begun(k)
    /\ UNCHANGED <<healthy, monitored, enabled, saving, breakerVars, seen, pending, answer, streak, unsynced>>

\* Mutant: only an opening asks for a sync.
AsksOnOpen == status' # status /\ status' = "open"

\* requestCaddySync() when the circuit opens or closes.
Asks == status' # status /\ status' \in {"open", "closed"}

\* The breaker is told the result, whatever became of the row since it was read.
Update(k, up) ==
    /\ CheckAndUpdate(up)
    /\ pending' = (pending \/ Asks)
    /\ check' = [check EXCEPT ![k] = Idle]

\* The probe ends: monitoring_status, and a mail if the row that was read differs.
Probed(k) ==
    LET now == IF healthy THEN "up" ELSE "down"
    IN /\ check[k].at = "probing"
       /\ seen' = now
       /\ \/ Update(k, healthy)
          \/ /\ check[k].old \notin {"none", now}
             /\ check' = [check EXCEPT ![k].at = "mailing", ![k].up = healthy]
             /\ UNCHANGED <<breakerVars, pending, streak>>
       /\ UNCHANGED <<healthy, adminVars, answer, unsynced>>

Mailed(k) ==
    /\ check[k].at = "mailing"
    /\ Update(k, check[k].up)
    /\ UNCHANGED <<healthy, adminVars, seen, answer, unsynced>>

-----------------------------------------------------------------------------
(* Syncs and administrators *)

\* caddyConfig.js: the 503 handler only for an open circuit.
Rendered == IF enabled /\ status = "open" THEN "503" ELSE "proxy"

\* A sync that was asked for, or one of another route.
Sync ==
    /\ answer' = Rendered /\ pending' = FALSE /\ unsynced' = FALSE
    /\ UNCHANGED <<healthy, adminVars, breakerVars, seen, check, streak>>

RequestedSync == pending /\ Sync

Edit == edits < MaxEdits /\ edits' = edits + 1 /\ ~saving

\* PUT /:id with breaker settings: the row, its sync, and then the circuit is closed.
SaveSettings(on) ==
    /\ Edit /\ enabled' = on /\ saving' = TRUE
    /\ UNCHANGED <<healthy, monitored, breakerVars, seen, check, pending, answer, streak, unsynced>>

SettingsSaved ==
    /\ saving /\ saving' = FALSE
    /\ answer' = Rendered /\ pending' = FALSE /\ Reset
    /\ unsynced' = (status # "closed")
    /\ UNCHANGED <<healthy, monitored, enabled, edits, seen, check, streak>>

SetMonitored(on) ==
    /\ Edit /\ monitored' = on
    /\ UNCHANGED <<healthy, enabled, saving, breakerVars, seen, check, pending, answer, streak, unsynced>>

\* POST /:id/circuit-breaker/reset
ResetByHand ==
    /\ Edit /\ enabled /\ Reset /\ pending' = TRUE
    /\ UNCHANGED <<healthy, monitored, enabled, saving, seen, check, answer, streak, unsynced>>

-----------------------------------------------------------------------------
Tick ==
    /\ age # None /\ age < Timeout
    /\ age' = age + 1 /\ opened' = AtMost(opened + 1, Timeout)
    /\ UNCHANGED <<healthy, adminVars, status, failures, seen, check, pending, answer, streak, unsynced>>

BackendChanges ==
    /\ healthy' = ~healthy
    /\ UNCHANGED <<adminVars, breakerVars, seen, check, pending, answer, streak, unsynced>>

Next ==
    \/ Sync \/ SettingsSaved \/ ResetByHand \/ Tick \/ BackendChanges
    \/ \E on \in BOOLEAN : SaveSettings(on) \/ SetMonitored(on)
    \/ \E k \in Checks : BeginRun(k) \/ BeginCheck(k) \/ Probed(k) \/ Mailed(k)

\* The interval timer, the time limits of probes and mails, the coalescer and the clock.
Fairness ==
    /\ WF_vars(RequestedSync) /\ WF_vars(SettingsSaved) /\ WF_vars(Tick)
    /\ \A k \in Checks : WF_vars(BeginRun(k)) /\ WF_vars(Probed(k)) /\ WF_vars(Mailed(k))

Spec == Init /\ [][Next]_vars /\ Fairness

-----------------------------------------------------------------------------
(* Properties *)

\* The variables keep their types; the count stays below the threshold, and an open
\* circuit knows since when.
TypeOK ==
    /\ healthy \in BOOLEAN /\ monitored \in BOOLEAN /\ enabled \in BOOLEAN
    /\ status \in Statuses /\ failures \in 0..(Threshold - 1) /\ age \in 0..Timeout \cup {None}
    /\ opened \in 0..Timeout
    /\ seen \in {"none", "up", "down"}
    /\ check \in [Checks -> [at : {"idle", "probing", "mailing"}, old : {"none", "up", "down"}, up : BOOLEAN]]
    /\ pending \in BOOLEAN /\ answer \in {"proxy", "503"} /\ saving \in BOOLEAN
    /\ edits \in 0..MaxEdits /\ unsynced \in BOOLEAN
    /\ streak \in 0..Threshold
    /\ status # "closed" => age # None /\ failures = 0

\* "closed -> open (after threshold consecutive failures)": whatever checks overlap and
\* whatever an administrator switches, the results before an opening were all failures.
OpensOnStreak ==
    [][status = "closed" /\ status' = "open" =>
          streak' = Threshold]_vars

\* "open -> half-open (after timeout expires)": an opening lasts its time, the first and
\* every later one, unless an administrator ends it.
OpenLasts ==
    [][status = "open" /\ status' # "open" => opened = Timeout \/ edits' # edits \/ saving]_vars

\* "Automatic recovery via monitoring checks" (README): a route whose backend stays well
\* is proxied in the end.  An update that closed the circuit after its sync is left out.
Recovers == <>[](healthy /\ monitored /\ ~unsynced) => <>[](answer = "proxy")

\* "Returns 503 when backends fail repeatedly": the circuit of a route whose backend
\* stays down opens and is not closed again, however checks and trials overlap.
OutageHolds ==
    <>[](~healthy /\ monitored /\ enabled) => <>[](status # "closed") /\ []<>(status = "open")
=============================================================================
