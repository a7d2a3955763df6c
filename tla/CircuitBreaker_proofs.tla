------------------------- MODULE CircuitBreaker_proofs -------------------------
(* The circuit breaker for every threshold, time limit and number of overlapping checks. *)
EXTENDS CircuitBreaker, TLAPS

\* The count never runs ahead of the failures in a row, and an open circuit knows how
\* long it has been open: what the two action properties need besides the types.
CountIsBacked == status = "closed" => failures <= streak
AgeIsOpened   == status = "open" => age = opened

IInv == TypeOK /\ CountIsBacked /\ AgeIsOpened

-----------------------------------------------------------------------------
\* The initial states satisfy the invariant.
LEMMA InitInv == Init => IInv
<1> SUFFICES ASSUME Init PROVE IInv
  OBVIOUS
<1>1. check \in [Checks -> [at : {"idle", "probing", "mailing"}, old : {"none", "up", "down"}, up : BOOLEAN]]
  BY DEF Init, Idle
<1>2. failures \in 0..(Threshold - 1) /\ age = None /\ opened \in 0..Timeout /\ streak \in 0..Threshold
      /\ edits \in 0..MaxEdits
  BY BreakerAssumption DEF Init
<1>3. /\ healthy \in BOOLEAN /\ monitored \in BOOLEAN /\ enabled \in BOOLEAN
      /\ pending \in BOOLEAN /\ saving \in BOOLEAN /\ unsynced \in BOOLEAN
  BY Zenon DEF Init
<1>4. /\ status \in Statuses /\ age \in 0..Timeout \cup {None}
      /\ seen \in {"none", "up", "down"} /\ answer \in {"proxy", "503"}
      /\ status = "closed" /\ failures <= streak
  BY <1>2 DEF Init, Statuses
<1> QED
  BY <1>1, <1>2, <1>3, <1>4 DEF IInv, TypeOK, CountIsBacked, AgeIsOpened

\* AtMost stays within its bound.
LEMMA AtMostBound ==
    ASSUME NEW bound \in Nat, NEW n \in Nat
    PROVE  /\ AtMost(n, bound) \in 0..bound
           /\ n >= bound => AtMost(n, bound) = bound
           /\ AtMost(n + 1, bound) >= AtMost(n, bound)
           /\ n <= bound => AtMost(n, bound) = n
BY DEF AtMost

\* What one result does to the breaker: the types, the two facts above, and the two
\* action properties.
LEMMA UpdateStep ==
    ASSUME IInv, NEW up \in BOOLEAN, CheckAndUpdate(up)
    PROVE  /\ status' \in Statuses /\ failures' \in 0..(Threshold - 1)
           /\ age' \in 0..Timeout \cup {None} /\ opened' \in 0..Timeout
           /\ streak' \in 0..Threshold
           /\ status' # "closed" => age' # None /\ failures' = 0
           /\ CountIsBacked' /\ AgeIsOpened'
           /\ status = "closed" /\ status' = "open" => streak' = Threshold
           /\ status = "open" /\ status' # "open" => opened = Timeout
<1> USE BreakerAssumption
<1>t. /\ status \in Statuses /\ failures \in 0..(Threshold - 1)
      /\ age \in 0..Timeout \cup {None} /\ opened \in 0..Timeout /\ streak \in 0..Threshold
      /\ status # "closed" => age # None /\ failures = 0
      /\ status = "closed" => failures <= streak
      /\ status = "open" => age = opened
  BY DEF IInv, TypeOK, CountIsBacked, AgeIsOpened
<1>s. streak' = IF ~enabled THEN streak ELSE IF up THEN 0 ELSE AtMost(streak + 1, Threshold)
  BY DEF CheckAndUpdate
<1>1. CASE ~enabled
  BY <1>1, <1>t DEF CheckAndUpdate, AsItIs, breakerVars, CountIsBacked, AgeIsOpened
<1>2. CASE enabled /\ status = "closed"
  <2>1. CloseUp(up)
    BY <1>2 DEF CheckAndUpdate
  <2>2. CASE up
    BY <2>1, <2>2, <1>2, <1>t, <1>s DEF CloseUp, Breaker, CountIsBacked, AgeIsOpened, Statuses
  <2>3. CASE ~up /\ failures + 1 >= Threshold
    BY <2>1, <2>3, <1>2, <1>t, <1>s DEF CloseUp, Breaker, CountIsBacked, AgeIsOpened, Statuses, AtMost
  <2>4. CASE ~up /\ ~(failures + 1 >= Threshold)
    BY <2>1, <2>4, <1>2, <1>t, <1>s DEF CloseUp, Breaker, CountIsBacked, AgeIsOpened, Statuses, AtMost
  <2> QED BY <2>2, <2>3, <2>4
<1>3. CASE enabled /\ status = "open"
  <2>1. IF TimeIsUp THEN Breaker("half-open", failures, age) ELSE AsItIs
    BY <1>3 DEF CheckAndUpdate
  <2>2. streak' \in 0..Threshold
    BY <1>s, <1>t DEF AtMost
  <2>3. CASE TimeIsUp
    BY <2>1, <2>2, <2>3, <1>3, <1>t DEF TimeIsUp, Breaker, CountIsBacked, AgeIsOpened, Statuses
  <2>4. CASE ~TimeIsUp
    BY <2>1, <2>2, <2>4, <1>3, <1>t DEF AsItIs, breakerVars, CountIsBacked, AgeIsOpened
  <2> QED BY <2>3, <2>4
<1>4. CASE enabled /\ status = "half-open"
  <2>1. TryUp(up)
    BY <1>4 DEF CheckAndUpdate
  <2>2. streak' \in 0..Threshold
    BY <1>s, <1>t DEF AtMost
  <2> QED BY <2>1, <2>2, <1>4, <1>t DEF TryUp, Breaker, CountIsBacked, AgeIsOpened, Statuses
<1> QED BY <1>1, <1>2, <1>3, <1>4, <1>t DEF Statuses

-----------------------------------------------------------------------------
\* An update of the breaker by check k leaves the rest of the types alone.
LEMMA UpdateKeeps ==
    ASSUME IInv, NEW k \in Checks, NEW up \in BOOLEAN, Update(k, up),
           seen' \in {"none", "up", "down"}, UNCHANGED <<healthy, adminVars, answer, unsynced>>
    PROVE  /\ IInv'
           /\ status = "closed" /\ status' = "open" => streak' = Threshold
           /\ status = "open" /\ status' # "open" => opened = Timeout
<1>1. /\ status' \in Statuses /\ failures' \in 0..(Threshold - 1)
      /\ age' \in 0..Timeout \cup {None} /\ opened' \in 0..Timeout
      /\ streak' \in 0..Threshold
      /\ status' # "closed" => age' # None /\ failures' = 0
      /\ CountIsBacked' /\ AgeIsOpened'
      /\ status = "closed" /\ status' = "open" => streak' = Threshold
      /\ status = "open" /\ status' # "open" => opened = Timeout
  BY UpdateStep DEF Update
<1>2. pending' \in BOOLEAN
  BY DEF Update, IInv, TypeOK, Asks
<1>3. check' \in [Checks -> [at : {"idle", "probing", "mailing"}, old : {"none", "up", "down"}, up : BOOLEAN]]
  BY DEF Update, IInv, TypeOK, Idle
<1> QED
  BY <1>1, <1>2, <1>3 DEF IInv, TypeOK, adminVars

\* A step of the system keeps the invariant, opens the circuit only on a streak, and
\* ends an opening only in time or for an administrator.
LEMMA NextStep ==
    ASSUME IInv, Next
    PROVE  /\ IInv'
           /\ status = "closed" /\ status' = "open" => streak' = Threshold
           /\ status = "open" /\ status' # "open" => opened = Timeout \/ edits' # edits \/ saving
<1> USE BreakerAssumption
<1>1. CASE Sync
  BY <1>1 DEF Sync, Rendered, IInv, TypeOK, CountIsBacked, AgeIsOpened, adminVars, breakerVars
<1>2. CASE SettingsSaved
  <2>1. /\ status' = "closed" /\ failures' = 0 /\ age' = None /\ opened' = opened
        /\ seen' = seen /\ check' = check /\ streak' = streak /\ edits' = edits
    BY <1>2 DEF SettingsSaved, Reset, Breaker
  <2>2. answer' \in {"proxy", "503"}
    BY <1>2 DEF SettingsSaved, Rendered
  <2>3. /\ healthy' \in BOOLEAN /\ monitored' \in BOOLEAN /\ enabled' \in BOOLEAN
        /\ pending' \in BOOLEAN /\ saving' \in BOOLEAN /\ unsynced' \in BOOLEAN /\ saving
    BY <1>2, Zenon DEF SettingsSaved, IInv, TypeOK
  <2>4. /\ failures' \in 0..(Threshold - 1) /\ failures' <= streak' /\ opened' \in 0..Timeout
        /\ streak' \in 0..Threshold /\ edits' \in 0..MaxEdits
    BY <2>1 DEF IInv, TypeOK
  <2>5. check' \in [Checks -> [at : {"idle", "probing", "mailing"}, old : {"none", "up", "down"}, up : BOOLEAN]]
    BY <2>1 DEF IInv, TypeOK
  <2>6. seen' \in {"none", "up", "down"}
    BY <2>1 DEF IInv, TypeOK
  <2>7. TypeOK'
    BY <2>1, <2>2, <2>3, <2>4, <2>5, <2>6 DEF TypeOK, Statuses
  <2> QED
    BY <2>1, <2>3, <2>4, <2>7 DEF IInv, CountIsBacked, AgeIsOpened
<1>3. CASE ResetByHand
  <2>1. /\ status' = "closed" /\ failures' = 0 /\ age' = None /\ opened' = opened
        /\ seen' = seen /\ check' = check /\ streak' = streak /\ answer' = answer
    BY <1>3 DEF ResetByHand, Reset, Breaker
  <2>2. edits' \in 0..MaxEdits /\ edits' # edits
    BY <1>3 DEF ResetByHand, Edit, IInv, TypeOK
  <2>3. /\ healthy' \in BOOLEAN /\ monitored' \in BOOLEAN /\ enabled' \in BOOLEAN
        /\ pending' \in BOOLEAN /\ saving' \in BOOLEAN /\ unsynced' \in BOOLEAN
    BY <1>3, Zenon DEF ResetByHand, IInv, TypeOK
  <2>4. /\ failures' \in 0..(Threshold - 1) /\ failures' <= streak' /\ opened' \in 0..Timeout
        /\ streak' \in 0..Threshold
    BY <2>1 DEF IInv, TypeOK
  <2>5. /\ check' \in [Checks -> [at : {"idle", "probing", "mailing"}, old : {"none", "up", "down"}, up : BOOLEAN]]
        /\ seen' \in {"none", "up", "down"} /\ answer' \in {"proxy", "503"}
    BY <2>1 DEF IInv, TypeOK
  <2>6. TypeOK'
    BY <2>1, <2>2, <2>3, <2>4, <2>5 DEF TypeOK, Statuses
  <2> QED
    BY <2>1, <2>2, <2>4, <2>6 DEF IInv, CountIsBacked, AgeIsOpened
<1>4. CASE Tick
  <2>1. age \in Nat /\ age < Timeout /\ opened \in 0..Timeout
    BY <1>4 DEF Tick, IInv, TypeOK
  <2>2. age' \in 0..Timeout /\ opened' \in 0..Timeout /\ (age = opened => age' = opened')
    BY <1>4, <2>1 DEF Tick, AtMost
  <2> QED
    BY <1>4, <2>2 DEF Tick, IInv, TypeOK, CountIsBacked, AgeIsOpened, adminVars
<1>5. CASE BackendChanges
  BY <1>5 DEF BackendChanges, IInv, TypeOK, CountIsBacked, AgeIsOpened, adminVars, breakerVars
<1>6. ASSUME NEW on \in BOOLEAN, SaveSettings(on) \/ SetMonitored(on)
      PROVE  IInv' /\ UNCHANGED breakerVars
  <2>1. /\ edits' \in 0..MaxEdits
        /\ UNCHANGED <<seen, check, answer, streak>> /\ UNCHANGED breakerVars
    BY <1>6 DEF SaveSettings, SetMonitored, Edit, IInv, TypeOK
  <2>2. /\ healthy' \in BOOLEAN /\ monitored' \in BOOLEAN /\ enabled' \in BOOLEAN
        /\ pending' \in BOOLEAN /\ saving' \in BOOLEAN /\ unsynced' \in BOOLEAN
    <3>1. CASE SaveSettings(on)
      BY <3>1, Zenon DEF SaveSettings, IInv, TypeOK
    <3>2. CASE SetMonitored(on)
      BY <3>2, Zenon DEF SetMonitored, IInv, TypeOK
    <3> QED BY <1>6, <3>1, <3>2
  <2>3. TypeOK'
    BY <2>1, <2>2 DEF IInv, TypeOK, breakerVars
  <2> QED
    BY <2>1, <2>3 DEF IInv, CountIsBacked, AgeIsOpened, breakerVars
<1>7. ASSUME NEW k \in Checks, BeginRun(k)
      PROVE  /\ IInv' /\ (status = "closed" => status' = "closed")
             /\ status = "open" /\ status' # "open" => opened = Timeout
  <2>1. check' \in [Checks -> [at : {"idle", "probing", "mailing"}, old : {"none", "up", "down"}, up : BOOLEAN]]
    <3>1. CASE check' = check
      BY <3>1 DEF IInv, TypeOK
    <3>2. CASE Begun(k)
      BY <3>2 DEF Begun, IInv, TypeOK, Idle
    <3> QED BY <1>7, <3>1, <3>2, Zenon DEF BeginRun
  <2>2. CASE enabled /\ status = "open" /\ TimeIsUp
    BY <1>7, <2>1, <2>2
    DEF BeginRun, CheckTimeouts, TimeIsUp, Breaker, IInv, TypeOK, CountIsBacked, AgeIsOpened, adminVars, Statuses
  <2>3. CASE ~(enabled /\ status = "open" /\ TimeIsUp)
    <3>1. UNCHANGED breakerVars
      BY <1>7, <2>3 DEF BeginRun, CheckTimeouts, AsItIs
    <3> QED
      BY <1>7, <2>1, <3>1 DEF BeginRun, IInv, TypeOK, CountIsBacked, AgeIsOpened, adminVars, breakerVars
  <2> QED BY <2>2, <2>3
<1>8. ASSUME NEW k \in Checks, BeginCheck(k)
      PROVE  IInv' /\ UNCHANGED breakerVars
  <2>1. check' \in [Checks -> [at : {"idle", "probing", "mailing"}, old : {"none", "up", "down"}, up : BOOLEAN]]
    BY <1>8 DEF BeginCheck, Begun, IInv, TypeOK, Idle
  <2> QED
    BY <1>8, <2>1 DEF BeginCheck, IInv, TypeOK, CountIsBacked, AgeIsOpened, breakerVars
<1>9. ASSUME NEW k \in Checks, Probed(k)
      PROVE  /\ IInv'
             /\ status = "closed" /\ status' = "open" => streak' = Threshold
             /\ status = "open" /\ status' # "open" => opened = Timeout
  <2>1. seen' \in {"none", "up", "down"} /\ UNCHANGED <<healthy, adminVars, answer, unsynced>>
    BY <1>9 DEF Probed
  <2>2. CASE Update(k, healthy)
    BY <2>1, <2>2, UpdateKeeps DEF IInv, TypeOK
  <2>3. CASE /\ check' = [check EXCEPT ![k].at = "mailing", ![k].up = healthy]
             /\ UNCHANGED <<breakerVars, pending, streak>>
    BY <2>1, <2>3 DEF IInv, TypeOK, CountIsBacked, AgeIsOpened, adminVars, breakerVars
  <2> QED BY <1>9, <2>2, <2>3 DEF Probed
<1>10. ASSUME NEW k \in Checks, Mailed(k)
       PROVE  /\ IInv'
              /\ status = "closed" /\ status' = "open" => streak' = Threshold
              /\ status = "open" /\ status' # "open" => opened = Timeout
  <2>1. check[k].up \in BOOLEAN /\ seen' \in {"none", "up", "down"}
    BY <1>10 DEF Mailed, IInv, TypeOK
  <2> QED BY <1>10, <2>1, UpdateKeeps DEF Mailed
<1>11. UNCHANGED breakerVars =>
         ~(status = "closed" /\ status' = "open") /\ ~(status = "open" /\ status' # "open")
  BY DEF breakerVars
<1>12. CASE Sync \/ BackendChanges \/ Tick
  BY <1>1, <1>4, <1>5, <1>12 DEF Sync, BackendChanges, Tick, breakerVars
<1>13. CASE SettingsSaved \/ ResetByHand
  <2>1. status' = "closed" /\ (saving \/ edits' # edits)
    BY <1>13 DEF SettingsSaved, ResetByHand, Edit, Reset, Breaker, IInv, TypeOK
  <2> QED BY <1>2, <1>3, <1>13, <2>1
<1> QED
  BY <1>6, <1>7, <1>8, <1>9, <1>10, <1>11, <1>12, <1>13 DEF Next

\* The invariant is inductive.
LEMMA Inductive == IInv /\ [Next]_vars => IInv'
<1>1. IInv /\ UNCHANGED vars => IInv'
  BY DEF vars, adminVars, breakerVars, IInv, TypeOK, CountIsBacked, AgeIsOpened
<1> QED BY <1>1, NextStep

-----------------------------------------------------------------------------
\* The types, the bound of the count, and that an open circuit knows its age.
THEOREM TypeCorrect == Spec => []TypeOK
<1>1. IInv => TypeOK
  BY DEF IInv
<1> QED BY <1>1, InitInv, Inductive, PTL DEF Spec

\* The circuit opens on Threshold failures in a row only (checkAndUpdate).
THEOREM OpensOnStreakHolds == Spec => OpensOnStreak
<1>1. IInv /\ [Next]_vars => [status = "closed" /\ status' = "open" => streak' = Threshold]_vars
  BY NextStep DEF IInv
<1> QED BY <1>1, InitInv, Inductive, PTL DEF Spec, OpensOnStreak

\* An opening lasts its time unless an administrator ends it (checkTimeouts,
\* checkAndUpdate), the openings that follow a failed trial too.
THEOREM OpenLastsHolds == Spec => OpenLasts
<1>1. IInv /\ [Next]_vars
        => [status = "open" /\ status' # "open" => opened = Timeout \/ edits' # edits \/ saving]_vars
  BY NextStep
<1> QED BY <1>1, InitInv, Inductive, PTL DEF Spec, OpenLasts
=============================================================================
