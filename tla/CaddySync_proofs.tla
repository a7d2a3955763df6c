-------------------------- MODULE CaddySync_proofs --------------------------
(***************************************************************************)
(* Proofs about CaddySync for every set of routes, contents and requests,  *)
(* every combination of faults, with and without preloaded JSON.           *)
(***************************************************************************)
EXTENDS CaddySync, TLAPS

-----------------------------------------------------------------------------
(* Lemmas about the data *)

\* buildCaddyConfig is defined for every table.
LEMMA ConfigOfType ==
    ASSUME NEW d \in [Routes -> MaybeRow]
    PROVE  ConfigOf(d) \in Config
<1>1. ASSUME NEW r \in Routes PROVE Served(d[r]) \in Handler
  BY <1>1 DEF Served, MaybeRow, Row, Handler, Acls
<1> QED
  BY <1>1 DEF ConfigOf, Config

\* A rollback yields a table, whatever was captured and whatever changed since.
LEMMA RolledBackType ==
    ASSUME NEW d \in [Routes -> MaybeRow], NEW u \in Undo
    PROVE  RolledBack(d, u) \in [Routes -> MaybeRow]
<1>1. ASSUME NEW r \in Routes PROVE RollbackRow(d[r], u.rows[r], u.kind) \in MaybeRow
  <2>1. u.rows[r] \in MaybeRow /\ d[r] \in MaybeRow /\ Absent \in MaybeRow
    BY DEF Undo, MaybeRow
  <2>2. ASSUME u.rows[r] # Absent, d[r] # Absent
        PROVE  [d[r] EXCEPT !.enabled = u.rows[r].enabled] \in MaybeRow
    BY <2>1, <2>2 DEF MaybeRow, Row
  <2>3. ASSUME u.rows[r] # Absent, NEW a \in Acls PROVE [u.rows[r] EXCEPT !.acl = a] \in MaybeRow
    BY <2>1, <2>3 DEF MaybeRow, Row
  <2>4. {} \in Acls /\ (d[r] # Absent => d[r].acl \in Acls)
    BY <2>1 DEF MaybeRow, Row, Acls
  <2> QED
    BY <2>1, <2>2, <2>3, <2>4 DEF RollbackRow
<1> QED
  BY <1>1 DEF RolledBack

\* So does the reset of circuits after an update.
LEMMA AfterUpdateType ==
    ASSUME NEW d \in [Routes -> MaybeRow], NEW u
    PROVE  AfterUpdate(d, u) \in [Routes -> MaybeRow]
<1>1. ASSUME NEW r \in Routes, d[r] # Absent
      PROVE  [d[r] EXCEPT !.circuit = "closed"] \in MaybeRow
  BY <1>1 DEF MaybeRow, Row, Circuit
<1> QED
  BY <1>1 DEF AfterUpdate

\* The rows a request touched, as its closure captures them.
LEMMA OnlyType ==
    ASSUME NEW d \in [Routes -> MaybeRow], NEW S
    PROVE  Only(d, S) \in [Routes -> MaybeRow]
BY DEF Only, MaybeRow

\* A request that has changed nothing has nothing to undo.
LEMMA NoUndoType == NoUndo \in Undo
BY DEF NoUndo, Undo, UndoKind, MaybeRow

\* The chain after a caller joined it, and after its head ended.
LEMMA ChainType ==
    ASSUME TypeOK
    PROVE  /\ \A c \in Callers : Append(chain, c) \in Seq(Callers) /\ Append(chain, c) # <<>>
           /\ chain # <<>> => Tail(chain) \in Seq(Callers) /\ Head(chain) \in Callers
BY DEF TypeOK

-----------------------------------------------------------------------------
(* Type correctness *)

\* The types hold when the server begins.
LEMMA InitTypeOK == Init => TypeOK
<1> SUFFICES ASSUME Init PROVE TypeOK
  OBVIOUS
<1>1. db \in [Routes -> MaybeRow]
  BY DEF Init, MaybeRow, Row, Circuit
<1>2. ConfigOf(db) \in Config
  BY <1>1, ConfigOfType
<1>3. undo \in [Requests -> Undo]
  BY NoUndoType DEF Init
<1>4. live \in Live
  BY <1>2 DEF Init, Live
<1>5. chain \in Seq(Callers)
  BY DEF Init
<1>6. request \in [Requests -> {"idle", "preparing", "syncing"}]
  BY DEF Init
<1>7. up \in BOOLEAN /\ bootSync \in BOOLEAN /\ unpushed \in SUBSET {"coalesced", "reset"}
  BY CaddySyncAssumption DEF Init
<1> QED
  BY <1>1, <1>2, <1>3, <1>4, <1>5, <1>6, <1>7 DEF Init, TypeOK, Phases

\* One admin request: the new table and the captured rows are well typed.
LEMMA MutateTypeOK ==
    ASSUME TypeOK, NEW q \in Requests, NEW d \in [Routes -> MaybeRow], NEW u \in Undo,
           Mutate(q, d, u)
    PROVE  TypeOK'
<1>1. chain' \in Seq(Callers) /\ chain' # <<>>
  BY ChainType DEF Mutate, Enqueue, Callers
<1> QED
  BY <1>1 DEF TypeOK, Mutate, caddyVars, otherVars

\* The end of a job gives its caller the answer, or the undo.
LEMMA EndJobTypeOK ==
    ASSUME TypeOK, chain # <<>>, NEW result \in {"ok", "refused", "fail"}, EndJob(result)
    PROVE  /\ db' \in [Routes -> MaybeRow]
           /\ chain' \in Seq(Callers) /\ phase' = "idle" /\ previous' = Nothing
           /\ request' \in [Requests -> {"idle", "preparing", "syncing"}]
           /\ undo' \in [Requests -> Undo]
           /\ pendingSync' \in {"none", "tick", "chained"}
           /\ expected' \in SUBSET Routes
           /\ reconciling' \in {"idle", "comparing", "repairing"}
           /\ bootSync' \in BOOLEAN
           /\ outcome' = result
           /\ unpushed' \in SUBSET {"coalesced", "reset"}
<1> DEFINE caller == Head(chain)
<1>1. chain' \in Seq(Callers) /\ phase' = "idle" /\ previous' = Nothing /\ outcome' = result
      /\ expected' \in SUBSET Routes /\ bootSync' \in BOOLEAN
  BY ChainType DEF EndJob, TypeOK
<1>2. CASE caller \in Requests
  <2>1. RolledBack(db, undo[caller]) \in [Routes -> MaybeRow]
    BY <1>2, RolledBackType DEF TypeOK
  <2>2. db' \in [Routes -> MaybeRow]
    BY <1>2, <2>1, AfterUpdateType DEF EndJob, TypeOK
  <2>3. request' \in [Requests -> {"idle", "preparing", "syncing"}]
    BY <1>2 DEF EndJob, TypeOK
  <2>4. undo' \in [Requests -> Undo]
    BY <1>2, NoUndoType DEF EndJob, TypeOK
  <2>5. /\ pendingSync' = pendingSync /\ reconciling' = reconciling
        /\ unpushed' \in SUBSET {"coalesced", "reset"}
    BY <1>2 DEF EndJob, TypeOK
  <2> QED
    BY <1>1, <2>2, <2>3, <2>4, <2>5 DEF TypeOK
<1>3. CASE caller \notin Requests
  BY <1>1, <1>3 DEF EndJob, TypeOK, clientVars
<1> QED
  BY <1>2, <1>3

\* The steps of a request keep the types.
LEMMA RequestTypeOK ==
    ASSUME TypeOK, NEW q \in Requests, RequestStep(q)
    PROVE  TypeOK'
<1>1. ASSUME NEW r \in Routes, NEW t \in Targets, NEW a \in Acls, Create(q, r, t, a)
      PROVE  TypeOK'
  <2> DEFINE row == [enabled |-> TRUE, target |-> t, acl |-> a, circuit |-> "closed"]
             d   == [db EXCEPT ![r] = row]
             u   == [kind |-> "create", rows |-> Only(d, {r})]
  <2>1. d \in [Routes -> MaybeRow]
    BY DEF TypeOK, MaybeRow, Row, Circuit
  <2>2. u \in Undo
    BY <2>1, OnlyType DEF Undo, UndoKind
  <2>3. Mutate(q, d, u)
    BY <1>1 DEF Create
  <2> HIDE DEF d, u
  <2> QED
    BY <2>1, <2>2, <2>3, MutateTypeOK
<1>2. ASSUME NEW r \in Routes, NEW e \in BOOLEAN, NEW t \in Targets, NEW a \in Acls,
             WriteUpdate(q, r, e, t, a)
      PROVE  TypeOK'
  <2> DEFINE d == IF db[r] = Absent THEN db
                  ELSE [db EXCEPT ![r] = [@ EXCEPT !.enabled = e, !.target = t, !.acl = a]]
  <2>1. d \in [Routes -> MaybeRow]
    BY DEF TypeOK, MaybeRow, Row
  <2>2. undo[q] \in Undo
    BY DEF TypeOK
  <2>3. Mutate(q, d, undo[q])
    BY <1>2 DEF WriteUpdate
  <2> HIDE DEF d
  <2> QED
    BY <2>1, <2>2, <2>3, MutateTypeOK
<1>3. ASSUME NEW r \in Routes, Toggle(q, r)
      PROVE  TypeOK'
  <2> DEFINE d == [db EXCEPT ![r].enabled = ~@]
             u == [kind |-> "toggle", rows |-> Only(db, {r})]
  <2>1. d \in [Routes -> MaybeRow]
    BY <1>3 DEF TypeOK, MaybeRow, Row, Toggle
  <2>2. u \in Undo
    BY OnlyType DEF Undo, UndoKind, TypeOK
  <2>3. Mutate(q, d, u)
    BY <1>3 DEF Toggle
  <2> HIDE DEF d, u
  <2> QED
    BY <2>1, <2>2, <2>3, MutateTypeOK
<1>4. ASSUME NEW r \in Routes, NEW resets \in BOOLEAN, BeginUpdate(q, r, resets)
      PROVE  TypeOK'
  <2>1. [kind |-> IF resets THEN "reset" ELSE "restore", rows |-> Only(db, {r})] \in Undo
    BY OnlyType DEF Undo, UndoKind, TypeOK
  <2> QED
    BY <1>4, <2>1 DEF TypeOK, BeginUpdate, jobVars, caddyVars, otherVars
<1>5. ASSUME NEW S \in SUBSET Routes, NEW kind \in {"remove", "reinsert"}, Delete(q, S, kind)
      PROVE  TypeOK'
  <2> DEFINE d == [r \in Routes |-> IF r \in S THEN Absent ELSE db[r]]
             u == [kind |-> kind, rows |-> Only(db, S)]
  <2>1. d \in [Routes -> MaybeRow]
    BY DEF TypeOK, MaybeRow
  <2>2. u \in Undo
    BY OnlyType DEF Undo, UndoKind, TypeOK
  <2>3. Mutate(q, d, u)
    BY <1>5 DEF Delete
  <2> HIDE DEF d, u
  <2> QED
    BY <2>1, <2>2, <2>3, MutateTypeOK
<1>6. ASSUME NEW S \in SUBSET Routes, NEW e \in BOOLEAN, BatchEnable(q, S, e)
      PROVE  TypeOK'
  <2> DEFINE d == [r \in Routes |-> IF r \in S THEN [db[r] EXCEPT !.enabled = e] ELSE db[r]]
             u == [kind |-> "restore", rows |-> Only(db, S)]
  <2>1. d \in [Routes -> MaybeRow]
    BY <1>6 DEF TypeOK, MaybeRow, Row, BatchEnable
  <2>2. u \in Undo
    BY OnlyType DEF Undo, UndoKind, TypeOK
  <2>3. Mutate(q, d, u)
    BY <1>6 DEF BatchEnable
  <2> HIDE DEF d, u
  <2> QED
    BY <2>1, <2>2, <2>3, MutateTypeOK
<1>7. ASSUME NEW S \in SUBSET Routes, NEW set \in BulkSet, BulkUpdate(q, S, set)
      PROVE  TypeOK'
  <2> DEFINE changed == {r \in S : BulkNext(db[r], set) # db[r]}
             d == [r \in Routes |-> IF r \in changed THEN BulkNext(db[r], set) ELSE db[r]]
             u == [kind |-> "restore", rows |-> Only(db, changed)]
  <2>1. ASSUME NEW r \in S PROVE BulkNext(db[r], set) \in Row
    <3>1. db[r] \in Row
      BY <1>7 DEF TypeOK, MaybeRow, BulkUpdate
    <3> QED
      BY <3>1 DEF BulkNext, BulkSet, Row
  <2>2. d \in [Routes -> MaybeRow]
    BY <2>1 DEF TypeOK, MaybeRow
  <2>3. u \in Undo
    BY OnlyType DEF Undo, UndoKind, TypeOK
  <2>4. Mutate(q, d, u)
    BY <1>7 DEF BulkUpdate
  <2> HIDE DEF d, u
  <2> QED
    BY <2>2, <2>3, <2>4, MutateTypeOK
<1>8. ASSUME Reload(q) PROVE TypeOK'
  <2>1. Mutate(q, db, NoUndo) /\ db \in [Routes -> MaybeRow]
    BY <1>8 DEF Reload, TypeOK
  <2> QED
    BY <2>1, NoUndoType, MutateTypeOK
<1>9. ASSUME NEW r \in Routes, ResetBreaker(q, r)
      PROVE  TypeOK'
  <2> DEFINE d == [db EXCEPT ![r].circuit = "closed"]
             u == [NoUndo EXCEPT !.kind = "logged"]
  <2>1. d \in [Routes -> MaybeRow]
    BY <1>9 DEF TypeOK, MaybeRow, Row, Circuit, ResetBreaker
  <2>2. u \in Undo
    BY DEF NoUndo, Undo, UndoKind, MaybeRow
  <2>3. Mutate(q, d, u)
    BY <1>9 DEF ResetBreaker
  <2> HIDE DEF d, u
  <2> QED
    BY <2>1, <2>2, <2>3, MutateTypeOK
<1>10. CASE RefuseUpdate(q)
  <2>1. /\ request' \in [Requests -> {"idle", "preparing", "syncing"}]
        /\ undo' \in [Requests -> Undo]
    BY <1>10, NoUndoType DEF RefuseUpdate, TypeOK
  <2> QED
    BY <1>10, <2>1 DEF RefuseUpdate, TypeOK, jobVars, caddyVars, otherVars
<1> QED
  BY <1>1, <1>2, <1>3, <1>4, <1>5, <1>6, <1>7, <1>8, <1>9, <1>10
  DEF RequestStep, Remove, BatchDelete

\* The steps of a sync keep the types.
LEMMA JobTypeOK ==
    ASSUME TypeOK, Job
    PROVE  TypeOK'
<1>0. ConfigOf(db) \in Config
  BY ConfigOfType DEF TypeOK
<1>1. ASSUME NEW result \in {"ok", "refused", "fail"}, EndJob(result), phase # "idle",
             built' = built, runtime' = runtime, up' \in BOOLEAN, live' \in Live
      PROVE  TypeOK'
  BY <1>1, EndJobTypeOK DEF TypeOK, Phases
<1>2. ASSUME NEW p \in Phases, NEW prev \in Live \cup {Nothing}, NextAwait(p, prev), chain # <<>>,
             built' \in Config, runtime' \in Config, up' \in BOOLEAN, live' \in Live,
             unpushed' \in SUBSET {"coalesced", "reset"}, p = "restore" => prev # Nothing
      PROVE  TypeOK'
  BY <1>2 DEF NextAwait, TypeOK, clientVars, otherVars
<1>3. /\ previous \in Live \cup {Nothing} /\ built \in Live /\ built \in Config
      /\ live \in Live /\ runtime \in Config /\ up \in BOOLEAN /\ unpushed \in SUBSET {"coalesced", "reset"}
      /\ phase # "idle" => chain # <<>>
  BY DEF TypeOK, Live
<1>4. CASE StartJob
  BY <1>2, <1>3, <1>4 DEF StartJob, Phases, caddyVars
<1>5. CASE RefuseJob
  BY <1>1, <1>3, <1>5 DEF RefuseJob, caddyVars
<1>6. CASE BuildConfig
  <2>1. (IF up THEN live ELSE Nothing) \in Live \cup {Nothing}
    BY <1>3
  <2> QED
    BY <1>0, <1>2, <1>3, <1>6, <2>1 DEF BuildConfig, Phases, caddyVars
<1>7. CASE BuildThrows
  BY <1>1, <1>3, <1>7 DEF BuildThrows, caddyVars
<1>8. CASE LoadOk
  BY <1>2, <1>3, <1>8 DEF LoadOk, Phases
<1>9. CASE LoadFails
  BY <1>1, <1>3, <1>9 DEF LoadFails
<1>10. CASE VerifyOk
  BY <1>2, <1>3, <1>10 DEF VerifyOk, Phases, caddyVars
<1>11. CASE VerifyFails
  BY <1>1, <1>2, <1>3, <1>11 DEF VerifyFails, Phases, caddyVars
<1>12. CASE RestorePrevious
  <2>1. previous \in Live
    BY <1>12 DEF RestorePrevious, TypeOK
  <2> QED
    BY <1>1, <1>3, <1>12, <2>1 DEF RestorePrevious
<1>13. CASE TlsOk
  BY <1>1, <1>3, <1>13 DEF TlsOk, caddyVars
<1>14. CASE TlsFails
  BY <1>2, <1>3, <1>14 DEF TlsFails, Phases
<1>15. CASE Settled
  BY <1>1, <1>3, <1>15 DEF Settled, caddyVars
<1> QED
  BY <1>4, <1>5, <1>6, <1>7, <1>8, <1>9, <1>10, <1>11, <1>12, <1>13, <1>14, <1>15 DEF Job

\* Type correctness is preserved by every step ...
LEMMA TypeOKStep == TypeOK /\ [Next]_vars => TypeOK'
<1> SUFFICES ASSUME TypeOK, [Next]_vars PROVE TypeOK'
  OBVIOUS
<1>1. ASSUME NEW q \in Requests, RequestStep(q) PROVE TypeOK'
  BY <1>1, RequestTypeOK
<1>2. ASSUME NEW r \in Routes, NEW c \in Circuit, BreakerChange(r, c) PROVE TypeOK'
  <2>1. db' \in [Routes -> MaybeRow]
    BY <1>2 DEF BreakerChange, TypeOK, MaybeRow, Row
  <2>2. pendingSync' \in {"none", "tick", "chained"} /\ unpushed' \in SUBSET {"coalesced", "reset"}
    BY <1>2 DEF BreakerChange, RequestCaddySync, TypeOK
  <2> QED
    BY <1>2, <2>1, <2>2 DEF BreakerChange, TypeOK, jobVars, caddyVars, clientVars, otherVars
<1>3. CASE CoalescedTick
  <2>1. chain' \in Seq(Callers) /\ chain' # <<>>
    BY <1>3, ChainType DEF CoalescedTick, Enqueue, Callers
  <2> QED
    BY <1>3, <2>1 DEF CoalescedTick, TypeOK, caddyVars, clientVars, otherVars
<1>4. CASE Job
  BY <1>4, JobTypeOK
<1>5. CASE ReconcilerRead
  BY <1>5 DEF ReconcilerRead, ExpectedIds, TypeOK, jobVars, caddyVars, clientVars
<1>6. CASE ReconcilerCompare
  <2>1. chain' \in Seq(Callers) /\ (chain # <<>> => chain' # <<>>)
    BY <1>6, ChainType DEF ReconcilerCompare, Enqueue, Callers, TypeOK
  <2> QED
    BY <1>6, <2>1 DEF ReconcilerCompare, TypeOK, caddyVars, clientVars
<1>7. CASE CaddyStops
  BY <1>7 DEF CaddyStops, TypeOK, jobVars, clientVars, otherVars
<1>8. CASE CaddyStarts
  BY <1>8 DEF CaddyStarts, BootFile, Live, TypeOK, jobVars, clientVars, otherVars
<1>9. CASE ForeignLoad
  BY <1>9 DEF ForeignLoad, Live, TypeOK, jobVars, clientVars, otherVars
<1>10. CASE NodeRestarts
  BY <1>10, NoUndoType, CaddySyncAssumption DEF NodeRestarts, Live, Phases, TypeOK
<1>11. CASE BootSync
  <2>1. chain' \in Seq(Callers) /\ (chain # <<>> => chain' # <<>>)
    BY <1>11, ChainType DEF BootSync, Enqueue, Callers, TypeOK
  <2> QED
    BY <1>11, <2>1 DEF BootSync, TypeOK, caddyVars, clientVars
<1>12. CASE UNCHANGED vars
  BY <1>12 DEF vars, TypeOK
<1> QED
  BY <1>1, <1>2, <1>3, <1>4, <1>5, <1>6, <1>7, <1>8, <1>9, <1>10, <1>11, <1>12 DEF Next

\* ... so in every state of every behaviour the variables have their types.
THEOREM TypeCorrect == Spec => []TypeOK
<1>1. Init => TypeOK
  BY InitTypeOK
<1>2. TypeOK /\ [Next]_vars => TypeOK'
  BY TypeOKStep
<1> QED
  BY <1>1, <1>2, PTL DEF Spec

-----------------------------------------------------------------------------
(* The database and the configuration built last *)

\* A caller that joins the chain leaves a job behind that will still build.
LEMMA EnqueueLeavesBuild ==
    ASSUME TypeOK, NEW c \in Callers, Enqueue(c), phase' = phase
    PROVE  BuildPending'
<1>1. CASE chain = <<>>
  BY <1>1 DEF TypeOK, Enqueue, BuildPending
<1>2. CASE chain # <<>>
  <2>1. Len(chain) \in Nat /\ Len(chain) >= 1 /\ Len(chain') = Len(chain) + 1
    BY <1>2 DEF TypeOK, Enqueue
  <2> QED
    BY <2>1 DEF BuildPending
<1> QED
  BY <1>1, <1>2

\* A configuration agrees with the table it was built from.
LEMMA BuiltAgrees == \A d : Agrees(ConfigOf(d), d)
BY DEF Agrees, ConfigOf

\* One outstanding coalesced sync at most, across every step.
LEMMA CoalescedOnceStep ==
    ASSUME TypeOK, CoalescedOnce, [Next]_vars
    PROVE  CoalescedOnce'
<1>1. ASSUME NEW c \in Callers, Enqueue(c), c # "coalesced", pendingSync' = pendingSync
      PROVE  CoalescedOnce'
  <2>1. /\ Len(chain) \in Nat /\ DOMAIN chain = 1 .. Len(chain)
        /\ DOMAIN chain' = 1 .. (Len(chain) + 1)
        /\ \A i \in 1 .. Len(chain) : chain'[i] = chain[i]
        /\ chain'[Len(chain) + 1] = c
    BY <1>1 DEF TypeOK, Enqueue
  <2> QED
    BY <1>1, <2>1 DEF CoalescedOnce
<1>2. ASSUME chain' = chain, pendingSync' = pendingSync \/ pendingSync # "chained"
      PROVE  CoalescedOnce'
  BY <1>2 DEF CoalescedOnce
<1>3. ASSUME NEW result, EndJob(result), chain # <<>>
      PROVE  CoalescedOnce'
  <2>1. /\ Len(chain) \in Nat /\ Len(chain) >= 1 /\ DOMAIN chain = 1 .. Len(chain)
        /\ DOMAIN chain' = 1 .. (Len(chain) - 1)
        /\ \A i \in 1 .. (Len(chain) - 1) : chain'[i] = chain[i + 1]
        /\ Head(chain) = chain[1]
    BY <1>3 DEF TypeOK, EndJob
  <2>2. CASE Head(chain) = "coalesced"
    <3>1. \A i \in DOMAIN chain' : chain'[i] # "coalesced"
      BY <2>1, <2>2 DEF CoalescedOnce
    <3> QED
      BY <3>1 DEF CoalescedOnce
  <2>3. CASE Head(chain) # "coalesced"
    <3>1. pendingSync' = pendingSync
      BY <1>3, <2>3 DEF EndJob
    <3>2. ASSUME NEW i \in DOMAIN chain', NEW j \in DOMAIN chain', chain'[i] = "coalesced"
          PROVE  pendingSync' = "chained" /\ (chain'[j] = "coalesced" => i = j)
      <4>1. /\ i \in Nat /\ j \in Nat
            /\ i + 1 \in DOMAIN chain /\ j + 1 \in DOMAIN chain
            /\ chain'[i] = chain[i + 1] /\ chain'[j] = chain[j + 1]
        BY <2>1
      <4>2. pendingSync = "chained" /\ (chain[j + 1] = "coalesced" => i + 1 = j + 1)
        BY <3>2, <4>1 DEF CoalescedOnce
      <4> QED
        BY <3>1, <4>1, <4>2
    <3> QED
      BY <3>2 DEF CoalescedOnce
  <2> QED
    BY <2>2, <2>3
<1>4. CASE \E q \in Requests : RequestStep(q)
  <2> SUFFICES ASSUME NEW q \in Requests, RequestStep(q) PROVE CoalescedOnce'
    BY <1>4
  <2>1. ASSUME NEW d, NEW u, Mutate(q, d, u)
        PROVE  CoalescedOnce'
    BY <1>1, <2>1, CaddySyncAssumption DEF Mutate, Callers
  <2>2. CASE \E r \in Routes, resets \in BOOLEAN : BeginUpdate(q, r, resets)
    BY <1>2, <2>2 DEF BeginUpdate, jobVars
  <2>3. CASE \E r \in Routes, t \in Targets, a \in Acls :
                \/ Create(q, r, t, a)
                \/ \E e \in BOOLEAN : WriteUpdate(q, r, e, t, a)
    BY <2>1, <2>3 DEF Create, WriteUpdate
  <2>4. CASE \E r \in Routes : Toggle(q, r) \/ Remove(q, r) \/ ResetBreaker(q, r)
    BY <2>1, <2>4 DEF Toggle, Remove, Delete, ResetBreaker
  <2>5. CASE \E S \in SUBSET Routes : \/ BatchDelete(q, S)
                                    \/ \E e \in BOOLEAN : BatchEnable(q, S, e)
                                    \/ \E set \in BulkSet : BulkUpdate(q, S, set)
    BY <2>1, <2>5 DEF BatchDelete, Delete, BatchEnable, BulkUpdate
  <2>6. CASE Reload(q)
    BY <2>1, <2>6 DEF Reload
  <2>7. CASE RefuseUpdate(q)
    BY <1>2, <2>7 DEF RefuseUpdate, jobVars
  <2> QED
    BY <2>2, <2>3, <2>4, <2>5, <2>6, <2>7 DEF RequestStep
<1>5. CASE \E r \in Routes, c \in Circuit : BreakerChange(r, c)
  BY <1>2, <1>5 DEF BreakerChange, RequestCaddySync, jobVars
<1>6. CASE CoalescedTick
  <2>1. \A i \in DOMAIN chain : chain[i] # "coalesced"
    BY <1>6 DEF CoalescedTick, CoalescedOnce
  <2>2. /\ Len(chain) \in Nat /\ DOMAIN chain = 1 .. Len(chain)
        /\ DOMAIN chain' = 1 .. (Len(chain) + 1)
        /\ \A i \in 1 .. Len(chain) : chain'[i] = chain[i]
    BY <1>6 DEF TypeOK, CoalescedTick, Enqueue, Callers
  <2>3. pendingSync' = "chained"
    BY <1>6 DEF CoalescedTick
  <2> QED
    BY <2>1, <2>2, <2>3 DEF CoalescedOnce
<1>7. CASE StartJob \/ BuildConfig \/ LoadOk \/ VerifyOk \/ TlsFails
  BY <1>2, <1>7 DEF StartJob, BuildConfig, LoadOk, VerifyOk, TlsFails, NextAwait
<1>8. CASE RefuseJob \/ BuildThrows \/ LoadFails \/ RestorePrevious \/ TlsOk \/ Settled
  BY <1>3, <1>8 DEF RefuseJob, BuildThrows, LoadFails, RestorePrevious, TlsOk, Settled, TypeOK
<1>9. CASE VerifyFails
  BY <1>2, <1>3, <1>9 DEF VerifyFails, NextAwait, TypeOK
<1>10. CASE ReconcilerCompare
  BY <1>1, <1>2, <1>10 DEF ReconcilerCompare, Callers
<1>11. CASE BootSync
  BY <1>1, <1>2, <1>11 DEF BootSync, Callers
<1>12. CASE NodeRestarts
  BY <1>12 DEF NodeRestarts, CoalescedOnce
<1>13. CASE ReconcilerRead \/ CaddyStops \/ CaddyStarts \/ ForeignLoad \/ UNCHANGED vars
  BY <1>2, <1>13 DEF ReconcilerRead, CaddyStops, CaddyStarts, ForeignLoad, jobVars, vars
<1> QED
  BY <1>4, <1>5, <1>6, <1>7, <1>8, <1>9, <1>10, <1>11, <1>12, <1>13 DEF Next, Job

\* A job that succeeds hands over: either a later job has still to build, or what
\* it built is current.
LEMMA OkKeepsBuiltCurrent ==
    ASSUME TypeOK, CoalescedOnce, BuiltIsCurrent, EndJob("ok"), phase \notin {"idle", "read"},
           built' = built
    PROVE  BuiltIsCurrent'
<1>1. phase' = "idle" /\ chain' = Tail(chain) /\ outcome' = "ok"
  BY DEF EndJob
<1>2. chain # <<>> /\ Len(chain) \in Nat /\ Len(chain) >= 1 /\ Len(chain') = Len(chain) - 1
  BY <1>1 DEF TypeOK
<1>3. CASE Len(chain) >= 2
  BY <1>1, <1>2, <1>3 DEF BuiltIsCurrent, BuildPending
<1>4. CASE Len(chain) = 1 /\ pendingSync = "tick"
  <2>1. pendingSync' = "tick"
    <3>1. CASE Head(chain) \in Requests
      BY <1>4, <3>1 DEF EndJob
    <3>2. CASE Head(chain) \notin Requests
      <4>1. 1 \in DOMAIN chain /\ Head(chain) = chain[1]
        BY <1>2 DEF TypeOK
      <4>2. Head(chain) # "coalesced"
        BY <1>4, <4>1 DEF CoalescedOnce
      <4> QED
        BY <1>4, <3>2, <4>2 DEF EndJob
    <3> QED
      BY <3>1, <3>2
  <2> QED
    BY <2>1 DEF BuiltIsCurrent, BuildPending
<1>5. CASE Len(chain) = 1 /\ pendingSync # "tick"
  <2>1. (db' = db /\ unpushed' = unpushed) \/ unpushed' # {}
    <3>1. CASE Head(chain) \in Requests
      BY <1>2, <1>5, <3>1 DEF EndJob
    <3>2. CASE Head(chain) \notin Requests
      BY <3>2 DEF EndJob
    <3> QED
      BY <3>1, <3>2
  <2>2. CASE unpushed' # {}
    BY <2>2 DEF BuiltIsCurrent
  <2>3. CASE db' = db /\ unpushed' = unpushed
    BY <1>1, <1>5, <2>3 DEF BuiltIsCurrent, BuildPending, Agrees
  <2> QED
    BY <2>1, <2>2, <2>3
<1> QED
  BY <1>2, <1>3, <1>4, <1>5

\* A job that ends without success makes no promise.
LEMMA FailureMakesNoPromise ==
    ASSUME NEW result \in {"refused", "fail"}, EndJob(result)
    PROVE  BuiltIsCurrent' /\ LiveIsBuilt'
BY DEF EndJob, BuiltIsCurrent, LiveIsBuilt

\* What is built stays current while its job runs, or another job is behind it.
LEMMA BuiltIsCurrentStep ==
    ASSUME TypeOK, CoalescedOnce, BuiltIsCurrent, [Next]_vars
    PROVE  BuiltIsCurrent'
<1>1. ASSUME NEW c \in Callers, Enqueue(c), phase' = phase
      PROVE  BuiltIsCurrent'
  BY <1>1, EnqueueLeavesBuild DEF BuiltIsCurrent
<1>2. ASSUME db' = db, chain' = chain, phase' = phase, built' = built, outcome' = outcome,
             pendingSync' = pendingSync, unpushed' = unpushed
      PROVE  BuiltIsCurrent'
  BY <1>2 DEF BuiltIsCurrent, BuildPending, Agrees
<1>3. ASSUME NEW q \in Requests, RequestStep(q)
      PROVE  BuiltIsCurrent'
  <2>1. ASSUME NEW d, NEW u, Mutate(q, d, u)
        PROVE  BuiltIsCurrent'
    BY <1>1, <2>1 DEF Mutate, Callers
  <2>2. ASSUME NEW r \in Routes, NEW resets \in BOOLEAN, BeginUpdate(q, r, resets)
        PROVE  BuiltIsCurrent'
    BY <1>2, <2>2 DEF BeginUpdate, jobVars
  <2>3. CASE \E r \in Routes, t \in Targets, a \in Acls :
                \/ Create(q, r, t, a)
                \/ \E e \in BOOLEAN : WriteUpdate(q, r, e, t, a)
    BY <2>1, <2>3 DEF Create, WriteUpdate
  <2>4. CASE \E r \in Routes : Toggle(q, r) \/ Remove(q, r) \/ ResetBreaker(q, r)
    BY <2>1, <2>4 DEF Toggle, Remove, Delete, ResetBreaker
  <2>5. CASE \E S \in SUBSET Routes : \/ BatchDelete(q, S)
                                    \/ \E e \in BOOLEAN : BatchEnable(q, S, e)
                                    \/ \E set \in BulkSet : BulkUpdate(q, S, set)
    BY <2>1, <2>5 DEF BatchDelete, Delete, BatchEnable, BulkUpdate
  <2>6. CASE Reload(q)
    BY <2>1, <2>6 DEF Reload
  <2>7. CASE RefuseUpdate(q)
    BY <1>2, <2>7 DEF RefuseUpdate, jobVars
  <2> QED
    BY <1>3, <2>2, <2>3, <2>4, <2>5, <2>6, <2>7 DEF RequestStep
<1>4. ASSUME NEW r \in Routes, NEW c \in Circuit, BreakerChange(r, c)
      PROVE  BuiltIsCurrent'
  <2>1. phase' = phase /\ chain' = chain /\ outcome' = outcome /\ built' = built
    BY <1>4 DEF BreakerChange, jobVars
  <2>2. CASE c = "half-open"
    <3>1. pendingSync' = pendingSync /\ unpushed' = unpushed
      BY <1>4, <2>2 DEF BreakerChange
    <3>2. Agrees(built, db) => Agrees(built, db')
      <4> SUFFICES ASSUME Agrees(built, db), NEW s \in Routes
                   PROVE  \/ built[s] = Served(db'[s])
                          \/ built[s].target = "503" /\ db'[s] # Absent /\ db'[s].enabled
                                              /\ db'[s].circuit = "half-open"
        BY DEF Agrees
      <4>1. CASE s # r
        <5>1. db'[s] = db[s]
          BY <1>4, <4>1 DEF BreakerChange, TypeOK
        <5> QED
          BY <5>1 DEF Agrees
      <4>2. CASE s = r
        <5>1. /\ db[r] \in Row /\ db[r].circuit = "open"
              /\ db'[r] = [db[r] EXCEPT !.circuit = "half-open"]
          BY <1>4, <2>2 DEF BreakerChange, TypeOK, MaybeRow
        <5>2. db'[r] \in Row /\ db'[r].enabled = db[r].enabled /\ db'[r].circuit = "half-open"
          BY <5>1 DEF Row, Circuit
        <5>3. db[r] # Absent /\ db'[r] # Absent
          BY <5>1, <5>2, CaddySyncAssumption
        <5>4. built[r] = Served(db[r])
          BY <5>1, <5>3 DEF Agrees
        <5> QED
          BY <4>2, <5>1, <5>2, <5>3, <5>4 DEF Served
      <4> QED
        BY <4>1, <4>2
    <3> QED
      BY <2>1, <3>1, <3>2 DEF BuiltIsCurrent, BuildPending, Agrees
  <2>3. CASE c # "half-open"
    <3>1. RequestCaddySync
      BY <1>4, <2>3 DEF BreakerChange
    <3>2. CASE pendingSync = "none"
      BY <3>1, <3>2 DEF RequestCaddySync, BuiltIsCurrent, BuildPending
    <3>3. CASE pendingSync # "none" /\ BuildPending
      BY <2>1, <3>1, <3>3 DEF RequestCaddySync, BuiltIsCurrent, BuildPending
    <3>4. CASE pendingSync # "none" /\ ~BuildPending
      BY <3>1, <3>4 DEF RequestCaddySync, BuiltIsCurrent
    <3> QED
      BY <3>2, <3>3, <3>4
  <2> QED
    BY <2>2, <2>3
<1>5. CASE CoalescedTick
  BY <1>1, <1>5 DEF CoalescedTick, Callers
<1>6. CASE StartJob
  <2>1. Len(chain) \in Nat /\ Len(chain) >= 1
    BY <1>6 DEF StartJob, TypeOK
  <2>2. Len(chain') = Len(chain) /\ phase' = "read"
    BY <1>6 DEF StartJob, NextAwait
  <2>3. BuildPending'
    <3>1. Len(chain') >= 2 \/ Len(chain') = 1
      BY <2>1, <2>2
    <3> QED
      BY <2>2, <3>1 DEF BuildPending
  <2> QED
    BY <2>3 DEF BuiltIsCurrent
<1>7. CASE BuildConfig
  <2>1. built' = ConfigOf(db) /\ db' = db
    BY <1>7 DEF BuildConfig, NextAwait
  <2> QED
    BY <2>1, BuiltAgrees DEF BuiltIsCurrent, Agrees
<1>8. CASE RefuseJob \/ BuildThrows \/ LoadFails \/ RestorePrevious
  BY <1>8, FailureMakesNoPromise DEF RefuseJob, BuildThrows, LoadFails, RestorePrevious
<1>9. ASSUME NEW p, NEW prev, NextAwait(p, prev), phase \notin {"idle", "read"},
             p \notin {"idle", "read"}, built' = built, unpushed' = unpushed
      PROVE  BuiltIsCurrent'
  BY <1>9 DEF NextAwait, BuiltIsCurrent, BuildPending, Agrees
<1>10. CASE LoadOk \/ VerifyOk \/ TlsFails
  BY <1>9, <1>10 DEF LoadOk, VerifyOk, TlsFails
<1>11. CASE VerifyFails
  BY <1>9, <1>11, FailureMakesNoPromise DEF VerifyFails
<1>12. CASE TlsOk \/ Settled
  BY <1>12, OkKeepsBuiltCurrent DEF TlsOk, Settled
<1>13. CASE ReconcilerRead \/ CaddyStops \/ CaddyStarts \/ ForeignLoad
  BY <1>2, <1>13 DEF ReconcilerRead, CaddyStops, CaddyStarts, ForeignLoad, jobVars
<1>14. CASE ReconcilerCompare
  BY <1>1, <1>2, <1>14 DEF ReconcilerCompare, Callers
<1>15. CASE NodeRestarts
  BY <1>15 DEF NodeRestarts, BuiltIsCurrent
<1>16. CASE BootSync
  BY <1>1, <1>2, <1>16 DEF BootSync, Callers
<1>17. CASE UNCHANGED vars
  BY <1>2, <1>17 DEF vars
<1> QED
  BY <1>3, <1>4, <1>5, <1>6, <1>7, <1>8, <1>10, <1>11, <1>12, <1>13, <1>14, <1>15, <1>16, <1>17
  DEF Next, Job

-----------------------------------------------------------------------------
(* What Caddy serves *)

\* Caddy goes on running what was built last.
LEMMA LiveIsBuiltStep ==
    ASSUME TypeOK, LiveIsBuilt, [Next]_vars
    PROVE  LiveIsBuilt'
<1>1. ASSUME phase' = phase, outcome' = outcome, built' = built, runtime' = runtime,
             UNCHANGED caddyVars
      PROVE  LiveIsBuilt'
  BY <1>1 DEF LiveIsBuilt, BootFile, caddyVars
<1>2. CASE \E q \in Requests : RequestStep(q)
  <2> SUFFICES ASSUME NEW q \in Requests, RequestStep(q) PROVE LiveIsBuilt'
    BY <1>2
  <2>1. ASSUME NEW d, NEW u, Mutate(q, d, u)
        PROVE  LiveIsBuilt'
    BY <1>1, <2>1 DEF Mutate
  <2>2. CASE \E r \in Routes, resets \in BOOLEAN : BeginUpdate(q, r, resets)
    BY <1>1, <2>2 DEF BeginUpdate, jobVars
  <2>3. CASE \E r \in Routes, t \in Targets, a \in Acls :
                \/ Create(q, r, t, a)
                \/ \E e \in BOOLEAN : WriteUpdate(q, r, e, t, a)
    BY <2>1, <2>3 DEF Create, WriteUpdate
  <2>4. CASE \E r \in Routes : Toggle(q, r) \/ Remove(q, r) \/ ResetBreaker(q, r)
    BY <2>1, <2>4 DEF Toggle, Remove, Delete, ResetBreaker
  <2>5. CASE \E S \in SUBSET Routes : \/ BatchDelete(q, S)
                                    \/ \E e \in BOOLEAN : BatchEnable(q, S, e)
                                    \/ \E set \in BulkSet : BulkUpdate(q, S, set)
    BY <2>1, <2>5 DEF BatchDelete, Delete, BatchEnable, BulkUpdate
  <2>6. CASE Reload(q)
    BY <2>1, <2>6 DEF Reload
  <2>7. CASE RefuseUpdate(q)
    BY <1>1, <2>7 DEF RefuseUpdate, jobVars
  <2> QED
    BY <2>2, <2>3, <2>4, <2>5, <2>6, <2>7 DEF RequestStep
<1>3. CASE \/ \E r \in Routes, c \in Circuit : BreakerChange(r, c)
           \/ CoalescedTick \/ ReconcilerRead \/ ReconcilerCompare \/ BootSync
           \/ UNCHANGED vars
  BY <1>1, <1>3 DEF BreakerChange, CoalescedTick, ReconcilerRead, ReconcilerCompare, BootSync,
                    jobVars, caddyVars, vars
<1>4. CASE StartJob
  BY <1>4 DEF StartJob, NextAwait, LiveIsBuilt, BootFile, caddyVars
<1>5. CASE BuildConfig
  BY <1>5 DEF BuildConfig, NextAwait, LiveIsBuilt
<1>6. CASE RefuseJob \/ BuildThrows \/ LoadFails \/ RestorePrevious
  BY <1>6, FailureMakesNoPromise DEF RefuseJob, BuildThrows, LoadFails, RestorePrevious
<1>7. CASE LoadOk
  BY <1>7 DEF LoadOk, NextAwait, LiveIsBuilt
<1>8. CASE VerifyOk
  BY <1>8 DEF VerifyOk, NextAwait, LiveIsBuilt, BootFile, caddyVars
<1>9. CASE VerifyFails
  <2>1. CASE previous = Nothing
    BY <1>9, <2>1, FailureMakesNoPromise DEF VerifyFails
  <2>2. CASE previous # Nothing
    BY <1>9, <2>2 DEF VerifyFails, NextAwait, LiveIsBuilt
  <2> QED
    BY <2>1, <2>2
<1>10. CASE TlsOk \/ Settled
  BY <1>10 DEF TlsOk, Settled, EndJob, LiveIsBuilt, BootFile, caddyVars
<1>11. CASE TlsFails \/ CaddyStops
  BY <1>11 DEF TlsFails, CaddyStops, LiveIsBuilt
<1>12. CASE CaddyStarts
  BY <1>12 DEF CaddyStarts, LiveIsBuilt, BootFile, jobVars
<1>13. CASE ForeignLoad
  BY <1>13 DEF ForeignLoad, LiveIsBuilt
<1>14. CASE NodeRestarts
  BY <1>14 DEF NodeRestarts, LiveIsBuilt
<1> QED
  BY <1>2, <1>3, <1>4, <1>5, <1>6, <1>7, <1>8, <1>9, <1>10, <1>11, <1>12, <1>13, <1>14
  DEF Next, Job

-----------------------------------------------------------------------------
(* The theorems *)

\* The inductive invariant holds: types, one coalesced sync, the two facts about
\* what was built and what is served.
THEOREM Inductive == Spec => []IInv
<1>1. Init => IInv
  <2> SUFFICES ASSUME Init PROVE IInv
    OBVIOUS
  <2>1. TypeOK
    BY InitTypeOK
  <2>2. CoalescedOnce
    BY DEF Init, CoalescedOnce
  <2>3. BuiltIsCurrent
    BY BuiltAgrees DEF Init, BuiltIsCurrent
  <2>4. LiveIsBuilt
    BY DEF Init, LiveIsBuilt
  <2> QED
    BY <2>1, <2>2, <2>3, <2>4 DEF IInv
<1>2. IInv /\ [Next]_vars => IInv'
  BY TypeOKStep, CoalescedOnceStep, BuiltIsCurrentStep, LiveIsBuiltStep DEF IInv
<1> QED
  BY <1>1, <1>2, PTL DEF Spec

\* Whatever overlapped or failed, a chain that has run empty with success and no circuit
\* change left to nobody leave Caddy serving the database, unless it was taken over or
\* restarted with another file since.
THEOREM SyncedWhenAtRest == Spec => []SyncedAtRest
<1>1. IInv => SyncedAtRest
  <2> SUFFICES ASSUME IInv, AtRest, outcome = "ok", unpushed = {}, up,
                      live \notin {Foreign, BootFile} \ {built}
               PROVE  live \in Config /\ Agrees(live, db)
    BY DEF SyncedAtRest
  <2>1. phase = "idle" /\ built \in Config
    BY DEF IInv, TypeOK, AtRest
  <2>2. Agrees(built, db)
    BY <2>1 DEF IInv, BuiltIsCurrent, BuildPending, AtRest
  <2>3. live = built
    BY <2>1 DEF IInv, LiveIsBuilt
  <2> QED
    BY <2>1, <2>2, <2>3
<1> QED
  BY <1>1, Inductive, PTL
-----------------------------------------------------------------------------
(* The ownership guard *)

\* The configuration a job keeps for a restore is never that of another instance:
\* the guard looks at the one that ran and keeps it in the same turn.
PreviousOwn == previous # Foreign

\* Admin requests neither load a configuration nor touch the one that is kept.
LEMMA RequestLeavesCaddy ==
    ASSUME NEW q \in Requests, RequestStep(q)
    PROVE  live' = live /\ up' = up /\ previous' = previous
<1>1. ASSUME NEW d, NEW u, Mutate(q, d, u)
      PROVE  live' = live /\ up' = up /\ previous' = previous
  BY <1>1 DEF Mutate, caddyVars
<1>2. ASSUME NEW r \in Routes, NEW e \in BOOLEAN, NEW t \in Targets, NEW a \in Acls,
             Create(q, r, t, a) \/ WriteUpdate(q, r, e, t, a)
      PROVE  live' = live /\ up' = up /\ previous' = previous
  BY <1>1, <1>2 DEF Create, WriteUpdate
<1>3. ASSUME NEW r \in Routes, Toggle(q, r) \/ Remove(q, r) \/ ResetBreaker(q, r)
      PROVE  live' = live /\ up' = up /\ previous' = previous
  BY <1>1, <1>3 DEF Toggle, Remove, Delete, ResetBreaker
<1>4. ASSUME NEW r \in Routes, NEW resets \in BOOLEAN, BeginUpdate(q, r, resets)
      PROVE  live' = live /\ up' = up /\ previous' = previous
  BY <1>4 DEF BeginUpdate, jobVars, caddyVars
<1>5. ASSUME NEW S \in SUBSET Routes, BatchDelete(q, S)
      PROVE  live' = live /\ up' = up /\ previous' = previous
  BY <1>1, <1>5 DEF BatchDelete, Delete
<1>6. ASSUME NEW S \in SUBSET Routes, NEW e \in BOOLEAN, BatchEnable(q, S, e)
      PROVE  live' = live /\ up' = up /\ previous' = previous
  BY <1>1, <1>6 DEF BatchEnable
<1>7. ASSUME NEW S \in SUBSET Routes, NEW set \in BulkSet, BulkUpdate(q, S, set)
      PROVE  live' = live /\ up' = up /\ previous' = previous
  BY <1>1, <1>7 DEF BulkUpdate
<1>8. CASE Reload(q)
  BY <1>1, <1>8 DEF Reload
<1>9. CASE RefuseUpdate(q)
  BY <1>9 DEF RefuseUpdate, jobVars, caddyVars
<1> QED
  BY <1>2, <1>3, <1>4, <1>5, <1>6, <1>7, <1>8, <1>9 DEF RequestStep

\* A job loads a configuration in two of its phases only, and what it keeps is
\* what ran when the guard let it pass.
LEMMA JobGuarded ==
    ASSUME PreviousOwn, Job
    PROVE  /\ PreviousOwn'
           /\ up /\ live' # live => phase \in {"load", "restore"}
<1>0. Nothing # Foreign
  BY CaddySyncAssumption
<1>1. ASSUME NEW result, EndJob(result) PROVE PreviousOwn'
  BY <1>0, <1>1 DEF EndJob, PreviousOwn
<1>2. CASE StartJob
  BY <1>2 DEF StartJob, NextAwait, PreviousOwn, caddyVars
<1>3. CASE RefuseJob
  BY <1>1, <1>3 DEF RefuseJob, caddyVars
<1>4. CASE BuildConfig
  BY <1>0, <1>4 DEF BuildConfig, MayProceed, NextAwait, PreviousOwn, caddyVars
<1>5. CASE BuildThrows
  BY <1>1, <1>5 DEF BuildThrows, caddyVars
<1>6. CASE LoadOk
  BY <1>6 DEF LoadOk, NextAwait, PreviousOwn
<1>7. CASE LoadFails
  BY <1>1, <1>7 DEF LoadFails
<1>8. CASE VerifyOk
  BY <1>0, <1>8 DEF VerifyOk, NextAwait, PreviousOwn, caddyVars
<1>9. CASE VerifyFails
  BY <1>1, <1>9 DEF VerifyFails, NextAwait, PreviousOwn, caddyVars
<1>10. CASE RestorePrevious
  BY <1>1, <1>10 DEF RestorePrevious
<1>11. CASE TlsOk
  BY <1>1, <1>11 DEF TlsOk, caddyVars
<1>12. CASE TlsFails
  BY <1>0, <1>12 DEF TlsFails, NextAwait, PreviousOwn
<1>13. CASE Settled
  BY <1>1, <1>13 DEF Settled, caddyVars
<1> QED
  BY <1>2, <1>3, <1>4, <1>5, <1>6, <1>7, <1>8, <1>9, <1>10, <1>11, <1>12, <1>13 DEF Job

\* Every step keeps the guard's promise; Caddy's own restart goes through ~up, and a
\* process that dies during a load may still have loaded.
LEMMA GuardStep ==
    ASSUME PreviousOwn, [Next]_vars
    PROVE  /\ PreviousOwn'
           /\ up /\ live = Foreign /\ live' # Foreign /\ up' => phase \in {"load", "restore"}
<1>0. Nothing # Foreign
  BY CaddySyncAssumption
<1>1. CASE \E q \in Requests : RequestStep(q)
  BY <1>1, RequestLeavesCaddy DEF PreviousOwn
<1>2. CASE \E r \in Routes, c \in Circuit : BreakerChange(r, c)
  BY <1>2 DEF BreakerChange, PreviousOwn, jobVars, caddyVars
<1>3. CASE Job
  BY <1>3, JobGuarded
<1>4. CASE CoalescedTick \/ ReconcilerRead \/ ReconcilerCompare \/ BootSync
  BY <1>4 DEF CoalescedTick, ReconcilerRead, ReconcilerCompare, BootSync, PreviousOwn,
              jobVars, caddyVars
<1>5. CASE CaddyStops \/ CaddyStarts \/ ForeignLoad
  BY <1>5 DEF CaddyStops, CaddyStarts, ForeignLoad, PreviousOwn, jobVars
<1>6. CASE NodeRestarts
  BY <1>0, <1>6 DEF NodeRestarts, PreviousOwn
<1>7. CASE UNCHANGED vars
  BY <1>7 DEF vars, PreviousOwn
<1> QED
  BY <1>1, <1>2, <1>3, <1>4, <1>5, <1>6, <1>7 DEF Next

\* A configuration of another instance is replaced only by a job whose guard saw
\* none, or by a restart of Caddy: for every number of requests and all faults.
THEOREM GuardsOwner == Spec => OwnerGuard
<1>1. Init => PreviousOwn
  BY CaddySyncAssumption DEF Init, PreviousOwn
<1>2. PreviousOwn /\ [Next]_vars => PreviousOwn'
  BY GuardStep
<1>3. PreviousOwn /\ [Next]_vars
        => [up /\ live = Foreign /\ live' # Foreign /\ up'
              => previous # Foreign /\ phase \in {"load", "restore"}]_vars
  BY GuardStep DEF PreviousOwn
<1> QED
  BY <1>1, <1>2, <1>3, PTL DEF Spec, OwnerGuard
=============================================================================
