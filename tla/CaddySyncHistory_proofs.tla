----------------------- MODULE CaddySyncHistory_proofs -----------------------
(***************************************************************************)
(* What a rollback is for, proved for every set of routes, contents, peers *)
(* and requests, with breakers and all faults.                             *)
(***************************************************************************)
EXTENDS CaddySyncHistory, CaddySync_proofs

\* The same row, except for its circuit.
Alike(row, was) == AsBefore(row, was, TRUE)

\* What a request that is alone with a row can still do: roll the row back; before it
\* has written, the row and the copy it took are as before.
Undoable(q, r) ==
    /\ AsBefore(RollbackRow(db[r], undo[q].rows[r], undo[q].kind), before[r], r \notin relisted)
    /\ request[q] = "preparing" =>
           /\ undo[q].kind \in {"restore", "reset"}
           /\ Alike(db[r], before[r]) /\ Alike(undo[q].rows[r], before[r])

IdleHoldNothing == \A q \in Requests : request[q] = "idle" => undo[q] = NoUndo

LoneHolders ==
    \A q \in Requests, r \in Routes :
        undo[q].rows[r] # Absent /\ r \notin shared => Holders(r) = {q} /\ Undoable(q, r)

HInv == TypeOK /\ IdleHoldNothing /\ LoneHolders

-----------------------------------------------------------------------------
(* Lemmas about rows and rollbacks *)

\* A rollback brings alike rows to alike rows.
LEMMA RollbackAlike ==
    ASSUME NEW row \in MaybeRow, NEW new \in MaybeRow, NEW was \in MaybeRow, NEW kind,
           NEW b \in MaybeRow, NEW x \in BOOLEAN, Alike(new, row),
           AsBefore(RollbackRow(row, was, kind), b, x)
    PROVE  AsBefore(RollbackRow(new, was, kind), b, x)
<1>0. Absent \notin Row
  BY CaddySyncAssumption
<1>1. CASE was = Absent
  BY <1>1 DEF RollbackRow, Alike, AsBefore
<1>2. CASE was # Absent /\ kind \in {"reinsert", "remove"}
  BY <1>2 DEF RollbackRow
<1>3. CASE was # Absent /\ kind \notin {"reinsert", "remove"} /\ (kind = "create" \/ row = Absent)
  BY <1>3 DEF RollbackRow, Alike, AsBefore
<1>4. CASE was # Absent /\ kind \notin {"reinsert", "remove", "create"} /\ row # Absent
  <2>1. row \in Row /\ new \in Row /\ was \in Row /\ new # Absent
    BY <1>4 DEF MaybeRow, Alike, AsBefore
  <2>2. new.enabled = row.enabled /\ new.target = row.target /\ new.acl = row.acl
    BY <2>1 DEF Alike, AsBefore
  <2>3. CASE kind = "toggle"
    <3>1. /\ [row EXCEPT !.enabled = was.enabled] \in Row
          /\ [new EXCEPT !.enabled = was.enabled] \in Row
      BY <2>1 DEF Row
    <3>2. /\ RollbackRow(row, was, kind) = [row EXCEPT !.enabled = was.enabled]
          /\ RollbackRow(new, was, kind) = [new EXCEPT !.enabled = was.enabled]
      BY <1>4, <2>1, <2>3 DEF RollbackRow
    <3>3. /\ [new EXCEPT !.enabled = was.enabled].enabled = [row EXCEPT !.enabled = was.enabled].enabled
          /\ [new EXCEPT !.enabled = was.enabled].target = [row EXCEPT !.enabled = was.enabled].target
          /\ [new EXCEPT !.enabled = was.enabled].acl = [row EXCEPT !.enabled = was.enabled].acl
      BY <2>1, <2>2 DEF Row
    <3> QED
      BY <1>0, <3>1, <3>2, <3>3 DEF AsBefore
  <2>4. CASE kind # "toggle"
    BY <1>4, <2>1, <2>2, <2>4 DEF RollbackRow
  <2> QED
    BY <2>3, <2>4
<1> QED
  BY <1>1, <1>2, <1>3, <1>4

\* Likeness composes.
LEMMA AlikeThenBefore ==
    ASSUME NEW row, NEW mid, NEW b, NEW x \in BOOLEAN, Alike(row, mid), AsBefore(mid, b, x)
    PROVE  AsBefore(row, b, x)
BY DEF Alike, AsBefore

\* What a request does to a row it has not captured is at most to close the circuit.
LEMMA UncapturedAlike ==
    ASSUME TypeOK, NEW p \in Requests, RequestStep(p), NEW r \in Routes,
           undo[p].rows[r] = Absent, undo'[p].rows[r] = Absent
    PROVE  Alike(db'[r], db[r])
<1>0. /\ db \in [Routes -> MaybeRow] /\ undo \in [Requests -> Undo] /\ Absent \notin Row
      /\ Alike(db[r], db[r])
  BY CaddySyncAssumption DEF TypeOK, Alike, AsBefore
<1>1. ASSUME NEW d, NEW u, Mutate(p, d, u)
      PROVE  db' = d /\ undo'[p] = u
  BY <1>0, <1>1 DEF Mutate
<1>2. ASSUME NEW s \in Routes, NEW t \in Targets, NEW a \in Acls, Create(p, s, t, a)
      PROVE  db'[r] = db[r]
  <2> DEFINE row == [enabled |-> TRUE, target |-> t, acl |-> a, circuit |-> "closed"]
  <2> DEFINE d == [db EXCEPT ![s] = row]
             u == [kind |-> "create", rows |-> Only(d, {s})]
  <2>0. Mutate(p, d, u)
    BY <1>2 DEF Create
  <2>4. d = [db EXCEPT ![s] = row] /\ u.rows = Only(d, {s})
    OBVIOUS
  <2> HIDE DEF d, u
  <2>1. db' = [db EXCEPT ![s] = row] /\ undo'[p].rows = Only(db', {s})
    BY <1>1, <2>0, <2>4
  <2>2. row \in Row
    BY DEF Row, Circuit
  <2> HIDE DEF row
  <2>3. s # r
    BY <1>0, <2>1, <2>2 DEF Only
  <2> QED
    BY <1>0, <2>1, <2>3
<1>3. ASSUME NEW s \in Routes, NEW e \in BOOLEAN, NEW t \in Targets, NEW a \in Acls,
             WriteUpdate(p, s, e, t, a)
      PROVE  db'[r] = db[r]
  <2> DEFINE d == IF db[s] = Absent THEN db
                  ELSE [db EXCEPT ![s] = [db[s] EXCEPT !.enabled = e, !.target = t, !.acl = a]]
  <2>1. s # r /\ Mutate(p, d, undo[p])
    BY <1>3 DEF WriteUpdate
  <2>2. db' = d
    BY <1>1, <2>1
  <2> QED
    BY <1>0, <2>1, <2>2
<1>4. ASSUME NEW s \in Routes, Toggle(p, s)
      PROVE  db'[r] = db[r]
  <2> DEFINE d == [db EXCEPT ![s].enabled = ~@]
             u == [kind |-> "toggle", rows |-> Only(db, {s})]
  <2>1. Mutate(p, d, u) /\ db[s] # Absent
    BY <1>4 DEF Toggle
  <2>2. db' = d /\ undo'[p] = u
    BY <1>1, <2>1
  <2> QED
    BY <1>0, <2>1, <2>2 DEF Only
<1>5. ASSUME NEW S \in SUBSET Routes, NEW kind, Delete(p, S, kind)
      PROVE  db'[r] = db[r]
  BY <1>0, <1>1, <1>5 DEF Delete, Only
<1>6. ASSUME NEW s \in Routes, ResetBreaker(p, s)
      PROVE  Alike(db'[r], db[r])
  <2>1. db' = [db EXCEPT ![s] = [db[s] EXCEPT !.circuit = "closed"]] /\ db[s] \in Row
    BY <1>0, <1>1, <1>6 DEF ResetBreaker, MaybeRow
  <2> QED
    BY <1>0, <2>1 DEF Alike, AsBefore, Row, Circuit
<1>7. ASSUME NEW S \in SUBSET Routes, NEW e \in BOOLEAN, BatchEnable(p, S, e)
      PROVE  db'[r] = db[r]
  BY <1>0, <1>1, <1>7 DEF BatchEnable, Only
<1>8. ASSUME NEW S \in SUBSET Routes, NEW set \in BulkSet, BulkUpdate(p, S, set)
      PROVE  db'[r] = db[r]
  <2> DEFINE changed == {s \in S : BulkNext(db[s], set) # db[s]}
  <2>1. /\ db' = [s \in Routes |-> IF s \in changed THEN BulkNext(db[s], set) ELSE db[s]]
        /\ undo'[p].rows = Only(db, changed) /\ \A s \in changed : db[s] # Absent
    BY <1>1, <1>8 DEF BulkUpdate
  <2> HIDE DEF changed
  <2> QED
    BY <2>1 DEF Only
<1>9. ASSUME Reload(p) PROVE db' = db
  BY <1>1, <1>9 DEF Reload
<1>10. ASSUME RefuseUpdate(p) \/ \E s \in Routes, resets \in BOOLEAN : BeginUpdate(p, s, resets)
       PROVE  db' = db
  BY <1>10 DEF RefuseUpdate, BeginUpdate
<1> QED
  BY <1>0, <1>2, <1>3, <1>4, <1>5, <1>6, <1>7, <1>8, <1>9, <1>10
  DEF RequestStep, Remove, BatchDelete

\* A request that starts can bring the rows it captured back to what they are now.
LEMMA BeginsUndoable ==
    ASSUME TypeOK, NEW q \in Requests, RequestStep(q), request[q] \notin Waiting,
           NEW r \in Routes, undo'[q].rows[r] # Absent
    PROVE  /\ AsBefore(RollbackRow(db'[r], undo'[q].rows[r], undo'[q].kind), db[r], ~Relists(r))
           /\ request'[q] = "preparing" =>
                  /\ undo'[q].kind \in {"restore", "reset"}
                  /\ db' = db /\ undo'[q].rows[r] = db[r]
<1>0. /\ db \in [Routes -> MaybeRow] /\ undo \in [Requests -> Undo] /\ Absent \notin Row
      /\ request \in [Requests -> {"idle", "preparing", "syncing"}]
      /\ Relists(r) \in BOOLEAN
  BY CaddySyncAssumption DEF TypeOK, Relists
<1>1. ASSUME NEW d, NEW u, Mutate(q, d, u)
      PROVE  db' = d /\ undo'[q] = u /\ request'[q] = "syncing"
  BY <1>0, <1>1 DEF Mutate
<1> DEFINE Goal == AsBefore(RollbackRow(db'[r], undo'[q].rows[r], undo'[q].kind), db[r], ~Relists(r))
<1>2. ASSUME NEW s \in Routes, NEW t \in Targets, NEW a \in Acls, Create(q, s, t, a)
      PROVE  Goal /\ request'[q] = "syncing"
  <2> DEFINE d == [db EXCEPT ![s] = [enabled |-> TRUE, target |-> t, acl |-> a, circuit |-> "closed"]]
             u == [kind |-> "create", rows |-> Only(d, {s})]
  <2>0. db[s] = Absent /\ Mutate(q, d, u)
    BY <1>2 DEF Create
  <2>3. u.kind = "create" /\ u.rows = Only(d, {s})
    OBVIOUS
  <2> HIDE DEF d, u
  <2>1. /\ undo'[q].kind = "create" /\ undo'[q].rows = Only(db', {s})
        /\ request'[q] = "syncing"
    BY <1>1, <2>0, <2>3
  <2>2. r = s
    BY <2>1 DEF Only
  <2> QED
    BY <2>0, <2>1, <2>2 DEF RollbackRow, AsBefore
<1>3. ASSUME NEW s \in Routes, Toggle(q, s)
      PROVE  Goal /\ request'[q] = "syncing"
  <2>1. /\ db' = [db EXCEPT ![s] = [db[s] EXCEPT !.enabled = ~db[s].enabled]] /\ db[s] \in Row
        /\ undo'[q] = [kind |-> "toggle", rows |-> Only(db, {s})] /\ request'[q] = "syncing"
    BY <1>0, <1>1, <1>3 DEF Toggle, MaybeRow
  <2>2. r = s /\ undo'[q].rows[r] = db[r] /\ undo'[q].kind = "toggle"
    BY <2>1 DEF Only
  <2>3. [db'[r] EXCEPT !.enabled = db[r].enabled] = db[r] /\ db'[r] # Absent
    BY <1>0, <2>1, <2>2 DEF Row
  <2> QED
    BY <1>0, <2>1, <2>2, <2>3 DEF RollbackRow, AsBefore
<1>4. ASSUME NEW s \in Routes, NEW e \in BOOLEAN, NEW t \in Targets, NEW a \in Acls,
             WriteUpdate(q, s, e, t, a) \/ RefuseUpdate(q)
      PROVE  FALSE
  BY <1>4 DEF WriteUpdate, RefuseUpdate, Waiting
<1>5. ASSUME NEW s \in Routes, NEW resets \in BOOLEAN, BeginUpdate(q, s, resets)
      PROVE  /\ Goal
             /\ undo'[q].kind \in {"restore", "reset"} /\ db' = db /\ undo'[q].rows[r] = db[r]
  <2>1. /\ undo'[q].kind \in {"restore", "reset"} /\ db' = db
        /\ undo'[q].rows = Only(db, {s}) /\ db[s] # Absent
    BY <1>0, <1>5 DEF BeginUpdate
  <2>2. r = s /\ undo'[q].rows[r] = db[r] /\ db[r] \in Row
    BY <1>0, <2>1 DEF Only, MaybeRow
  <2>3. [db[r] EXCEPT !.acl = db[r].acl] = db[r]
    BY <2>2 DEF Row
  <2> QED
    BY <1>0, <2>1, <2>2, <2>3 DEF RollbackRow, AsBefore
<1>6. ASSUME NEW S \in SUBSET Routes, NEW kind \in {"remove", "reinsert"}, Delete(q, S, kind)
      PROVE  Goal /\ request'[q] = "syncing"
  <2>1. /\ undo'[q].kind = kind /\ undo'[q].rows = Only(db, S) /\ request'[q] = "syncing"
    BY <1>1, <1>6 DEF Delete
  <2>2. undo'[q].rows[r] = db[r] /\ db[r] \in Row
    BY <1>0, <2>1 DEF Only, MaybeRow
  <2>3. CASE kind = "reinsert"
    BY <1>0, <2>1, <2>2, <2>3 DEF RollbackRow, AsBefore
  <2>4. CASE kind = "remove"
    <3>1. Relists(r)
      BY <2>1, <2>4 DEF Relists
    <3>2. RollbackRow(db'[r], undo'[q].rows[r], undo'[q].kind) = [db[r] EXCEPT !.acl = {}]
      BY <1>0, <2>1, <2>2, <2>4 DEF RollbackRow
    <3>3. /\ [db[r] EXCEPT !.acl = {}] \in Row
          /\ [db[r] EXCEPT !.acl = {}].enabled = db[r].enabled
          /\ [db[r] EXCEPT !.acl = {}].target = db[r].target
      BY <2>2 DEF Row, Acls
    <3> QED
      BY <1>0, <2>1, <2>2, <3>1, <3>2, <3>3 DEF AsBefore
  <2> QED
    BY <2>3, <2>4
<1>7. ASSUME undo'[q].kind = "restore", undo'[q].rows[r] = db[r], db[r] \in Row,
             db'[r] \in Row, db'[r].acl = db[r].acl
      PROVE  Goal
  <2>1. RollbackRow(db'[r], undo'[q].rows[r], undo'[q].kind) = [db[r] EXCEPT !.acl = db[r].acl]
    BY <1>0, <1>7 DEF RollbackRow
  <2>2. [db[r] EXCEPT !.acl = db[r].acl] = db[r]
    BY <1>7 DEF Row
  <2> QED
    BY <2>1, <2>2 DEF AsBefore
<1>8. ASSUME NEW S \in SUBSET Routes, NEW e \in BOOLEAN, BatchEnable(q, S, e)
      PROVE  Goal /\ request'[q] = "syncing"
  <2>1. /\ db' = [s \in Routes |-> IF s \in S THEN [db[s] EXCEPT !.enabled = e] ELSE db[s]]
        /\ undo'[q] = [kind |-> "restore", rows |-> Only(db, S)] /\ request'[q] = "syncing"
    BY <1>1, <1>8 DEF BatchEnable
  <2>2. r \in S /\ undo'[q].rows[r] = db[r] /\ db[r] \in Row
    BY <1>0, <2>1 DEF Only, MaybeRow
  <2>3. db'[r] \in Row /\ db'[r].acl = db[r].acl
    BY <2>1, <2>2 DEF Row
  <2> QED
    BY <1>7, <2>1, <2>2, <2>3
<1>9. ASSUME NEW S \in SUBSET Routes, NEW set \in BulkSet, BulkUpdate(q, S, set)
      PROVE  Goal /\ request'[q] = "syncing"
  <2> DEFINE changed == {s \in S : BulkNext(db[s], set) # db[s]}
  <2>1. /\ db' = [s \in Routes |-> IF s \in changed THEN BulkNext(db[s], set) ELSE db[s]]
        /\ undo'[q] = [kind |-> "restore", rows |-> Only(db, changed)] /\ request'[q] = "syncing"
    BY <1>1, <1>9 DEF BulkUpdate
  <2> HIDE DEF changed
  <2>2. r \in changed /\ undo'[q].rows[r] = db[r] /\ db[r] \in Row
    BY <1>0, <2>1 DEF Only, MaybeRow
  <2>3. BulkNext(db[r], set) \in Row /\ BulkNext(db[r], set).acl = db[r].acl
    <3>1. /\ (IF set.enabled = "keep" THEN db[r].enabled ELSE set.enabled = "on") \in BOOLEAN
          /\ (IF set.target = "keep" THEN db[r].target ELSE set.target) \in Targets
      BY <2>2 DEF BulkSet, Row
    <3> QED
      BY <2>2, <3>1 DEF BulkNext, Row
  <2> QED
    BY <1>7, <2>1, <2>2, <2>3
<1>10. ASSUME NEW s \in Routes, ResetBreaker(q, s) \/ Reload(q)
       PROVE  FALSE
  BY <1>1, <1>10 DEF ResetBreaker, Reload, NoUndo
<1>11. ~Reload(q) /\ ~RefuseUpdate(q)
  <2>1. ASSUME Reload(q) PROVE FALSE
    BY <1>1, <2>1 DEF Reload, NoUndo
  <2> QED
    BY <2>1 DEF RefuseUpdate, Waiting
<1> QED
  BY <1>2, <1>3, <1>4, <1>5, <1>6, <1>8, <1>9, <1>10, <1>11
  DEF RequestStep, Remove, BatchDelete

\* The write of a prepared update can be taken back, except for the peers of the ACL.
LEMMA WritesUndoable ==
    ASSUME TypeOK, NEW q \in Requests, NEW s \in Routes, NEW e \in BOOLEAN, NEW t \in Targets,
           NEW a \in Acls, WriteUpdate(q, s, e, t, a), NEW r \in Routes, undo[q].rows[r] # Absent,
           Undoable(q, r), before'[r] = before[r],
           Relists(r) \/ r \in relisted => r \in relisted'
    PROVE  Undoable(q, r)'
<1>0. /\ db \in [Routes -> MaybeRow] /\ undo \in [Requests -> Undo] /\ Absent \notin Row
      /\ undo[q].rows[r] \in Row
  BY CaddySyncAssumption DEF TypeOK, Undo, MaybeRow
<1>1. /\ undo'[q] = undo[q] /\ request'[q] = "syncing" /\ request[q] = "preparing"
      /\ db' = IF db[s] = Absent THEN db
               ELSE [db EXCEPT ![s] = [db[s] EXCEPT !.enabled = e, !.target = t, !.acl = a]]
  BY <1>0 DEF WriteUpdate, Mutate, TypeOK
<1>2. /\ undo[q].kind \in {"restore", "reset"}
      /\ Alike(db[r], before[r]) /\ Alike(undo[q].rows[r], before[r])
      /\ AsBefore(RollbackRow(db[r], undo[q].rows[r], undo[q].kind), before[r], r \notin relisted)
  BY <1>1 DEF Undoable
<1>3. db[r] \in Row
  BY <1>0, <1>2 DEF Alike, AsBefore, MaybeRow
<1>4. CASE s # r
  <2>1. db'[r] = db[r]
    BY <1>0, <1>1, <1>4
  <2>2. RollbackRow(db[r], undo[q].rows[r], undo[q].kind) = [undo[q].rows[r] EXCEPT !.acl = db[r].acl]
    BY <1>0, <1>2, <1>3 DEF RollbackRow
  <2> QED
    BY <1>1, <1>2, <2>1 DEF Undoable, AsBefore
<1>5. CASE s = r
  <2>1. /\ db'[r] = [db[r] EXCEPT !.enabled = e, !.target = t, !.acl = a]
        /\ db'[r] \in Row /\ db'[r].acl = a
    BY <1>0, <1>1, <1>3, <1>5 DEF Row
  <2>2. RollbackRow(db'[r], undo[q].rows[r], undo[q].kind) = [undo[q].rows[r] EXCEPT !.acl = a]
    BY <1>0, <1>2, <2>1 DEF RollbackRow
  <2>3. /\ [undo[q].rows[r] EXCEPT !.acl = a] \in Row
        /\ [undo[q].rows[r] EXCEPT !.acl = a].enabled = undo[q].rows[r].enabled
        /\ [undo[q].rows[r] EXCEPT !.acl = a].target = undo[q].rows[r].target
        /\ [undo[q].rows[r] EXCEPT !.acl = a].acl = a
    BY <1>0 DEF Row
  <2>4. r \notin relisted' => a = db[r].acl
    BY <1>0, <1>3, <2>1 DEF Relists
  <2>5. before[r] # Absent /\ /\ undo[q].rows[r].enabled = before[r].enabled
                              /\ undo[q].rows[r].target = before[r].target
                              /\ db[r].acl = before[r].acl
    BY <1>0, <1>2, <1>3 DEF Alike, AsBefore
  <2> HIDE DEF AsBefore
  <2>6. AsBefore(RollbackRow(db'[r], undo[q].rows[r], undo[q].kind), before[r], r \notin relisted')
    BY <1>0, <2>2, <2>3, <2>4, <2>5 DEF AsBefore
  <2> QED
    BY <1>1, <2>6 DEF Undoable
<1> QED
  BY <1>4, <1>5

-----------------------------------------------------------------------------
(* The invariant *)

\* A row nobody else captured in this step, and that changed in its circuit at most,
\* stays one its lone holder can bring back.
LEMMA StaysUndoable ==
    ASSUME TypeOK, TypeOK', HNext, NEW q \in Requests, NEW r \in Routes,
           undo[q].rows[r] # Absent, r \notin shared, Undoable(q, r), before \in [Routes -> MaybeRow],
           undo'[q] = undo[q], request'[q] = request[q], r \notin shared', Alike(db'[r], db[r])
    PROVE  Undoable(q, r)'
<1>1. /\ undo[q].rows[r] \in MaybeRow /\ db[r] \in MaybeRow /\ db'[r] \in MaybeRow
      /\ before[r] \in MaybeRow
  BY DEF TypeOK, Undo
<1>2. Holders(r) # {} /\ Holders(r)' # {}
  BY DEF Holders
<1>3. before'[r] = before[r] /\ (r \in relisted => r \in relisted')
  BY <1>2 DEF HNext
<1>4. AsBefore(RollbackRow(db'[r], undo[q].rows[r], undo[q].kind), before[r], r \notin relisted)
  BY <1>1, RollbackAlike DEF Undoable
<1>5. request[q] = "preparing" => Alike(db'[r], before[r])
  BY AlikeThenBefore DEF Undoable, Alike
<1>6. AsBefore(RollbackRow(db'[r], undo[q].rows[r], undo[q].kind), before[r], r \notin relisted')
  BY <1>3, <1>4 DEF AsBefore
<1> QED
  BY <1>3, <1>5, <1>6 DEF Undoable

\* The one row holder after a step: a row that is not shared has no other.
LEMMA OneHolder ==
    ASSUME HNext, NEW q \in Requests, NEW r \in Routes, undo'[q].rows[r] # Absent, r \notin shared'
    PROVE  Holders(r)' = {q} /\ (Holders(r) # {} => before'[r] = before[r] /\ r \notin shared)
<1>1. q \in Holders(r)'
  BY DEF Holders
<1>2. r \notin shared /\ ~\E p, o \in Holders(r)' : p # o
  BY <1>1 DEF HNext
<1>3. Holders(r) # {} => before'[r] = before[r]
  BY <1>1 DEF HNext
<1> QED
  BY <1>1, <1>2, <1>3

\* A step that leaves a request and the rows as they are, up to circuits, leaves it as
\* able to undo as it was.
LEMMA ApartStep ==
    ASSUME HInv, TypeOK', HNext, before \in [Routes -> MaybeRow], NEW q \in Requests, NEW r \in Routes,
           undo'[q] = undo[q], request'[q] = request[q], undo'[q].rows[r] # Absent, r \notin shared',
           Alike(db'[r], db[r])
    PROVE  Undoable(q, r)'
<1>1. r \notin shared
  BY OneHolder DEF Holders
<1>2. Undoable(q, r)
  BY <1>1 DEF HInv, LoneHolders
<1> QED
  BY <1>1, <1>2, StaysUndoable DEF HInv

\* A step of a request.
LEMMA RequestKeepsUndoable ==
    ASSUME HInv, TypeOK', HNext, before \in [Routes -> MaybeRow], NEW p \in Requests, RequestStep(p),
           NEW q \in Requests, NEW r \in Routes, undo'[q].rows[r] # Absent, r \notin shared'
    PROVE  Undoable(q, r)'
<1>0. /\ undo \in [Requests -> Undo] /\ request \in [Requests -> {"idle", "preparing", "syncing"}]
      /\ db \in [Routes -> MaybeRow]
  BY DEF HInv, TypeOK
<1>1. ASSUME NEW o \in Requests, o # p PROVE undo'[o] = undo[o] /\ request'[o] = request[o]
  BY <1>0, <1>1 DEF RequestStep, Create, WriteUpdate, Toggle, Remove, BatchDelete, Delete, ResetBreaker,
                    BeginUpdate, BatchEnable, BulkUpdate, RefuseUpdate, Reload, Mutate
<1>2. Holders(r)' = {q} /\ (Holders(r) # {} => before'[r] = before[r] /\ r \notin shared)
  BY OneHolder
<1>3. CASE q # p
  <2>1. undo'[p].rows[r] = Absent
    BY <1>2, <1>3 DEF Holders
  <2>2. undo[q].rows[r] # Absent /\ q \in Holders(r)
    BY <1>1, <1>3 DEF Holders
  <2>3. undo[p].rows[r] = Absent
    <3>1. Holders(r) = {q}
      BY <1>2, <2>2 DEF HInv, LoneHolders
    <3> QED
      BY <1>3, <3>1 DEF Holders
  <2>4. Alike(db'[r], db[r])
    BY <2>1, <2>3, UncapturedAlike DEF HInv
  <2> QED
    BY <1>1, <1>3, <2>4, ApartStep
<1>4. CASE q = p /\ request[q] \notin Waiting
  <2>1. undo[q] = NoUndo
    BY <1>0, <1>4 DEF HInv, IdleHoldNothing, Waiting
  <2>2. Holders(r) = {}
    <3>1. ASSUME NEW o \in Requests, undo[o].rows[r] # Absent PROVE FALSE
      <4>1. o # q
        BY <2>1, <3>1 DEF NoUndo
      <4>2. undo'[o].rows[r] # Absent
        BY <1>1, <1>4, <3>1, <4>1
      <4> QED
        BY <1>2, <4>1, <4>2 DEF Holders
    <3> QED
      BY <3>1 DEF Holders
  <2>3. before'[r] = db[r] /\ (Relists(r) => r \in relisted')
    BY <1>2, <2>2 DEF HNext
  <2>4. /\ AsBefore(RollbackRow(db'[r], undo'[q].rows[r], undo'[q].kind), db[r], ~Relists(r))
        /\ request'[q] = "preparing" =>
               /\ undo'[q].kind \in {"restore", "reset"}
               /\ db' = db /\ undo'[q].rows[r] = db[r]
    BY <1>4, BeginsUndoable DEF HInv
  <2>5. AsBefore(RollbackRow(db'[r], undo'[q].rows[r], undo'[q].kind), before'[r], r \notin relisted')
    BY <2>3, <2>4 DEF AsBefore
  <2>6. request'[q] = "preparing" =>
            Alike(db'[r], before'[r]) /\ Alike(undo'[q].rows[r], before'[r])
    BY <2>3, <2>4 DEF Alike, AsBefore
  <2> QED
    BY <2>4, <2>5, <2>6 DEF Undoable
<1>5. CASE q = p /\ request[q] \in Waiting
  <2>1. ~Free(q)
    BY <1>5 DEF Free
  <2>2. ~RefuseUpdate(q)
    BY <1>0 DEF RefuseUpdate, NoUndo
  <2>3. PICK s \in Routes, e \in BOOLEAN, t \in Targets, a \in Acls : WriteUpdate(q, s, e, t, a)
    BY <1>5, <2>1, <2>2 DEF RequestStep, Create, Toggle, Remove, BatchDelete, Delete, ResetBreaker,
                            BeginUpdate, BatchEnable, BulkUpdate, Reload
  <2>4. undo'[q] = undo[q]
    BY <1>0, <2>3 DEF WriteUpdate, Mutate
  <2>5. q \in Holders(r)
    BY <2>4 DEF Holders
  <2>6. before'[r] = before[r] /\ r \notin shared /\ Undoable(q, r)
    BY <1>2, <2>4, <2>5 DEF HInv, LoneHolders
  <2>7. Relists(r) \/ r \in relisted => r \in relisted'
    BY <1>2, <2>5 DEF HNext
  <2> QED
    BY <2>3, <2>4, <2>6, <2>7, WritesUndoable DEF HInv
<1> QED
  BY <1>3, <1>4, <1>5

\* The end of a job touches the rows its caller holds, and no others.
LEMMA EndTouchesOwn ==
    ASSUME TypeOK, chain # <<>>, NEW result, EndJob(result), NEW q \in Requests, NEW r \in Routes,
           undo'[q].rows[r] # Absent, Holders(r) = {q}
    PROVE  undo'[q] = undo[q] /\ request'[q] = request[q] /\ db'[r] = db[r]
<1>0. /\ undo \in [Requests -> Undo] /\ request \in [Requests -> {"idle", "preparing", "syncing"}]
      /\ db \in [Routes -> MaybeRow]
  BY DEF TypeOK
<1>1. CASE Head(chain) \notin Requests
  BY <1>1 DEF EndJob, clientVars
<1>2. CASE Head(chain) \in Requests
  <2>1. undo' = [undo EXCEPT ![Head(chain)] = NoUndo] /\ request' = [request EXCEPT ![Head(chain)] = "idle"]
        /\ db' = IF result = "fail" THEN RolledBack(db, undo[Head(chain)])
                 ELSE AfterUpdate(db, undo[Head(chain)])
    BY <1>2 DEF EndJob
  <2>2. Head(chain) # q
    BY <1>0, <2>1 DEF NoUndo
  <2>3. undo[Head(chain)].rows[r] = Absent
    BY <1>2, <2>2 DEF Holders
  <2> QED
    BY <1>0, <2>1, <2>2, <2>3 DEF RolledBack, RollbackRow, AfterUpdate
<1> QED
  BY <1>1, <1>2

\* What each step does to a request that holds a row after it: nothing, a step of
\* a request, or the end of another one's job.
LEMMA StepKeepsUndoable ==
    ASSUME HInv, TypeOK', HNext, before \in [Routes -> MaybeRow],
           NEW q \in Requests, NEW r \in Routes, undo'[q].rows[r] # Absent, r \notin shared'
    PROVE  Undoable(q, r)'
<1>0. /\ db \in [Routes -> MaybeRow] /\ undo \in [Requests -> Undo] /\ Alike(db[r], db[r])
      /\ Absent \notin Row
  BY CaddySyncAssumption DEF HInv, TypeOK, Alike, AsBefore
<1>1. CASE UNCHANGED <<db, request, undo>>
  BY <1>0, <1>1, ApartStep
<1>2. CASE \E p \in Requests : RequestStep(p)
  BY <1>2, RequestKeepsUndoable
<1>3. ASSUME NEW result, EndJob(result), chain # <<>>
      PROVE  Undoable(q, r)'
  <2>1. undo[q].rows[r] # Absent
    BY <1>0, <1>3 DEF EndJob, NoUndo, clientVars
  <2>2. r \notin shared
    BY <2>1, OneHolder DEF Holders
  <2>3. Holders(r) = {q}
    BY <2>1, <2>2 DEF HInv, LoneHolders
  <2>4. undo'[q] = undo[q] /\ request'[q] = request[q] /\ db'[r] = db[r]
    BY <1>3, <2>3, EndTouchesOwn DEF HInv
  <2> QED
    BY <1>0, <2>4, ApartStep
<1>4. CASE Job
  <2>1. CASE StartJob \/ BuildConfig \/ LoadOk \/ VerifyOk \/ TlsFails
    BY <1>1, <2>1 DEF StartJob, BuildConfig, LoadOk, VerifyOk, TlsFails, NextAwait, clientVars
  <2>2. CASE RefuseJob \/ BuildThrows \/ LoadFails \/ RestorePrevious \/ TlsOk \/ Settled
    BY <1>3, <2>2 DEF RefuseJob, BuildThrows, LoadFails, RestorePrevious, TlsOk, Settled, HInv, TypeOK
  <2>3. CASE VerifyFails
    BY <1>1, <1>3, <2>3 DEF VerifyFails, NextAwait, clientVars, HInv, TypeOK
  <2> QED
    BY <1>4, <2>1, <2>2, <2>3 DEF Job
<1>5. ASSUME NEW s \in Routes, NEW c \in Circuit, BreakerChange(s, c)
      PROVE  Undoable(q, r)'
  <2>1. /\ db' = [db EXCEPT ![s] = [db[s] EXCEPT !.circuit = c]] /\ db[s] \in Row
        /\ undo' = undo /\ request' = request
    BY <1>0, <1>5 DEF BreakerChange, clientVars, MaybeRow
  <2>2. Alike(db'[r], db[r])
    BY <1>0, <2>1 DEF Alike, AsBefore, Row
  <2> QED
    BY <2>1, <2>2, ApartStep
<1>6. CASE CoalescedTick \/ ReconcilerRead \/ ReconcilerCompare \/ BootSync
  BY <1>1, <1>6 DEF CoalescedTick, ReconcilerRead, ReconcilerCompare, BootSync, clientVars
<1>7. CASE CaddyStops \/ CaddyStarts \/ ForeignLoad
  BY <1>1, <1>7 DEF CaddyStops, CaddyStarts, ForeignLoad, clientVars
<1>8. CASE NodeRestarts
  BY <1>8 DEF NodeRestarts, NoUndo
<1> QED
  BY <1>1, <1>2, <1>4, <1>5, <1>6, <1>7, <1>8 DEF HNext, Next

\* A request that has its answer holds no row.
LEMMA IdleStep ==
    ASSUME TypeOK, IdleHoldNothing, Next
    PROVE  IdleHoldNothing'
<1>0. /\ undo \in [Requests -> Undo] /\ request \in [Requests -> {"idle", "preparing", "syncing"}]
      /\ phase # "idle" => chain # <<>>
  BY DEF TypeOK
<1>1. CASE UNCHANGED <<request, undo>>
  BY <1>1 DEF IdleHoldNothing
<1>2. ASSUME NEW p \in Requests, RequestStep(p) PROVE IdleHoldNothing'
  BY <1>0, <1>2 DEF IdleHoldNothing, RequestStep, Create, WriteUpdate, Toggle, Remove, BatchDelete, Delete,
                    ResetBreaker, BeginUpdate, BatchEnable, BulkUpdate, RefuseUpdate, Reload, Mutate
<1>3. ASSUME NEW result, EndJob(result) PROVE IdleHoldNothing'
  BY <1>0, <1>3 DEF EndJob, IdleHoldNothing, clientVars
<1>4. CASE Job
  <2>1. CASE StartJob \/ BuildConfig \/ LoadOk \/ VerifyOk \/ TlsFails
    BY <1>1, <2>1 DEF StartJob, BuildConfig, LoadOk, VerifyOk, TlsFails, NextAwait, clientVars
  <2>2. CASE RefuseJob \/ BuildThrows \/ LoadFails \/ RestorePrevious \/ TlsOk \/ Settled
    BY <1>3, <2>2 DEF RefuseJob, BuildThrows, LoadFails, RestorePrevious, TlsOk, Settled
  <2>3. CASE VerifyFails
    BY <1>1, <1>3, <2>3 DEF VerifyFails, NextAwait, clientVars
  <2> QED
    BY <1>4, <2>1, <2>2, <2>3 DEF Job
<1>5. CASE \/ \E r \in Routes, c \in Circuit : BreakerChange(r, c)
           \/ CoalescedTick \/ ReconcilerRead \/ ReconcilerCompare \/ BootSync
           \/ CaddyStops \/ CaddyStarts \/ ForeignLoad
  BY <1>1, <1>5 DEF BreakerChange, CoalescedTick, ReconcilerRead, ReconcilerCompare, BootSync,
                    CaddyStops, CaddyStarts, ForeignLoad, clientVars
<1>6. CASE NodeRestarts
  BY <1>6 DEF NodeRestarts, IdleHoldNothing
<1> QED
  BY <1>2, <1>4, <1>5, <1>6 DEF Next

-----------------------------------------------------------------------------
(* The theorem *)

\* The rows of the past are rows.
PastType == before \in [Routes -> MaybeRow]

\* Every step keeps the invariant.
LEMMA HInvStep ==
    ASSUME HInv, PastType, [HNext]_hvars
    PROVE  HInv' /\ PastType'
<1>0. TypeOK'
  BY TypeOKStep DEF HInv, HNext, hvars
<1>1. CASE UNCHANGED hvars
  BY <1>0, <1>1 DEF hvars, vars, HInv, PastType, IdleHoldNothing, LoneHolders, Undoable, Holders
<1>2. CASE HNext
  <2>1. PastType'
    BY <1>0, <1>2 DEF PastType, HNext, HInv, TypeOK
  <2>2. IdleHoldNothing'
    BY <1>2, IdleStep DEF HInv, HNext
  <2>3. ASSUME NEW q \in Requests, NEW r \in Routes, undo'[q].rows[r] # Absent, r \notin shared'
        PROVE  Holders(r)' = {q} /\ Undoable(q, r)'
    BY <1>0, <1>2, <2>3, OneHolder, StepKeepsUndoable DEF PastType
  <2> QED
    BY <1>0, <2>1, <2>2, <2>3 DEF HInv, LoneHolders
<1> QED
  BY <1>1, <1>2

\* The step that ends a failing request brings its rows back.
LEMMA FailingStep ==
    ASSUME HInv, PastType, HNext, NEW q \in Requests, NEW r \in Routes,
           Holders(r) = {q}, r \notin shared, Holders(r)' = {}, Fails(q)
    PROVE  AsBefore(db'[r], before[r], r \notin relisted)
<1>0. /\ db \in [Routes -> MaybeRow] /\ undo \in [Requests -> Undo] /\ Absent \notin Row
      /\ request \in [Requests -> {"idle", "preparing", "syncing"}] /\ undo[q] \in Undo
      /\ Alike(db[r], db[r])
  BY CaddySyncAssumption DEF HInv, TypeOK, Alike, AsBefore
<1>1. /\ undo[q].rows[r] # Absent /\ undo'[q].rows[r] = Absent /\ Undoable(q, r)
  BY DEF Holders, HInv, LoneHolders
<1>2. request[q] = "preparing" \/ request[q] = "syncing"
  BY <1>0, <1>1 DEF HInv, IdleHoldNothing, NoUndo
<1>3. request[q] = "preparing" => Alike(db[r], before[r])
  BY <1>1 DEF Undoable
<1>4. ASSUME request[q] = "preparing", Alike(db'[r], db[r])
      PROVE  AsBefore(db'[r], before[r], r \notin relisted)
  BY <1>3, <1>4 DEF Alike, AsBefore
<1>5. ASSUME NEW p \in Requests, RequestStep(p)
      PROVE  AsBefore(db'[r], before[r], r \notin relisted)
  <2>1. p = q
    BY <1>0, <1>1, <1>5 DEF RequestStep, Create, WriteUpdate, Toggle, Remove, BatchDelete, Delete,
            ResetBreaker, BeginUpdate, BatchEnable, BulkUpdate, RefuseUpdate, Reload, Mutate
  <2>2. ~Free(q)
    BY <1>2 DEF Free, Waiting
  <2>3. ASSUME NEW s \in Routes, NEW e \in BOOLEAN, NEW t \in Targets, NEW a \in Acls,
               WriteUpdate(q, s, e, t, a)
        PROVE  FALSE
    BY <1>0, <1>1, <2>3 DEF WriteUpdate, Mutate
  <2>4. RefuseUpdate(q)
    BY <1>5, <2>1, <2>2, <2>3 DEF RequestStep, Create, Toggle, Remove, BatchDelete, Delete,
            ResetBreaker, BeginUpdate, BatchEnable, BulkUpdate, Reload
  <2> QED
    BY <1>0, <1>4, <2>4 DEF RefuseUpdate
<1>6. ASSUME NEW result, EndJob(result), chain # <<>>
      PROVE  AsBefore(db'[r], before[r], r \notin relisted)
  <2>1. Head(chain) = q /\ outcome' = result
        /\ db' = IF result = "fail" THEN RolledBack(db, undo[q]) ELSE AfterUpdate(db, undo[q])
    BY <1>0, <1>1, <1>6 DEF EndJob, clientVars
  <2>2. CASE result = "fail"
    BY <1>1, <2>1, <2>2 DEF RolledBack, Undoable
  <2>3. CASE result # "fail"
    <3>1. request[q] = "preparing"
      BY <2>1, <2>3 DEF Fails
    <3>2. db'[r] = db[r] \/ (db[r] \in Row /\ db'[r] = [db[r] EXCEPT !.circuit = "closed"])
      BY <1>0, <2>1, <2>3 DEF AfterUpdate, MaybeRow
    <3>3. Alike(db'[r], db[r])
      <4>1. ASSUME db[r] \in Row, db'[r] = [db[r] EXCEPT !.circuit = "closed"]
            PROVE  Alike(db'[r], db[r])
        BY <1>0, <4>1 DEF Alike, AsBefore, Row, Circuit
      <4> QED
        BY <1>0, <3>2, <4>1
    <3> QED
      BY <1>4, <3>1, <3>3
  <2> QED
    BY <2>2, <2>3
<1>7. undo' # undo
  BY <1>1
<1>8. CASE Job
  <2>1. ~(StartJob \/ BuildConfig \/ LoadOk \/ VerifyOk \/ TlsFails)
    BY <1>7 DEF StartJob, BuildConfig, LoadOk, VerifyOk, TlsFails, NextAwait, clientVars
  <2>2. CASE RefuseJob \/ BuildThrows \/ LoadFails \/ RestorePrevious \/ TlsOk \/ Settled
    BY <1>6, <2>2 DEF RefuseJob, BuildThrows, LoadFails, RestorePrevious, TlsOk, Settled, HInv, TypeOK
  <2>3. CASE VerifyFails
    BY <1>6, <1>7, <2>3 DEF VerifyFails, NextAwait, clientVars, HInv, TypeOK
  <2> QED
    BY <1>8, <2>1, <2>2, <2>3 DEF Job
<1>9. ~\/ \E s \in Routes, c \in Circuit : BreakerChange(s, c)
       \/ CoalescedTick \/ ReconcilerRead \/ ReconcilerCompare \/ BootSync
       \/ CaddyStops \/ CaddyStarts \/ ForeignLoad
  BY <1>7 DEF BreakerChange, CoalescedTick, ReconcilerRead, ReconcilerCompare, BootSync,
              CaddyStops, CaddyStarts, ForeignLoad, clientVars
<1>10. CASE NodeRestarts
  <2>1. outcome' = "none" /\ db' = db
    BY <1>10 DEF NodeRestarts
  <2> QED
    BY <1>0, <1>4, <2>1 DEF Fails
<1> QED
  BY <1>5, <1>8, <1>9, <1>10 DEF HNext, Next

\* A request whose sync failed leaves each row that it alone held as it found it, the
\* peers of the ACL apart where a request rewrote or dropped them: whatever other
\* requests do to other rows, wherever the job failed, whatever else fails or restarts.
THEOREM FailedRestoresItsRows == HSpec => FailedRestoresRow
<1>1. HInit => HInv /\ PastType
  <2> SUFFICES ASSUME HInit PROVE HInv /\ PastType
    OBVIOUS
  <2>1. TypeOK /\ \A q \in Requests : undo[q] = NoUndo
    BY InitTypeOK DEF HInit, Init
  <2> QED
    BY <2>1 DEF HInit, HInv, PastType, TypeOK, IdleHoldNothing, LoneHolders, NoUndo
<1>2. HInv /\ PastType /\ [HNext]_hvars => (HInv /\ PastType)'
  BY HInvStep
<1>3. HInv /\ PastType /\ [HNext]_hvars
        => [\A q \in Requests, r \in Routes :
                Holders(r) = {q} /\ r \notin shared /\ Holders(r)' = {} /\ Fails(q)
                    => AsBefore(db'[r], before[r], r \notin relisted)]_hvars
  BY FailingStep
<1> QED
  BY <1>1, <1>2, <1>3, PTL DEF HSpec, FailedRestoresRow
====
