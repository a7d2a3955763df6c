------------------------- MODULE WireGuardPeers_proofs -------------------------
(* Revoked peers leave the interface and so do those whose access window closed, and a     *)
(* peer whose window opens gets on it, for any number of peers, requests and cycles.       *)
EXTENDS WireGuardPeers, SequenceTheorems, TLAPS

\* What a running syncconf was given is what the file holds: it alone writes the file.
SentIsFile == sent # None => sent = file

\* It may hold peers that were switched off since.  The request that did it waits for a
\* job behind this one, and has its keys still to remove.
SentCovered ==
    sent # None =>
        \A p \in sent \ On :
            p \in flawed \/ \E q \in Requests : request[q] = "rewriting" /\ p \in todo[q]

IInv == TypeOK /\ SentIsFile /\ SentCovered /\ RevokedIsOff

-----------------------------------------------------------------------------
(* What the steps have in common *)

\* A queued caller.
LEMMA Queued ==
    ASSUME TypeOK, NEW c \in Callers, chain' = Append(chain, c)
    PROVE  chain' \in Seq(Callers) /\ chain' # <<>>
<1>1. chain \in Seq(Callers)
  BY DEF TypeOK
<1> QED BY <1>1

\* Nobody wants a peer that is not on.
LEMMA WantedOn == Wanted \subseteq On /\ Denied \subseteq On /\ On \subseteq Peers
  BY DEF Wanted, Denied, On

\* A peer that is not on stays blamed as long as the file or the interface has it.
LEMMA Blamed ==
    ASSUME NEW S \in SUBSET Peers, flawed \in SUBSET Peers, Blame(S)
    PROVE  /\ flawed' \in SUBSET Peers
           /\ \A p \in (flawed \cup S) \ On' : p \in iface' \/ p \in file' => p \in flawed'
<1>1. flawed' = {p \in flawed \cup S : ~((p \in iface') = (p \in Wanted') /\ (p \in file') = (p \in Wanted'))}
  BY DEF Blame, Right
<1>2. Wanted' \subseteq On'
  BY DEF Wanted
<1> QED BY <1>1, <1>2

\* The invariant's three parts besides the types, from what a step does to peers that
\* are off after it.
LEMMA Covered ==
    ASSUME NEW S \in SUBSET Peers, flawed \in SUBSET Peers, Blame(S), SentIsFile',
           \A p \in iface' \ On' : p \in flawed \cup S \/ \E q \in Requests : p \in todo'[q],
           sent' # None =>
               \A p \in sent' \ On' :
                   p \in flawed \cup S \/ \E q \in Requests : request'[q] = "rewriting" /\ p \in todo'[q]
    PROVE  SentCovered' /\ RevokedIsOff'
<1>1. \A p \in (flawed \cup S) \ On' : p \in iface' \/ p \in file' => p \in flawed'
  BY Blamed
<1>2. SentCovered'
  BY <1>1 DEF SentCovered, SentIsFile
<1>3. RevokedIsOff'
  BY <1>1 DEF RevokedIsOff
<1> QED BY <1>2, <1>3

\* A step that leaves the rows, the requests, the file and the running syncconf alone, and
\* adds nothing to the interface but wanted peers and those it blames.
LEMMA Aside ==
    ASSUME IInv, NEW S \in SUBSET Peers, Blame(S), UNCHANGED <<row, file, sent, jobVars>>,
           iface' \subseteq iface \cup S \cup On
    PROVE  SentIsFile' /\ SentCovered' /\ RevokedIsOff' /\ flawed' \in SUBSET Peers
<1>1. On' = On /\ request' = request /\ todo' = todo
  BY DEF On, jobVars
<1>2. flawed \in SUBSET Peers /\ iface \in SUBSET Peers
  BY DEF IInv, TypeOK
<1>3. SentIsFile'
  BY DEF IInv, SentIsFile
<1>4. \A p \in iface' \ On' : p \in flawed \cup S \/ \E q \in Requests : p \in todo'[q]
  BY <1>1, <1>2 DEF IInv, RevokedIsOff
<1>5. sent' # None =>
        \A p \in sent' \ On' :
            p \in flawed \cup S \/ \E q \in Requests : request'[q] = "rewriting" /\ p \in todo'[q]
  BY <1>1 DEF IInv, SentCovered
<1> QED BY <1>2, <1>3, <1>4, <1>5, Blamed, Covered

\* News for the reconciler.
LEMMA Noticed ==
    ASSUME TypeOK, NEW W \in SUBSET Peers, Notice(W)
    PROVE  unseen' \in SUBSET Peers /\ outrun' \in SUBSET Peers
  BY DEF Notice, TypeOK

\* A cycle that ends leaves the types and what is unseen in order.
LEMMA Settled ==
    ASSUME TypeOK, NEW c \in Cycles, NEW current \in SUBSET Peers, Settle(c, current)
    PROVE  lastDenied' \in SUBSET Peers /\ unseen' \in SUBSET Peers /\ outrun' \in SUBSET Peers
  BY DEF Settle, TypeOK

-----------------------------------------------------------------------------
\* The initial states satisfy the invariant.
LEMMA InitInv == Init => IInv
<1> SUFFICES ASSUME Init PROVE IInv
  OBVIOUS
<1>1. row \in [Peers -> Status] /\ open \in [Peers -> BOOLEAN]
  BY DEF Init, Status
<1>2. file \in SUBSET Peers /\ iface \in SUBSET Peers /\ iface \subseteq On /\ Denied \in SUBSET Peers
  BY WantedOn DEF Init
<1>3. chain \in Seq(Callers) /\ sent = None
  BY DEF Init
<1>4. cycle \in [Cycles -> Cycle] /\ \A c \in Cycles : cycle[c].phase # "removing" /\ cycle[c].victim = None
  BY DEF Init, Idle, Cycle
<1>5. /\ request \in [Requests -> {"idle", "rewriting", "removing"}] /\ todo \in [Requests -> SUBSET Peers]
      /\ \A q \in Requests : request[q] = "idle" /\ todo[q] = {}
  BY DEF Init
<1>6. /\ lastDenied \in SUBSET Peers /\ direct \in {None} \cup SUBSET Peers
      /\ boot \in {"cycle", "rewrite", "done"} /\ flawed \in SUBSET Peers
  BY DEF Init
<1>7. unseen \in SUBSET Peers /\ outrun \in SUBSET Peers
  BY <1>2 DEF Init
<1> QED
  BY <1>1, <1>2, <1>3, <1>4, <1>5, <1>6, <1>7 DEF IInv, TypeOK, SentIsFile, SentCovered, RevokedIsOff

-----------------------------------------------------------------------------
(* Requests *)

\* Rows change: who is off afterwards has a key to be removed, or is blamed.
LEMMA MutateStep ==
    ASSUME IInv, NEW q \in Requests, NEW rows \in [Peers -> Status],
           NEW S \in SUBSET Peers, NEW F \in SUBSET Peers, Mutate(q, rows, S, F),
           \A p \in On : rows[p] # "on" => p \in S \cup F
    PROVE  IInv'
<1>1. /\ row' = rows /\ request[q] = "idle" /\ todo[q] = {}
      /\ request' = [request EXCEPT ![q] = "rewriting"] /\ todo' = [todo EXCEPT ![q] = S]
      /\ chain' = Append(chain, q)
      /\ UNCHANGED <<open, file, iface, sent, cycleVars, restVars>> /\ Notice({}) /\ Blame(F)
      /\ TypeOK
  BY DEF Mutate, IInv, TypeOK
<1>2. chain' \in Seq(Callers) /\ chain' # <<>>
  BY <1>1, Queued DEF Callers
<1>3. /\ request' \in [Requests -> {"idle", "rewriting", "removing"}] /\ todo' \in [Requests -> SUBSET Peers]
      /\ request'[q] = "rewriting" /\ todo'[q] = S
      /\ \A r \in Requests \ {q} : request'[r] = request[r] /\ todo'[r] = todo[r]
  BY <1>1 DEF TypeOK
<1>4. unseen' \in SUBSET Peers /\ outrun' \in SUBSET Peers
  BY <1>1, Noticed
<1>5. flawed \in SUBSET Peers /\ flawed' \in SUBSET Peers
  BY <1>1, Blamed DEF TypeOK
<1>6. TypeOK'
  BY <1>1, <1>2, <1>3, <1>4, <1>5 DEF TypeOK, cycleVars, restVars
<1>7. SentIsFile'
  BY <1>1 DEF IInv, SentIsFile
<1>8. \A p \in On \ On' : p \in S \cup F
  BY <1>1 DEF On
<1>9. \A p \in Peers : p \in iface' \ On' => p \in flawed \cup F \/ \E r \in Requests : p \in todo'[r]
  <2> SUFFICES ASSUME NEW p \in Peers, p \in iface, p \notin On', p \notin flawed \cup F
               PROVE  \E r \in Requests : p \in todo'[r]
    BY <1>1
  <2>1. CASE p \in On
    BY <2>1, <1>3, <1>8
  <2>2. CASE p \notin On
    <3>1. PICK r \in Requests : p \in todo[r]
      BY <2>2 DEF IInv, RevokedIsOff
    <3> QED BY <3>1, <1>1, <1>3
  <2> QED BY <2>1, <2>2
<1>10. ASSUME sent # None, NEW p \in sent, p \notin On', p \notin flawed \cup F
       PROVE  \E r \in Requests : request'[r] = "rewriting" /\ p \in todo'[r]
  <2>1. CASE p \in On
    BY <2>1, <1>3, <1>8, <1>10
  <2>2. CASE p \notin On
    <3>1. PICK r \in Requests : request[r] = "rewriting" /\ p \in todo[r]
      BY <2>2, <1>10 DEF IInv, SentCovered
    <3> QED BY <3>1, <1>1, <1>3
  <2> QED BY <2>1, <2>2
<1>11. SentCovered' /\ RevokedIsOff'
  <2>1. iface' \in SUBSET Peers
    BY <1>6 DEF TypeOK
  <2> QED BY <1>1, <1>5, <1>7, <1>9, <1>10, <2>1, Covered
<1> QED BY <1>6, <1>7, <1>11 DEF IInv

\* A key is removed.  While a syncconf still holds the peer, the request that waits for
\* a later job is another one.
LEMMA RemovePeerStep ==
    ASSUME IInv, NEW q \in Requests, NEW p \in Peers, NEW ok \in BOOLEAN, RemovePeer(q, p, ok)
    PROVE  IInv'
<1> DEFINE F == IF ~ok \/ chain = <<>> THEN {p} ELSE {}
<1>1. /\ request[q] = "removing" /\ p \in todo[q]
      /\ iface' = IF ok THEN iface \ {p} ELSE iface
      /\ todo' = [todo EXCEPT ![q] = todo[q] \ {p}]
      /\ request' = [request EXCEPT ![q] = IF todo[q] = {p} THEN "idle" ELSE request[q]]
      /\ UNCHANGED <<tableVars, file, chainVars, cycleVars, restVars, newsVars>> /\ Blame(F)
      /\ TypeOK
  BY DEF RemovePeer, IInv
<1>2. F \in SUBSET Peers /\ (~ok => p \in F)
  OBVIOUS
<1> HIDE DEF F
<1>3. On' = On
  BY <1>1 DEF On, tableVars
<1>4. /\ request' \in [Requests -> {"idle", "rewriting", "removing"}] /\ todo' \in [Requests -> SUBSET Peers]
      /\ todo'[q] = todo[q] \ {p}
      /\ request'[q] = IF todo[q] = {p} THEN "idle" ELSE "removing"
      /\ \A r \in Requests \ {q} : request'[r] = request[r] /\ todo'[r] = todo[r]
  BY <1>1 DEF TypeOK
<1>5. flawed \in SUBSET Peers /\ flawed' \in SUBSET Peers
  BY <1>1, <1>2, Blamed DEF TypeOK
<1>6. TypeOK'
  BY <1>1, <1>4, <1>5 DEF TypeOK, tableVars, chainVars, cycleVars, restVars, newsVars
<1>7. SentIsFile'
  BY <1>1 DEF IInv, SentIsFile, chainVars
<1>8. \A x \in iface' \ On' : x \in flawed \cup F \/ \E r \in Requests : x \in todo'[r]
  <2> SUFFICES ASSUME NEW x \in Peers, x \in iface', x \notin On, x \notin flawed \cup F
               PROVE  \E r \in Requests : x \in todo'[r]
    BY <1>3, <1>6 DEF TypeOK
  <2>1. x # p /\ x \in iface
    BY <1>1, <1>2
  <2>2. PICK r \in Requests : x \in todo[r]
    BY <2>1 DEF IInv, RevokedIsOff
  <2> QED BY <2>1, <2>2, <1>4
<1>9. sent' # None =>
        \A x \in sent' \ On' :
            x \in flawed \cup F \/ \E r \in Requests : request'[r] = "rewriting" /\ x \in todo'[r]
  <2> SUFFICES ASSUME sent # None, NEW x \in sent \ On, x \notin flawed \cup F
               PROVE  \E r \in Requests : request'[r] = "rewriting" /\ x \in todo'[r]
    BY <1>1, <1>3 DEF chainVars
  <2>1. PICK r \in Requests : request[r] = "rewriting" /\ x \in todo[r]
    BY DEF IInv, SentCovered
  <2> QED BY <2>1, <1>1, <1>4
<1> QED BY <1>1, <1>2, <1>5, <1>6, <1>7, <1>8, <1>9, Covered DEF IInv

\* One case for each step of a request.
LEMMA RequestStepKeeps ==
    ASSUME IInv, NEW q \in Requests, RequestStep(q)
    PROVE  IInv'
<1> USE DEF IInv
<1>1. row \in [Peers -> Status]
  BY DEF TypeOK
<1>2. ASSUME NEW S \in SUBSET Peers, NEW status \in Status
      PROVE  Set(S, status) \in [Peers -> Status]
  BY <1>1, <1>2 DEF Set
<1>3. CASE \E p \in Peers : Create(q, p)
  BY <1>2, <1>3, MutateStep DEF Create, Set, On, Status
<1>4. CASE \E p \in Peers : Toggle(q, p)
  <2>1. PICK p \in Peers : Toggle(q, p)
    BY <1>4
  <2>2. CASE row[p] = "on"
    BY <2>1, <2>2, <1>2, MutateStep DEF Toggle, Set, On, Status
  <2>3. CASE row[p] # "on"
    BY <2>1, <2>3, <1>2, MutateStep DEF Toggle, Set, On, Status
  <2> QED BY <2>2, <2>3
<1>5. CASE \E p \in Peers : \E status \in {"on", "off", row[p]} : Update(q, p, status)
  <2>1. PICK p \in Peers : \E status \in {"on", "off", row[p]} : Update(q, p, status)
    BY <1>5
  <2>2. PICK status \in {"on", "off", row[p]} : Update(q, p, status)
    BY <2>1
  <2>3. p \in Existing /\ status \in {"on", "off"}
    BY <2>2 DEF Update, Existing
  <2>4. Set({p}, status) \in [Peers -> Status]
    BY <2>3, <1>2 DEF Status
  <2>5. \A x \in On : Set({p}, status)[x] # "on" => x \in {} \cup (IF status = "off" THEN {p} ELSE {})
    BY <2>3 DEF Set, On
  <2> QED BY <2>2, <2>4, <2>5, MutateStep DEF Update
<1>6. CASE \E p \in Peers, ok \in BOOLEAN : RemovePeer(q, p, ok)
  BY <1>6, RemovePeerStep
<1>7. CASE \E S \in SUBSET Peers \ {{}} : BatchEnable(q, S)
  BY <1>2, <1>7, MutateStep DEF BatchEnable, Set, On, Status
<1>8. CASE \E S \in SUBSET Peers \ {{}} : BatchDisable(q, S)
  BY <1>2, <1>8, MutateStep DEF BatchDisable, Set, On, Status
<1>9. CASE \E S \in SUBSET Peers \ {{}} : Delete(q, S)
  BY <1>2, <1>9, MutateStep DEF Delete, Set, On, Status
<1>10. CASE \E S \in SUBSET Peers \ {{}} : Expire(q, S)
  BY <1>2, <1>10, MutateStep DEF Expire, Set, On, Status
<1> QED
  BY <1>3, <1>4, <1>5, <1>6, <1>7, <1>8, <1>9, <1>10 DEF RequestStep

-----------------------------------------------------------------------------
(* Jobs *)

\* Its caller goes on: a request has left the chain for good, a cycle is over.
LEMMA AnswerTypes ==
    ASSUME TypeOK, chain # <<>>, Answer
    PROVE  /\ chain' \in Seq(Callers) /\ sent' = None
           /\ request' \in [Requests -> {"idle", "rewriting", "removing"}] /\ todo' = todo
           /\ \A q \in Requests : /\ request'[q] = "idle" => todo[q] = {}
                                  /\ request'[q] = "removing" => todo[q] # {}
           /\ cycle' \in [Cycles -> Cycle]
           /\ \A c \in Cycles : cycle'[c].phase = "removing" <=> cycle'[c].victim # None
           /\ lastDenied' \in SUBSET Peers /\ unseen' \in SUBSET Peers /\ outrun' \in SUBSET Peers
           /\ UNCHANGED tableVars
<1> DEFINE caller == Head(chain)
<1>1. /\ chain' = Tail(chain) /\ sent' = None /\ UNCHANGED tableVars /\ todo' = todo
      /\ IF caller \in Requests THEN request' = [request EXCEPT ![caller] = AfterRewrite(caller)]
         ELSE UNCHANGED request
      /\ IF caller \in Cycles
         THEN cycle' = [cycle EXCEPT ![caller] = Idle] /\ Settle(caller, cycle[caller].current)
         ELSE UNCHANGED <<cycleVars, newsVars>>
  BY DEF Answer
<1> HIDE DEF caller
<1>2. chain' \in Seq(Callers)
  <2>1. chain \in Seq(Callers)
    BY DEF TypeOK
  <2> QED BY <1>1, <2>1, HeadTailProperties
<1>3. /\ request' \in [Requests -> {"idle", "rewriting", "removing"}]
      /\ \A q \in Requests : /\ request'[q] = "idle" => todo[q] = {}
                             /\ request'[q] = "removing" => todo[q] # {}
  BY <1>1 DEF TypeOK, AfterRewrite
<1>4. Idle \in Cycle /\ Idle.phase # "removing" /\ Idle.victim = None
  BY DEF Idle, Cycle
<1>5. /\ cycle' \in [Cycles -> Cycle]
      /\ \A c \in Cycles : cycle'[c].phase = "removing" <=> cycle'[c].victim # None
  BY <1>1, <1>4 DEF TypeOK, cycleVars
<1>6. lastDenied' \in SUBSET Peers /\ unseen' \in SUBSET Peers /\ outrun' \in SUBSET Peers
  <2>1. CASE caller \in Cycles
    <3>1. cycle[caller].current \in SUBSET Peers
      BY <2>1 DEF TypeOK, Cycle
    <3> QED BY <1>1, <2>1, <3>1, Settled
  <2>2. CASE caller \notin Cycles
    BY <1>1, <2>2 DEF TypeOK, cycleVars, newsVars
  <2> QED BY <2>1, <2>2
<1> QED BY <1>1, <1>2, <1>3, <1>5, <1>6

\* A job that reads the rows holds no peer that is off.
LEMMA RewriteStep == ASSUME IInv, Rewrite PROVE IInv'
<1>1. /\ chain # <<>> /\ file' = Wanted /\ sent' = Wanted /\ Blame({}) /\ TypeOK
      /\ UNCHANGED <<tableVars, iface, chain, jobVars, cycleVars, restVars, newsVars>>
  BY DEF Rewrite, Included, IInv
<1>2. On' = On /\ Wanted \subseteq On /\ Wanted \in SUBSET Peers
  BY <1>1 DEF On, Wanted, tableVars
<1>3. flawed \in SUBSET Peers /\ flawed' \in SUBSET Peers
  BY <1>1, Blamed DEF TypeOK
<1>4. TypeOK'
  BY <1>1, <1>2, <1>3 DEF TypeOK, tableVars, jobVars, cycleVars, restVars, newsVars
<1>5. SentIsFile'
  BY <1>1 DEF SentIsFile
<1>6. \A p \in iface' \ On' : p \in flawed \cup {} \/ \E q \in Requests : p \in todo'[q]
  BY <1>1, <1>2 DEF IInv, TypeOK, RevokedIsOff, jobVars
<1> QED BY <1>1, <1>2, <1>3, <1>4, <1>5, <1>6, Covered DEF IInv

\* What syncconf adds that is off by now is covered by requests behind it.
LEMMA SyncEndsStep == ASSUME IInv, NEW ok \in BOOLEAN, SyncEnds(ok) PROVE IInv'
<1> DEFINE S == IF ~ok THEN Peers ELSE {p \in sent : \E c \in Cycles : p \in cycle[c].current}
<1>1. /\ sent # None /\ Answer /\ UNCHANGED <<file, restVars>> /\ Blame(S) /\ TypeOK
      /\ IF ok THEN Synced(sent) ELSE iface' = iface
  BY DEF SyncEnds, IInv
<1>2. chain # <<>> /\ sent \in SUBSET Peers /\ iface \in SUBSET Peers /\ flawed \in SUBSET Peers
  BY <1>1 DEF TypeOK
<1>3. S \in SUBSET Peers
  BY <1>2
<1> HIDE DEF S
<1>4. iface' \subseteq iface \cup sent
  BY <1>1 DEF Synced
<1>5. /\ chain' \in Seq(Callers) /\ sent' = None
      /\ request' \in [Requests -> {"idle", "rewriting", "removing"}] /\ todo' = todo
      /\ \A q \in Requests : /\ request'[q] = "idle" => todo[q] = {}
                             /\ request'[q] = "removing" => todo[q] # {}
      /\ cycle' \in [Cycles -> Cycle]
      /\ \A c \in Cycles : cycle'[c].phase = "removing" <=> cycle'[c].victim # None
      /\ lastDenied' \in SUBSET Peers /\ unseen' \in SUBSET Peers /\ outrun' \in SUBSET Peers
      /\ UNCHANGED tableVars
  BY <1>1, <1>2, AnswerTypes
<1>6. flawed' \in SUBSET Peers
  BY <1>1, <1>2, <1>3, Blamed
<1>7. TypeOK'
  BY <1>1, <1>2, <1>4, <1>5, <1>6 DEF TypeOK, tableVars, restVars
<1>8. On' = On
  BY <1>5 DEF On, tableVars
<1>9. \A p \in iface' \ On' : p \in flawed \cup S \/ \E q \in Requests : p \in todo'[q]
  BY <1>1, <1>2, <1>4, <1>5, <1>8 DEF IInv, RevokedIsOff, SentCovered
<1>10. SentIsFile'
  BY <1>5 DEF SentIsFile
<1> QED BY <1>1, <1>2, <1>3, <1>5, <1>7, <1>9, <1>10, Covered DEF IInv

\* A rewrite that fails writes nothing, and its caller removes its keys all the same.
LEMMA RewriteFailsStep == ASSUME IInv, RewriteFails PROVE IInv'
<1>1. /\ chain # <<>> /\ Answer /\ UNCHANGED <<file, iface, restVars>> /\ Blame(Peers) /\ TypeOK
  BY DEF RewriteFails, IInv
<1>2. /\ chain' \in Seq(Callers) /\ sent' = None
      /\ request' \in [Requests -> {"idle", "rewriting", "removing"}] /\ todo' = todo
      /\ \A q \in Requests : /\ request'[q] = "idle" => todo[q] = {}
                             /\ request'[q] = "removing" => todo[q] # {}
      /\ cycle' \in [Cycles -> Cycle]
      /\ \A c \in Cycles : cycle'[c].phase = "removing" <=> cycle'[c].victim # None
      /\ lastDenied' \in SUBSET Peers /\ unseen' \in SUBSET Peers /\ outrun' \in SUBSET Peers
      /\ UNCHANGED tableVars
  BY <1>1, AnswerTypes
<1>3. flawed \in SUBSET Peers /\ flawed' \in SUBSET Peers
  BY <1>1, Blamed DEF TypeOK
<1>4. TypeOK'
  BY <1>1, <1>2, <1>3 DEF TypeOK, tableVars, restVars
<1>5. \A p \in iface' \ On' : p \in flawed \cup Peers \/ \E q \in Requests : p \in todo'[q]
  BY <1>4 DEF TypeOK
<1>6. SentIsFile'
  BY <1>2 DEF SentIsFile
<1> QED BY <1>1, <1>2, <1>3, <1>4, <1>5, <1>6, Covered DEF IInv

-----------------------------------------------------------------------------
(* Cycles *)

\* A cycle goes on or ends.
LEMMA PushPeersTypes ==
    ASSUME TypeOK, NEW c \in Cycles, NEW current \in SUBSET Peers, NEW changed, PushPeers(c, current, changed)
    PROVE  /\ chain' \in Seq(Callers) /\ (chain # <<>> => chain' # <<>>)
           /\ cycle' \in [Cycles -> Cycle]
           /\ \A d \in Cycles : cycle'[d].phase = "removing" <=> cycle'[d].victim # None
           /\ lastDenied' \in SUBSET Peers /\ unseen' \in SUBSET Peers /\ outrun' \in SUBSET Peers
<1>1. /\ Idle \in Cycle /\ Idle.phase # "removing" /\ Idle.victim = None
      /\ [Idle EXCEPT !.phase = "rewriting", !.current = current] \in Cycle
      /\ [Idle EXCEPT !.phase = "rewriting", !.current = current].phase # "removing"
      /\ [Idle EXCEPT !.phase = "rewriting", !.current = current].victim = None
  BY DEF Idle, Cycle
<1>2. CASE changed
  <2>1. chain' = Append(chain, c) /\ UNCHANGED <<lastDenied, newsVars>>
        /\ cycle' = [cycle EXCEPT ![c] = [Idle EXCEPT !.phase = "rewriting", !.current = current]]
    BY <1>2 DEF PushPeers
  <2>2. chain' \in Seq(Callers) /\ chain' # <<>>
    BY <2>1, Queued DEF Callers
  <2> QED BY <1>1, <2>1, <2>2 DEF TypeOK, newsVars
<1>3. CASE ~changed
  <2>1. Settle(c, current) /\ chain' = chain /\ cycle' = [cycle EXCEPT ![c] = Idle]
    BY <1>3 DEF PushPeers
  <2> QED BY <1>1, <2>1, Settled DEF TypeOK
<1> QED BY <1>2, <1>3

\* A cycle takes its next step: a removal, the push to Caddy, or the rewrite.
LEMMA ProceedTypes ==
    ASSUME TypeOK, NEW c \in Cycles, NEW current \in SUBSET Peers, NEW rest \in SUBSET Peers,
           Proceed(c, current, rest)
    PROVE  /\ chain' \in Seq(Callers) /\ (chain # <<>> => chain' # <<>>)
           /\ cycle' \in [Cycles -> Cycle]
           /\ \A d \in Cycles : cycle'[d].phase = "removing" <=> cycle'[d].victim # None
           /\ lastDenied' \in SUBSET Peers /\ unseen' \in SUBSET Peers /\ outrun' \in SUBSET Peers
<1> DEFINE news == {p \in rest \ lastDenied : row[p] # "gone"}
<1>1. CASE news # {}
  <2>1. PICK p \in news :
          cycle' = [cycle EXCEPT ![c] = [phase |-> "removing", current |-> current,
                              rest |-> rest \ {p}, victim |-> p, changed |-> TRUE]]
    BY <1>1 DEF Proceed
  <2>2. UNCHANGED <<chain, lastDenied, newsVars>>
    BY <1>1 DEF Proceed
  <2>3. p \in Peers /\ p # None
    BY PeersAssumption
  <2>4. [phase |-> "removing", current |-> current, rest |-> rest \ {p}, victim |-> p, changed |-> TRUE] \in Cycle
    BY <2>3 DEF Cycle
  <2> QED BY <2>1, <2>2, <2>3, <2>4 DEF TypeOK, newsVars
<1>2. CASE news = {} /\ PushPeers(c, current, Transitions(c, current))
  BY <1>2, PushPeersTypes
<1>3. CASE news = {} /\ ~PushPeers(c, current, Transitions(c, current))
  <2> DEFINE w == [Idle EXCEPT !.phase = "caddy", !.current = current, !.changed = Transitions(c, current)]
  <2>1. cycle' = [cycle EXCEPT ![c] = w] /\ UNCHANGED <<chain, lastDenied, newsVars>>
    BY <1>3 DEF Proceed
  <2>2. Transitions(c, current) \in BOOLEAN
    BY DEF Transitions, TypeOK, Cycle
  <2>3. w \in Cycle /\ w.phase # "removing" /\ w.victim = None
    BY <2>2 DEF Idle, Cycle
  <2> HIDE DEF w
  <2> QED BY <2>1, <2>3 DEF TypeOK, newsVars
<1> QED BY <1>1, <1>2, <1>3

\* A cycle takes peers off the interface and adds none.
LEMMA CycleStepKeeps ==
    ASSUME IInv, NEW c \in Cycles, CycleStep(c)
    PROVE  IInv'
<1> DEFINE Typed ==
      /\ chain' \in Seq(Callers) /\ (chain # <<>> => chain' # <<>>)
      /\ cycle' \in [Cycles -> Cycle]
      /\ \A d \in Cycles : cycle'[d].phase = "removing" <=> cycle'[d].victim # None
      /\ lastDenied' \in SUBSET Peers /\ unseen' \in SUBSET Peers /\ outrun' \in SUBSET Peers
<1>t. TypeOK
  BY DEF IInv
<1>1. CASE StartCycle(c)
  <2>1. /\ UNCHANGED <<tableVars, file, iface, sent, jobVars, direct>> /\ Blame({})
        /\ Proceed(c, Denied, Denied) /\ boot' = IF boot = "cycle" THEN "rewrite" ELSE boot
    BY <1>1 DEF StartCycle
  <2>2. Denied \in SUBSET Peers
    BY WantedOn
  <2>3. Typed
    BY <1>t, <2>1, <2>2, ProceedTypes
  <2>4. SentIsFile' /\ SentCovered' /\ RevokedIsOff' /\ flawed' \in SUBSET Peers
    BY <2>1, Aside DEF tableVars
  <2> HIDE DEF Typed
  <2>5. TypeOK'
    BY <1>t, <2>1, <2>3, <2>4 DEF TypeOK, Typed, tableVars, jobVars
  <2> QED BY <2>4, <2>5 DEF IInv
<1>2. CASE \E ok \in BOOLEAN : Disconnect(c, ok)
  <2>1. PICK ok \in BOOLEAN : Disconnect(c, ok)
    BY <1>2
  <2> DEFINE S == {p \in {cycle[c].victim} : ~ok \/ p \in Wanted}
  <2>2. /\ UNCHANGED <<tableVars, file, sent, jobVars, restVars>> /\ Blame(S)
        /\ Proceed(c, cycle[c].current, cycle[c].rest) /\ iface' \subseteq iface
        /\ cycle[c].phase = "removing"
    BY <2>1 DEF Disconnect
  <2>3. cycle[c].current \in SUBSET Peers /\ cycle[c].rest \in SUBSET Peers /\ S \in SUBSET Peers
    BY <1>t, <2>2 DEF TypeOK, Cycle
  <2>4. Typed
    BY <1>t, <2>2, <2>3, ProceedTypes
  <2> HIDE DEF S
  <2>5. SentIsFile' /\ SentCovered' /\ RevokedIsOff' /\ flawed' \in SUBSET Peers
    BY <2>2, <2>3, Aside DEF tableVars
  <2> HIDE DEF Typed
  <2>6. TypeOK'
    BY <1>t, <2>2, <2>4, <2>5 DEF TypeOK, Typed, tableVars, jobVars, restVars
  <2> QED BY <2>5, <2>6 DEF IInv
<1>3. CASE \E ok \in BOOLEAN : CaddyPushed(c, ok)
  <2>1. PICK ok \in BOOLEAN : CaddyPushed(c, ok)
    BY <1>3
  <2>2. /\ UNCHANGED <<tableVars, file, iface, sent, jobVars, restVars>> /\ Blame({})
        /\ IF ok THEN PushPeers(c, cycle[c].current, cycle[c].changed)
           ELSE cycle' = [cycle EXCEPT ![c] = Idle] /\ UNCHANGED <<chain, lastDenied, newsVars>>
    BY <2>1 DEF CaddyPushed
  <2>3. Typed
    <3>1. CASE ok
      <4>1. cycle[c].current \in SUBSET Peers
        BY <1>t DEF TypeOK, Cycle
      <4> QED BY <1>t, <2>2, <3>1, <4>1, PushPeersTypes
    <3>2. CASE ~ok
      <4>1. Idle \in Cycle /\ Idle.phase # "removing" /\ Idle.victim = None
        BY DEF Idle, Cycle
      <4> QED BY <1>t, <2>2, <3>2, <4>1 DEF TypeOK, newsVars
    <3> QED BY <3>1, <3>2
  <2>4. SentIsFile' /\ SentCovered' /\ RevokedIsOff' /\ flawed' \in SUBSET Peers
    BY <2>2, Aside DEF tableVars
  <2> HIDE DEF Typed
  <2>5. TypeOK'
    BY <1>t, <2>2, <2>3, <2>4 DEF TypeOK, Typed, tableVars, jobVars, restVars
  <2> QED BY <2>4, <2>5 DEF IInv
<1> QED BY <1>1, <1>2, <1>3 DEF CycleStep

-----------------------------------------------------------------------------
(* The surroundings *)

\* A window changes: nothing but the news for the reconciler.
LEMMA WindowStep == ASSUME IInv, NEW p \in Peers, WindowChanges(p) PROVE IInv'
<1>1. /\ open' = [open EXCEPT ![p] = ~open[p]] /\ Notice({p}) /\ Blame({}) /\ TypeOK
      /\ UNCHANGED <<row, file, iface, chainVars, jobVars, cycleVars, restVars>>
  BY DEF WindowChanges, IInv
<1>2. SentIsFile' /\ SentCovered' /\ RevokedIsOff' /\ flawed' \in SUBSET Peers
  BY <1>1, Aside DEF chainVars
<1>3. unseen' \in SUBSET Peers /\ outrun' \in SUBSET Peers
  BY <1>1, Noticed
<1>4. open' \in [Peers -> BOOLEAN]
  BY <1>1 DEF TypeOK
<1>5. TypeOK'
  BY <1>1, <1>2, <1>3, <1>4 DEF TypeOK, chainVars, jobVars, cycleVars, restVars
<1> QED BY <1>2, <1>5 DEF IInv

\* The licence blames the peers it switches off: nothing removes their keys.
LEMMA LimitsStep == ASSUME IInv, NEW S \in SUBSET Peers, EnforceLimits(S) PROVE IInv'
<1>1. /\ row' = Set(S, "off") /\ direct' = file /\ Notice({}) /\ Blame(S) /\ TypeOK
      /\ UNCHANGED <<open, file, iface, chainVars, jobVars, cycleVars, boot>>
  BY DEF EnforceLimits, IInv
<1>2. row' \in [Peers -> Status] /\ On \ On' \subseteq S
  BY <1>1 DEF Set, TypeOK, Status, On
<1>3. unseen' \in SUBSET Peers /\ outrun' \in SUBSET Peers
  BY <1>1, Noticed
<1>4. flawed \in SUBSET Peers /\ flawed' \in SUBSET Peers
  BY <1>1, Blamed DEF TypeOK
<1>5. TypeOK'
  BY <1>1, <1>2, <1>3, <1>4 DEF TypeOK, chainVars, jobVars, cycleVars
<1>6. SentIsFile'
  BY <1>1 DEF IInv, SentIsFile, chainVars
<1>7. \A p \in iface' \ On' : p \in flawed \cup S \/ \E q \in Requests : p \in todo'[q]
  BY <1>1, <1>2 DEF IInv, TypeOK, RevokedIsOff, jobVars
<1>8. sent' # None =>
        \A p \in sent' \ On' :
            p \in flawed \cup S \/ \E q \in Requests : request'[q] = "rewriting" /\ p \in todo'[q]
  BY <1>1, <1>2 DEF IInv, SentCovered, jobVars, chainVars
<1> QED BY <1>4, <1>5, <1>6, <1>7, <1>8, <1>1, Covered DEF IInv

\* The syncconf of the licence limits adds what the file names.
LEMMA LimitsSyncedStep == ASSUME IInv, NEW ok \in BOOLEAN, LimitsSynced(ok) PROVE IInv'
<1>1. /\ direct # None /\ direct' = None /\ Blame(Peers) /\ TypeOK
      /\ UNCHANGED <<tableVars, file, chainVars, jobVars, cycleVars, boot, newsVars>>
      /\ IF ok THEN Synced(direct) ELSE iface' = iface
  BY DEF LimitsSynced, IInv
<1>2. iface' \in SUBSET Peers
  BY <1>1 DEF TypeOK, Synced
<1>3. SentIsFile' /\ SentCovered' /\ RevokedIsOff' /\ flawed' \in SUBSET Peers
  BY <1>1, <1>2, Aside DEF chainVars, tableVars
<1>4. TypeOK'
  BY <1>1, <1>2, <1>3 DEF TypeOK, tableVars, chainVars, jobVars, cycleVars, newsVars
<1> QED BY <1>3, <1>4 DEF IInv

\* The rewrite after a start joins the chain.
LEMMA BootStep == ASSUME IInv, BootRewrite PROVE IInv'
<1>1. /\ boot' = "done" /\ chain' = Append(chain, "boot") /\ Blame({}) /\ TypeOK
      /\ UNCHANGED <<tableVars, file, iface, sent, jobVars, cycleVars, direct, newsVars>>
  BY DEF BootRewrite, IInv
<1>2. chain' \in Seq(Callers) /\ chain' # <<>>
  BY <1>1, Queued DEF Callers
<1>3. SentIsFile' /\ SentCovered' /\ RevokedIsOff' /\ flawed' \in SUBSET Peers
  BY <1>1, Aside DEF tableVars
<1>4. TypeOK'
  BY <1>1, <1>2, <1>3 DEF TypeOK, tableVars, jobVars, cycleVars, newsVars
<1> QED BY <1>3, <1>4 DEF IInv

\* The interface gets what the file holds, of which what is off is blamed, or nothing.
LEMMA InterfaceStep == ASSUME IInv, InterfaceRestarts PROVE IInv'
<1>1. PICK S \in SUBSET Peers : Blame(S) /\ iface' \subseteq S \cup On /\ iface' \in SUBSET Peers
  BY WantedOn DEF InterfaceRestarts, IInv, TypeOK
<1>2. TypeOK /\ UNCHANGED <<tableVars, file, chainVars, jobVars, cycleVars, restVars, newsVars>>
  BY DEF InterfaceRestarts, IInv
<1>3. SentIsFile' /\ SentCovered' /\ RevokedIsOff' /\ flawed' \in SUBSET Peers
  BY <1>1, <1>2, Aside DEF chainVars, tableVars
<1>4. TypeOK'
  BY <1>1, <1>2, <1>3 DEF TypeOK, tableVars, chainVars, jobVars, cycleVars, restVars, newsVars
<1> QED BY <1>3, <1>4 DEF IInv

\* What was to be removed is lost: all that are off are blamed.
LEMMA NodeStep == ASSUME IInv, NodeRestarts PROVE IInv'
<1>1. /\ chain' = <<>> /\ sent' = None /\ lastDenied' = {} /\ direct' = None /\ boot' = "cycle"
      /\ request' = [q \in Requests |-> "idle"] /\ todo' = [q \in Requests |-> {}]
      /\ cycle' = [c \in Cycles |-> Idle]
      /\ unseen' = unseen \cup Denied /\ outrun' = {}
      /\ UNCHANGED <<tableVars, file>> /\ Blame(Peers \ On) /\ TypeOK
  BY DEF NodeRestarts, IInv
<1>2. iface' \in SUBSET Peers
  BY DEF NodeRestarts, IInv, TypeOK, Synced
<1>3. Denied \in SUBSET Peers /\ Peers \ On \in SUBSET Peers /\ On' = On
  BY <1>1, WantedOn DEF On, tableVars
<1>4. unseen' \in SUBSET Peers /\ outrun' \in SUBSET Peers
  BY <1>1, <1>3 DEF TypeOK
<1>5. flawed \in SUBSET Peers /\ flawed' \in SUBSET Peers
  BY <1>1, <1>3, Blamed DEF TypeOK
<1>6. Idle \in Cycle /\ Idle.phase # "removing" /\ Idle.victim = None
  BY DEF Idle, Cycle
<1>7. chain' \in Seq(Callers)
  BY <1>1
<1>8. TypeOK'
  BY <1>1, <1>2, <1>4, <1>5, <1>6, <1>7 DEF TypeOK, tableVars
<1>9. SentIsFile'
  BY <1>1 DEF SentIsFile
<1>10. \A p \in iface' \ On' : p \in flawed \cup (Peers \ On) \/ \E q \in Requests : p \in todo'[q]
  BY <1>2, <1>3
<1> QED BY <1>1, <1>3, <1>5, <1>8, <1>9, <1>10, Covered DEF IInv

-----------------------------------------------------------------------------
\* A stuttering step.
LEMMA StutterStep == ASSUME IInv, UNCHANGED vars PROVE IInv'
  BY DEF IInv, TypeOK, SentIsFile, SentCovered, RevokedIsOff, On, vars

\* One case for each kind of step.
LEMMA NextStep == IInv /\ [Next]_vars => IInv'
<1> SUFFICES ASSUME IInv, [Next]_vars PROVE IInv'
  OBVIOUS
<1>1. CASE \E q \in Requests : RequestStep(q)
  BY <1>1, RequestStepKeeps
<1>2. CASE \E c \in Cycles : CycleStep(c)
  BY <1>2, CycleStepKeeps
<1>3. CASE Rewrite \/ RewriteFails \/ \E ok \in BOOLEAN : SyncEnds(ok)
  BY <1>3, RewriteStep, RewriteFailsStep, SyncEndsStep
<1>4. CASE \E p \in Peers : WindowChanges(p)
  BY <1>4, WindowStep
<1>5. CASE \/ \E S \in SUBSET Peers : EnforceLimits(S)
           \/ \E ok \in BOOLEAN : LimitsSynced(ok)
  BY <1>5, LimitsStep, LimitsSyncedStep
<1>6. CASE BootRewrite \/ InterfaceRestarts \/ NodeRestarts
  BY <1>6, BootStep, InterfaceStep, NodeStep
<1>7. CASE UNCHANGED vars
  BY <1>7, StutterStep
<1> QED BY <1>1, <1>2, <1>3, <1>4, <1>5, <1>6, <1>7 DEF Next

\* The inductive invariant: with a peer that was switched off there is a request that
\* still removes its key, and one behind each rewrite that may bring the key back.
THEOREM Inductive == Spec => []IInv
<1> QED BY InitInv, NextStep, PTL DEF Spec

\* Every variable keeps its type.
THEOREM TypeCorrect == Spec => []TypeOK
<1>1. IInv => TypeOK
  BY DEF IInv
<1> QED BY <1>1, Inductive, PTL

\* A peer that was disabled, deleted or has expired is off the interface once its key was
\* removed (peers.js toggle, remove, batch, checkExpiredPeers), whatever rewrites run.
THEOREM RevokedStaysOff == Spec => []RevokedIsOff
<1>1. IInv => RevokedIsOff
  BY DEF IInv
<1> QED BY <1>1, Inductive, PTL

-----------------------------------------------------------------------------
(* Access windows *)

\* A weakness has struck the peer, or its window has outrun the cycles.
Struck == flawed \cup outrun

\* Whose windows the cycles have caught up with is right.
Caught == \A p \in outrun \ outrun' : Right(p)'

\* The cycles that have queued a rewrite wait for it, each once.
CyclesApart ==
    /\ \A c \in Cycles : /\ cycle[c].phase = "idle" => cycle[c].current = {}
                         /\ cycle[c].phase = "removing" => cycle[c].changed
                         /\ cycle[c].phase # "removing" => cycle[c].rest = {}
    /\ \A k \in DOMAIN chain : chain[k] \in Cycles => cycle[chain[k]].phase = "rewriting"
    /\ \A k, l \in DOMAIN chain : chain[k] = chain[l] /\ chain[k] \in Cycles => k = l

\* Of a peer that was dealt with, the reconciler knows what is so, and so does every cycle
\* under way.
SeenAlike ==
    \A p \in Peers \ unseen :
        /\ p \in lastDenied <=> p \in Denied
        /\ \A c \in Cycles : cycle[c].phase # "idle" => (p \in cycle[c].current <=> p \in Denied)

\* What a cycle has behind it; a cycle that has found nothing to rewrite.
Dealt(c)     == cycle[c].current \ (cycle[c].rest \cup {cycle[c].victim})
Unchanged(c) == cycle[c].phase = "caddy" /\ ~cycle[c].changed

\* A peer that a cycle has denied is off the interface, and no syncconf brings it back,
\* unless it was struck or deleted, or its window is open again.
Excused(p) == p \in Struck \/ row[p] = "gone" \/ (open[p] /\ p \in unseen)
Off(p)     == Excused(p) \/ p \notin iface
Out(p)     == Excused(p) \/ (p \notin iface /\ (sent # None => p \notin sent))

DeniedLeave ==
    /\ \A p \in lastDenied : Out(p)
    /\ \A c \in Cycles : \A p \in Dealt(c) : Off(p) /\ (Unchanged(c) => Out(p))

\* A peer that the last job of the chain does not know is allowed since that job began:
\* a cycle will miss it.
Missed ==
    sent # None /\ Len(chain) = 1 =>
        \A p \in Wanted \ (sent \cup outrun) :
            /\ p \in unseen /\ p \in lastDenied
            /\ \A c \in Cycles : Unchanged(c) \/ c = Head(chain) => p \in cycle[c].current

\* A peer that is allowed is on the interface or will be, or the next cycle will miss it.
OnItsWay(p) ==
    \/ boot # "done"
    \/ chain # <<>> /\ (sent = None \/ p \in sent \/ Len(chain) >= 2)
    \/ p \in iface /\ p \in file

AllowedArrive ==
    \A p \in Wanted \ Struck :
        /\ OnItsWay(p) \/ p \in lastDenied
        /\ \A c \in Cycles : Unchanged(c) /\ p \notin cycle[c].current => OnItsWay(p)

WInv == IInv /\ CyclesApart /\ SeenAlike /\ DeniedLeave /\ Missed /\ AllowedArrive

-----------------------------------------------------------------------------
(* What the steps have in common *)

\* A peer leaves the struck ones when file and interface are right about it.
LEMMA Righted ==
    ASSUME NEW S \in SUBSET Peers, Blame(S), Caught, NEW p \in Struck \cup S, p \notin Struck'
    PROVE  (p \in iface' <=> p \in Wanted') /\ (p \in file' <=> p \in Wanted')
<1>1. Right(p)'
  BY DEF Blame, Caught, Struck
<1> QED BY <1>1 DEF Right

\* A step that leaves the history alone, or makes news.
LEMMA KeepsOutrun ==
    ASSUME UNCHANGED newsVars \/ \E W \in SUBSET Peers : Notice(W)
    PROVE  outrun \subseteq outrun' /\ Caught
  BY DEF newsVars, Notice, Caught

\* A peer that is off stays off in a step that brings nobody back but blamed and allowed
\* peers; one that is out of the running syncconf stays out.
LEMMA OutKept ==
    ASSUME SentIsFile', NEW S \in SUBSET Peers, Blame(S), Caught, NEW p \in Peers,
           row[p] = "gone" => row'[p] = "gone",
           p \in Wanted' => p \in unseen',
           open[p] /\ p \in unseen => (open'[p] /\ p \in unseen') \/ p \in Struck',
           p \in iface' => p \in iface \cup S \/ p \in Wanted' \/ Excused(p)
    PROVE  /\ Off(p) \/ p \in S \/ p \notin iface' => Off(p)'
           /\ (sent' # None /\ p \in sent' => (sent # None /\ p \in sent) \/ p \in Wanted')
                => (Out(p) => Out(p)')
<1>1. p \in Wanted' => Excused(p)'
  BY DEF Wanted, Excused
<1>2. ASSUME p \in Struck \cup S PROVE Excused(p)' \/ (p \notin iface' /\ p \notin file')
  BY <1>1, <1>2, Righted DEF Excused
<1>3. Excused(p) => p \in Struck \/ Excused(p)'
  BY DEF Excused
<1>4. Off(p) \/ p \in S \/ p \notin iface' => Off(p)'
  BY <1>1, <1>2, <1>3 DEF Off
<1>5. ASSUME sent' # None /\ p \in sent' => (sent # None /\ p \in sent) \/ p \in Wanted', Out(p)
      PROVE  Out(p)'
  <2>1. CASE p \in Struck \cup S
    BY <1>2, <2>1 DEF Out, SentIsFile
  <2>2. CASE p \notin Struck \cup S
    BY <1>1, <1>3, <1>5, <2>2 DEF Out
  <2> QED BY <2>1, <2>2
<1> QED BY <1>4, <1>5

\* The same for all peers that the reconciler knows of, in a step that leaves its variables.
LEMMA LeaveKept ==
    ASSUME WInv, TypeOK', SentIsFile', SeenAlike', NEW S \in SUBSET Peers, Blame(S),
           Caught, UNCHANGED cycleVars,
           \A p \in Peers : row[p] = "gone" => row'[p] = "gone",
           \A p \in Peers : open[p] /\ p \in unseen => (open'[p] /\ p \in unseen') \/ p \in Struck',
           \A p \in iface' : p \in iface \cup S \/ p \in Wanted',
           sent' # None => (sent # None /\ sent' = sent) \/ sent' = Wanted'
    PROVE  DeniedLeave'
<1>1. /\ cycle' = cycle /\ lastDenied' = lastDenied
      /\ lastDenied \in SUBSET Peers /\ \A c \in Cycles : cycle[c].current \in SUBSET Peers
  BY DEF cycleVars, WInv, IInv, TypeOK, Cycle
<1>2. \A p \in Peers : p \in Wanted' => p \notin Denied'
  BY DEF Denied
<1>3. \A c \in Cycles : \A p \in cycle[c].current : cycle[c].phase # "idle"
  BY DEF WInv, CyclesApart
<1>4. \A p \in lastDenied : p \in Wanted' => p \in unseen'
  BY <1>1, <1>2 DEF SeenAlike
<1>5. \A c \in Cycles : \A p \in cycle[c].current : p \in Wanted' => p \in unseen'
  BY <1>1, <1>2, <1>3 DEF SeenAlike
<1>6. \A p \in lastDenied : Out(p)'
  BY <1>1, <1>4, OutKept DEF WInv, DeniedLeave
<1>7. \A c \in Cycles : \A p \in Dealt(c) : Off(p)' /\ (Unchanged(c) => Out(p)')
  <2> SUFFICES ASSUME NEW c \in Cycles, NEW p \in Dealt(c)
               PROVE  Off(p)' /\ (Unchanged(c) => Out(p)')
    OBVIOUS
  <2>1. p \in Peers /\ (p \in Wanted' => p \in unseen') /\ Off(p) /\ (Unchanged(c) => Out(p))
    BY <1>1, <1>5 DEF Dealt, WInv, DeniedLeave
  <2> QED BY <2>1, OutKept
<1> QED BY <1>1, <1>6, <1>7 DEF DeniedLeave, Dealt, Unchanged

\* A job more in the chain: whoever is allowed is on its way, and the last job is not under way.
LEMMA Grown ==
    ASSUME WInv, NEW x, chain' = Append(chain, x), x \in Callers, sent' = sent
    PROVE  Missed' /\ \A p \in Peers : OnItsWay(p)'
<1>1. chain \in Seq(Callers) /\ (sent # None => chain # <<>>)
  BY DEF WInv, IInv, TypeOK
<1>2. chain' # <<>> /\ Len(chain') = Len(chain) + 1 /\ Len(chain) \in Nat /\ (Len(chain) = 0 => chain = <<>>)
  BY <1>1
<1>3. sent' # None => Len(chain') >= 2
  BY <1>1, <1>2
<1> QED BY <1>2, <1>3 DEF Missed, OnItsWay

\* Whoever waits in the chain still does, when somebody who is no cycle joins it.
LEMMA Joined ==
    ASSUME WInv, UNCHANGED cycle,
           chain' = chain \/ \E x \in Callers \ Cycles : chain' = Append(chain, x)
    PROVE  CyclesApart'
<1>1. chain \in Seq(Callers) /\ CyclesApart
  BY DEF WInv, IInv, TypeOK
<1>2. CASE chain' = chain
  BY <1>1, <1>2 DEF CyclesApart
<1>3. CASE \E x \in Callers \ Cycles : chain' = Append(chain, x)
  <2>1. PICK x \in Callers \ Cycles : chain' = Append(chain, x)
    BY <1>3
  <2>2. DOMAIN chain' = 1..(Len(chain)+1) /\ DOMAIN chain = 1..Len(chain) /\ Len(chain) \in Nat
    BY <1>1, <2>1
  <2>3. (\A k \in 1..Len(chain) : chain'[k] = chain[k]) /\ chain'[Len(chain) + 1] = x
    BY <1>1, <2>1, AppendProperties
  <2>4. \A k \in 1..(Len(chain) + 1) : k \in 1..Len(chain) \/ k = Len(chain) + 1
    BY <2>2
  <2>5. \A k \in DOMAIN chain' : chain'[k] \in Cycles => k \in DOMAIN chain /\ chain'[k] = chain[k]
    BY <2>2, <2>3, <2>4
  <2> QED BY <1>1, <2>5 DEF CyclesApart
<1> QED BY <1>2, <1>3

\* News for the reconciler: a denial that changed is unseen, and nothing else is forgotten.
LEMMA NewsUnseen ==
    ASSUME NEW W, Notice(W)
    PROVE  /\ unseen \subseteq unseen'
           /\ \A p \in Peers \ unseen' : p \notin unseen /\ (p \in Denied' <=> p \in Denied)
  BY DEF Notice

\* A step that makes news and leaves the cycles alone.
LEMMA NewsSeenAlike ==
    ASSUME WInv, NEW W, Notice(W), UNCHANGED cycleVars
    PROVE  SeenAlike'
<1>1. SeenAlike /\ cycle' = cycle /\ lastDenied' = lastDenied
  BY DEF WInv, cycleVars
<1> QED BY <1>1, NewsUnseen DEF SeenAlike

\* A cycle that ends: what is no longer unseen is as it has seen it, and no other one runs.
LEMMA SettledSeen ==
    ASSUME TypeOK, NEW c \in Cycles, NEW current, Settle(c, current)
    PROVE  /\ lastDenied' = current /\ unseen' \subseteq unseen
           /\ \A p \in unseen : (p \in current) # (p \in Denied) => p \in unseen'
           /\ \A p \in unseen \ unseen' : p \in current <=> p \in Denied
           /\ unseen' # unseen => \A d \in Cycles \ {c} : cycle[d].phase = "idle"
           /\ Caught
  BY DEF Settle, Caught

\* After a step that leaves rows and windows, news and cycles, nobody who is wanted has left,
\* but the blamed.
LEMMA ArriveKept ==
    ASSUME WInv, NEW S \in SUBSET Peers, Blame(S), Caught, UNCHANGED <<tableVars, cycleVars>>,
           \A p \in Wanted \ Struck : p \notin S /\ OnItsWay(p) => OnItsWay(p)'
    PROVE  AllowedArrive'
<1>1. /\ Wanted' = Wanted /\ cycle' = cycle /\ lastDenied' = lastDenied /\ AllowedArrive
      /\ Wanted \in SUBSET Peers
  BY WantedOn DEF tableVars, cycleVars, Wanted, On, WInv
<1>2. ASSUME NEW p \in Wanted, p \in Struck \cup S, p \notin Struck' PROVE OnItsWay(p)'
  BY <1>1, <1>2, Righted DEF OnItsWay
<1> QED BY <1>1, <1>2 DEF AllowedArrive, Unchanged

-----------------------------------------------------------------------------
(* Steps that leave rows, windows and cycles alone *)

\* A step that blames whom it takes off the interface, adds nobody but wanted peers and
\* keeps what is on its way to them.
LEMMA StandStill ==
    ASSUME WInv, IInv', NEW S \in SUBSET Peers, Blame(S), UNCHANGED <<tableVars, cycleVars, newsVars>>,
           \A p \in iface' : p \in iface \cup S \/ p \in Wanted,
           sent' # None => (sent # None /\ sent' = sent) \/ sent' = Wanted,
           chain' = chain \/ \E x \in Callers \ Cycles : chain' = Append(chain, x),
           \A p \in Wanted \ Struck : p \notin S /\ OnItsWay(p) => OnItsWay(p)',
           Missed'
    PROVE  WInv'
<1>1. /\ Wanted' = Wanted /\ Denied' = Denied /\ unseen' = unseen /\ row' = row /\ open' = open
      /\ cycle' = cycle /\ lastDenied' = lastDenied
  BY DEF tableVars, cycleVars, newsVars, Wanted, Denied, On
<1>2. SeenAlike'
  BY <1>1 DEF WInv, SeenAlike
<1>c. Caught
  BY KeepsOutrun
<1>3. DeniedLeave'
  <2>1. TypeOK' /\ SentIsFile'
    BY DEF IInv
  <2> QED BY <1>1, <1>2, <1>c, <2>1, LeaveKept
<1>4. AllowedArrive'
  BY <1>c, ArriveKept
<1>5. CyclesApart'
  BY <1>1, Joined
<1> QED BY <1>2, <1>3, <1>4, <1>5 DEF WInv

\* A key is removed: of a wanted peer by mistake, unless a job will bring it back.
LEMMA RemovePeerWindows ==
    ASSUME WInv, IInv', NEW q \in Requests, NEW p \in Peers, NEW ok \in BOOLEAN, RemovePeer(q, p, ok)
    PROVE  WInv'
<1> DEFINE S == IF ~ok \/ chain = <<>> THEN {p} ELSE {}
<1>1. /\ iface' = IF ok THEN iface \ {p} ELSE iface
      /\ UNCHANGED <<tableVars, file, chainVars, cycleVars, restVars, newsVars>> /\ Blame(S)
  BY DEF RemovePeer
<1>2. S \in SUBSET Peers /\ (chain = <<>> => p \in S)
  OBVIOUS
<1> HIDE DEF S
<1>3. \A x \in Wanted : x \notin S /\ OnItsWay(x) => OnItsWay(x)'
  <2> SUFFICES ASSUME NEW x \in Wanted, x \notin S, OnItsWay(x) PROVE OnItsWay(x)'
    OBVIOUS
  <2>1. file' = file /\ sent' = sent /\ chain' = chain /\ boot' = boot /\ SentIsFile
    BY <1>1 DEF chainVars, restVars, WInv, IInv
  <2>2. CASE chain = <<>>
    BY <1>1, <1>2, <2>1, <2>2 DEF OnItsWay
  <2>3. CASE chain # <<>>
    BY <2>1, <2>3 DEF OnItsWay, SentIsFile
  <2> QED BY <2>2, <2>3
<1>4. Missed'
  BY <1>1 DEF WInv, Missed, chainVars, cycleVars, tableVars, newsVars, Wanted, On, Unchanged
<1> QED BY <1>1, <1>2, <1>3, <1>4, StandStill DEF chainVars

\* A job takes whoever is wanted.
LEMMA RewriteWindows == ASSUME WInv, IInv', Rewrite PROVE WInv'
<1>1. /\ chain # <<>> /\ file' = Wanted /\ sent' = Wanted /\ Blame({})
      /\ UNCHANGED <<tableVars, iface, chain, jobVars, cycleVars, restVars, newsVars>>
  BY DEF Rewrite, Included
<1>2. \A x \in Wanted : OnItsWay(x)'
  BY <1>1 DEF OnItsWay
<1>3. Wanted' = Wanted
  BY <1>1 DEF Wanted, On, tableVars
<1>4. Missed'
  BY <1>1, <1>3 DEF Missed
<1> QED BY <1>1, <1>2, <1>4, StandStill

\* The syncconf of the licence blames everybody.
LEMMA LimitsSyncedWindows ==
    ASSUME WInv, IInv', NEW ok \in BOOLEAN, LimitsSynced(ok)
    PROVE  WInv'
<1>1. UNCHANGED <<tableVars, file, chainVars, jobVars, cycleVars, boot, newsVars>> /\ Blame(Peers)
  BY DEF LimitsSynced
<1>2. \A p \in iface' : p \in Peers
  BY DEF IInv, TypeOK
<1>3. Missed'
  BY <1>1 DEF WInv, Missed, chainVars, cycleVars, tableVars, newsVars, Wanted, On, Unchanged
<1>4. Wanted \subseteq Peers
  BY WantedOn
<1> QED BY <1>1, <1>2, <1>3, <1>4, StandStill DEF chainVars

\* The rewrite after a start.
LEMMA BootWindows == ASSUME WInv, IInv', BootRewrite PROVE WInv'
<1>1. /\ chain' = Append(chain, "boot") /\ Blame({})
      /\ UNCHANGED <<tableVars, file, iface, sent, jobVars, cycleVars, direct, newsVars>>
  BY DEF BootRewrite
<1>2. "boot" \in Callers \ Cycles
  BY PeersAssumption DEF Callers
<1>3. Missed' /\ \A p \in Peers : OnItsWay(p)'
  BY <1>1, <1>2, Grown
<1>4. Wanted \subseteq Peers
  BY WantedOn
<1> QED BY <1>1, <1>2, <1>3, <1>4, StandStill

\* The interface gets what the file holds, and what is in both stays, or it is lost and
\* what the file held is blamed.
LEMMA InterfaceWindows == ASSUME WInv, IInv', InterfaceRestarts PROVE WInv'
<1>1. UNCHANGED <<tableVars, file, chainVars, jobVars, cycleVars, restVars, newsVars>>
  BY DEF InterfaceRestarts
<1>2. PICK S \in SUBSET Peers :
        /\ Blame(S) /\ \A p \in iface' : p \in S \/ p \in Wanted
        /\ \A p \in Wanted \ S : p \in file => p \in iface'
  <2>1. CASE iface' = file /\ Blame(file \ Wanted)
    BY <2>1 DEF WInv, IInv, TypeOK
  <2>2. CASE iface' = {} /\ Blame(file \cap Wanted)
    BY <2>2 DEF WInv, IInv, TypeOK
  <2> QED BY <2>1, <2>2 DEF InterfaceRestarts
<1>3. Missed'
  BY <1>1 DEF WInv, Missed, chainVars, cycleVars, tableVars, newsVars, Wanted, On, Unchanged
<1>4. \A p \in Wanted : p \notin S /\ OnItsWay(p) => OnItsWay(p)'
  BY <1>1, <1>2 DEF OnItsWay, chainVars, restVars
<1> QED BY <1>1, <1>2, <1>3, <1>4, StandStill DEF chainVars

\* A stuttering step.
LEMMA StutterWindows == ASSUME WInv, UNCHANGED vars PROVE WInv'
<1>1. IInv'
  BY StutterStep DEF WInv
<1>2. CyclesApart' /\ SeenAlike' /\ DeniedLeave' /\ Missed' /\ AllowedArrive'
  BY DEF vars, WInv, CyclesApart, SeenAlike, DeniedLeave, Missed, AllowedArrive, Dealt, Unchanged,
         Off, Out, Excused, OnItsWay, Struck, Wanted, Denied, On
<1> QED BY <1>1, <1>2 DEF WInv

-----------------------------------------------------------------------------
(* Rows and windows change *)

\* Rows change, and either a job is queued or nobody is wanted who was not.
LEMMA RowsWindows ==
    ASSUME WInv, IInv', NEW S \in SUBSET Peers, Blame(S), Notice({}),
           UNCHANGED <<open, file, iface, sent, cycleVars>>,
           \A p \in Peers : row[p] = "gone" => row'[p] = "gone",
           \/ \E q \in Requests : chain' = Append(chain, q)
           \/ chain' = chain /\ boot' = boot /\ Wanted' \subseteq Wanted
    PROVE  WInv'
<1>1. SeenAlike' /\ unseen \subseteq unseen'
  BY NewsSeenAlike, NewsUnseen
<1>c. Caught /\ outrun \subseteq outrun'
  BY KeepsOutrun
<1>2. Requests \subseteq Callers \ Cycles
  BY PeersAssumption DEF Callers
<1>3. CyclesApart'
  BY <1>2, Joined DEF cycleVars
<1>4. DeniedLeave'
  <2>1. TypeOK' /\ SentIsFile'
    BY DEF IInv
  <2>2. \A p \in Peers : open[p] /\ p \in unseen => open'[p] /\ p \in unseen'
    BY <1>1
  <2> QED BY <1>1, <1>c, <2>1, <2>2, LeaveKept
<1>5. Wanted' \subseteq Peers
  BY DEF Wanted, On
<1>6. Missed' /\ AllowedArrive'
  <2>1. CASE \E q \in Requests : chain' = Append(chain, q)
    <3>1. Missed' /\ \A p \in Peers : OnItsWay(p)'
      BY <1>2, <2>1, Grown
    <3> QED BY <1>5, <3>1 DEF AllowedArrive
  <2>2. CASE chain' = chain /\ boot' = boot /\ Wanted' \subseteq Wanted
    <3>1. Missed'
      BY <1>1, <1>c, <2>2 DEF WInv, Missed, cycleVars, Unchanged
    <3>2. ASSUME NEW p \in Wanted', p \notin Struck'
          PROVE  /\ OnItsWay(p)' \/ p \in lastDenied
                 /\ \A c \in Cycles : Unchanged(c) /\ p \notin cycle[c].current => OnItsWay(p)'
      <4>1. CASE p \in Struck
        BY <1>c, <3>2, <4>1, Righted DEF OnItsWay
      <4>2. CASE p \notin Struck
        BY <2>2, <3>2, <4>2 DEF WInv, AllowedArrive, OnItsWay
      <4> QED BY <4>1, <4>2
    <3> QED BY <3>1, <3>2 DEF AllowedArrive, cycleVars, Unchanged
  <2> QED BY <2>1, <2>2
<1> QED BY <1>1, <1>3, <1>4, <1>6 DEF WInv

\* A request changes rows, but none of a peer that is gone, and queues a job.
LEMMA MutateWindows ==
    ASSUME WInv, IInv', NEW q \in Requests, NEW rows, NEW S, NEW F \in SUBSET Peers,
           Mutate(q, rows, S, F), \A p \in Peers : row[p] = "gone" => rows[p] = "gone"
    PROVE  WInv'
<1>1. /\ row' = rows /\ chain' = Append(chain, q) /\ Notice({}) /\ Blame(F)
      /\ UNCHANGED <<open, file, iface, sent, cycleVars, restVars>>
  BY DEF Mutate
<1> QED BY <1>1, RowsWindows

\* One case for each step of a request.
LEMMA RequestWindows ==
    ASSUME WInv, IInv', NEW q \in Requests, RequestStep(q)
    PROVE  WInv'
<1>1. CASE \E p \in Peers : Create(q, p)
  BY <1>1, MutateWindows DEF Create, Set
<1>2. CASE \E p \in Peers : Toggle(q, p)
  BY <1>2, MutateWindows DEF Toggle, Set, Existing
<1>3. CASE \E p \in Peers : \E status \in {"on", "off", row[p]} : Update(q, p, status)
  <2>1. PICK p \in Peers, status \in {"on", "off"} : Update(q, p, status)
    BY <1>3 DEF Update, Existing
  <2>2. (IF status = "off" THEN {p} ELSE {}) \in SUBSET Peers
    OBVIOUS
  <2>3. p \in Existing /\ Mutate(q, Set({p}, status), {}, IF status = "off" THEN {p} ELSE {})
    BY <2>1 DEF Update
  <2>4. \A x \in Peers : row[x] = "gone" => Set({p}, status)[x] = "gone"
    BY <2>3 DEF Set, Existing
  <2> QED BY <2>2, <2>3, <2>4, MutateWindows
<1>4. CASE \E p \in Peers, ok \in BOOLEAN : RemovePeer(q, p, ok)
  BY <1>4, RemovePeerWindows
<1>5. CASE \E S \in SUBSET Peers \ {{}} : BatchEnable(q, S)
  BY <1>5, MutateWindows DEF BatchEnable, Set, Existing
<1>6. CASE \E S \in SUBSET Peers \ {{}} : BatchDisable(q, S)
  BY <1>6, MutateWindows DEF BatchDisable, Set, Existing
<1>7. CASE \E S \in SUBSET Peers \ {{}} : Delete(q, S)
  BY <1>7, MutateWindows DEF Delete, Set, Existing
<1>8. CASE \E S \in SUBSET Peers \ {{}} : Expire(q, S)
  BY <1>8, MutateWindows DEF Expire, Set, On
<1> QED
  BY <1>1, <1>2, <1>3, <1>4, <1>5, <1>6, <1>7, <1>8 DEF RequestStep

\* The licence switches peers off.
LEMMA LimitsWindows ==
    ASSUME WInv, IInv', NEW S \in SUBSET Peers, EnforceLimits(S)
    PROVE  WInv'
<1>1. /\ S \subseteq On /\ row' = Set(S, "off") /\ Notice({}) /\ Blame(S)
      /\ UNCHANGED <<open, file, iface, chainVars, jobVars, cycleVars, boot>>
  BY DEF EnforceLimits
<1>2. Wanted' \subseteq Wanted /\ \A p \in Peers : row[p] = "gone" => row'[p] = "gone"
  BY <1>1 DEF Wanted, On, Set
<1> QED BY <1>1, <1>2, RowsWindows DEF chainVars

\* A window changes: of a peer that is denied, so the reconciler knows, or of one it does
\* not know of; or it outruns the cycles.
LEMMA WindowWindows ==
    ASSUME WInv, IInv', NEW p \in Peers, WindowChanges(p)
    PROVE  WInv'
<1>1. /\ open' = [open EXCEPT ![p] = ~open[p]] /\ Notice({p}) /\ Blame({})
      /\ UNCHANGED <<row, file, iface, chainVars, jobVars, cycleVars, restVars>>
      /\ open \in [Peers -> BOOLEAN]
  BY DEF WindowChanges, WInv, IInv, TypeOK
<1>2. /\ p \in unseen => p \in outrun' /\ p \in Struck'
      /\ outrun \subseteq outrun' /\ Caught
  BY <1>1, KeepsOutrun DEF Notice, Struck
<1>3. SeenAlike' /\ unseen \subseteq unseen'
  BY <1>1, NewsSeenAlike, NewsUnseen
<1>4. /\ \A x \in Peers \ {p} : open'[x] = open[x] /\ (x \in Wanted' <=> x \in Wanted)
      /\ open'[p] = ~open[p] /\ On' = On /\ Wanted' \subseteq Peers
  BY <1>1 DEF Wanted, On
<1>5. CyclesApart'
  BY <1>1, Joined DEF cycleVars, chainVars
<1>6. \A x \in Peers : open[x] /\ x \in unseen => (open'[x] /\ x \in unseen') \/ x \in Struck'
  BY <1>2, <1>3, <1>4
<1>7. DeniedLeave'
  <2>1. TypeOK' /\ SentIsFile'
    BY DEF IInv
  <2> QED BY <1>1, <1>2, <1>3, <1>6, <2>1, LeaveKept DEF chainVars
<1>8. ASSUME p \in Wanted', p \notin outrun'
      PROVE  /\ p \in unseen' /\ p \in lastDenied
             /\ \A c \in Cycles : cycle[c].phase # "idle" => p \in cycle[c].current
  <2>1. p \in Denied /\ p \notin Denied'
    BY <1>1, <1>4, <1>8 DEF Wanted, Denied, On
  <2>2. p \in unseen' /\ p \notin unseen
    BY <1>1, <1>2, <1>8, <2>1, NewsUnseen
  <2> QED BY <2>1, <2>2 DEF WInv, SeenAlike
<1>9. Missed'
  <2> SUFFICES ASSUME sent # None, Len(chain) = 1, NEW x \in Wanted', x \notin sent, x \notin outrun'
               PROVE  /\ x \in unseen' /\ x \in lastDenied
                      /\ \A c \in Cycles : Unchanged(c) \/ c = Head(chain) => x \in cycle[c].current
    BY <1>1 DEF Missed, chainVars, cycleVars, Unchanged
  <2>1. CASE x = p
    <3>1. \A c \in Cycles : Unchanged(c) => cycle[c].phase # "idle"
      BY DEF Unchanged
    <3>2. \A c \in Cycles : c = Head(chain) => cycle[c].phase # "idle"
      <4>1. 1 \in DOMAIN chain /\ Head(chain) = chain[1]
        BY DEF WInv, IInv, TypeOK
      <4> QED BY <4>1 DEF WInv, CyclesApart
    <3> QED BY <1>8, <2>1, <3>1, <3>2
  <2>2. CASE x # p
    <3>1. x \in Wanted /\ x \notin outrun
      BY <1>2, <1>4, <2>2
    <3> QED BY <1>3, <3>1 DEF WInv, Missed
  <2> QED BY <2>1, <2>2
<1>10. AllowedArrive'
  <2> SUFFICES ASSUME NEW x \in Wanted', x \notin Struck'
               PROVE  /\ OnItsWay(x)' \/ x \in lastDenied
                      /\ \A c \in Cycles : Unchanged(c) /\ x \notin cycle[c].current => OnItsWay(x)'
    BY <1>1 DEF AllowedArrive, cycleVars, Unchanged
  <2>1. CASE x = p
    BY <1>8, <2>1 DEF Unchanged, Struck
  <2>2. CASE x # p /\ x \in Struck
    BY <1>1, <1>2, <2>2, Righted DEF OnItsWay
  <2>3. CASE x # p /\ x \notin Struck
    <3>1. x \in Wanted \ Struck /\ (OnItsWay(x) => OnItsWay(x)')
      BY <1>1, <1>4, <2>3 DEF OnItsWay, chainVars, restVars
    <3> QED BY <3>1 DEF WInv, AllowedArrive
  <2> QED BY <2>1, <2>2, <2>3
<1> QED BY <1>3, <1>5, <1>7, <1>9, <1>10 DEF WInv

-----------------------------------------------------------------------------
(* Jobs end *)

\* The caller of a job that has ended: a cycle has then settled.
LEMMA Answered ==
    ASSUME WInv, chain # <<>>, Answer
    PROVE  /\ chain' = Tail(chain) /\ sent' = None /\ UNCHANGED <<tableVars, todo>>
           /\ CyclesApart' /\ SeenAlike'
           /\ \/ Head(chain) \notin Cycles /\ UNCHANGED <<cycleVars, newsVars>>
              \/ /\ Head(chain) \in Cycles /\ cycle[Head(chain)].phase = "rewriting"
                 /\ cycle' = [cycle EXCEPT ![Head(chain)] = Idle]
                 /\ Settle(Head(chain), cycle[Head(chain)].current)
           /\ Caught
           /\ Len(chain) # 1 => chain' # <<>>
<1>1. /\ chain' = Tail(chain) /\ sent' = None /\ UNCHANGED <<tableVars, todo>>
      /\ IF Head(chain) \in Cycles
         THEN /\ cycle' = [cycle EXCEPT ![Head(chain)] = Idle]
              /\ Settle(Head(chain), cycle[Head(chain)].current)
         ELSE UNCHANGED <<cycleVars, newsVars>>
  BY DEF Answer
<1>2. /\ chain \in Seq(Callers) /\ CyclesApart /\ cycle \in [Cycles -> Cycle] /\ SeenAlike /\ TypeOK
  BY DEF WInv, IInv, TypeOK
<1>3. /\ Len(chain) \in Nat \ {0} /\ DOMAIN chain = 1..Len(chain) /\ Head(chain) = chain[1]
      /\ 1 \in DOMAIN chain /\ chain' \in Seq(Callers) /\ Len(chain') = Len(chain) - 1
      /\ DOMAIN chain' = 1..(Len(chain) - 1)
      /\ \A k \in 1..(Len(chain) - 1) : chain'[k] = chain[k + 1] /\ k + 1 \in DOMAIN chain /\ k + 1 # 1
  <2>1. Len(chain) \in Nat /\ Len(chain) # 0 /\ DOMAIN chain = 1..Len(chain) /\ Head(chain) = chain[1]
    BY <1>2
  <2>2. /\ chain' \in Seq(Callers) /\ Len(chain') = Len(chain) - 1
        /\ \A k \in 1..(Len(chain) - 1) : chain'[k] = chain[k + 1]
    BY <1>1, <1>2, <2>1, HeadTailProperties
  <2> QED BY <2>1, <2>2
<1>4. Head(chain) \in Cycles => cycle[Head(chain)].phase = "rewriting"
  BY <1>2, <1>3 DEF CyclesApart
<1>5. \A k \in DOMAIN chain' :
        /\ chain'[k] = chain[k + 1] /\ k + 1 \in DOMAIN chain
        /\ chain'[k] \in Cycles => chain'[k] # Head(chain)
  BY <1>2, <1>3 DEF CyclesApart
<1>6. \A k, l \in DOMAIN chain' : k + 1 = l + 1 => k = l
  BY <1>3
<1>7. \A c \in Cycles : c # Head(chain) => cycle'[c] = cycle[c]
  BY <1>1, <1>2 DEF cycleVars
<1>8. Head(chain) \in Cycles => cycle'[Head(chain)] = Idle
  BY <1>1, <1>2
<1>9. CyclesApart'
  <2>1. \A c \in Cycles : /\ cycle'[c].phase = "idle" => cycle'[c].current = {}
                          /\ cycle'[c].phase = "removing" => cycle'[c].changed
                          /\ cycle'[c].phase # "removing" => cycle'[c].rest = {}
    BY <1>2, <1>7, <1>8 DEF CyclesApart, Idle
  <2>2. \A k \in DOMAIN chain' : chain'[k] \in Cycles => cycle'[chain'[k]].phase = "rewriting"
    BY <1>2, <1>5, <1>7 DEF CyclesApart
  <2>3. \A k, l \in DOMAIN chain' : chain'[k] = chain'[l] /\ chain'[k] \in Cycles => k = l
    <3> SUFFICES ASSUME NEW k \in DOMAIN chain', NEW l \in DOMAIN chain',
                        chain'[k] = chain'[l], chain'[k] \in Cycles
                 PROVE  k = l
      OBVIOUS
    <3>1. k + 1 = l + 1
      BY <1>2, <1>5 DEF CyclesApart
    <3> QED BY <1>6, <3>1
  <2> QED BY <2>1, <2>2, <2>3 DEF CyclesApart
<1>10. Denied' = Denied
  BY <1>1 DEF tableVars, Denied, Wanted, On
<1>11. SeenAlike'
  <2>1. CASE Head(chain) \in Cycles
    <3> DEFINE h == Head(chain)
    <3>1. /\ lastDenied' = cycle[h].current /\ unseen' \subseteq unseen
          /\ \A p \in unseen \ unseen' : p \in cycle[h].current <=> p \in Denied
          /\ unseen' # unseen => \A d \in Cycles \ {h} : cycle[d].phase = "idle"
      BY <1>1, <1>2, <2>1, SettledSeen
    <3>2. cycle[h].phase = "rewriting" /\ cycle'[h].phase = "idle"
      BY <1>4, <1>8, <2>1 DEF Idle
    <3> HIDE DEF h
    <3>3. \A d \in Cycles : cycle'[d].phase # "idle" => d # h
      BY <3>2
    <3>4. \A d \in Cycles \ {h} : cycle'[d] = cycle[d]
      BY <1>7 DEF h
    <3>5. h \in Cycles
      BY <2>1 DEF h
    <3> QED BY <1>2, <1>10, <3>1, <3>2, <3>3, <3>4, <3>5 DEF SeenAlike
  <2>2. CASE Head(chain) \notin Cycles
    BY <1>1, <1>2, <1>10, <2>2 DEF SeenAlike, cycleVars, newsVars
  <2> QED BY <2>1, <2>2
<1>12. Len(chain) # 1 => chain' # <<>>
  BY <1>3
<1>13. Caught
  BY <1>1, <1>2, SettledSeen, KeepsOutrun
<1> QED BY <1>1, <1>4, <1>9, <1>11, <1>12, <1>13

\* A job ends: whom it has brought is on the interface, and whom it has brought back is blamed.
LEMMA AnswerWindows ==
    ASSUME WInv, IInv', chain # <<>>, Answer, NEW S \in SUBSET Peers, Blame(S),
           UNCHANGED <<file, boot>>,
           \A p \in iface' : p \in iface \cup S \/ (sent # None /\ p \in sent),
           \A p \in iface' : (sent # None /\ p \in sent) /\ (\E c \in Cycles : p \in cycle[c].current)
                                => p \in S,
           \A p \in Wanted \ S : sent # None /\ (p \in sent => p \in iface')
    PROVE  WInv'
<1> DEFINE h == Head(chain)
<1>1. /\ chain' = Tail(chain) /\ sent' = None /\ UNCHANGED <<tableVars, todo>>
      /\ CyclesApart' /\ SeenAlike'
      /\ \/ h \notin Cycles /\ UNCHANGED <<cycleVars, newsVars>>
         \/ /\ h \in Cycles /\ cycle[h].phase = "rewriting" /\ cycle' = [cycle EXCEPT ![h] = Idle]
            /\ Settle(h, cycle[h].current)
      /\ Caught
      /\ Len(chain) # 1 => chain' # <<>>
  BY Answered
<1> HIDE DEF h
<1>2. /\ row' = row /\ open' = open /\ Wanted' = Wanted /\ Denied' = Denied
      /\ Wanted \subseteq Peers /\ \A p \in Wanted : p \notin Denied
      /\ \A p \in Denied : ~open[p]
  BY <1>1 DEF tableVars, Wanted, Denied, On
<1>3. /\ TypeOK /\ SentIsFile /\ SentIsFile' /\ CyclesApart /\ DeniedLeave
      /\ cycle \in [Cycles -> Cycle] /\ lastDenied \in SUBSET Peers
      /\ \A c \in Cycles : cycle[c].current \in SUBSET Peers
      /\ iface' \in SUBSET Peers
  BY DEF WInv, IInv, TypeOK, Cycle
<1>4. h \in Cycles =>
        /\ lastDenied' = cycle[h].current
        /\ \A p \in unseen : (p \in cycle[h].current) # (p \in Denied) => p \in unseen'
        /\ unseen' # unseen => \A d \in Cycles \ {h} : cycle[d].phase = "idle"
        /\ cycle'[h] = Idle /\ Dealt(h) = cycle[h].current
        /\ \A d \in Cycles \ {h} : cycle'[d] = cycle[d]
  <2> SUFFICES ASSUME h \in Cycles PROVE
        /\ lastDenied' = cycle[h].current
        /\ \A p \in unseen : (p \in cycle[h].current) # (p \in Denied) => p \in unseen'
        /\ unseen' # unseen => \A d \in Cycles \ {h} : cycle[d].phase = "idle"
        /\ cycle'[h] = Idle /\ Dealt(h) = cycle[h].current
        /\ \A d \in Cycles \ {h} : cycle'[d] = cycle[d]
    OBVIOUS
  <2>1. cycle[h].rest = {} /\ cycle[h].victim = None
    BY <1>1, <1>3 DEF CyclesApart, TypeOK
  <2>2. Dealt(h) = cycle[h].current
    BY <1>3, <2>1, PeersAssumption DEF Dealt
  <2> QED BY <1>1, <1>3, <2>2, SettledSeen
<1>5. h \notin Cycles => lastDenied' = lastDenied /\ cycle' = cycle /\ unseen' = unseen
  BY <1>1 DEF cycleVars, newsVars
<1>6. \A p \in lastDenied' : Out(p)'
  <2> SUFFICES ASSUME NEW p \in lastDenied' PROVE Off(p)'
    BY <1>1 DEF Off, Out
  <2>1. p \in Peers /\ (p \in Wanted' => p \in unseen')
    BY <1>1, <1>2, <1>3, <1>4, <1>5 DEF SeenAlike
  <2>2. Off(p) /\ (open[p] /\ p \in unseen => p \in unseen')
    <3>1. CASE h \in Cycles
      BY <1>2, <1>3, <1>4, <3>1 DEF DeniedLeave
    <3>2. CASE h \notin Cycles
      BY <1>3, <1>5, <3>2 DEF DeniedLeave, Out, Off
    <3> QED BY <3>1, <3>2
  <2>3. p \in iface' => p \in iface \cup S \/ p \in Wanted' \/ Excused(p)
    <3>1. CASE h \in Cycles
      BY <1>4, <3>1
    <3>2. CASE h \notin Cycles
      BY <1>3, <1>5, <3>2 DEF DeniedLeave, Out
    <3> QED BY <3>1, <3>2
  <2> QED BY <1>1, <1>2, <1>3, <2>1, <2>2, <2>3, OutKept
<1>7. ASSUME NEW c \in Cycles, NEW p \in Dealt(c)' PROVE Off(p)' /\ Out(p)'
  <2>1. cycle'[c] = cycle[c] /\ (h \in Cycles => c # h)
    <3>1. CASE h \in Cycles
      BY <1>4, <1>7, <3>1 DEF Dealt, Idle
    <3>2. CASE h \notin Cycles
      BY <1>5, <3>2
    <3> QED BY <3>1, <3>2
  <2>2. p \in Dealt(c) /\ p \in cycle[c].current /\ cycle'[c].phase # "idle"
    BY <1>1, <1>7, <2>1 DEF Dealt, CyclesApart
  <2>3. p \in Peers /\ Off(p) /\ unseen' = unseen
    BY <1>3, <1>4, <1>5, <2>1, <2>2 DEF DeniedLeave
  <2>4. p \in Wanted' => p \in unseen'
    BY <1>1, <1>2, <2>1, <2>2, <2>3 DEF SeenAlike
  <2>5. p \in iface' => p \in iface \cup S
    BY <2>2
  <2>6. Off(p)'
    BY <1>1, <1>2, <1>3, <2>3, <2>4, <2>5, OutKept
  <2> QED BY <1>1, <2>6 DEF Off, Out
<1>8. DeniedLeave'
  BY <1>6, <1>7 DEF DeniedLeave
<1>9. ASSUME NEW p \in Wanted, p \notin Struck'
      PROVE  /\ OnItsWay(p)' \/ p \in lastDenied'
             /\ \A c \in Cycles : Unchanged(c)' /\ p \notin cycle'[c].current => OnItsWay(p)'
  <2>1. CASE p \in Struck \cup S
    BY <1>1, <1>2, <1>9, <2>1, Righted DEF OnItsWay
  <2>2. CASE p \notin Struck \cup S /\ Len(chain) # 1
    BY <1>1, <2>2 DEF OnItsWay
  <2>3. CASE p \notin Struck \cup S /\ Len(chain) = 1
    <3>1. sent # None /\ sent = file /\ file' = file /\ (p \in sent => p \in iface')
      BY <1>3, <2>3 DEF SentIsFile
    <3>2. CASE p \in sent
      BY <3>1, <3>2 DEF OnItsWay
    <3>3. CASE p \notin sent
      <4>1. /\ p \in lastDenied
            /\ \A c \in Cycles : Unchanged(c) \/ c = h => p \in cycle[c].current
        BY <2>3, <3>1, <3>3 DEF WInv, Missed, Struck, h
      <4>2. p \in lastDenied'
        BY <1>4, <1>5, <4>1
      <4>3. ASSUME NEW c \in Cycles, Unchanged(c)' PROVE p \in cycle'[c].current
        BY <1>4, <1>5, <4>1, <4>3 DEF Unchanged, Idle
      <4> QED BY <4>2, <4>3
    <3> QED BY <3>2, <3>3
  <2> QED BY <2>1, <2>2, <2>3
<1>10. AllowedArrive'
  BY <1>2, <1>9 DEF AllowedArrive
<1>11. Missed'
  BY <1>1 DEF Missed
<1> QED BY <1>1, <1>8, <1>10, <1>11 DEF WInv

\* syncconf ends.
LEMMA SyncEndsWindows ==
    ASSUME WInv, IInv', NEW ok \in BOOLEAN, SyncEnds(ok)
    PROVE  WInv'
<1> DEFINE S == IF ~ok THEN Peers ELSE {p \in sent : \E c \in Cycles : p \in cycle[c].current}
<1>1. /\ sent # None /\ Answer /\ UNCHANGED <<file, restVars>> /\ Blame(S)
      /\ IF ok THEN Synced(sent) ELSE iface' = iface
  BY DEF SyncEnds
<1>2. chain # <<>> /\ sent \in SUBSET Peers /\ iface \in SUBSET Peers
  BY <1>1 DEF WInv, IInv, TypeOK
<1>3. S \in SUBSET Peers
  BY <1>2
<1>4. ok => sent \subseteq iface' /\ iface' \subseteq iface \cup sent
  BY <1>1 DEF Synced
<1>5. \A p \in iface' : p \in iface \cup S \/ (sent # None /\ p \in sent)
  BY <1>1, <1>2, <1>4
<1>6. \A p \in iface' : (sent # None /\ p \in sent) /\ (\E c \in Cycles : p \in cycle[c].current)
                            => p \in S
  BY <1>2
<1>7. \A p \in Wanted \ S : sent # None /\ (p \in sent => p \in iface')
  BY <1>1, <1>4, WantedOn
<1> HIDE DEF S
<1> QED BY <1>1, <1>2, <1>3, <1>5, <1>6, <1>7, AnswerWindows DEF restVars

\* A rewrite that fails blames everybody.
LEMMA RewriteFailsWindows == ASSUME WInv, IInv', RewriteFails PROVE WInv'
<1>1. chain # <<>> /\ Answer /\ UNCHANGED <<file, iface, restVars>> /\ Blame(Peers)
  BY DEF RewriteFails
<1>2. Wanted \subseteq Peers /\ iface' \subseteq Peers
  BY WantedOn DEF IInv, TypeOK
<1> QED BY <1>1, <1>2, AnswerWindows DEF restVars

-----------------------------------------------------------------------------
(* Cycles go on *)

\* A cycle that goes on or is over, and queues nothing.
LEMMA GoesOn ==
    ASSUME WInv, IInv', NEW c \in Cycles, NEW w \in Cycle, NEW S \in SUBSET Peers, Blame(S),
           UNCHANGED <<tableVars, file, sent, chain>>, cycle' = [cycle EXCEPT ![c] = w],
           cycle[c].phase # "rewriting",
           iface' \subseteq iface, \A p \in iface \ iface' : p \in Wanted => p \in S,
           boot # "done" => boot' # "done",
           /\ w.phase = "idle" => w.current = {}
           /\ w.phase = "removing" => w.changed
           /\ w.phase # "removing" => w.rest = {},
           SeenAlike', Caught,
           \/ unseen' = unseen
           \/ /\ w.current = {} /\ \A d \in Cycles \ {c} : cycle[d].phase = "idle"
              /\ \A p \in lastDenied' : open[p] /\ p \in unseen => p \in unseen',
           \A p \in lastDenied' : Out(p),
           \A p \in w.current \ (w.rest \cup {w.victim}) :
               /\ Off(p) \/ p \in S \/ p \notin iface'
               /\ w.phase = "caddy" /\ ~w.changed => Out(p),
           \A p \in Wanted \ Struck :
               /\ OnItsWay(p) \/ p \in lastDenied'
               /\ w.phase = "caddy" /\ ~w.changed /\ p \notin w.current => OnItsWay(p),
           sent # None /\ Len(chain) = 1 =>
               \A p \in Wanted \ (sent \cup outrun') :
                   /\ p \in unseen' /\ p \in lastDenied'
                   /\ w.phase = "caddy" /\ ~w.changed => p \in w.current
    PROVE  WInv'
<1>1. /\ row' = row /\ open' = open /\ Wanted' = Wanted /\ Denied' = Denied
      /\ Wanted \subseteq Peers /\ \A p \in Wanted : p \notin Denied
      /\ sent' = sent /\ chain' = chain /\ file' = file
  BY DEF tableVars, Wanted, Denied, On
<1>2. /\ TypeOK /\ SentIsFile /\ SentIsFile' /\ CyclesApart /\ DeniedLeave
      /\ cycle \in [Cycles -> Cycle] /\ lastDenied' \in SUBSET Peers
      /\ \A d \in Cycles : cycle'[d].current \in SUBSET Peers
      /\ iface' \in SUBSET Peers
  BY DEF WInv, IInv, TypeOK, Cycle
<1>3. cycle'[c] = w /\ \A d \in Cycles \ {c} : cycle'[d] = cycle[d]
  BY <1>2
<1>4. CyclesApart'
  <2>1. \A d \in Cycles : /\ cycle'[d].phase = "idle" => cycle'[d].current = {}
                          /\ cycle'[d].phase = "removing" => cycle'[d].changed
                          /\ cycle'[d].phase # "removing" => cycle'[d].rest = {}
    BY <1>2, <1>3 DEF CyclesApart
  <2>2. \A k \in DOMAIN chain : chain[k] \in Cycles => cycle'[chain[k]].phase = "rewriting"
    BY <1>2, <1>3 DEF CyclesApart
  <2> QED BY <1>1, <1>2, <2>1, <2>2 DEF CyclesApart
<1>5. \A p \in lastDenied' : Out(p)'
  <2> SUFFICES ASSUME NEW p \in lastDenied' PROVE Out(p)'
    OBVIOUS
  <2>1. p \in Peers /\ (p \in Wanted' => p \in unseen')
    BY <1>1, <1>2 DEF SeenAlike
  <2>2. Out(p) /\ (open[p] /\ p \in unseen => p \in unseen')
    OBVIOUS
  <2> QED BY <1>1, <1>2, <2>1, <2>2, OutKept
<1>6. ASSUME NEW d \in Cycles, NEW p \in Dealt(d)'
      PROVE  Off(p)' /\ (Unchanged(d)' => Out(p)')
  <2>1. p \in cycle'[d].current /\ p \in Peers /\ cycle'[d].phase # "idle"
    BY <1>2, <1>4, <1>6 DEF Dealt, CyclesApart
  <2>2. unseen' = unseen
    BY <1>3, <2>1
  <2>3. p \in Wanted' => p \in unseen'
    BY <1>1, <2>1 DEF SeenAlike
  <2>4. /\ Off(p) \/ p \in S \/ p \notin iface'
        /\ Unchanged(d)' => Out(p)
    <3>1. CASE d = c
      BY <1>3, <1>6, <3>1 DEF Dealt, Unchanged
    <3>2. CASE d # c
      BY <1>2, <1>3, <1>6, <3>2 DEF Dealt, Unchanged, DeniedLeave
    <3> QED BY <3>1, <3>2
  <2> QED BY <1>1, <1>2, <2>1, <2>2, <2>3, <2>4, OutKept
<1>7. DeniedLeave'
  BY <1>5, <1>6 DEF DeniedLeave
<1>8. ASSUME NEW p \in Wanted, p \notin Struck'
      PROVE  /\ OnItsWay(p)' \/ p \in lastDenied'
             /\ \A d \in Cycles : Unchanged(d)' /\ p \notin cycle'[d].current => OnItsWay(p)'
  <2>1. CASE p \in Struck \cup S
    BY <1>1, <1>8, <2>1, Righted DEF OnItsWay
  <2>2. CASE p \notin Struck \cup S
    <3>1. OnItsWay(p) => OnItsWay(p)'
      BY <1>1, <2>2 DEF OnItsWay
    <3>2. \A d \in Cycles : Unchanged(d)' /\ p \notin cycle'[d].current => OnItsWay(p)
      BY <1>3, <2>2 DEF Unchanged, WInv, AllowedArrive
    <3> QED BY <2>2, <3>1, <3>2
  <2> QED BY <2>1, <2>2
<1>9. AllowedArrive'
  BY <1>1, <1>8 DEF AllowedArrive
<1>10. Missed'
  <2> SUFFICES ASSUME sent # None, Len(chain) = 1, NEW p \in Wanted, p \notin sent, p \notin outrun'
               PROVE  /\ p \in unseen' /\ p \in lastDenied'
                      /\ \A d \in Cycles : Unchanged(d)' \/ d = Head(chain) => p \in cycle'[d].current
    BY <1>1 DEF Missed
  <2>1. Head(chain) = chain[1] /\ 1 \in DOMAIN chain
    BY <1>2 DEF TypeOK
  <2>2. Head(chain) # c
    BY <1>2, <2>1 DEF CyclesApart
  <2>3. p \notin outrun
    BY <1>1, <1>2 DEF Caught, Right, SentIsFile
  <2>4. \A d \in Cycles : Unchanged(d) \/ d = Head(chain) => p \in cycle[d].current
    BY <2>3 DEF WInv, Missed
  <2> QED BY <1>3, <2>2, <2>4 DEF Unchanged
<1> QED BY <1>4, <1>7, <1>9, <1>10 DEF WInv

\* A cycle that queues a rewrite.
LEMMA Queues ==
    ASSUME WInv, IInv', NEW c \in Cycles, NEW w \in Cycle, NEW S \in SUBSET Peers, Blame(S),
           UNCHANGED <<tableVars, file, sent, lastDenied, newsVars>>, chain' = Append(chain, c),
           cycle' = [cycle EXCEPT ![c] = w], cycle[c].phase # "rewriting",
           w.phase = "rewriting", w.rest = {},
           iface' \subseteq iface,
           SeenAlike',
           \A p \in w.current : Off(p) \/ p \in S \/ p \notin iface'
    PROVE  WInv'
<1>1. /\ row' = row /\ open' = open /\ Wanted' = Wanted /\ Denied' = Denied /\ unseen' = unseen
      /\ Wanted \subseteq Peers /\ \A p \in Wanted : p \notin Denied
  BY DEF tableVars, newsVars, Wanted, Denied, On
<1>2. /\ TypeOK /\ SentIsFile' /\ CyclesApart /\ DeniedLeave /\ chain \in Seq(Callers)
      /\ cycle \in [Cycles -> Cycle] /\ lastDenied' \in SUBSET Peers
      /\ \A d \in Cycles : cycle'[d].current \in SUBSET Peers
      /\ iface' \in SUBSET Peers
  BY DEF WInv, IInv, TypeOK, Cycle
<1>3. cycle'[c] = w /\ \A d \in Cycles \ {c} : cycle'[d] = cycle[d]
  BY <1>2
<1>c. Caught
  BY KeepsOutrun
<1>4. c \in Callers
  BY DEF Callers
<1>5. CyclesApart'
  <2>1. \A d \in Cycles : /\ cycle'[d].phase = "idle" => cycle'[d].current = {}
                          /\ cycle'[d].phase = "removing" => cycle'[d].changed
                          /\ cycle'[d].phase # "removing" => cycle'[d].rest = {}
    BY <1>2, <1>3 DEF CyclesApart
  <2>2. DOMAIN chain' = 1..(Len(chain)+1) /\ DOMAIN chain = 1..Len(chain) /\ Len(chain) \in Nat
    BY <1>2, <1>4
  <2>3. (\A k \in 1..Len(chain) : chain'[k] = chain[k]) /\ chain'[Len(chain) + 1] = c
    BY <1>2, <1>4, <2>2, AppendProperties
  <2>4. \A k \in 1..(Len(chain) + 1) : k \in 1..Len(chain) \/ k = Len(chain) + 1
    BY <2>2
  <2>5. \A k \in 1..Len(chain) : chain[k] # c
    BY <1>2, <2>2 DEF CyclesApart
  <2>6. \A k \in DOMAIN chain' : chain'[k] \in Cycles => cycle'[chain'[k]].phase = "rewriting"
    BY <1>2, <1>3, <2>2, <2>3, <2>4, <2>5 DEF CyclesApart
  <2>7. \A k, l \in DOMAIN chain' : chain'[k] = chain'[l] /\ chain'[k] \in Cycles => k = l
    BY <1>2, <2>2, <2>3, <2>4, <2>5 DEF CyclesApart
  <2> QED BY <2>1, <2>6, <2>7 DEF CyclesApart
<1>6. \A p \in lastDenied' : Out(p)'
  <2> SUFFICES ASSUME NEW p \in lastDenied' PROVE Out(p)'
    OBVIOUS
  <2>1. p \in Peers /\ (p \in Wanted' => p \in unseen') /\ Out(p)
    BY <1>1, <1>2 DEF SeenAlike, DeniedLeave
  <2> QED BY <1>1, <1>2, <1>c, <2>1, OutKept
<1>7. ASSUME NEW d \in Cycles, NEW p \in Dealt(d)'
      PROVE  Off(p)' /\ (Unchanged(d)' => Out(p)')
  <2>1. p \in cycle'[d].current /\ p \in Peers /\ cycle'[d].phase # "idle"
    BY <1>2, <1>5, <1>7 DEF Dealt, CyclesApart
  <2>2. p \in Wanted' => p \in unseen'
    BY <1>1, <2>1 DEF SeenAlike
  <2>3. /\ Off(p) \/ p \in S \/ p \notin iface'
        /\ Unchanged(d)' => Out(p)
    <3>1. CASE d = c
      BY <1>3, <1>7, <3>1 DEF Dealt, Unchanged
    <3>2. CASE d # c
      BY <1>2, <1>3, <1>7, <3>2 DEF Dealt, Unchanged, DeniedLeave
    <3> QED BY <3>1, <3>2
  <2> QED BY <1>1, <1>2, <1>c, <2>1, <2>2, <2>3, OutKept
<1>8. DeniedLeave'
  BY <1>6, <1>7 DEF DeniedLeave
<1>9. Missed' /\ \A p \in Peers : OnItsWay(p)'
  BY <1>4, Grown
<1>10. AllowedArrive'
  BY <1>1, <1>9 DEF AllowedArrive
<1> QED BY <1>5, <1>8, <1>9, <1>10 DEF WInv

\* Steps 4 and 5 of a cycle.
LEMMA PushWindows ==
    ASSUME WInv, IInv', NEW c \in Cycles, NEW current \in SUBSET Peers, NEW changed \in BOOLEAN,
           NEW S \in SUBSET Peers, Blame(S), PushPeers(c, current, changed),
           UNCHANGED <<tableVars, file, sent>>, cycle[c].phase # "rewriting",
           iface' \subseteq iface, \A p \in iface \ iface' : p \in Wanted => p \in S,
           boot # "done" => boot' # "done",
           \A p \in Peers \ unseen : p \in current <=> p \in Denied,
           \A p \in current : Off(p) \/ p \in S \/ p \notin iface',
           ~changed => /\ \A p \in current : Out(p)
                       /\ \A p \in Wanted \ (Struck \cup current) : OnItsWay(p)
                       /\ sent # None /\ Len(chain) = 1 => Wanted \ (sent \cup outrun) \subseteq current
    PROVE  WInv'
<1>1. /\ TypeOK /\ cycle \in [Cycles -> Cycle] /\ SeenAlike /\ Missed /\ CyclesApart
      /\ Denied' = Denied /\ \A p \in Wanted : p \notin Denied
      /\ \A p \in Denied : ~open[p]
      /\ Wanted' = Wanted /\ Wanted \subseteq Peers /\ file' = file
  BY DEF WInv, IInv, TypeOK, tableVars, Denied, Wanted, On
<1>2. CASE changed
  <2> DEFINE w == [Idle EXCEPT !.phase = "rewriting", !.current = current]
  <2>1. cycle' = [cycle EXCEPT ![c] = w] /\ chain' = Append(chain, c) /\ UNCHANGED <<lastDenied, newsVars>>
    BY <1>2 DEF PushPeers
  <2>2. w \in Cycle /\ w.phase = "rewriting" /\ w.rest = {} /\ w.current = current
    BY DEF Idle, Cycle
  <2> HIDE DEF w
  <2>3. SeenAlike'
    <3>1. cycle'[c] = w /\ \A d \in Cycles \ {c} : cycle'[d] = cycle[d]
      BY <1>1, <2>1
    <3>2. unseen' = unseen
      BY <2>1 DEF newsVars
    <3> QED BY <1>1, <2>1, <2>2, <3>1, <3>2 DEF SeenAlike
  <2> QED BY <2>1, <2>2, <2>3, Queues
<1>3. CASE ~changed
  <2>1. cycle' = [cycle EXCEPT ![c] = Idle] /\ Settle(c, current) /\ chain' = chain
    BY <1>3 DEF PushPeers
  <2>2. Idle \in Cycle /\ Idle.phase = "idle" /\ Idle.current = {} /\ Idle.rest = {}
    BY DEF Idle, Cycle
  <2>3. /\ lastDenied' = current /\ unseen' \subseteq unseen
        /\ \A p \in unseen : (p \in current) # (p \in Denied) => p \in unseen'
        /\ \A p \in unseen \ unseen' : p \in current <=> p \in Denied
        /\ unseen' # unseen => \A d \in Cycles \ {c} : cycle[d].phase = "idle"
        /\ Caught
    BY <1>1, <2>1, SettledSeen
  <2>4. cycle'[c] = Idle /\ \A d \in Cycles \ {c} : cycle'[d] = cycle[d]
    BY <1>1, <2>1
  <2>5. SeenAlike'
    <3>1. \A d \in Cycles : cycle'[d].phase # "idle" => d # c
      BY <2>2, <2>4
    <3> QED BY <1>1, <2>3, <2>4, <3>1 DEF SeenAlike
  <2>6. \A p \in lastDenied' : open[p] /\ p \in unseen => p \in unseen'
    BY <1>1, <2>3
  <2>7. sent # None /\ Len(chain) = 1 => \A p \in Wanted \ (sent \cup outrun') : p \in unseen' /\ p \in lastDenied'
    <3>1. sent # None => Wanted \ (sent \cup outrun') \subseteq Wanted \ (sent \cup outrun)
      BY <1>1, <2>3 DEF Caught, Right, WInv, IInv, SentIsFile
    <3> QED BY <1>1, <1>3, <2>3, <3>1 DEF Missed
  <2>8. \A p \in Wanted \ Struck : OnItsWay(p) \/ p \in lastDenied'
    BY <1>3, <2>3
  <2>9. \A p \in lastDenied' : Out(p)
    BY <1>3, <2>3
  <2> QED BY <2>1, <2>2, <2>3, <2>5, <2>6, <2>7, <2>8, <2>9, GoesOn
<1> QED BY <1>2, <1>3

\* A cycle takes its next step.
LEMMA ProceedWindows ==
    ASSUME WInv, IInv', NEW c \in Cycles, NEW current \in SUBSET Peers, NEW rest \in SUBSET Peers,
           NEW S \in SUBSET Peers, Blame(S), Proceed(c, current, rest),
           UNCHANGED <<tableVars, file, sent>>, cycle[c].phase # "rewriting",
           iface' \subseteq iface, \A p \in iface \ iface' : p \in Wanted => p \in S,
           boot # "done" => boot' # "done",
           \A p \in Peers \ unseen : p \in current <=> p \in Denied,
           \A p \in current \ rest : Off(p) \/ p \in S \/ p \notin iface',
           cycle[c].changed \/ rest = current
    PROVE  WInv'
<1> DEFINE news == {p \in rest \ lastDenied : row[p] # "gone"}
<1>1. /\ TypeOK /\ cycle \in [Cycles -> Cycle] /\ SeenAlike /\ Missed /\ DeniedLeave /\ AllowedArrive
      /\ lastDenied \in SUBSET Peers /\ Denied' = Denied
  BY DEF WInv, IInv, TypeOK, tableVars, Denied, Wanted, On
<1>2. ASSUME NEW w \in Cycle, w.current = current, cycle' = [cycle EXCEPT ![c] = w],
             UNCHANGED <<lastDenied, newsVars>>
      PROVE  SeenAlike' /\ unseen' = unseen /\ outrun' = outrun /\ Caught
  <2>1. cycle'[c] = w /\ \A d \in Cycles \ {c} : cycle'[d] = cycle[d]
    BY <1>1, <1>2
  <2>2. unseen' = unseen /\ outrun' = outrun /\ Caught
    BY <1>2, KeepsOutrun DEF newsVars
  <2> QED BY <1>1, <1>2, <2>1, <2>2 DEF SeenAlike
<1>3. CASE news # {}
  <2>1. PICK p \in news :
          cycle' = [cycle EXCEPT ![c] = [phase |-> "removing", current |-> current,
                              rest |-> rest \ {p}, victim |-> p, changed |-> TRUE]]
    BY <1>3 DEF Proceed
  <2>2. UNCHANGED <<chain, lastDenied, newsVars>>
    BY <1>3 DEF Proceed
  <2> DEFINE w == [phase |-> "removing", current |-> current, rest |-> rest \ {p}, victim |-> p,
                   changed |-> TRUE]
  <2>3. /\ w \in Cycle /\ w.phase = "removing" /\ w.changed /\ w.current = current
        /\ w.rest \cup {w.victim} = rest
    BY DEF Cycle
  <2>4. cycle' = [cycle EXCEPT ![c] = w]
    BY <2>1
  <2> HIDE DEF w
  <2>5. SeenAlike' /\ unseen' = unseen /\ outrun' = outrun /\ Caught
    BY <1>2, <2>2, <2>3, <2>4
  <2>6. \A x \in Wanted \ Struck : OnItsWay(x) \/ x \in lastDenied'
    BY <1>1, <2>2 DEF AllowedArrive
  <2>7. sent # None /\ Len(chain) = 1 => \A x \in Wanted \ (sent \cup outrun') : x \in unseen' /\ x \in lastDenied'
    BY <1>1, <2>2, <2>5 DEF Missed
  <2>8. \A x \in lastDenied' : Out(x)
    BY <1>1, <2>2 DEF DeniedLeave
  <2>9. \A x \in w.current \ (w.rest \cup {w.victim}) : Off(x) \/ x \in S \/ x \notin iface'
    BY <2>3
  <2> QED BY <2>2, <2>3, <2>4, <2>5, <2>6, <2>7, <2>8, <2>9, GoesOn
<1>4. CASE news = {}
  <2>1. \A p \in rest : Out(p)
    BY <1>1, <1>4 DEF DeniedLeave, Out, Excused
  <2>2. \A p \in current : Off(p) \/ p \in S \/ p \notin iface'
    BY <2>1 DEF Out, Off
  <2>3. Transitions(c, current) \in BOOLEAN
    BY DEF Transitions, WInv, IInv, TypeOK, Cycle
  <2>4. ~Transitions(c, current) =>
          /\ \A p \in current : Out(p)
          /\ \A p \in Wanted \ (Struck \cup current) : OnItsWay(p)
          /\ sent # None /\ Len(chain) = 1 => Wanted \ (sent \cup outrun) \subseteq current
    <3>1. ASSUME ~Transitions(c, current) PROVE rest = current /\ lastDenied \subseteq current
      BY <3>1 DEF Transitions
    <3>2. ASSUME ~Transitions(c, current) PROVE \A p \in Wanted \ (Struck \cup current) : OnItsWay(p)
      BY <1>1, <3>1, <3>2 DEF AllowedArrive
    <3>3. ASSUME ~Transitions(c, current), sent # None, Len(chain) = 1
          PROVE  Wanted \ (sent \cup outrun) \subseteq current
      BY <1>1, <3>1, <3>3 DEF Missed
    <3> QED BY <2>1, <3>1, <3>2, <3>3
  <2>5. CASE PushPeers(c, current, Transitions(c, current))
    BY <2>2, <2>3, <2>4, <2>5, PushWindows
  <2>6. CASE ~PushPeers(c, current, Transitions(c, current))
    <3> DEFINE w == [Idle EXCEPT !.phase = "caddy", !.current = current, !.changed = Transitions(c, current)]
    <3>1. cycle' = [cycle EXCEPT ![c] = w] /\ UNCHANGED <<chain, lastDenied, newsVars>>
      BY <1>4, <2>6 DEF Proceed
    <3>2. /\ w \in Cycle /\ w.phase = "caddy" /\ w.rest = {} /\ w.current = current
          /\ w.changed = Transitions(c, current)
      BY <2>3 DEF Idle, Cycle
    <3> HIDE DEF w
    <3>3. SeenAlike' /\ unseen' = unseen /\ outrun' = outrun /\ Caught
      BY <1>2, <3>1, <3>2
    <3>4. \A x \in Wanted \ Struck :
            /\ OnItsWay(x) \/ x \in lastDenied'
            /\ ~w.changed /\ x \notin w.current => OnItsWay(x)
      BY <1>1, <2>4, <3>1, <3>2 DEF AllowedArrive
    <3>5. sent # None /\ Len(chain) = 1 =>
            \A x \in Wanted \ (sent \cup outrun') :
                /\ x \in unseen' /\ x \in lastDenied'
                /\ ~w.changed => x \in w.current
      BY <1>1, <2>4, <3>1, <3>2, <3>3 DEF Missed
    <3>6. \A x \in lastDenied' : Out(x)
      BY <1>1, <3>1 DEF DeniedLeave
    <3>7. \A x \in w.current \ (w.rest \cup {w.victim}) :
            (Off(x) \/ x \in S \/ x \notin iface') /\ (~w.changed => Out(x))
      BY <2>2, <2>4, <3>2
    <3>8. /\ cycle' = [cycle EXCEPT ![c] = w] /\ UNCHANGED <<tableVars, file, sent, chain>>
          /\ w.phase # "idle" /\ w.phase # "removing" /\ w.rest = {}
      BY <3>1, <3>2
    <3> QED BY <3>2, <3>3, <3>4, <3>5, <3>6, <3>7, <3>8, GoesOn
  <2> QED BY <2>5, <2>6
<1> QED BY <1>3, <1>4

\* One case for each step of a cycle.
LEMMA CycleWindows ==
    ASSUME WInv, IInv', NEW c \in Cycles, CycleStep(c)
    PROVE  WInv'
<1>1. /\ TypeOK /\ CyclesApart /\ SeenAlike /\ DeniedLeave /\ AllowedArrive /\ Missed
      /\ cycle[c].current \in SUBSET Peers /\ cycle[c].rest \in SUBSET Peers
      /\ cycle[c].changed \in BOOLEAN /\ cycle \in [Cycles -> Cycle]
      /\ cycle[c].phase = "removing" <=> cycle[c].victim # None
  BY DEF WInv, IInv, TypeOK, Cycle
<1>2. CASE StartCycle(c)
  <2>1. /\ Proceed(c, Denied, Denied) /\ Blame({}) /\ cycle[c].phase = "idle"
        /\ boot' = IF boot = "cycle" THEN "rewrite" ELSE boot
        /\ UNCHANGED <<tableVars, file, iface, sent, jobVars, direct>>
    BY <1>2 DEF StartCycle
  <2>2. Denied \in SUBSET Peers /\ (boot # "done" => boot' # "done")
    BY <2>1, WantedOn
  <2> QED BY <2>1, <2>2, ProceedWindows
<1>3. CASE \E ok \in BOOLEAN : Disconnect(c, ok)
  <2>1. PICK ok \in BOOLEAN : Disconnect(c, ok)
    BY <1>3
  <2> DEFINE S == {p \in {cycle[c].victim} : ~ok \/ p \in Wanted}
  <2>2. /\ cycle[c].phase = "removing" /\ Proceed(c, cycle[c].current, cycle[c].rest) /\ Blame(S)
        /\ iface' = IF ok THEN iface \ {cycle[c].victim} ELSE iface
        /\ UNCHANGED <<tableVars, file, sent, jobVars, restVars>>
    BY <2>1 DEF Disconnect
  <2>3. cycle[c].victim \in Peers
    BY <1>1, <2>2 DEF Cycle
  <2>4. S \in SUBSET Peers
    BY <2>3
  <2>5. iface' \subseteq iface /\ \A p \in iface \ iface' : p \in Wanted => p \in S
    BY <2>2
  <2>6. \A p \in cycle[c].current \ cycle[c].rest : Off(p) \/ p \in S \/ p \notin iface'
    <3> SUFFICES ASSUME NEW p \in cycle[c].current \ cycle[c].rest
                 PROVE  Off(p) \/ p \in S \/ p \notin iface'
      OBVIOUS
    <3>1. CASE p = cycle[c].victim
      BY <2>2, <3>1
    <3>2. CASE p # cycle[c].victim
      BY <1>1, <3>2 DEF Dealt, DeniedLeave
    <3> QED BY <3>1, <3>2
  <2>7. /\ \A p \in Peers \ unseen : p \in cycle[c].current <=> p \in Denied
        /\ cycle[c].changed /\ (boot # "done" => boot' # "done")
    BY <1>1, <2>2 DEF SeenAlike, CyclesApart, restVars
  <2> HIDE DEF S
  <2> QED BY <1>1, <2>2, <2>4, <2>5, <2>6, <2>7, ProceedWindows
<1>4. CASE \E ok \in BOOLEAN : CaddyPushed(c, ok)
  <2>1. PICK ok \in BOOLEAN : CaddyPushed(c, ok)
    BY <1>4
  <2>2. /\ cycle[c].phase = "caddy" /\ Blame({}) /\ boot' = boot
        /\ UNCHANGED <<tableVars, file, iface, sent, jobVars, restVars>>
        /\ IF ok THEN PushPeers(c, cycle[c].current, cycle[c].changed)
           ELSE cycle' = [cycle EXCEPT ![c] = Idle] /\ UNCHANGED <<chain, lastDenied, newsVars>>
    BY <2>1 DEF CaddyPushed, restVars
  <2>3. CASE ok
    <3>1. Dealt(c) = cycle[c].current
      BY <1>1, <2>2, PeersAssumption DEF CyclesApart, Dealt
    <3>2. \A p \in cycle[c].current : Off(p) /\ (~cycle[c].changed => Out(p))
      BY <1>1, <2>2, <3>1 DEF DeniedLeave, Unchanged
    <3>3. ~cycle[c].changed => \A p \in Wanted \ (Struck \cup cycle[c].current) : OnItsWay(p)
      BY <1>1, <2>2 DEF AllowedArrive, Unchanged
    <3>4. ~cycle[c].changed /\ sent # None /\ Len(chain) = 1 => Wanted \ (sent \cup outrun) \subseteq cycle[c].current
      BY <1>1, <2>2 DEF Missed, Unchanged
    <3>5. \A p \in Peers \ unseen : p \in cycle[c].current <=> p \in Denied
      BY <1>1, <2>2 DEF SeenAlike
    <3> QED BY <1>1, <2>2, <2>3, <3>2, <3>3, <3>4, <3>5, PushWindows
  <2>4. CASE ~ok
    <3>1. Idle \in Cycle /\ Idle.phase = "idle" /\ Idle.current = {} /\ Idle.rest = {}
      BY DEF Idle, Cycle
    <3>2. cycle' = [cycle EXCEPT ![c] = Idle] /\ UNCHANGED <<chain, lastDenied, newsVars>>
      BY <2>2, <2>4
    <3>3. unseen' = unseen /\ outrun' = outrun /\ Denied' = Denied /\ Caught
      BY <2>2, <3>2, KeepsOutrun DEF tableVars, newsVars, Denied, Wanted, On
    <3>4. SeenAlike'
      <4>1. \A d \in Cycles : cycle'[d].phase # "idle" => cycle'[d] = cycle[d]
        BY <1>1, <3>1, <3>2
      <4> QED BY <1>1, <3>2, <3>3, <4>1 DEF SeenAlike
    <3>5. \A p \in Wanted \ Struck : OnItsWay(p) \/ p \in lastDenied'
      BY <1>1, <3>2 DEF AllowedArrive
    <3>6. sent # None /\ Len(chain) = 1 => \A p \in Wanted \ (sent \cup outrun') : p \in unseen' /\ p \in lastDenied'
      BY <1>1, <3>2, <3>3 DEF Missed
    <3>7. \A p \in lastDenied' : Out(p)
      BY <1>1, <3>2 DEF DeniedLeave
    <3> QED BY <2>2, <3>1, <3>2, <3>3, <3>4, <3>5, <3>6, <3>7, GoesOn
  <2> QED BY <2>3, <2>4
<1> QED BY <1>2, <1>3, <1>4 DEF CycleStep

-----------------------------------------------------------------------------
(* Starts *)

\* After a start nothing is known of any denial, and the first cycle and a rewrite are due.
LEMMA Fresh ==
    ASSUME IInv, chain = <<>>, sent = None, lastDenied = {}, boot # "done",
           cycle = [c \in Cycles |-> Idle], Denied \subseteq unseen
    PROVE  WInv
<1>1. \A c \in Cycles : cycle[c] = Idle
  OBVIOUS
<1>2. CyclesApart
  BY <1>1 DEF CyclesApart, Idle
<1>3. SeenAlike
  BY <1>1 DEF SeenAlike, Idle
<1>4. DeniedLeave
  BY <1>1 DEF DeniedLeave, Dealt, Idle
<1>5. Missed /\ AllowedArrive
  BY DEF Missed, AllowedArrive, OnItsWay
<1> QED BY <1>2, <1>3, <1>4, <1>5 DEF WInv

\* The process starts again.
LEMMA NodeWindows == ASSUME WInv, IInv', NodeRestarts PROVE WInv'
<1>1. /\ chain' = <<>> /\ sent' = None /\ lastDenied' = {} /\ boot' = "cycle"
      /\ cycle' = [c \in Cycles |-> Idle] /\ unseen' = unseen \cup Denied
      /\ UNCHANGED tableVars
  BY DEF NodeRestarts
<1>2. Denied' = Denied
  BY <1>1 DEF tableVars, Denied, Wanted, On
<1>3. \A c \in Cycles : cycle'[c] = Idle
  BY <1>1
<1>4. CyclesApart'
  BY <1>1, <1>3 DEF CyclesApart, Idle
<1>5. Denied' \subseteq unseen'
  BY <1>1, <1>2
<1>6. SeenAlike'
  BY <1>1, <1>3, <1>5 DEF SeenAlike, Idle
<1>7. DeniedLeave'
  BY <1>1, <1>3 DEF DeniedLeave, Dealt, Idle
<1>8. Missed' /\ AllowedArrive'
  BY <1>1 DEF Missed, AllowedArrive, OnItsWay
<1> QED BY <1>4, <1>6, <1>7, <1>8 DEF WInv

\* The initial states are such a start.
LEMMA InitWindows == Init => WInv
<1> SUFFICES ASSUME Init PROVE WInv
  OBVIOUS
<1>1. IInv
  BY InitInv
<1> QED BY <1>1, Fresh DEF Init

\* One case for each kind of step.
LEMMA NextWindows ==
    WInv /\ [Next]_vars => WInv'
<1> SUFFICES ASSUME WInv, [Next]_vars PROVE WInv'
  OBVIOUS
<1>0. IInv'
  BY NextStep DEF WInv
<1>1. CASE \E q \in Requests : RequestStep(q)
  BY <1>0, <1>1, RequestWindows
<1>2. CASE \E c \in Cycles : CycleStep(c)
  BY <1>0, <1>2, CycleWindows
<1>3. CASE Rewrite \/ RewriteFails \/ \E ok \in BOOLEAN : SyncEnds(ok)
  BY <1>0, <1>3, RewriteWindows, RewriteFailsWindows, SyncEndsWindows
<1>4. CASE \E p \in Peers : WindowChanges(p)
  BY <1>0, <1>4, WindowWindows
<1>5. CASE \/ \E S \in SUBSET Peers : EnforceLimits(S)
           \/ \E ok \in BOOLEAN : LimitsSynced(ok)
  BY <1>0, <1>5, LimitsWindows, LimitsSyncedWindows
<1>6. CASE BootRewrite \/ InterfaceRestarts \/ NodeRestarts
  BY <1>0, <1>6, BootWindows, InterfaceWindows, NodeWindows
<1>7. CASE UNCHANGED vars
  BY <1>7, StutterWindows
<1> QED BY <1>1, <1>2, <1>3, <1>4, <1>5, <1>6, <1>7 DEF Next

\* The inductive invariant of access windows: of whom the reconciler knows, who is off, and
\* who is on the way to the interface.
THEOREM WindowsInductive == Spec => []WInv
<1> QED BY InitWindows, NextWindows, PTL DEF Spec

\* A peer whose window closed is off the interface once a cycle has dealt with it, and no
\* later rewrite brings it back (accessReconciler.js).
THEOREM DeniedStayOff == Spec => []DeniedIsOff
<1>1. WInv => DeniedIsOff
  <2> SUFFICES ASSUME WInv, NEW p \in Denied, p \in iface, p \notin unseen PROVE p \in outrun \cup flawed
    BY DEF DeniedIsOff
  <2>1. p \in lastDenied /\ ~open[p] /\ row[p] = "on"
    BY DEF WInv, SeenAlike, Denied, Wanted, On
  <2> QED BY <2>1 DEF WInv, DeniedLeave, Out, Excused, Struck
<1> QED BY <1>1, WindowsInductive, PTL

\* An enabled peer inside its window is in the file and on the interface when no rewrite is
\* on its way and its change was dealt with (peers.js, accessReconciler.js).
THEOREM AllowedGetOn == Spec => []AllowedIsOn
<1>1. WInv => AllowedIsOn
  <2> SUFFICES ASSUME WInv, Quiet, NEW p \in Wanted, p \notin unseen \cup outrun \cup flawed
               PROVE  p \in iface /\ p \in file
    BY DEF AllowedIsOn
  <2>1. p \notin Denied /\ p \in Peers
    BY WantedOn DEF Denied
  <2>2. p \notin lastDenied
    BY <2>1 DEF WInv, SeenAlike
  <2> QED BY <2>2 DEF WInv, AllowedArrive, OnItsWay, Quiet, Struck
<1> QED BY <1>1, WindowsInductive, PTL
================================================================================
