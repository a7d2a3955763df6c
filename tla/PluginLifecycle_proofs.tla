------------------------ MODULE PluginLifecycle_proofs ------------------------
(***************************************************************************)
(* Proofs about PluginLifecycle for every set of plugins, versions,        *)
(* requests and processes.                                                 *)
(***************************************************************************)
EXTENDS PluginLifecycle, TLAPS

-----------------------------------------------------------------------------
(* The inductive invariant *)

\* What is in the map is alive and of its plugin; nobody runs for no plugin, and a child
\* whose end is awaited is in the map.
Mapped ==
    /\ \A p \in Plugins : procs[p] # None => proc[procs[p]].plugin = p /\ Alive(procs[p])
    /\ \A i \in Procs : /\ Alive(i) => proc[i].plugin # None
                        /\ proc[i].stopper # None => procs[proc[i].plugin] = i

\* A child nobody wants has been told to end; unless stops and starts met, one that has
\* been told is not wanted.
Stopped ==
    \A i \in Procs :
        /\ proc[i].timer => proc[i].wanted
        /\ Told(i) => proc[i].stopper # None
        /\ proc[i].stopper # None /\ Undisturbed(proc[i].plugin) => ~proc[i].wanted

\* Whoever waits for a child waits for one of its plugin, and for one only.
Stoppers ==
    /\ \A i \in Procs :
        /\ proc[i].stopper \in Requests =>
               /\ request[proc[i].stopper].at = "stopping"
               /\ request[proc[i].stopper].plugin = proc[i].plugin
        /\ proc[i].stopper = "chain" =>
               run.phase \in {"stopping", "replacing"} /\ run.plugin = proc[i].plugin
    /\ \A i, j \in Procs : proc[i].stopper = proc[j].stopper /\ proc[i].stopper # None => i = j

\* What a request is about, at each of its awaits.
Asked ==
    \A q \in Requests :
        /\ request[q].at # "idle" => request[q].plugin # None
        /\ request[q].at = "stopping" =>
               /\ request[q].op \in {"restart", "uninstall", "install"}
               /\ request[q].op = "install" => request[q].existing # None
        /\ request[q].at = "storage" => request[q].op = "uninstall"
        /\ request[q].at = "migrating" => request[q].op = "install"
        /\ request[q].op = "install" => request[q].version \in Versions

\* The requests of the chain are those that wait for it, each once; a run has a head.
Chained ==
    /\ \A k \in DOMAIN chain : chain[k] \in Requests => request[chain[k]].at = "reconciling"
    /\ \A k, l \in DOMAIN chain : chain[k] = chain[l] => k = l
    /\ run.phase # "between" => chain # <<>>
    /\ run.phase \in {"stopping", "replacing"} => run.plugin # None
    /\ run.phase = "replacing" => rows[run.plugin] # None

Silent(p) == \A i \in Procs : proc[i].plugin = p => ~Alive(i)

\* Nothing runs of a plugin that is not installed or that an uninstall has stopped.
Alone ==
    \A p \in Plugins : Undisturbed(p) =>
        /\ row[p] = None => Silent(p)
        /\ \A q \in Requests : request[q].plugin = p /\ request[q].at = "storage" => Silent(p)

\* A row that changes after it was read is read again.
RowsFresh ==
    \A p \in Plugins :
        run.phase # "between" /\ rows[p] # None
            => rows[p] = row[p] \/ Len(chain) >= 2 \/ row[p] = None

\* What a run awaits is still what it is to do, or there will be another one.
WaitsRightly ==
    LET p == run.plugin
    IN run.phase \in {"stopping", "replacing"} /\ p \notin unseen /\ Undisturbed(p)
         => \/ Len(chain) >= 2
            \/ run.phase = "stopping" /\ ~MayRun(p, row[p])
            \/ run.phase = "replacing" /\ rows[p] = row[p] /\ MayRun(p, row[p])

\* A run that awaits the end of a child is the one that child will tell, unless another
\* stop has come between.
Awaited ==
    LET p == run.plugin
    IN run.phase \in {"stopping", "replacing"} /\ Undisturbed(p)
         => procs[p] # None /\ proc[procs[p]].stopper = "chain"

\* A plugin runs or not as it should, or a run or a request will see to it.
Right(p) ==
    IF MayRun(p, row[p])
    THEN procs[p] # None /\ Alive(procs[p]) /\ proc[procs[p]].version = row[p].version
    ELSE Silent(p)

Due(p) ==
    \/ Len(chain) >= 2
    \/ chain # <<>> /\ run.phase = "between"
    \/ run.phase # "between" /\ rows[p] # None /\ rows[p] = row[p]
    \/ run.phase = "stopping" /\ run.plugin = p
    \/ \E q \in Requests : /\ request[q].plugin = p
                           /\ \/ request[q].at \in {"stopping", "storage"}
                              \/ request[q].at = "migrating" /\ request[q].existing # None

RightOrDue == \A p \in Plugins \ unseen : Undisturbed(p) => Right(p) \/ Due(p)

IInv ==
    /\ TypeOK /\ Mapped /\ Stopped /\ Stoppers /\ Asked /\ Chained
    /\ NothingOutside /\ Alone /\ RowsFresh /\ WaitsRightly /\ Awaited /\ RightOrDue
-----------------------------------------------------------------------------
(* The processes: what each call of runtime.js does to them *)

\* The part of the invariant that is about processes only.
ProcOK ==
    /\ proc \in [Procs -> Process]
    /\ \A i \in Procs : (proc[i].timer => ~proc[i].child)
                      /\ (proc[i].stopper # None => proc[i].child)
    /\ procs \in [Plugins -> Procs \cup {None}]
    /\ struck \subseteq Plugins \X {"stop", "uninstall"}
    /\ Mapped /\ Stopped /\ NothingOutside

\* A step leaves what runs of plugin r.
Steady(r) ==
    /\ Silent(r) => Silent(r)'
    /\ procs[r] # None => /\ procs'[r] = procs[r]
                          /\ proc'[procs[r]].version = proc[procs[r]].version

\* ... or does not touch it at all.
Untouched(r) ==
    procs'[r] = procs[r] /\ (procs[r] # None => proc'[procs[r]] = proc[procs[r]])

\* The awaited stops are those there were.
StopsKept ==
    \A i \in Procs : proc'[i].stopper # None =>
        proc'[i].stopper = proc[i].stopper /\ proc'[i].plugin = proc[i].plugin

\* None, the chain and the timer are nobody of the model.
LEMMA NoneApart ==
    /\ None \notin Plugins /\ None \notin Procs /\ None \notin Requests
    /\ None # "chain" /\ None # "timer" /\ "chain" \notin Requests /\ "timer" \notin Requests
    /\ None \notin Row
BY LifecycleAssumption DEF Row

\* Marks are never taken back.
LEMMA StrikeKeeps ==
    ASSUME NEW p \in Plugins, NEW marks, Strike(p, marks)
    PROVE  /\ \A r : Undisturbed(r)' => Undisturbed(r)
           /\ struck \subseteq struck'
           /\ \A m \in marks : <<p, m>> \in struck'
BY DEF Strike, Undisturbed

\* A process that is gone.
LEMMA GoneType == Gone \in Process /\ ~Gone.child /\ ~Gone.timer /\ Gone.stopper = None
BY DEF Gone, Process

\* A process that has just been started for a version of a plugin.
LEMMA FreshType ==
    ASSUME NEW p \in Plugins, NEW v \in Versions
    PROVE  /\ Fresh(p, v) \in Process /\ Fresh(p, v).plugin = p /\ Fresh(p, v).version = v
           /\ Fresh(p, v).child /\ ~Fresh(p, v).timer /\ Fresh(p, v).wanted
           /\ Fresh(p, v).stopper = None
BY DEF Fresh, Spawned, Gone, Process

\* A process that somebody stops.
LEMMA StoppingType ==
    ASSUME NEW i \in Process, NEW c \in Requests \cup {"chain"}
    PROVE  /\ Stopping(i, c) \in Process
           /\ Stopping(i, c).plugin = i.plugin /\ Stopping(i, c).version = i.version
           /\ Stopping(i, c).child = i.child /\ ~Stopping(i, c).timer /\ ~Stopping(i, c).wanted
           /\ Stopping(i, c).stopper = c
BY DEF Stopping, Process

\* A process that is ready.
LEMMA StartedType ==
    ASSUME NEW i \in Process, i.child \/ i.timer
    PROVE  /\ Started(i) \in Process
           /\ Started(i).plugin = i.plugin /\ Started(i).version = i.version
           /\ Started(i).child = i.child /\ Started(i).timer = i.timer /\ Started(i).wanted
           /\ Started(i).stopper = i.stopper
BY DEF Started, Process

\* A process that is started again after its exit.
LEMMA SpawnedType ==
    ASSUME NEW i \in Process
    PROVE  /\ Spawned(i) \in Process
           /\ Spawned(i).plugin = i.plugin /\ Spawned(i).version = i.version
           /\ Spawned(i).child /\ ~Spawned(i).timer /\ Spawned(i).wanted = i.wanted
           /\ Spawned(i).stopper = i.stopper
BY DEF Spawned, Process

\* A process that has exited: with a timer when it is wanted.
LEMMA ExitedType ==
    ASSUME NEW i \in Process
    PROVE  /\ Exited(i) \in Process
           /\ Exited(i).plugin = i.plugin /\ Exited(i).version = i.version
           /\ ~Exited(i).child /\ Exited(i).timer = i.wanted /\ Exited(i).wanted = i.wanted
           /\ Exited(i).stopper = None
BY DEF Exited, Process

\* A new process object is one that nothing refers to.
LEMMA NewIsFree ==
    ASSUME Free # {}
    PROVE  New \in Procs /\ ~Alive(New) /\ \A p \in Plugins : procs[p] # New
BY DEF New, Free

\* The process of p has ended and left the map: nothing of p runs any more.
Ended(p) ==
    /\ ProcOK' /\ struck' = struck
    /\ procs' = [procs EXCEPT ![p] = None]
    /\ \A r : Silent(r) => Silent(r)'
    /\ Undisturbed(p) => Silent(p)'
    /\ \A r \in Plugins \ {p} : Steady(r) /\ Untouched(r)
    /\ StopsKept

\* One object becomes Gone, or keeps a restart timer that only a disturbed plugin has,
\* and its plugin's entry is removed.
LEMMA OutOfTheMap ==
    ASSUME ProcOK, NEW p \in Plugins, procs[p] # None, struck' = struck,
           NEW g \in Process, ~g.child, g.stopper = None, g.timer => g.wanted,
           g.timer => g.plugin = p /\ ~Undisturbed(p),
           proc' = [proc EXCEPT ![procs[p]] = g], procs' = [procs EXCEPT ![p] = None]
    PROVE  Ended(p)
<1> DEFINE i == procs[p]
<1>1. i \in Procs /\ proc[i].plugin = p /\ p # None
  BY NoneApart DEF ProcOK, Mapped
<1>2. /\ proc' \in [Procs -> Process] /\ procs' \in [Plugins -> Procs \cup {None}]
      /\ procs'[p] = None /\ \A r \in Plugins \ {p} : procs'[r] = procs[r]
      /\ proc'[i] = g /\ \A j \in Procs \ {i} : proc'[j] = proc[j]
  BY <1>1 DEF ProcOK
<1>3. \A r : Undisturbed(r)' <=> Undisturbed(r)
  BY DEF Undisturbed
<1>4. \A r \in Plugins \ {p} : procs[r] # i
  BY <1>1, NoneApart DEF ProcOK, Mapped
<1>5. Mapped'
  BY <1>1, <1>2, <1>4, NoneApart DEF ProcOK, Mapped, Alive
<1>6. Stopped'
  BY <1>2, <1>3 DEF ProcOK, Stopped, Told
<1>7. NothingOutside'
  <2> SUFFICES ASSUME NEW j \in Procs, Alive(j)', Undisturbed(proc[j].plugin)'
               PROVE  procs'[proc'[j].plugin] = j
    BY DEF NothingOutside
  <2>1. j # i
    BY <1>1, <1>2, <1>3 DEF Alive
  <2>2. procs[proc[j].plugin] = j /\ proc[j].plugin \in Plugins
    BY <1>2, <1>3, <2>1 DEF ProcOK, NothingOutside, Mapped, Alive, Process
  <2> QED
    BY <1>2, <2>1, <2>2
<1>8. ProcOK'
  BY <1>2, <1>5, <1>6, <1>7 DEF ProcOK
<1>9. \A r : Silent(r) => Silent(r)'
  <2>1. Alive(i)
    BY <1>1 DEF ProcOK, Mapped
  <2> QED
    BY <1>1, <1>2, <2>1 DEF Silent, Alive
<1>10. Undisturbed(p) => Silent(p)'
  <2> SUFFICES ASSUME Undisturbed(p), NEW j \in Procs, proc'[j].plugin = p, Alive(j)' PROVE FALSE
    BY DEF Silent
  <2>1. j # i
    BY <1>2 DEF Alive
  <2>2. procs[p] = j
    BY <1>2, <2>1 DEF ProcOK, NothingOutside, Alive
  <2> QED
    BY <2>1, <2>2
<1>11. \A r \in Plugins \ {p} : Steady(r) /\ Untouched(r)
  BY <1>2, <1>4, <1>9 DEF Steady, Untouched, ProcOK
<1>12. StopsKept
  BY <1>2 DEF StopsKept
<1> QED
  BY <1>8, <1>9, <1>10, <1>11, <1>12 DEF Ended

\* stop() of a process without a child: its timer goes, the entry is removed.
LEMMA StopNowEnds ==
    ASSUME ProcOK, NEW p \in Plugins, StopNow(p)
    PROVE  Ended(p)
<1>1. CASE procs[p] # None
  BY <1>1, OutOfTheMap, GoneType DEF StopNow
<1>2. CASE procs[p] = None
  <2>1. proc' = proc /\ procs' = procs /\ struck' = struck /\ procs' = [procs EXCEPT ![p] = None]
    BY <1>2 DEF StopNow, ProcOK
  <2>2. ProcOK'
    BY <2>1 DEF ProcOK, Mapped, Stopped, NothingOutside, Alive, Told, Undisturbed
  <2>3. \A r : Silent(r) => Silent(r)'
    BY <2>1 DEF Silent, Alive
  <2>4. Undisturbed(p) => Silent(p)
    BY <1>2, NoneApart DEF ProcOK, NothingOutside, Silent
  <2>5. \A r \in Plugins \ {p} : Steady(r) /\ Untouched(r)
    BY <2>1, <2>3 DEF Steady, Untouched
  <2>6. StopsKept
    BY <2>1 DEF StopsKept
  <2> QED
    BY <2>1, <2>2, <2>3, <2>4, <2>5, <2>6 DEF Ended
<1> QED
  BY <1>1, <1>2

\* The child that a caller has stopped is gone.
LEMMA LeftEnds ==
    ASSUME ProcOK, NEW i \in Procs, proc[i].child, proc[i].stopper # None,
           proc' = [proc EXCEPT ![i] = Left(i)],
           procs' = [procs EXCEPT ![proc[i].plugin] = None], struck' = struck
    PROVE  proc[i].plugin \in Plugins /\ Ended(proc[i].plugin) /\ proc'[i].stopper = None
<1>1. proc[i] \in Process /\ proc[i].plugin \in Plugins /\ procs[proc[i].plugin] = i
  BY DEF ProcOK, Mapped, Alive, Process
<1>2. /\ Left(i) \in Process /\ ~Left(i).child /\ Left(i).stopper = None
      /\ Left(i).timer => Left(i).wanted
      /\ Left(i).timer => Left(i).plugin = proc[i].plugin /\ ~Undisturbed(proc[i].plugin)
  BY <1>1, GoneType, ExitedType DEF Left, ProcOK, Stopped
<1>3. proc'[i].stopper = None
  BY <1>2 DEF ProcOK
<1> QED
  BY <1>1, <1>2, <1>3, OutOfTheMap, NoneApart

\* One live object changes and stays what it is: alive, of its plugin and version.
Changed(i) ==
    /\ ProcOK' /\ procs' = procs
    /\ \A r : Undisturbed(r)' => Undisturbed(r)
    /\ struck \subseteq struck'
    /\ \A r : Silent(r)' <=> Silent(r)
    /\ \A r \in Plugins : Steady(r)
    /\ proc'[i].plugin = proc[i].plugin
    /\ \A j \in Procs \ {i} : proc'[j] = proc[j]

\* A step that changes one process of a plugin and lets it live keeps the processes apart.
LEMMA ChangesOne ==
    ASSUME ProcOK, NEW i \in Procs, Alive(i), NEW p, proc[i].plugin = p, NEW g \in Process,
           proc' = [proc EXCEPT ![i] = g], procs' = procs,
           g.plugin = p, g.version = proc[i].version,
           g.child \/ g.timer, g.timer => ~g.child /\ g.wanted,
           g.stopper # None => g.child /\ procs[p] = i,
           g.child /\ ~g.wanted => g.stopper # None,
           g.stopper # None /\ Undisturbed(p)' => ~g.wanted,
           NEW marks, Strike(p, marks), marks \subseteq {"stop", "uninstall"}
    PROVE  Changed(i)
<1>1. p \in Plugins
  BY DEF ProcOK, Mapped, Process
<1>2. /\ proc' \in [Procs -> Process]
      /\ proc'[i] = g /\ \A j \in Procs \ {i} : proc'[j] = proc[j]
  BY DEF ProcOK
<1>3. (\A r : Undisturbed(r)' => Undisturbed(r)) /\ struck \subseteq struck'
  BY <1>1, StrikeKeeps
<1>4. struck' \subseteq Plugins \X {"stop", "uninstall"}
  BY <1>1 DEF Strike, ProcOK
<1>5. \A j \in Procs : Alive(j)' <=> Alive(j)
  BY <1>2 DEF Alive
<1>6. \A j \in Procs : proc'[j].plugin = proc[j].plugin /\ proc'[j].version = proc[j].version
  BY <1>2
<1>7. Mapped'
  BY <1>2, <1>5, <1>6 DEF ProcOK, Mapped
<1>8. Stopped'
  BY <1>2, <1>3 DEF ProcOK, Stopped, Told
<1>9. NothingOutside'
  BY <1>3, <1>5, <1>6 DEF ProcOK, NothingOutside
<1>10. \A r : Silent(r)' <=> Silent(r)
  BY <1>5, <1>6 DEF Silent
<1>11. \A r \in Plugins : Steady(r)
  BY <1>6, <1>10 DEF Steady, ProcOK
<1>12. ProcOK'
  BY <1>2, <1>4, <1>7, <1>8, <1>9 DEF ProcOK
<1> QED
  BY <1>2, <1>3, <1>10, <1>11, <1>12 DEF Changed

\* A step that marks nothing strikes nobody.
LEMMA NoMarks ==
    ASSUME struck' = struck
    PROVE  \A p : Strike(p, {})
BY DEF Strike

\* stop() of a process with a child: the caller waits, and a second caller is noted.
LEMMA StopAndWaitChanges ==
    ASSUME ProcOK, NEW p \in Plugins, NEW c \in Requests \cup {"chain"}, StopAndWait(p, c)
    PROVE  /\ procs[p] \in Procs /\ Changed(procs[p]) /\ ~Silent(p)
           /\ proc[procs[p]].plugin = p /\ proc'[procs[p]].stopper = c
           /\ Undisturbed(p)' => proc[procs[p]].stopper = None
<1> DEFINE i == procs[p]
           marks == IF proc[i].stopper # None THEN {"stop"} ELSE {}
<1>1. i \in Procs /\ proc[i].child /\ proc[i] \in Process
  BY DEF StopAndWait, StopsAtOnce, ProcOK
<1>2. proc[i].plugin = p /\ Alive(i) /\ ~Silent(p) /\ c # None
  BY <1>1, NoneApart DEF ProcOK, Mapped, Alive, Silent
<1>3. /\ proc' = [proc EXCEPT ![i] = Stopping(proc[i], c)] /\ procs' = procs /\ Strike(p, marks)
      /\ marks \subseteq {"stop", "uninstall"}
  BY DEF StopAndWait
<1>4. /\ Stopping(proc[i], c) \in Process
      /\ Stopping(proc[i], c).plugin = p /\ Stopping(proc[i], c).version = proc[i].version
      /\ Stopping(proc[i], c).child /\ ~Stopping(proc[i], c).timer /\ ~Stopping(proc[i], c).wanted
      /\ Stopping(proc[i], c).stopper = c
  BY <1>1, <1>2, StoppingType
<1> DEFINE g == Stopping(proc[i], c)
<1>5. Changed(i)
  <2> HIDE DEF g, marks
  <2>1. /\ g \in Process /\ g.plugin = p /\ g.version = proc[i].version
        /\ g.child /\ ~g.timer /\ ~g.wanted /\ g.stopper # None /\ procs[p] = i
    BY <1>2, <1>4 DEF g
  <2>2. proc' = [proc EXCEPT ![i] = g] /\ Strike(p, marks)
    BY <1>2, <1>3 DEF g, marks
  <2> QED
    BY <1>1, <1>2, <1>3, <2>1, <2>2, ChangesOne
<1>6. proc'[i].stopper = c
  BY <1>1, <1>3, <1>4 DEF ProcOK
<1>7. Undisturbed(p)' => proc[i].stopper = None
  BY <1>3, StrikeKeeps DEF Undisturbed
<1> QED
  BY <1>1, <1>2, <1>5, <1>6, <1>7

\* start() of a process that lives: it is wanted; that it had been told to end is noted.
LEMMA RunAgainChanges ==
    ASSUME ProcOK, NEW p \in Plugins, procs[p] # None, RunAgain(p)
    PROVE  /\ procs[p] \in Procs /\ Changed(procs[p])
           /\ proc'[procs[p]].stopper = proc[procs[p]].stopper
<1> DEFINE i == procs[p]
           marks == IF Told(i) THEN {"stop"} ELSE {}
<1>1. i \in Procs /\ proc[i] \in Process /\ Alive(i) /\ proc[i].plugin = p
  BY DEF ProcOK, Mapped
<1>2. /\ proc' = [proc EXCEPT ![i] = Started(proc[i])] /\ procs' = procs
      /\ Strike(p, marks) /\ marks \subseteq {"stop", "uninstall"}
  BY <1>1 DEF RunAgain
<1>3. /\ Started(proc[i]) \in Process
      /\ Started(proc[i]).plugin = p /\ Started(proc[i]).version = proc[i].version
      /\ Started(proc[i]).child = proc[i].child /\ Started(proc[i]).timer = proc[i].timer
      /\ Started(proc[i]).wanted /\ Started(proc[i]).stopper = proc[i].stopper
  BY <1>1, StartedType DEF Alive
<1>4. ~(proc[i].stopper # None /\ Undisturbed(p)')
  <2> SUFFICES ASSUME proc[i].stopper # None, Undisturbed(p)' PROVE FALSE
    OBVIOUS
  <2>1. proc[i].child /\ Undisturbed(p)
    BY <1>1, <1>2, StrikeKeeps DEF ProcOK
  <2>2. Told(i)
    BY <1>1, <2>1 DEF ProcOK, Stopped, Told
  <2> QED
    BY <1>2, <2>2, StrikeKeeps DEF Undisturbed
<1> DEFINE g == Started(proc[i])
<1>5. Changed(i)
  <2> HIDE DEF g, marks
  <2>1. /\ g \in Process /\ g.plugin = p /\ g.version = proc[i].version
        /\ g.child \/ g.timer
        /\ g.timer => ~g.child
        /\ g.stopper # None => g.child
        /\ g.wanted /\ g.stopper = proc[i].stopper
    BY <1>1, <1>3 DEF g, ProcOK, Alive
  <2>2. proc' = [proc EXCEPT ![i] = g] /\ Strike(p, marks)
    BY <1>1, <1>2 DEF g, marks
  <2> QED
    BY <1>1, <1>2, <1>4, <2>1, <2>2, ChangesOne
<1>6. proc'[i].stopper = proc[i].stopper
  BY <1>1, <1>2, <1>3 DEF ProcOK
<1> QED
  BY <1>1, <1>5, <1>6

\* A crash leaves a restart timer; nobody waited for it.
LEMMA ExitChanges ==
    ASSUME ProcOK, NEW i \in Procs, Exit(i)
    PROVE  Changed(i) /\ proc'[i].stopper = None
<1>1. proc[i] \in Process /\ Alive(i) /\ proc[i].wanted
  BY DEF Exit, ProcOK, Alive, Stopped, Told
<1>2. /\ Exited(proc[i]) \in Process
      /\ Exited(proc[i]).plugin = proc[i].plugin /\ Exited(proc[i]).version = proc[i].version
      /\ ~Exited(proc[i]).child /\ Exited(proc[i]).timer /\ Exited(proc[i]).wanted
      /\ Exited(proc[i]).stopper = None
  BY <1>1, ExitedType
<1>3. proc' = [proc EXCEPT ![i] = Exited(proc[i])] /\ procs' = procs /\ struck' = struck
  BY DEF Exit
<1>4. Strike(proc[i].plugin, {})
  BY <1>3, NoMarks
<1> DEFINE g == Exited(proc[i])
           p == proc[i].plugin
<1>5. /\ g \in Process /\ g.plugin = p /\ g.version = proc[i].version /\ g.stopper = None
      /\ (g.child \/ g.timer) /\ (g.timer => ~g.child /\ g.wanted) /\ (g.child => g.wanted)
      /\ proc' = [proc EXCEPT ![i] = g] /\ Strike(p, {})
  BY <1>2, <1>3, <1>4
<1> HIDE DEF g
<1>6. {} \subseteq {"stop", "uninstall"}
  OBVIOUS
<1>7. Changed(i)
  BY <1>1, <1>3, <1>5, <1>6, ChangesOne DEF ProcOK
<1> QED
  BY <1>1, <1>5, <1>7 DEF ProcOK

\* The restart timer fires.
LEMMA RestartTimerChanges ==
    ASSUME ProcOK, NEW i \in Procs, RestartTimer(i)
    PROVE  Changed(i) /\ proc'[i].stopper = None
<1>1. proc[i] \in Process /\ Alive(i) /\ proc[i].wanted /\ proc[i].stopper = None
  BY DEF RestartTimer, ProcOK, Alive, Stopped
<1>2. /\ Spawned(proc[i]) \in Process
      /\ Spawned(proc[i]).plugin = proc[i].plugin /\ Spawned(proc[i]).version = proc[i].version
      /\ Spawned(proc[i]).child /\ ~Spawned(proc[i]).timer /\ Spawned(proc[i]).wanted
      /\ Spawned(proc[i]).stopper = None
  BY <1>1, SpawnedType
<1>3. proc' = [proc EXCEPT ![i] = Spawned(proc[i])] /\ procs' = procs /\ struck' = struck
  BY DEF RestartTimer
<1>4. Strike(proc[i].plugin, {})
  BY <1>3, NoMarks
<1> DEFINE g == Spawned(proc[i])
           p == proc[i].plugin
<1>5. /\ g \in Process /\ g.plugin = p /\ g.version = proc[i].version /\ g.stopper = None
      /\ (g.child \/ g.timer) /\ (g.timer => ~g.child /\ g.wanted) /\ (g.child => g.wanted)
      /\ proc' = [proc EXCEPT ![i] = g] /\ Strike(p, {})
  BY <1>2, <1>3, <1>4
<1> HIDE DEF g
<1>6. {} \subseteq {"stop", "uninstall"}
  OBVIOUS
<1>7. Changed(i)
  BY <1>1, <1>3, <1>5, <1>6, ChangesOne DEF ProcOK
<1> QED
  BY <1>1, <1>5, <1>7 DEF ProcOK

\* A new child of p is in the map; an uninstall of p is noted.
Born(p, v) ==
    /\ ProcOK'
    /\ \A r : Undisturbed(r)' => Undisturbed(r)
    /\ struck \subseteq struck'
    /\ \A r \in Plugins \ {p} : Steady(r) /\ Untouched(r)
    /\ procs'[p] \in Procs /\ proc'[procs'[p]].version = v
    /\ Leaving(p) => <<p, "uninstall">> \in struck'
    /\ StopsKept

\* The object n becomes the child of p; another of p may end as it was told.
Birth(n, p, v) ==
    /\ proc' \in [Procs -> Process] /\ proc'[n] = Fresh(p, v) /\ procs' = [procs EXCEPT ![p] = n]
    /\ \A r \in Plugins \ {p} : procs[r] # n
    /\ Alive(n) => proc[n].plugin = p
    /\ \A j \in Procs \ {n} :
           \/ /\ proc'[j] = proc[j]
              /\ Alive(j) /\ proc[j].plugin = p => ~Undisturbed(p) /\ proc[j].stopper = None
           \/ /\ proc[j].plugin = p /\ proc[j].child
              /\ ~proc'[j].child /\ proc'[j].stopper = None
              /\ proc'[j].timer => /\ proc'[j].wanted
                                   /\ proc'[j].plugin = p /\ ~Undisturbed(p)
    /\ Strike(p, Meets(p))

\* A process is started for a plugin that has none, and those who asked are marked.
LEMMA BirthIsBorn ==
    ASSUME ProcOK, Asked, NEW p \in Plugins, NEW v \in Versions, NEW n \in Procs, Birth(n, p, v)
    PROVE  Born(p, v)
<1> USE DEF Birth
<1>1. /\ (\A r : Undisturbed(r)' => Undisturbed(r)) /\ struck \subseteq struck'
      /\ Leaving(p) => <<p, "uninstall">> \in struck'
  BY StrikeKeeps DEF Meets
<1>2. Meets(p) \subseteq {"stop", "uninstall"}
  BY DEF Meets
<1>3. struck' \subseteq Plugins \X {"stop", "uninstall"}
  BY <1>2 DEF Strike, ProcOK
<1>4. /\ proc'[n].plugin = p /\ proc'[n].version = v /\ proc'[n].child /\ ~proc'[n].timer
      /\ proc'[n].wanted /\ proc'[n].stopper = None
  BY FreshType
<1>5. /\ procs' \in [Plugins -> Procs \cup {None}] /\ procs'[p] = n
      /\ \A r \in Plugins \ {p} : procs'[r] = procs[r]
  BY DEF ProcOK
<1>6. ASSUME NEW r \in Plugins \ {p}, procs[r] # None
      PROVE  proc'[procs[r]] = proc[procs[r]]
  BY <1>6 DEF ProcOK, Mapped
<1>7. Mapped'
  <2>1. ASSUME NEW r \in Plugins, procs'[r] # None
        PROVE  /\ proc'[procs'[r]].plugin = r
               /\ proc'[procs'[r]].child \/ proc'[procs'[r]].timer
    <3>1. CASE r = p
      BY <1>4, <1>5, <3>1
    <3>2. CASE r # p
      BY <1>5, <1>6, <2>1, <3>2 DEF Alive, ProcOK, Mapped
    <3> QED
      BY <3>1, <3>2
  <2>2. ASSUME NEW j \in Procs
        PROVE  /\ Alive(j)' => proc'[j].plugin # None
               /\ proc'[j].stopper # None => procs'[proc'[j].plugin] = j
    <3>1. CASE j = n
      BY <1>4, <3>1, NoneApart
    <3>2. CASE j # n /\ proc'[j] # proc[j]
      BY <3>2, NoneApart DEF Alive
    <3>3. CASE j # n /\ proc'[j] = proc[j]
      <4>1. proc[j].stopper # None => Alive(j) /\ proc[j].plugin # p /\ proc[j].plugin \in Plugins
        BY <3>3 DEF ProcOK, Mapped, Alive, Process
      <4> QED
        BY <1>5, <3>3, <4>1 DEF ProcOK, Mapped, Alive
    <3> QED
      BY <3>1, <3>2, <3>3
  <2> QED
    BY <2>1, <2>2 DEF Mapped, Alive
<1>8. Stopped'
  BY <1>1, <1>4 DEF ProcOK, Stopped, Told
<1>9. NothingOutside'
  <2> SUFFICES ASSUME NEW j \in Procs, Alive(j)', Undisturbed(proc[j].plugin)'
               PROVE  procs'[proc'[j].plugin] = j
    BY DEF NothingOutside
  <2>1. CASE j = n
    BY <1>4, <1>5, <2>1
  <2>2. CASE j # n /\ proc'[j] = proc[j]
    <3>1. Alive(j) /\ Undisturbed(proc[j].plugin) /\ proc[j].plugin \in Plugins \ {p}
      BY <1>1, <2>2 DEF Alive, ProcOK, Mapped, Process
    <3> QED
      BY <1>5, <2>2, <3>1 DEF ProcOK, NothingOutside
  <2>3. CASE j # n /\ proc'[j] # proc[j]
    BY <1>1, <2>3 DEF Alive
  <2> QED
    BY <2>1, <2>2, <2>3
<1>10. ProcOK'
  <2>1. \A j \in Procs : (proc'[j].timer => ~proc'[j].child) /\ (proc'[j].stopper # None => proc'[j].child)
    BY <1>4 DEF ProcOK
  <2> QED
    BY <1>3, <1>5, <1>7, <1>8, <1>9, <2>1 DEF ProcOK
<1>11. ASSUME NEW r \in Plugins \ {p} PROVE Steady(r) /\ Untouched(r)
  <2>1. Silent(r) => Silent(r)'
    BY <1>4 DEF Silent, Alive
  <2> QED
    BY <1>5, <1>6, <2>1 DEF Steady, Untouched
<1>12. StopsKept
  BY <1>4 DEF StopsKept
<1> QED
  BY <1>1, <1>4, <1>5, <1>10, <1>11, <1>12 DEF Born

\* So is one that is started without a request.
LEMMA RunNewBorn ==
    ASSUME ProcOK, Asked, NEW p \in Plugins, NEW v \in Versions, procs[p] = None, RunNew(p, v)
    PROVE  Born(p, v)
<1>1. New \in Procs /\ ~Alive(New) /\ \A r \in Plugins : procs[r] # New
  BY NewIsFree DEF RunNew
<1>2. /\ proc' \in [Procs -> Process] /\ proc'[New] = Fresh(p, v)
      /\ \A j \in Procs \ {New} : proc'[j] = proc[j]
  BY <1>1, FreshType DEF RunNew, ProcOK
<1>3. \A j \in Procs : Alive(j) /\ proc[j].plugin = p => ~Undisturbed(p) /\ proc[j].stopper = None
  BY NoneApart DEF ProcOK, NothingOutside, Mapped
<1>4. procs' = [procs EXCEPT ![p] = New] /\ Strike(p, Meets(p))
  BY DEF RunNew
<1>5. Birth(New, p, v)
  BY <1>1, <1>2, <1>3, <1>4 DEF Birth
<1> QED
  BY <1>1, <1>5, BirthIsBorn

\* Another version takes the place of one whose child has crashed.
LEMMA ReplacedBorn ==
    ASSUME ProcOK, Asked, NEW p \in Plugins, NEW v \in Versions, procs[p] # None,
           proc' = [proc EXCEPT ![procs[p]] = Fresh(p, v)], procs' = procs, Strike(p, Meets(p))
    PROVE  Born(p, v)
<1>0. PICK n : n = procs[p]
  OBVIOUS
<1>1. n \in Procs /\ proc[n].plugin = p /\ \A r \in Plugins \ {p} : procs[r] # n
  BY <1>0, NoneApart DEF ProcOK, Mapped
<1>2. /\ proc' \in [Procs -> Process] /\ proc'[n] = Fresh(p, v)
      /\ \A j \in Procs \ {n} : proc'[j] = proc[j]
  BY <1>0, <1>1, FreshType DEF ProcOK
<1>3. \A j \in Procs \ {n} :
          Alive(j) /\ proc[j].plugin = p => ~Undisturbed(p) /\ proc[j].stopper = None
  BY <1>0 DEF ProcOK, NothingOutside, Mapped
<1>4. procs' = [procs EXCEPT ![p] = n]
  BY <1>0 DEF ProcOK
<1>5. Birth(n, p, v)
  BY <1>1, <1>2, <1>3, <1>4 DEF Birth
<1> QED
  BY <1>1, <1>5, BirthIsBorn

\* ... or of one whose child has ended as it was told.
LEMMA SucceedsBorn ==
    ASSUME ProcOK, Asked, NEW i \in Procs, NEW p, p = proc[i].plugin, NEW v \in Versions, Free # {},
           proc[i].child, proc[i].stopper # None,
           proc' = [proc EXCEPT ![i] = Left(i), ![New] = Fresh(p, v)],
           procs' = [procs EXCEPT ![p] = New], Strike(p, Meets(p))
    PROVE  p \in Plugins /\ Born(p, v) /\ proc'[i].stopper = None
<1>1. proc[i] \in Process /\ p \in Plugins /\ procs[p] = i /\ Alive(i)
  BY DEF ProcOK, Mapped, Alive, Process
<1>2. New \in Procs /\ ~Alive(New) /\ \A r \in Plugins : procs[r] # New
  BY NewIsFree
<1>3. New # i
  BY <1>1, <1>2
<1>4. /\ Left(i) \in Process /\ ~Left(i).child /\ Left(i).stopper = None
      /\ Left(i).timer => Left(i).wanted
      /\ Left(i).timer => Left(i).plugin = p /\ ~Undisturbed(p)
  BY <1>1, GoneType, ExitedType DEF Left, ProcOK, Stopped
<1>5. /\ proc' \in [Procs -> Process] /\ proc'[New] = Fresh(p, v) /\ proc'[i] = Left(i)
      /\ \A j \in Procs \ {i, New} : proc'[j] = proc[j]
  BY <1>1, <1>2, <1>3, <1>4, FreshType DEF ProcOK
<1>6. \A j \in Procs \ {i} :
          Alive(j) /\ proc[j].plugin = p => ~Undisturbed(p) /\ proc[j].stopper = None
  BY <1>1 DEF ProcOK, NothingOutside, Mapped
<1>7. \A j \in Procs \ {New} :
          \/ /\ proc'[j] = proc[j]
             /\ Alive(j) /\ proc[j].plugin = p => ~Undisturbed(p) /\ proc[j].stopper = None
          \/ /\ proc[j].plugin = p /\ proc[j].child
             /\ ~proc'[j].child /\ proc'[j].stopper = None
             /\ proc'[j].timer => /\ proc'[j].wanted
                                  /\ proc'[j].plugin = p /\ ~Undisturbed(p)
  BY <1>4, <1>5, <1>6
<1>8. Birth(New, p, v)
  BY <1>1, <1>2, <1>5, <1>7 DEF Birth
<1>9. Born(p, v)
  BY <1>1, <1>2, <1>8, BirthIsBorn
<1> QED
  BY <1>1, <1>4, <1>5, <1>9

-----------------------------------------------------------------------------
(* The chain, the requests and what is due *)

\* The types of what is not about processes.
RestTypes ==
    /\ row \in [Plugins -> Row \cup {None}]
    /\ entitled \subseteq Plugins
    /\ chain \in Seq(Callers)
    /\ rows \in [Plugins -> Row \cup {None}]
    /\ run \in Run
    /\ request \in [Requests -> Request]
    /\ unseen \subseteq Plugins

\* The inductive invariant, in the parts that the steps are proved by.
LEMMA Parts ==
    IInv <=> /\ ProcOK /\ RestTypes /\ Stoppers /\ Asked /\ Chained
             /\ Alone /\ RowsFresh /\ WaitsRightly /\ Awaited /\ RightOrDue
BY DEF IInv, ProcOK, RestTypes, TypeOK

\* A phase of a run of the chain.
LEMMA PhaseType ==
    ASSUME NEW p \in Plugins \cup {None}, NEW f \in {"between", "walking", "stopping", "replacing"}
    PROVE  Phase(f, p) \in Run /\ Phase(f, p).phase = f /\ Phase(f, p).plugin = p
BY DEF Phase, Run

\* A run that waits for a process knows the plugin.
LEMMA RunOfPlugin ==
    ASSUME RestTypes, Chained
    PROVE  run.phase \in {"stopping", "replacing"} => run.plugin \in Plugins
BY DEF RestTypes, Chained, Run

\* A caller that joins the chain.
LEMMA Joins ==
    ASSUME RestTypes, NEW c \in Callers, chain' = Append(chain, c)
    PROVE  /\ chain' \in Seq(Callers) /\ chain' # <<>> /\ Len(chain') = Len(chain) + 1
           /\ DOMAIN chain' = DOMAIN chain \cup {Len(chain) + 1}
           /\ Len(chain) + 1 \notin DOMAIN chain
           /\ chain'[Len(chain) + 1] = c
           /\ \A k \in DOMAIN chain : chain'[k] = chain[k]
           /\ chain # <<>> => Len(chain') >= 2
           /\ Len(chain) >= 2 => Len(chain') >= 2
BY DEF RestTypes

\* Without a caller in it already, the chain stays in order.
LEMMA JoinsChained ==
    ASSUME RestTypes, Chained, NEW c \in Callers, chain' = Append(chain, c),
           \A k \in DOMAIN chain : chain[k] # c,
           c \in Requests => request'[c].at = "reconciling",
           \A q \in Requests \ {c} : request[q].at = "reconciling" => request'[q].at = "reconciling",
           run' = run, rows' = rows
    PROVE  Chained'
<1>1. /\ DOMAIN chain' = DOMAIN chain \cup {Len(chain) + 1} /\ chain'[Len(chain) + 1] = c
      /\ \A k \in DOMAIN chain : chain'[k] = chain[k]
      /\ chain' # <<>>
  BY Joins
<1>2. \A k \in DOMAIN chain' : chain'[k] \in Requests => request'[chain'[k]].at = "reconciling"
  BY <1>1 DEF Chained
<1>3. \A k, l \in DOMAIN chain' : chain'[k] = chain'[l] => k = l
  BY <1>1 DEF Chained
<1> QED
  BY <1>1, <1>2, <1>3 DEF Chained

\* A request that does not wait for the chain is not in it.
LEMMA NotInChain ==
    ASSUME Chained, NEW q \in Requests, request[q].at # "reconciling"
    PROVE  \A k \in DOMAIN chain : chain[k] # q
BY DEF Chained

\* What is right stays right while neither the plugin nor its process changes.
LEMMA RightKept ==
    ASSUME ProcOK, ProcOK', NEW p \in Plugins, Steady(p), Right(p),
           row'[p] = row[p], p \in entitled' <=> p \in entitled
    PROVE  Right(p)'
<1>1. MayRun(p, row[p])' <=> MayRun(p, row[p])
  BY DEF MayRun
<1>2. CASE MayRun(p, row[p])
  <2>1. procs'[p] = procs[p] /\ procs'[p] # None
        /\ proc'[procs'[p]].version = row'[p].version
    BY <1>2 DEF Right, Steady
  <2>2. Alive(procs[p])'
    BY <2>1 DEF ProcOK, Mapped
  <2> QED
    BY <1>1, <1>2, <2>1, <2>2 DEF Right
<1>3. CASE ~MayRun(p, row[p])
  BY <1>1, <1>3 DEF Right, Steady
<1> QED
  BY <1>2, <1>3

\* Where the processes are left alone, they are what they were.
LEMMA ProcSame ==
    ASSUME ProcOK, UNCHANGED <<proc, procs, struck>>
    PROVE  /\ ProcOK' /\ StopsKept
           /\ \A r : Undisturbed(r)' <=> Undisturbed(r)
           /\ \A r : Silent(r)' <=> Silent(r)
           /\ \A r \in Plugins : Steady(r)
           /\ \A i \in Procs : Alive(i)' <=> Alive(i)
<1>1. ProcOK'
  BY DEF ProcOK, Mapped, Stopped, NothingOutside, Alive, Told, Undisturbed
<1>2. \A r : Undisturbed(r)' <=> Undisturbed(r)
  BY DEF Undisturbed
<1>3. \A r : Silent(r)' <=> Silent(r)
  BY DEF Silent, Alive
<1>4. \A r \in Plugins : Steady(r)
  BY <1>3 DEF Steady
<1> QED
  BY <1>1, <1>2, <1>3, <1>4 DEF StopsKept, Alive

\* The requests and runs that wait for a child go on waiting.
LEMMA StoppersKept ==
    ASSUME Stoppers, StopsKept, \A q \in Requests : request[q].at = "stopping" => request'[q] = request[q],
           run.phase \in {"stopping", "replacing"} => run' = run
    PROVE  Stoppers'
<1>1. ASSUME NEW i \in Procs, proc'[i].stopper \in Requests \cup {"chain"}
      PROVE  proc'[i].stopper = proc[i].stopper /\ proc'[i].plugin = proc[i].plugin
  BY <1>1, NoneApart DEF StopsKept
<1>2. \A i, j \in Procs : proc'[i].stopper = proc'[j].stopper /\ proc'[i].stopper # None => i = j
  BY DEF Stoppers, StopsKept
<1>3. \A i \in Procs : proc'[i].stopper \in Requests =>
          request'[proc'[i].stopper].at = "stopping" /\ request'[proc'[i].stopper].plugin = proc'[i].plugin
  BY <1>1 DEF Stoppers
<1>4. \A i \in Procs : proc'[i].stopper = "chain" =>
          run'.phase \in {"stopping", "replacing"} /\ run'.plugin = proc'[i].plugin
  BY <1>1 DEF Stoppers
<1> QED
  BY <1>2, <1>3, <1>4 DEF Stoppers

\* Silence and marks only grow: nothing runs where nothing may.
LEMMA AloneKept ==
    ASSUME Alone, \A r : Undisturbed(r)' => Undisturbed(r), struck \subseteq struck',
           \A r \in Plugins : Silent(r) => Silent(r)',
           row' = row,
           \A q \in Requests : request'[q].at \in {"storage", "migrating"} => request'[q] = request[q]
    PROVE  Alone'
BY DEF Alone

-----------------------------------------------------------------------------
(* The steps *)

\* A crash, and the restart after it.
LEMMA ChangeStep ==
    ASSUME IInv, NEW i \in Procs, Changed(i), proc'[i].stopper = proc[i].stopper,
           UNCHANGED <<row, entitled, chainVars, request, unseen>>
    PROVE  IInv'
<1>0. /\ ProcOK /\ RestTypes /\ Stoppers /\ Asked /\ Chained
      /\ Alone /\ RowsFresh /\ WaitsRightly /\ Awaited /\ RightOrDue
  BY Parts
<1>1. /\ ProcOK' /\ \A r : Undisturbed(r)' => Undisturbed(r)
      /\ \A r \in Plugins : (Silent(r) => Silent(r)') /\ Steady(r)
      /\ struck \subseteq struck' /\ StopsKept
  BY DEF Changed, StopsKept
<1>2. RestTypes' /\ Asked' /\ Chained' /\ RowsFresh'
  BY <1>0 DEF RestTypes, Asked, Chained, RowsFresh, chainVars
<1>3. Stoppers'
  BY <1>0, <1>1, StoppersKept DEF chainVars
<1>4. Alone'
  BY <1>0, <1>1, AloneKept
<1>5. WaitsRightly'
  BY <1>0, <1>1 DEF WaitsRightly, MayRun, chainVars
<1>7. Awaited'
  <2>1. run.phase \in {"stopping", "replacing"} => run.plugin \in Plugins
    BY <1>0, RunOfPlugin
  <2>2. (\A j \in Procs : proc'[j].stopper = proc[j].stopper) /\ procs' = procs
    BY DEF Changed
  <2>3. \A r \in Plugins : procs[r] # None => procs[r] \in Procs
    BY <1>0 DEF ProcOK
  <2> QED
    BY <1>0, <1>1, <2>1, <2>2, <2>3 DEF Awaited, chainVars
<1>6. RightOrDue'
  <2> SUFFICES ASSUME NEW p \in Plugins \ unseen, Undisturbed(p)' PROVE Right(p)' \/ Due(p)'
    BY DEF RightOrDue
  <2>1. Right(p) \/ Due(p)
    BY <1>0, <1>1 DEF RightOrDue
  <2>2. Due(p) => Due(p)'
    BY DEF Due, chainVars
  <2>3. Right(p) => Right(p)'
    BY <1>0, <1>1, RightKept
  <2> QED
    BY <2>1, <2>2, <2>3
<1> QED
  BY <1>1, <1>2, <1>3, <1>4, <1>5, <1>6, <1>7 DEF IInv, ProcOK, RestTypes, TypeOK

\* A run reads the rows: whatever is not as it should be is among them.
LEMMA StartRunStep ==
    ASSUME IInv, StartRun
    PROVE  IInv'
<1>0. /\ ProcOK /\ RestTypes /\ Stoppers /\ Asked /\ Chained
      /\ Alone /\ RowsFresh /\ WaitsRightly /\ Awaited /\ RightOrDue
  BY Parts
<1>1. /\ rows' = row /\ row' = row /\ run'.phase = "walking" /\ run' \in Run
      /\ run.phase = "between" /\ chain # <<>>
  BY PhaseType, NoneApart DEF StartRun
<1>2. /\ ProcOK' /\ StopsKept /\ \A r : Undisturbed(r)' <=> Undisturbed(r)
      /\ \A r \in Plugins : (Silent(r)' <=> Silent(r)) /\ Steady(r)
  BY <1>0, ProcSame DEF StartRun, processVars
<1>3. RestTypes' /\ Asked' /\ Chained' /\ RowsFresh' /\ WaitsRightly' /\ Awaited'
  BY <1>0, <1>1 DEF StartRun, RestTypes, Asked, Chained, RowsFresh, WaitsRightly, Awaited
<1>4. Stoppers'
  BY <1>0, <1>1, <1>2, StoppersKept DEF StartRun
<1>5. Alone'
  BY <1>0, <1>2, AloneKept DEF StartRun
<1>6. RightOrDue'
  <2> SUFFICES ASSUME NEW p \in Plugins \ unseen, Undisturbed(p) PROVE Right(p)' \/ Due(p)'
    BY <1>2 DEF RightOrDue, StartRun
  <2>1. CASE row[p] = None
    <3>1. Silent(p)' /\ ~MayRun(p, row[p])'
      BY <1>0, <1>1, <1>2, <2>1 DEF Alone, MayRun
    <3> QED
      BY <1>1, <3>1 DEF Right
  <2>2. CASE row[p] # None
    BY <1>1, <2>2 DEF Due
  <2> QED
    BY <2>1, <2>2
<1> QED
  BY <1>2, <1>3, <1>4, <1>5, <1>6 DEF IInv, ProcOK, RestTypes, TypeOK

\* The end of a run: nothing is left to it, and its caller is answered.
LEMMA EndRunStep ==
    ASSUME IInv, EndRun
    PROVE  IInv'
<1>0. /\ ProcOK /\ RestTypes /\ Stoppers /\ Asked /\ Chained
      /\ Alone /\ RowsFresh /\ WaitsRightly /\ Awaited /\ RightOrDue
  BY Parts
<1>1. /\ run.phase = "walking" /\ \A p \in Plugins : rows[p] = None
      /\ run'.phase = "between" /\ run' \in Run /\ row' = row
  BY PhaseType, NoneApart DEF EndRun
<1>2. /\ ProcOK' /\ StopsKept /\ \A r : Undisturbed(r)' <=> Undisturbed(r)
      /\ \A r \in Plugins : (Silent(r)' <=> Silent(r)) /\ Steady(r)
  BY <1>0, ProcSame DEF EndRun, processVars
<1>3. /\ chain # <<>> /\ chain \in Seq(Callers) /\ chain' = Tail(chain)
      /\ Head(chain) = chain[1] /\ 1 \in DOMAIN chain
      /\ chain' \in Seq(Callers) /\ Len(chain') = Len(chain) - 1
      /\ DOMAIN chain' = 1..(Len(chain) - 1)
      /\ \A k \in DOMAIN chain' : chain'[k] = chain[k + 1] /\ k + 1 \in DOMAIN chain /\ k + 1 # 1
  BY <1>0, <1>1 DEF EndRun, Chained, RestTypes
<1>4. /\ Idle \in Request /\ Idle.at = "idle"
  BY DEF Idle, Request
<1>5. /\ \A q \in Requests : q # Head(chain) => request'[q] = request[q]
      /\ Head(chain) \in Requests => /\ request'[Head(chain)] = Idle
                                     /\ request[Head(chain)].at = "reconciling"
      /\ request' \in [Requests -> Request]
  BY <1>0, <1>3, <1>4 DEF EndRun, Chained, RestTypes
<1>6. \A q \in Requests : request[q].at # "reconciling" => request'[q] = request[q]
  BY <1>5
<1>7. RestTypes' /\ RowsFresh' /\ WaitsRightly' /\ Awaited'
  BY <1>0, <1>1, <1>3, <1>5 DEF EndRun, RestTypes, RowsFresh, WaitsRightly, Awaited
<1>8. Asked'
  <2>1. Idle.op = "none" /\ Idle.at = "idle"
    BY DEF Idle
  <2> QED
    BY <1>0, <1>5, <2>1 DEF Asked
<1>9. Chained'
  <2>1. ASSUME NEW k \in DOMAIN chain', chain'[k] \in Requests
        PROVE  request'[chain'[k]].at = "reconciling"
    BY <1>0, <1>3, <1>5, <2>1 DEF Chained
  <2>2. ASSUME NEW k \in DOMAIN chain', NEW l \in DOMAIN chain', chain'[k] = chain'[l]
        PROVE  k = l
    <3>1. k + 1 = l + 1
      BY <1>0, <1>3, <2>2 DEF Chained
    <3> QED
      BY <1>3, <3>1
  <2> QED
    BY <1>1, <2>1, <2>2 DEF Chained
<1>10. Stoppers'
  BY <1>0, <1>1, <1>2, <1>6, StoppersKept
<1>11. Alone'
  <2>1. \A q \in Requests : request'[q].at \in {"storage", "migrating"} => request'[q] = request[q]
    BY <1>4, <1>5
  <2> QED
    BY <1>0, <1>2, <2>1, AloneKept DEF EndRun
<1>12. RightOrDue'
  <2> SUFFICES ASSUME NEW p \in Plugins \ unseen, Undisturbed(p) PROVE Right(p)' \/ Due(p)'
    BY <1>2 DEF RightOrDue, EndRun
  <2>1. CASE Len(chain) >= 2
    <3>1. Len(chain') >= 1 /\ Len(<<>>) = 0
      BY <1>3, <2>1
    <3> QED
      BY <1>1, <3>1 DEF Due
  <2>2. CASE Right(p)
    BY <1>0, <1>2, <2>2, RightKept DEF EndRun
  <2>3. CASE ~(Len(chain) >= 2) /\ ~Right(p)
    <3>1. \E q \in Requests : /\ request[q].plugin = p
                              /\ \/ request[q].at \in {"stopping", "storage"}
                                 \/ request[q].at = "migrating" /\ request[q].existing # None
      BY <1>0, <1>1, <2>3 DEF RightOrDue, Due
    <3> QED
      BY <1>6, <3>1 DEF Due
  <2> QED
    BY <2>1, <2>2, <2>3
<1> QED
  BY <1>2, <1>7, <1>8, <1>9, <1>10, <1>11, <1>12 DEF IInv, ProcOK, RestTypes, TypeOK

\* Another run is asked for by the timer.
LEMMA TimerStep ==
    ASSUME IInv, TimerReconcile
    PROVE  IInv'
<1>0. /\ ProcOK /\ RestTypes /\ Stoppers /\ Asked /\ Chained
      /\ Alone /\ RowsFresh /\ WaitsRightly /\ Awaited /\ RightOrDue
  BY Parts
<1>1. /\ ProcOK' /\ StopsKept /\ \A r : Undisturbed(r)' <=> Undisturbed(r)
      /\ \A r \in Plugins : (Silent(r)' <=> Silent(r)) /\ Steady(r)
  BY <1>0, ProcSame DEF TimerReconcile, processVars
<1>2. /\ chain' \in Seq(Callers) /\ chain' # <<>>
      /\ Len(chain) >= 2 => Len(chain') >= 2
  BY <1>0, Joins DEF TimerReconcile, Callers
<1>3. RestTypes' /\ Asked' /\ RowsFresh' /\ WaitsRightly' /\ Awaited'
  BY <1>0, <1>1, <1>2 DEF TimerReconcile, RestTypes, Asked, RowsFresh, WaitsRightly, Awaited,
                          MayRun, processVars
<1>4. Chained'
  BY <1>0, JoinsChained, NoneApart DEF TimerReconcile, Callers
<1>5. Stoppers'
  BY <1>0, <1>1, StoppersKept DEF TimerReconcile
<1>6. Alone'
  BY <1>0, <1>1, AloneKept DEF TimerReconcile
<1>7. RightOrDue'
  <2> SUFFICES ASSUME NEW p \in Plugins \ unseen, Undisturbed(p) PROVE Right(p)' \/ Due(p)'
    BY <1>1 DEF RightOrDue, TimerReconcile
  <2>1. Right(p) => Right(p)'
    BY <1>0, <1>1, RightKept DEF TimerReconcile
  <2>2. Due(p) => Due(p)'
    BY <1>2 DEF Due, TimerReconcile
  <2> QED
    BY <1>0, <2>1, <2>2 DEF RightOrDue
<1> QED
  BY <1>1, <1>3, <1>4, <1>5, <1>6, <1>7 DEF IInv, ProcOK, RestTypes, TypeOK

\* A licence ends or comes: of its plugin nothing is said until a run has looked at it.
LEMMA EntitlementStep ==
    ASSUME IInv, NEW p \in Plugins, EntitlementChanges(p)
    PROVE  IInv'
<1>0. /\ ProcOK /\ RestTypes /\ Stoppers /\ Asked /\ Chained
      /\ Alone /\ RowsFresh /\ WaitsRightly /\ Awaited /\ RightOrDue
  BY Parts
<1>1. /\ ProcOK' /\ StopsKept /\ \A r : Undisturbed(r)' <=> Undisturbed(r)
      /\ \A r \in Plugins : (Silent(r)' <=> Silent(r)) /\ Steady(r)
  BY <1>0, ProcSame DEF EntitlementChanges, processVars
<1>2. /\ entitled' \subseteq Plugins /\ unseen' = unseen \cup {p}
      /\ \A r \in Plugins \ {p} : r \in entitled' <=> r \in entitled
      /\ row' = row /\ chain' = chain /\ rows' = rows /\ run' = run /\ request' = request
  BY <1>0 DEF EntitlementChanges, RestTypes, chainVars
<1>3. RestTypes' /\ Asked' /\ Chained' /\ RowsFresh' /\ Awaited'
  BY <1>0, <1>1, <1>2 DEF EntitlementChanges, RestTypes, Asked, Chained, RowsFresh, Awaited,
                          processVars
<1>4. WaitsRightly'
  <2>1. run.plugin \notin unseen' /\ run.phase \in {"stopping", "replacing"}
            => run.plugin \in Plugins \ {p}
    BY <1>0, <1>2 DEF Chained, RestTypes, Run
  <2> QED
    BY <1>0, <1>1, <1>2, <2>1 DEF WaitsRightly, MayRun
<1>5. Stoppers'
  BY <1>0, <1>1, <1>2, StoppersKept
<1>6. Alone'
  BY <1>0, <1>1, <1>2, AloneKept DEF EntitlementChanges
<1>7. RightOrDue'
  <2> SUFFICES ASSUME NEW r \in Plugins \ unseen, r # p, Undisturbed(r)
               PROVE  Right(r)' \/ Due(r)'
    BY <1>1, <1>2 DEF RightOrDue
  <2>1. Right(r) => Right(r)'
    BY <1>0, <1>1, <1>2, RightKept
  <2>2. Due(r) => Due(r)'
    BY <1>2 DEF Due
  <2> QED
    BY <1>0, <2>1, <2>2 DEF RightOrDue
<1> QED
  BY <1>1, <1>3, <1>4, <1>5, <1>6, <1>7 DEF IInv, ProcOK, RestTypes, TypeOK

\* A caller that joins the chain will have every plugin looked at.
LEMMA JoinsDue ==
    ASSUME RestTypes, Chained, NEW c \in Callers, chain' = Append(chain, c), run' = run
    PROVE  RowsFresh' /\ WaitsRightly' /\ RightOrDue'
<1>1. /\ chain' # <<>> /\ chain # <<>> => Len(chain') >= 2
      /\ run.phase # "between" => chain # <<>>
  BY Joins DEF Chained
<1> QED
  BY <1>1 DEF RowsFresh, WaitsRightly, RightOrDue, Due

\* Requests that only write a row or end a migration: they join the chain.
LEMMA WriteStep ==
    ASSUME IInv, NEW q \in Requests, request[q].at \in {"idle", "migrating"},
           NEW r \in Request, request' = [request EXCEPT ![q] = r],
           r.at = "reconciling", r.plugin # None, r.op = "install" => r.version \in Versions,
           row' \in [Plugins -> Row \cup {None}], \A p \in Plugins : row'[p] = None => row[p] = None,
           chain' = Append(chain, q),
           UNCHANGED <<entitled, processVars, rows, run, unseen, struck>>
    PROVE  IInv'
<1>0. /\ ProcOK /\ RestTypes /\ Stoppers /\ Asked /\ Chained
      /\ Alone /\ RowsFresh /\ WaitsRightly /\ Awaited /\ RightOrDue
  BY Parts
<1>1. /\ ProcOK' /\ StopsKept /\ \A p : Undisturbed(p)' <=> Undisturbed(p)
      /\ \A p \in Plugins : (Silent(p)' <=> Silent(p)) /\ Steady(p)
  BY <1>0, ProcSame DEF processVars
<1>2. /\ request' \in [Requests -> Request] /\ request'[q] = r
      /\ \A u \in Requests \ {q} : request'[u] = request[u]
  BY <1>0 DEF RestTypes
<1>3. chain' \in Seq(Callers) /\ q \in Callers
  BY <1>0, Joins DEF Callers
<1>4. RestTypes'
  BY <1>0, <1>2, <1>3 DEF RestTypes
<1>5. Asked'
  BY <1>0, <1>2 DEF Asked
<1>6. Chained'
  <2>1. \A k \in DOMAIN chain : chain[k] # q
    BY <1>0, NotInChain
  <2> QED
    BY <1>0, <1>2, <1>3, <2>1, JoinsChained
<1>7. Stoppers'
  BY <1>0, <1>1, <1>2, StoppersKept
<1>8. Alone'
  BY <1>0, <1>1, <1>2 DEF Alone
<1>9. Awaited'
  BY <1>0, <1>1 DEF Awaited, processVars
<1>10. RowsFresh' /\ WaitsRightly' /\ RightOrDue'
  BY <1>0, <1>3, JoinsDue
<1> QED
  BY <1>1, <1>4, <1>5, <1>6, <1>7, <1>8, <1>9, <1>10 DEF IInv, ProcOK, RestTypes, TypeOK

\* A plugin is switched on or off.
LEMMA SetEnabledStep ==
    ASSUME IInv, NEW q \in Requests, NEW p \in Plugins, NEW on \in BOOLEAN, SetEnabled(q, p, on)
    PROVE  IInv'
<1> DEFINE r == [Idle EXCEPT !.op = "enable", !.at = "reconciling", !.plugin = p]
<1>1. /\ r \in Request /\ r.at = "reconciling" /\ r.plugin # None /\ r.op # "install"
  BY NoneApart DEF Request, Idle
<1>2. row \in [Plugins -> Row \cup {None}] /\ row[p] \in Row
  BY DEF SetEnabled, IInv, TypeOK
<1>3. [row[p] EXCEPT !.enabled = on] \in Row
  BY <1>2 DEF Row
<1>4. /\ row' = [row EXCEPT ![p] = [row[p] EXCEPT !.enabled = on]]
      /\ request[q].at = "idle" /\ request' = [request EXCEPT ![q] = r]
      /\ chain' = Append(chain, q)
      /\ UNCHANGED <<entitled, processVars, rows, run, unseen, struck>>
  BY DEF SetEnabled
<1>5. row' \in [Plugins -> Row \cup {None}] /\ \A s \in Plugins : row'[s] = None => row[s] = None
  BY <1>2, <1>3, <1>4, NoneApart
<1> HIDE DEF r
<1> QED
  BY <1>1, <1>4, <1>5, WriteStep

\* An update writes the row of the new version.
LEMMA MigratedStep ==
    ASSUME IInv, NEW q \in Requests, Migrated(q)
    PROVE  IInv'
<1> DEFINE r == [request[q] EXCEPT !.at = "reconciling"]
           p == request[q].plugin
           on == IF request[q].existing = None THEN TRUE ELSE request[q].existing.enabled
<1>1. /\ request[q] \in Request /\ request[q].at = "migrating" /\ p \in Plugins
      /\ request[q].version \in Versions /\ row \in [Plugins -> Row \cup {None}]
  BY DEF Migrated, IInv, TypeOK, Asked, Request
<1>2. /\ r \in Request /\ r.at = "reconciling" /\ r.plugin # None /\ r.version \in Versions
  BY <1>1, NoneApart DEF Request
<1>3. on \in BOOLEAN
  <2>1. request[q].existing \in Row \cup {None}
    BY <1>1 DEF Request
  <2> QED
    BY <2>1 DEF Row
<1>4. [enabled |-> on, version |-> request[q].version] \in Row
  BY <1>1, <1>3 DEF Row
<1>5. /\ row' = [row EXCEPT ![p] = [enabled |-> on, version |-> request[q].version]]
      /\ request' = [request EXCEPT ![q] = r] /\ chain' = Append(chain, q)
      /\ UNCHANGED <<entitled, processVars, rows, run, unseen, struck>>
  BY DEF Migrated
<1>6. row' \in [Plugins -> Row \cup {None}] /\ \A s \in Plugins : row'[s] = None => row[s] = None
  BY <1>1, <1>4, <1>5, NoneApart
<1> HIDE DEF r
<1> QED
  BY <1>1, <1>2, <1>5, <1>6, WriteStep

\* A step that takes a request out of the hands of a plugin without a run.
LEMMA IdleStep ==
    ASSUME IInv, NEW q \in Requests, request[q].at \in {"storage", "migrating"},
           request' = [request EXCEPT ![q] = Idle],
           request[q].at = "migrating" => request[q].existing = None /\ row' = row,
           request[q].at = "storage" => row' = [row EXCEPT ![request[q].plugin] = None],
           UNCHANGED <<entitled, processVars, chainVars, unseen, struck>>
    PROVE  IInv'
<1> DEFINE p == request[q].plugin
<1>0. /\ ProcOK /\ RestTypes /\ Stoppers /\ Asked /\ Chained
      /\ Alone /\ RowsFresh /\ WaitsRightly /\ Awaited /\ RightOrDue
  BY Parts
<1>1. /\ ProcOK' /\ StopsKept /\ \A s : Undisturbed(s)' <=> Undisturbed(s)
      /\ \A s \in Plugins : (Silent(s)' <=> Silent(s)) /\ Steady(s)
  BY <1>0, ProcSame DEF processVars
<1>2. Idle \in Request /\ Idle.at = "idle" /\ Idle.op = "none"
  BY DEF Idle, Request
<1>3. /\ request' \in [Requests -> Request] /\ request'[q] = Idle
      /\ \A u \in Requests \ {q} : request'[u] = request[u]
  BY <1>0, <1>2 DEF RestTypes
<1>4. /\ p \in Plugins /\ row' \in [Plugins -> Row \cup {None}]
      /\ \A s \in Plugins \ {p} : row'[s] = row[s]
      /\ request[q].at = "storage" => row'[p] = None
      /\ row'[p] = None \/ row'[p] = row[p]
  BY <1>0 DEF RestTypes, Asked, Request
<1>5. RestTypes' /\ Asked'
  BY <1>0, <1>2, <1>3, <1>4 DEF RestTypes, Asked, chainVars
<1>6. Chained'
  BY <1>0, <1>3 DEF Chained, chainVars
<1>7. Stoppers'
  BY <1>0, <1>1, <1>3, StoppersKept DEF chainVars
<1>8. request[q].at = "storage" /\ Undisturbed(p) => Silent(p)
  BY <1>0, <1>4 DEF Alone
<1>9. Alone'
  BY <1>0, <1>1, <1>2, <1>3, <1>4, <1>8 DEF Alone
<1>10. Awaited'
  BY <1>0, <1>1 DEF Awaited, processVars, chainVars
<1>11. RowsFresh'
  BY <1>0, <1>4 DEF RowsFresh, chainVars
<1>12. WaitsRightly'
  <2> SUFFICES ASSUME run.phase \in {"stopping", "replacing"}, run.plugin \notin unseen,
                      Undisturbed(run.plugin), ~(Len(chain) >= 2)
               PROVE  \/ run.phase = "stopping" /\ ~MayRun(run.plugin, row[run.plugin])'
                      \/ /\ run.phase = "replacing" /\ rows[run.plugin] = row'[run.plugin]
                         /\ MayRun(run.plugin, row[run.plugin])'
    BY <1>1 DEF WaitsRightly, chainVars
  <2>1. run.plugin \in Plugins
    BY <1>0, RunOfPlugin
  <2>2. CASE row'[run.plugin] = row[run.plugin]
    BY <1>0, <2>2 DEF WaitsRightly, MayRun, chainVars
  <2>3. CASE row'[run.plugin] # row[run.plugin]
    <3>1. run.plugin = p /\ request[q].at = "storage" /\ row'[p] = None
      BY <1>0, <1>4, <2>1, <2>3
    <3>2. Silent(p) /\ procs[p] # None /\ proc[procs[p]].plugin = p /\ Alive(procs[p])
      BY <1>0, <1>4, <1>8, <3>1 DEF Awaited, ProcOK, Mapped
    <3> QED
      BY <1>0, <1>4, <3>2 DEF Silent, ProcOK
  <2> QED
    BY <2>2, <2>3
<1>13. RightOrDue'
  <2> SUFFICES ASSUME NEW s \in Plugins \ unseen, Undisturbed(s) PROVE Right(s)' \/ Due(s)'
    BY <1>1 DEF RightOrDue
  <2>1. CASE s = p /\ request[q].at = "storage"
    <3>1. ~MayRun(s, row[s])' /\ Silent(s)'
      BY <1>1, <1>4, <1>8, <2>1 DEF MayRun
    <3> QED
      BY <3>1 DEF Right
  <2>2. CASE s # p \/ request[q].at = "migrating"
    <3>1. row'[s] = row[s]
      BY <1>4, <2>2
    <3>2. Right(s) => Right(s)'
      BY <1>0, <1>1, <3>1, RightKept
    <3>3. Due(s) => Due(s)'
      BY <1>3, <2>2, <3>1 DEF Due, chainVars
    <3> QED
      BY <1>0, <3>2, <3>3 DEF RightOrDue
  <2> QED
    BY <2>1, <2>2
<1> QED
  BY <1>1, <1>5, <1>6, <1>7, <1>9, <1>10, <1>11, <1>12, <1>13 DEF IInv, ProcOK, RestTypes, TypeOK

\* A migration fails: of a first installation nothing is left, else the old version goes on.
LEMMA MigrationFailsStep ==
    ASSUME IInv, NEW q \in Requests, MigrationFails(q)
    PROVE  IInv'
<1>1. CASE request[q].existing = None
  BY <1>1, IdleStep DEF MigrationFails, chainVars
<1>2. CASE request[q].existing # None
  <2> DEFINE r == [request[q] EXCEPT !.at = "reconciling"]
  <2>1. /\ request[q] \in Request /\ request[q].at = "migrating" /\ request[q].plugin \in Plugins
        /\ request[q].version \in Versions /\ row \in [Plugins -> Row \cup {None}]
    BY DEF MigrationFails, IInv, TypeOK, Asked, Request
  <2>2. /\ r \in Request /\ r.at = "reconciling" /\ r.plugin # None /\ r.version \in Versions
    BY <2>1, NoneApart DEF Request
  <2>3. /\ row' = row /\ request' = [request EXCEPT ![q] = r] /\ chain' = Append(chain, q)
        /\ UNCHANGED <<entitled, processVars, rows, run, unseen, struck>>
    BY <1>2 DEF MigrationFails
  <2> HIDE DEF r
  <2> QED
    BY <2>1, <2>2, <2>3, WriteStep
<1> QED
  BY <1>1, <1>2

\* The store of a plugin is closed: nothing else changes.
LEMMA StorageClosedStep ==
    ASSUME IInv, NEW q \in Requests, StorageClosed(q)
    PROVE  IInv'
BY IdleStep DEF StorageClosed

\* What a request that has stopped a plugin is about.
StopsFirst(r, p) ==
    /\ r \in Request /\ r.plugin = p /\ r.op \in {"restart", "uninstall", "install"}
    /\ r.op = "install" => r.existing # None /\ r.version \in Versions

\* The process of a plugin has ended for a request: it reconciles, or has the data.
LEMMA AfterStopStep ==
    ASSUME IInv, NEW q \in Requests, NEW p \in Plugins, NEW r, StopsFirst(r, p),
           request[q].at = "idle" \/ (request[q].at = "stopping" /\ request[q].plugin = p),
           Ended(p), AfterStop(q, r),
           \A i \in Procs : proc'[i].stopper # q,
           ~(run.phase \in {"stopping", "replacing"} /\ run.plugin = p /\ Undisturbed(p)),
           UNCHANGED <<row, entitled, rows, run, unseen>>
    PROVE  IInv'
<1> DEFINE n == [r EXCEPT !.at = Then(r.op)]
<1>0. /\ ProcOK /\ RestTypes /\ Stoppers /\ Asked /\ Chained
      /\ Alone /\ RowsFresh /\ WaitsRightly /\ Awaited /\ RightOrDue
  BY Parts
<1>1. /\ ProcOK' /\ StopsKept /\ \A s : Undisturbed(s)' <=> Undisturbed(s)
      /\ \A s \in Plugins : Silent(s) => Silent(s)'
      /\ \A s \in Plugins \ {p} : Steady(s) /\ Untouched(s)
      /\ Undisturbed(p) => Silent(p)'
      /\ struck' = struck
  BY DEF Ended, Undisturbed
<1>2. /\ n \in Request /\ n.plugin = p /\ n.op = r.op /\ n.existing = r.existing /\ n.version = r.version
      /\ r.op = "restart" => n.at = "reconciling"
      /\ r.op = "uninstall" => n.at = "storage"
      /\ r.op = "install" => n.at = "migrating"
  BY DEF StopsFirst, Then, Request
<1>3. /\ request' = [request EXCEPT ![q] = n]
      /\ r.op = "restart" => chain' = Append(chain, q)
      /\ r.op # "restart" => chain' = chain
  BY DEF AfterStop
<1> HIDE DEF n
<1>4. /\ request' \in [Requests -> Request] /\ request'[q] = n
      /\ \A u \in Requests \ {q} : request'[u] = request[u]
  BY <1>0, <1>2, <1>3 DEF RestTypes
<1>5. chain' \in Seq(Callers) /\ q \in Callers /\ (Len(chain) >= 2 => Len(chain') >= 2)
      /\ (chain # <<>> => chain' # <<>>)
  BY <1>0, <1>3, Joins DEF Callers, RestTypes
<1>6. RestTypes'
  BY <1>0, <1>4, <1>5 DEF RestTypes
<1>7. Asked'
  BY <1>0, <1>2, <1>4, NoneApart DEF Asked, StopsFirst
<1>8. Chained'
  <2>1. \A k \in DOMAIN chain : chain[k] # q
    BY <1>0, NotInChain
  <2>2. CASE r.op = "restart"
    BY <1>0, <1>2, <1>3, <1>4, <1>5, <2>1, <2>2, JoinsChained
  <2>3. CASE r.op # "restart"
    BY <1>0, <1>3, <1>4, <2>1, <2>3 DEF Chained
  <2> QED
    BY <2>2, <2>3
<1>9. Stoppers'
  <2>1. ASSUME NEW i \in Procs, proc'[i].stopper \in Requests \cup {"chain"}
        PROVE  proc'[i].stopper = proc[i].stopper /\ proc'[i].plugin = proc[i].plugin
    BY <1>1, <2>1, NoneApart DEF StopsKept
  <2>2. ASSUME NEW i \in Procs, proc'[i].stopper \in Requests
        PROVE  /\ request'[proc'[i].stopper].at = "stopping"
               /\ request'[proc'[i].stopper].plugin = proc'[i].plugin
    BY <1>0, <1>4, <2>1, <2>2 DEF Stoppers
  <2>3. \A i \in Procs : proc'[i].stopper = "chain" =>
            run'.phase \in {"stopping", "replacing"} /\ run'.plugin = proc'[i].plugin
    BY <1>0, <2>1 DEF Stoppers
  <2>4. \A i, j \in Procs : proc'[i].stopper = proc'[j].stopper /\ proc'[i].stopper # None => i = j
    BY <1>0, <1>1 DEF Stoppers, StopsKept
  <2> QED
    BY <2>2, <2>3, <2>4 DEF Stoppers
<1>10. Alone'
  BY <1>0, <1>1, <1>2, <1>4 DEF Alone
<1>11. Awaited'
  <2>1. run.phase \in {"stopping", "replacing"} => run.plugin \in Plugins
    BY <1>0, RunOfPlugin
  <2> QED
    BY <1>0, <1>1, <2>1 DEF Awaited, Untouched
<1>12. RowsFresh'
  BY <1>0, <1>5 DEF RowsFresh
<1>13. WaitsRightly'
  BY <1>0, <1>1, <1>5 DEF WaitsRightly, MayRun
<1>14. RightOrDue'
  <2> SUFFICES ASSUME NEW s \in Plugins \ unseen, Undisturbed(s), r.op # "restart"
               PROVE  Right(s)' \/ Due(s)'
    BY <1>0, <1>1, <1>3, <1>5, JoinsDue DEF RightOrDue
  <2>1. CASE s = p
    <3>1. request'[q].plugin = s /\ \/ request'[q].at = "storage"
                                    \/ request'[q].at = "migrating" /\ request'[q].existing # None
      BY <1>2, <1>4, <2>1 DEF StopsFirst
    <3> QED
      BY <3>1 DEF Due
  <2>2. CASE s # p
    <3>1. Right(s) => Right(s)'
      BY <1>0, <1>1, <2>2, RightKept
    <3>2. chain' = chain
      BY <1>3
    <3>3. CASE \E u \in Requests : /\ request[u].plugin = s
                                   /\ \/ request[u].at \in {"stopping", "storage"}
                                      \/ request[u].at = "migrating" /\ request[u].existing # None
      <4>1. PICK u \in Requests : /\ request[u].plugin = s
                                  /\ \/ request[u].at \in {"stopping", "storage"}
                                     \/ request[u].at = "migrating" /\ request[u].existing # None
        BY <3>3
      <4>2. u # q
        BY <2>2, <4>1
      <4> QED
        BY <1>4, <4>1, <4>2 DEF Due
    <3>4. CASE ~\E u \in Requests : /\ request[u].plugin = s
                                    /\ \/ request[u].at \in {"stopping", "storage"}
                                       \/ request[u].at = "migrating" /\ request[u].existing # None
      <4>1. Due(s) => Due(s)'
        BY <3>2, <3>4 DEF Due
      <4> QED
        BY <1>0, <3>1, <4>1 DEF RightOrDue
    <3> QED
      BY <3>3, <3>4
  <2> QED
    BY <2>1, <2>2
<1> QED
  BY <1>1, <1>6, <1>7, <1>8, <1>9, <1>10, <1>11, <1>12, <1>13, <1>14
  DEF IInv, ProcOK, RestTypes, TypeOK

\* A request stops the child of a plugin and waits for its end.
LEMMA WaitForStop ==
    ASSUME IInv, NEW q \in Requests, NEW p \in Plugins, NEW r, StopsFirst(r, p),
           request[q].at = "idle", StopAndWait(p, q),
           request' = [request EXCEPT ![q] = [r EXCEPT !.at = "stopping"]],
           UNCHANGED <<row, entitled, chain, rows, run, unseen>>
    PROVE  IInv'
<1> DEFINE n == [r EXCEPT !.at = "stopping"]
<1>0. /\ ProcOK /\ RestTypes /\ Stoppers /\ Asked /\ Chained
      /\ Alone /\ RowsFresh /\ WaitsRightly /\ Awaited /\ RightOrDue
  BY Parts
<1>1. PICK i : i = procs[p]
  OBVIOUS
<1>2. /\ i \in Procs /\ Changed(i) /\ proc[i].plugin = p
      /\ proc'[i].stopper = q /\ (Undisturbed(p)' => proc[i].stopper = None)
  BY <1>0, <1>1, StopAndWaitChanges
<1>3. /\ n \in Request /\ n.plugin = p /\ n.op = r.op /\ n.existing = r.existing /\ n.version = r.version
      /\ n.at = "stopping"
  BY DEF StopsFirst, Request
<1> HIDE DEF n
<1>4. /\ request' \in [Requests -> Request] /\ request'[q] = n
      /\ \A u \in Requests \ {q} : request'[u] = request[u]
  BY <1>0, <1>3 DEF RestTypes, n
<1>5. /\ ProcOK' /\ procs' = procs /\ struck \subseteq struck'
      /\ \A s : Undisturbed(s)' => Undisturbed(s)
      /\ \A s \in Plugins : (Silent(s) => Silent(s)') /\ Steady(s)
      /\ proc'[i].plugin = p /\ \A j \in Procs \ {i} : proc'[j] = proc[j]
  BY <1>2 DEF Changed
<1>6. RestTypes'
  BY <1>0, <1>4 DEF RestTypes
<1>7. Asked'
  BY <1>0, <1>3, <1>4, NoneApart DEF Asked, StopsFirst
<1>8. Chained'
  BY <1>0, <1>4 DEF Chained
<1>9. Stoppers'
  <2>1. \A j \in Procs : proc[j].stopper # q
    BY <1>0 DEF Stoppers
  <2>2. ASSUME NEW j \in Procs, proc'[j].stopper \in Requests
        PROVE  /\ request'[proc'[j].stopper].at = "stopping"
               /\ request'[proc'[j].stopper].plugin = proc'[j].plugin
    <3>1. CASE j = i
      BY <1>2, <1>3, <1>4, <1>5, <3>1
    <3>2. CASE j # i
      BY <1>0, <1>4, <1>5, <2>1, <2>2, <3>2 DEF Stoppers
    <3> QED
      BY <3>1, <3>2
  <2>3. \A j \in Procs : proc'[j].stopper = "chain" =>
            run'.phase \in {"stopping", "replacing"} /\ run'.plugin = proc'[j].plugin
    BY <1>0, <1>2, <1>5, NoneApart DEF Stoppers
  <2>4. \A j, k \in Procs : proc'[j].stopper = proc'[k].stopper /\ proc'[j].stopper # None => j = k
    BY <1>0, <1>2, <1>5, <2>1 DEF Stoppers
  <2> QED
    BY <2>2, <2>3, <2>4 DEF Stoppers
<1>10. Alone'
  <2>1. \A u \in Requests : request'[u].at \in {"storage", "migrating"} => request'[u] = request[u]
    BY <1>3, <1>4
  <2> QED
    BY <1>0, <1>5, <2>1, AloneKept
<1>11. Awaited'
  <2> SUFFICES ASSUME run.phase \in {"stopping", "replacing"}, Undisturbed(run.plugin)'
               PROVE  procs[run.plugin] # None /\ proc'[procs[run.plugin]].stopper = "chain"
    BY <1>5 DEF Awaited
  <2>1. run.plugin \in Plugins
    BY <1>0, RunOfPlugin
  <2>2. procs[run.plugin] # None /\ proc[procs[run.plugin]].stopper = "chain"
    BY <1>0, <1>5 DEF Awaited
  <2>3. procs[run.plugin] # i
    BY <1>0, <1>1, <1>2, <2>1, <2>2, NoneApart DEF ProcOK, Mapped
  <2> QED
    BY <1>0, <1>5, <2>1, <2>2, <2>3 DEF ProcOK
<1>12. RowsFresh' /\ WaitsRightly'
  BY <1>0, <1>5 DEF RowsFresh, WaitsRightly, MayRun
<1>13. RightOrDue'
  <2> SUFFICES ASSUME NEW s \in Plugins \ unseen, Undisturbed(s)'
               PROVE  Right(s)' \/ Due(s)'
    BY DEF RightOrDue
  <2>1. CASE s = p
    BY <1>3, <1>4, <2>1 DEF Due
  <2>2. CASE s # p
    <3>1. Right(s) => Right(s)'
      BY <1>0, <1>5, RightKept
    <3>2. \A u \in Requests : request[u].at # "idle" => request'[u] = request[u]
      BY <1>4
    <3>3. Due(s) => Due(s)'
      BY <3>2 DEF Due
    <3> QED
      BY <1>0, <1>5, <3>1, <3>3 DEF RightOrDue
  <2> QED
    BY <2>1, <2>2
<1> QED
  BY <1>5, <1>6, <1>7, <1>8, <1>9, <1>10, <1>11, <1>12, <1>13
  DEF IInv, ProcOK, RestTypes, TypeOK

\* Nobody waits for a child on behalf of a request that does nothing.
LEMMA StopFirstStep ==
    ASSUME IInv, NEW q \in Requests, NEW p \in Plugins, NEW r, StopsFirst(r, p),
           request[q].at = "idle", StopFirst(q, r),
           UNCHANGED <<row, entitled, rows, run, unseen>>
    PROVE  IInv'
<1>0. ProcOK /\ RestTypes /\ Stoppers /\ Chained /\ Awaited /\ r.plugin = p
  BY Parts DEF StopsFirst
<1>1. CASE StopNow(p) /\ AfterStop(q, r)
  <2>1. Ended(p)
    BY <1>0, <1>1, StopNowEnds
  <2>2. \A i \in Procs : proc'[i].stopper # q
    BY <1>0, <2>1, NoneApart DEF Ended, StopsKept, Stoppers
  <2>3. ~(run.phase \in {"stopping", "replacing"} /\ run.plugin = p /\ Undisturbed(p))
    BY <1>0, <1>1, NoneApart DEF StopNow, StopsAtOnce, Awaited, ProcOK
  <2> QED
    BY <1>0, <1>1, <2>1, <2>2, <2>3, AfterStopStep
<1>2. CASE StopAndWait(p, q) /\ request' = [request EXCEPT ![q] = [r EXCEPT !.at = "stopping"]] /\ UNCHANGED chain
  BY <1>0, <1>2, WaitForStop
<1> QED
  BY <1>0, <1>1, <1>2 DEF StopFirst

\* A first installation finds nothing to stop.
LEMMA InstallNewStep ==
    ASSUME IInv, NEW q \in Requests, NEW p \in Plugins, NEW r \in Request,
           r.op = "install", r.plugin = p, r.existing = None, r.version \in Versions,
           row[p] = None, request[q].at = "idle", AfterStop(q, r),
           UNCHANGED <<row, entitled, processVars, rows, run, unseen, struck>>
    PROVE  IInv'
<1> DEFINE n == [r EXCEPT !.at = Then(r.op)]
<1>0. /\ ProcOK /\ RestTypes /\ Stoppers /\ Asked /\ Chained
      /\ Alone /\ RowsFresh /\ WaitsRightly /\ Awaited /\ RightOrDue
  BY Parts
<1>1. /\ ProcOK' /\ StopsKept /\ \A s : Undisturbed(s)' <=> Undisturbed(s)
      /\ \A s \in Plugins : (Silent(s)' <=> Silent(s)) /\ Steady(s)
  BY <1>0, ProcSame DEF processVars
<1>2. /\ n \in Request /\ n.plugin = p /\ n.op = "install" /\ n.at = "migrating"
      /\ n.version \in Versions
  BY DEF Then, Request
<1>3. request' = [request EXCEPT ![q] = n] /\ chain' = chain
  BY DEF AfterStop
<1> HIDE DEF n
<1>4. /\ request' \in [Requests -> Request] /\ request'[q] = n
      /\ \A u \in Requests \ {q} : request'[u] = request[u]
  BY <1>0, <1>2, <1>3 DEF RestTypes
<1>5. RestTypes' /\ Asked'
  BY <1>0, <1>2, <1>3, <1>4, NoneApart DEF RestTypes, Asked
<1>6. Chained'
  BY <1>0, <1>3, <1>4 DEF Chained
<1>7. Stoppers'
  BY <1>0, <1>1, <1>4, StoppersKept
<1>8. Alone'
  BY <1>0, <1>1, <1>2, <1>4 DEF Alone
<1>9. RowsFresh' /\ WaitsRightly' /\ Awaited'
  BY <1>0, <1>1, <1>3 DEF RowsFresh, WaitsRightly, Awaited, MayRun, processVars
<1>10. RightOrDue'
  <2> SUFFICES ASSUME NEW s \in Plugins \ unseen, Undisturbed(s) PROVE Right(s)' \/ Due(s)'
    BY <1>1 DEF RightOrDue
  <2>1. Right(s) => Right(s)'
    BY <1>0, <1>1, RightKept
  <2>2. \A u \in Requests : request[u].at # "idle" => request'[u] = request[u]
    BY <1>4
  <2>3. Due(s) => Due(s)'
    BY <1>3, <2>2 DEF Due
  <2> QED
    BY <1>0, <2>1, <2>3 DEF RightOrDue
<1> QED
  BY <1>1, <1>5, <1>6, <1>7, <1>8, <1>9, <1>10 DEF IInv, ProcOK, RestTypes, TypeOK

\* Restart, uninstall and update: the process is stopped first, if there is a row.
LEMMA BeginStep ==
    ASSUME IInv, NEW q \in Requests, NEW op \in {"restart", "uninstall", "install"},
           NEW p \in Plugins, NEW v \in Versions \cup {None}, Begin(q, op, p, v),
           op # "install" => row[p] # None, op = "install" => v \in Versions
    PROVE  IInv'
<1> DEFINE r == [op |-> op, at |-> "idle", plugin |-> p,
                 existing |-> IF op = "install" THEN row[p] ELSE None, version |-> v]
<1>1. row[p] \in Row \cup {None}
  BY DEF IInv, TypeOK
<1>2. /\ r \in Request /\ r.plugin = p /\ r.op = op /\ r.version = v
      /\ op = "install" => r.existing = row[p]
  BY <1>1 DEF Request
<1>3. /\ request[q].at = "idle" /\ UNCHANGED <<row, entitled, rows, run, unseen>>
      /\ row[p] # None => StopFirst(q, r)
      /\ row[p] = None => AfterStop(q, r) /\ UNCHANGED <<processVars, struck>>
  BY DEF Begin
<1> HIDE DEF r
<1>4. CASE row[p] # None
  <2>1. StopsFirst(r, p)
    BY <1>2, <1>4 DEF StopsFirst
  <2> QED
    BY <1>3, <1>4, <2>1, StopFirstStep
<1>5. CASE row[p] = None
  BY <1>2, <1>3, <1>5, InstallNewStep
<1> QED
  BY <1>4, <1>5

\* A run goes on with the next plugin, done with p.
Walked(p) ==
    /\ run.phase # "between" /\ (run.phase = "stopping" => run.plugin = p)
    /\ run' \in Run /\ run'.phase = "walking"
    /\ rows' \in [Plugins -> Row \cup {None}] /\ rows'[p] \in {None, rows[p]}
    /\ \A s \in Plugins \ {p} : rows'[s] = rows[s]
    /\ unseen' \in {unseen, unseen \ {p}}
    /\ ProcOK' /\ StopsKept /\ Alone'
    /\ run.phase # "walking" => \A i \in Procs : proc'[i].stopper # "chain"
    /\ \A s : Undisturbed(s)' => Undisturbed(s)
    /\ \A s \in Plugins \ {p} : Steady(s)
    /\ p \notin unseen' /\ Undisturbed(p)' => Right(p)' \/ Len(chain) >= 2
    /\ UNCHANGED <<row, entitled, chain, request>>

\* The run comes to a plugin that needs nothing of it.
LEMMA WalkedStep ==
    ASSUME IInv, NEW p \in Plugins, Walked(p)
    PROVE  IInv'
<1>0. /\ ProcOK /\ RestTypes /\ Stoppers /\ Asked /\ Chained
      /\ Alone /\ RowsFresh /\ WaitsRightly /\ Awaited /\ RightOrDue
  BY Parts
<1>1. RestTypes' /\ Asked'
  BY <1>0 DEF Walked, RestTypes, Asked
<1>2. Chained'
  BY <1>0 DEF Walked, Chained
<1>3. Stoppers'
  <2>1. \A j \in Procs : proc'[j].stopper # "chain"
    BY <1>0, NoneApart DEF Walked, Stoppers, StopsKept
  <2>2. ASSUME NEW j \in Procs, proc'[j].stopper \in Requests
        PROVE  /\ request'[proc'[j].stopper].at = "stopping"
               /\ request'[proc'[j].stopper].plugin = proc'[j].plugin
    <3>1. proc'[j].stopper = proc[j].stopper /\ proc'[j].plugin = proc[j].plugin
      BY <2>2, NoneApart DEF Walked, StopsKept
    <3> QED
      BY <1>0, <2>2, <3>1 DEF Walked, Stoppers
  <2>3. \A j, k \in Procs : proc'[j].stopper = proc'[k].stopper /\ proc'[j].stopper # None => j = k
    BY <1>0 DEF Walked, Stoppers, StopsKept
  <2> QED
    BY <2>1, <2>2, <2>3 DEF Stoppers
<1>4. RowsFresh'
  BY <1>0 DEF Walked, RowsFresh
<1>5. WaitsRightly' /\ Awaited'
  BY DEF Walked, WaitsRightly, Awaited
<1>6. RightOrDue'
  <2> SUFFICES ASSUME NEW s \in Plugins \ unseen', Undisturbed(s)' PROVE Right(s)' \/ Due(s)'
    BY DEF RightOrDue
  <2>1. CASE s = p
    BY <2>1 DEF Walked, Due
  <2>2. CASE s # p
    <3>1. s \notin unseen /\ Undisturbed(s)
      BY <2>2 DEF Walked
    <3>2. Right(s) => Right(s)'
      BY <1>0, <2>2, RightKept DEF Walked
    <3>3. Due(s) => Due(s)'
      BY <2>2 DEF Due, Walked
    <3> QED
      BY <1>0, <3>1, <3>2, <3>3 DEF RightOrDue
  <2> QED
    BY <2>1, <2>2
<1> QED
  BY <1>1, <1>2, <1>3, <1>4, <1>5, <1>6 DEF Walked, IInv, ProcOK, RestTypes, TypeOK

\* A run tells a child to end and waits for it.
WaitsFor(p, phase) ==
    /\ run.phase = "walking" /\ run' = Phase(phase, p)
    /\ phase = "replacing" => rows' = rows /\ rows[p] # None
    /\ phase = "stopping" => rows' = Without(p)
    /\ Undisturbed(p)' =>
           \/ Len(chain) >= 2
           \/ phase = "stopping" /\ ~MayRun(p, row[p])
           \/ phase = "replacing" /\ rows[p] = row[p] /\ MayRun(p, row[p])
    /\ unseen' = unseen \ {p}
    /\ UNCHANGED <<row, entitled, chain, request>>

\* The run stops a process and waits for its end.
LEMMA WaitForRun ==
    ASSUME IInv, NEW p \in Plugins, NEW phase \in {"stopping", "replacing"},
           WaitsFor(p, phase), StopAndWait(p, "chain")
    PROVE  IInv'
<1>0. /\ ProcOK /\ RestTypes /\ Stoppers /\ Asked /\ Chained
      /\ Alone /\ RowsFresh /\ WaitsRightly /\ Awaited /\ RightOrDue
  BY Parts
<1>1. PICK i : i = procs[p]
  OBVIOUS
<1>2. /\ i \in Procs /\ Changed(i) /\ proc[i].plugin = p /\ proc'[i].stopper = "chain"
  BY <1>0, <1>1, StopAndWaitChanges
<1>3. /\ ProcOK' /\ procs' = procs /\ struck \subseteq struck'
      /\ \A s : Undisturbed(s)' => Undisturbed(s)
      /\ \A s \in Plugins : (Silent(s) => Silent(s)') /\ Steady(s)
      /\ proc'[i].plugin = p /\ \A j \in Procs \ {i} : proc'[j] = proc[j]
  BY <1>2 DEF Changed
<1>4. run' \in Run /\ run'.phase = phase /\ run'.plugin = p
  BY PhaseType DEF WaitsFor
<1>5. /\ rows' \in [Plugins -> Row \cup {None}]
      /\ \A s \in Plugins \ {p} : rows'[s] = rows[s]
      /\ rows'[p] \in {None, rows[p]}
      /\ phase = "replacing" => rows'[p] = rows[p] /\ rows[p] # None
  BY <1>0 DEF WaitsFor, Without, RestTypes
<1>6. RestTypes' /\ Asked'
  BY <1>0, <1>4, <1>5 DEF WaitsFor, RestTypes, Asked
<1>7. Chained'
  BY <1>0, <1>4, <1>5, NoneApart DEF WaitsFor, Chained
<1>8. Stoppers'
  <2>1. \A j \in Procs : proc[j].stopper # "chain"
    BY <1>0 DEF Stoppers, WaitsFor
  <2>2. \A j \in Procs : proc'[j].stopper \in Requests =>
            request'[proc'[j].stopper].at = "stopping" /\ request'[proc'[j].stopper].plugin = proc'[j].plugin
    BY <1>0, <1>2, <1>3, NoneApart DEF Stoppers, WaitsFor
  <2>3. \A j \in Procs : proc'[j].stopper = "chain" =>
            run'.phase \in {"stopping", "replacing"} /\ run'.plugin = proc'[j].plugin
    BY <1>3, <1>4, <2>1
  <2>4. \A j, k \in Procs : proc'[j].stopper = proc'[k].stopper /\ proc'[j].stopper # None => j = k
    BY <1>0, <1>2, <1>3, <2>1 DEF Stoppers
  <2> QED
    BY <2>2, <2>3, <2>4 DEF Stoppers
<1>9. Alone'
  BY <1>0, <1>3, AloneKept DEF WaitsFor
<1>10. RowsFresh'
  BY <1>0, <1>5 DEF WaitsFor, RowsFresh
<1>11. WaitsRightly'
  BY <1>4, <1>5 DEF WaitsFor, WaitsRightly, MayRun
<1>12. Awaited'
  BY <1>1, <1>2, <1>3, <1>4, NoneApart DEF Awaited
<1>13. RightOrDue'
  <2> SUFFICES ASSUME NEW s \in Plugins \ unseen', Undisturbed(s)' PROVE Right(s)' \/ Due(s)'
    BY DEF RightOrDue
  <2>1. CASE s = p
    <3>1. \/ Len(chain) >= 2
          \/ phase = "stopping"
          \/ phase = "replacing" /\ rows[p] = row[p]
      BY <2>1 DEF WaitsFor
    <3> QED
      BY <1>4, <1>5, <2>1, <3>1 DEF Due, WaitsFor
  <2>2. CASE s # p
    <3>1. s \notin unseen /\ Undisturbed(s)
      BY <1>3, <2>2 DEF WaitsFor
    <3>2. Right(s) => Right(s)'
      BY <1>0, <1>3, RightKept DEF WaitsFor
    <3>3. Due(s) => Due(s)'
      BY <1>4, <1>5, <2>2 DEF Due, WaitsFor
    <3> QED
      BY <1>0, <3>1, <3>2, <3>3 DEF RightOrDue
  <2> QED
    BY <2>1, <2>2
<1> QED
  BY <1>3, <1>6, <1>7, <1>8, <1>9, <1>10, <1>11, <1>12, <1>13
  DEF IInv, ProcOK, RestTypes, TypeOK

\* What a run has read of a plugin is what is there, or another run will come.
LEMMA LooksRightly ==
    ASSUME RowsFresh, NEW p \in Plugins, Look(p)
    PROVE  /\ MayRun(p, rows[p]) =>
                  /\ row[p] # None /\ row[p].version = rows[p].version
                  /\ (rows[p] = row[p] /\ MayRun(p, row[p])) \/ Len(chain) >= 2
           /\ ~MayRun(p, rows[p]) => ~MayRun(p, row[p]) \/ Len(chain) >= 2
BY DEF RowsFresh, Look, MayRun

\* stop(): nothing to stop, a restart timer taken back, or a child that is waited for.
LEMMA WalkStopStep ==
    ASSUME IInv, NEW p \in Plugins, WalkStop(p)
    PROVE  IInv'
<1>0. /\ ProcOK /\ RestTypes /\ Stoppers /\ Asked /\ Chained
      /\ Alone /\ RowsFresh /\ WaitsRightly /\ Awaited /\ RightOrDue
  BY Parts
<1>1. /\ Look(p) /\ rows' = Without(p)
      /\ ~MayRun(p, row[p]) \/ Len(chain) >= 2
  BY <1>0, LooksRightly DEF WalkStop
<1>2. CASE StopNow(p) /\ UNCHANGED run
  <2>1. Ended(p)
    BY <1>0, <1>2, StopNowEnds
  <2>2. /\ ProcOK' /\ StopsKept /\ struck' = struck
        /\ \A s : Undisturbed(s)' <=> Undisturbed(s)
        /\ \A s : Silent(s) => Silent(s)'
        /\ Undisturbed(p) => Silent(p)'
        /\ \A s \in Plugins \ {p} : Steady(s)
    BY <2>1 DEF Ended, Undisturbed
  <2>3. Alone'
    BY <1>0, <1>1, <2>2, AloneKept DEF Look
  <2>4. Undisturbed(p)' => Right(p)' \/ Len(chain) >= 2
    BY <1>1, <2>2 DEF Right, MayRun, Look
  <2>5. /\ rows' \in [Plugins -> Row \cup {None}] /\ rows'[p] = None
        /\ \A s \in Plugins \ {p} : rows'[s] = rows[s]
    BY <1>0, <1>1 DEF Without, RestTypes
  <2>6. Walked(p)
    BY <1>0, <1>1, <1>2, <2>2, <2>3, <2>4, <2>5 DEF Walked, Look, RestTypes
  <2> QED
    BY <2>6, WalkedStep
<1>3. CASE StopAndWait(p, "chain") /\ run' = Phase("stopping", p)
  <2>1. WaitsFor(p, "stopping")
    BY <1>1, <1>3 DEF WaitsFor, Look
  <2> QED
    BY <1>3, <2>1, WaitForRun
<1> QED
  BY <1>2, <1>3 DEF WalkStop

\* A child of the installed version: nothing runs of a plugin that is on its way out.
LEMMA BornAlone ==
    ASSUME Alone, Asked, NEW p \in Plugins, NEW v, Born(p, v),
           row[p] # None \/ ~Undisturbed(p)', UNCHANGED <<row, request>>
    PROVE  Alone'
<1> SUFFICES ASSUME NEW s \in Plugins, Undisturbed(s)'
             PROVE  /\ row'[s] = None => Silent(s)'
                    /\ \A q \in Requests :
                           request'[q].plugin = s /\ request'[q].at = "storage" => Silent(s)'
  BY DEF Alone
<1>1. CASE s = p
  <2>1. ~Leaving(p)
    BY <1>1 DEF Born, Undisturbed
  <2> QED
    BY <1>1, <2>1 DEF Leaving
<1>2. CASE s # p
  <2>1. Undisturbed(s) /\ struck \subseteq struck' /\ (Silent(s) => Silent(s)')
    BY <1>2 DEF Born, Steady
  <2> QED
    BY <2>1 DEF Alone
<1> QED
  BY <1>1, <1>2

\* The child a run has started is the one that may run.
LEMMA BornRight ==
    ASSUME NEW p \in Plugins, NEW v, Born(p, v), MayRun(p, row[p]), row[p].version = v,
           UNCHANGED <<row, entitled>>
    PROVE  Right(p)'
<1>1. procs'[p] \in Procs /\ proc'[procs'[p]].version = v /\ Mapped'
  BY DEF Born, ProcOK
<1>2. procs'[p] # None /\ Alive(procs[p])'
  BY <1>1, NoneApart DEF Mapped
<1>3. MayRun(p, row[p])' /\ row'[p].version = v
  BY DEF MayRun
<1> QED
  BY <1>1, <1>2, <1>3 DEF Right

\* A run has started the process of p.
LEMMA WalkBornStep ==
    ASSUME IInv, NEW p \in Plugins, Look(p), MayRun(p, rows[p]), Born(p, rows[p].version),
           rows' = Without(p), run' = run
    PROVE  IInv'
<1>0. ProcOK /\ RestTypes /\ Stoppers /\ Asked /\ Chained /\ Alone /\ RowsFresh
  BY Parts
<1>1. /\ row[p] # None /\ row[p].version = rows[p].version
      /\ MayRun(p, row[p]) \/ Len(chain) >= 2
  BY <1>0, LooksRightly
<1>2. Alone'
  BY <1>0, <1>1, BornAlone DEF Look
<1>3. Right(p)' \/ Len(chain) >= 2
  BY <1>1, BornRight DEF Look
<1>4. /\ rows' \in [Plugins -> Row \cup {None}] /\ rows'[p] = None
      /\ \A s \in Plugins \ {p} : rows'[s] = rows[s]
  BY <1>0 DEF Without, RestTypes
<1>5. Walked(p)
  BY <1>0, <1>2, <1>3, <1>4 DEF Walked, Look, RestTypes, Born
<1> QED
  BY <1>5, WalkedStep

\* start(): a new process, or one that lives.
LEMMA WalkRunStep ==
    ASSUME IInv, NEW p \in Plugins, WalkRun(p)
    PROVE  IInv'
<1>0. /\ ProcOK /\ RestTypes /\ Stoppers /\ Asked /\ Chained
      /\ Alone /\ RowsFresh /\ WaitsRightly /\ Awaited /\ RightOrDue
  BY Parts
<1>1. /\ Look(p) /\ MayRun(p, rows[p]) /\ rows' = Without(p) /\ run' = run
      /\ procs[p] = None => RunNew(p, rows[p].version)
      /\ procs[p] # None => RunAgain(p)
  BY DEF WalkRun
<1>2. CASE procs[p] = None
  <2>1. rows[p].version \in Versions
    BY <1>0, <1>1 DEF RestTypes, MayRun, Row
  <2>2. Born(p, rows[p].version)
    BY <1>0, <1>1, <1>2, <2>1, RunNewBorn
  <2> QED
    BY <1>1, <2>2, WalkBornStep
<1>3. CASE procs[p] # None
  <2>1. PICK i : i = procs[p]
    OBVIOUS
  <2>2. i \in Procs /\ Changed(i) /\ proc'[i].stopper = proc[i].stopper
    BY <1>0, <1>1, <1>3, <2>1, RunAgainChanges
  <2>3. /\ ProcOK' /\ procs' = procs /\ struck \subseteq struck'
        /\ \A s : Undisturbed(s)' => Undisturbed(s)
        /\ \A s \in Plugins : (Silent(s) => Silent(s)') /\ Steady(s)
        /\ proc'[i].plugin = proc[i].plugin /\ \A j \in Procs \ {i} : proc'[j] = proc[j]
    BY <2>2 DEF Changed
  <2>4. StopsKept
    BY <2>2, <2>3 DEF StopsKept
  <2>5. Alone'
    BY <1>0, <1>1, <2>3, AloneKept DEF Look
  <2>6. proc[i].version = rows[p].version
    BY <1>3, <2>1, <2>2 DEF WalkRun, Replaces
  <2>7. Right(p)' \/ Len(chain) >= 2
    <3>1. row[p].version = rows[p].version /\ (MayRun(p, row[p]) \/ Len(chain) >= 2)
      BY <1>0, <1>1, LooksRightly
    <3>2. procs'[p] # None /\ proc'[procs'[p]].version = row'[p].version
      BY <1>1, <1>3, <2>1, <2>3, <2>6, <3>1 DEF Steady, Look
    <3>3. Alive(procs[p])'
      BY <2>3, <3>2 DEF ProcOK, Mapped
    <3>4. MayRun(p, row[p]) => MayRun(p, row[p])'
      BY <1>1 DEF MayRun, Look
    <3> QED
      BY <3>1, <3>2, <3>3, <3>4 DEF Right
  <2>8. /\ rows' \in [Plugins -> Row \cup {None}] /\ rows'[p] = None
        /\ \A s \in Plugins \ {p} : rows'[s] = rows[s]
    BY <1>0, <1>1 DEF Without, RestTypes
  <2>9. Walked(p)
    BY <1>0, <1>1, <2>3, <2>4, <2>5, <2>7, <2>8 DEF Walked, Look, RestTypes
  <2> QED
    BY <2>9, WalkedStep
<1> QED
  BY <1>2, <1>3

\* Another version: at once where no child is left, else when it has ended.
LEMMA WalkReplaceStep ==
    ASSUME IInv, NEW p \in Plugins, WalkReplace(p)
    PROVE  IInv'
<1>0. /\ ProcOK /\ RestTypes /\ Asked /\ RowsFresh
  BY Parts
<1>1. Look(p) /\ MayRun(p, rows[p]) /\ procs[p] \in Procs
  BY DEF WalkReplace, Replaces
<1>2. CASE StopsAtOnce(p)
  <2>1. rows[p].version \in Versions
    BY <1>0, <1>1 DEF RestTypes, MayRun, Row
  <2>2. /\ proc' = [proc EXCEPT ![procs[p]] = Fresh(p, rows[p].version)] /\ procs' = procs
        /\ rows' = Without(p) /\ run' = run /\ Strike(p, Meets(p))
    BY <1>2 DEF WalkReplace
  <2>3. Born(p, rows[p].version)
    BY <1>0, <1>1, <2>1, <2>2, NoneApart, ReplacedBorn
  <2> QED
    BY <1>1, <2>2, <2>3, WalkBornStep
<1>3. CASE ~StopsAtOnce(p)
  <2>1. StopAndWait(p, "chain") /\ run' = Phase("replacing", p) /\ rows' = rows
    BY <1>3 DEF WalkReplace
  <2>2. (rows[p] = row[p] /\ MayRun(p, row[p])) \/ Len(chain) >= 2
    BY <1>0, <1>1, LooksRightly
  <2>3. WaitsFor(p, "replacing")
    BY <1>1, <2>1, <2>2 DEF WaitsFor, Look
  <2> QED
    BY <2>1, <2>3, WaitForRun
<1> QED
  BY <1>2, <1>3

\* The child a request has waited for is gone.
LEMMA ExitForRequestStep ==
    ASSUME IInv, NEW i \in Procs, ExitForRequest(i)
    PROVE  IInv'
<1>0. /\ ProcOK /\ RestTypes /\ Stoppers /\ Asked /\ Chained /\ Awaited
  BY Parts
<1>1. PICK q, p : q \in Requests /\ q = proc[i].stopper /\ p = proc[i].plugin
  BY DEF ExitForRequest
<1>2. /\ proc[i].child /\ q # None /\ proc' = [proc EXCEPT ![i] = Left(i)]
      /\ procs' = [procs EXCEPT ![p] = None] /\ AfterStop(q, request[q])
      /\ UNCHANGED <<row, entitled, rows, run, unseen, struck>>
  BY <1>1, NoneApart DEF ExitForRequest
<1>3. p \in Plugins /\ Ended(p) /\ proc'[i].stopper = None
  BY <1>0, <1>1, <1>2, LeftEnds
<1>4. request[q].at = "stopping" /\ request[q].plugin = p
  BY <1>0, <1>1 DEF Stoppers
<1>5. StopsFirst(request[q], p)
  BY <1>0, <1>1, <1>4 DEF StopsFirst, Asked, RestTypes
<1>6. \A j \in Procs : proc'[j].stopper # q
  BY <1>0, <1>1, <1>2, <1>3 DEF Ended, StopsKept, Stoppers
<1>7. ~(run.phase \in {"stopping", "replacing"} /\ run.plugin = p /\ Undisturbed(p))
  BY <1>0, <1>1, <1>2, NoneApart DEF Awaited, ProcOK, Mapped
<1> QED
  BY <1>1, <1>2, <1>3, <1>4, <1>5, <1>6, <1>7, AfterStopStep

\* The child a run has waited for is gone: the run goes on, or starts the other version.
LEMMA ExitForRunStep ==
    ASSUME IInv, NEW i \in Procs, ExitForRun(i)
    PROVE  IInv'
<1>0. /\ ProcOK /\ RestTypes /\ Stoppers /\ Asked /\ Chained
      /\ Alone /\ WaitsRightly
  BY Parts
<1>1. PICK p : p = proc[i].plugin
  OBVIOUS
<1>2. /\ proc[i].child /\ proc[i].stopper = "chain" /\ proc[i].stopper # None
      /\ run.phase \in {"stopping", "replacing"} /\ run.plugin = p
      /\ run' \in Run /\ run'.phase = "walking"
      /\ UNCHANGED <<row, entitled, chain, request, unseen>>
  BY <1>0, <1>1, PhaseType, NoneApart DEF ExitForRun, Stoppers
<1>3. \A j \in Procs \ {i} : proc[j].stopper # "chain"
  BY <1>0, <1>2 DEF Stoppers
<1>4. CASE run.phase = "stopping"
  <2>1. /\ proc' = [proc EXCEPT ![i] = Left(i)] /\ procs' = [procs EXCEPT ![p] = None]
        /\ UNCHANGED <<rows, struck>>
    BY <1>1, <1>4 DEF ExitForRun
  <2>2. p \in Plugins /\ Ended(p) /\ proc'[i].stopper = None
    BY <1>0, <1>1, <1>2, <2>1, LeftEnds
  <2>3. /\ ProcOK' /\ StopsKept /\ struck' = struck
        /\ \A s : Undisturbed(s)' <=> Undisturbed(s)
        /\ \A s : Silent(s) => Silent(s)'
        /\ Undisturbed(p) => Silent(p)'
        /\ \A s \in Plugins \ {p} : Steady(s)
    BY <2>2 DEF Ended, Undisturbed
  <2>4. Alone'
    BY <1>0, <1>2, <2>3, AloneKept
  <2>5. p \notin unseen' /\ Undisturbed(p)' => Right(p)' \/ Len(chain) >= 2
    BY <1>0, <1>2, <1>4, <2>3 DEF WaitsRightly, Right, MayRun
  <2>6. \A j \in Procs : proc'[j].stopper # "chain"
    BY <1>3, <2>2, <2>3, NoneApart DEF StopsKept
  <2>7. Walked(p)
    BY <1>0, <1>2, <2>1, <2>3, <2>4, <2>5, <2>6 DEF Walked, RestTypes
  <2> QED
    BY <2>2, <2>7, WalkedStep
<1>5. CASE run.phase = "replacing"
  <2> DEFINE v == rows[p].version
  <2>1. /\ proc' = [proc EXCEPT ![i] = Left(i), ![New] = Fresh(p, v)]
        /\ procs' = [procs EXCEPT ![p] = New] /\ Free # {}
        /\ rows' = Without(p) /\ Strike(p, Meets(p))
    BY <1>1, <1>5 DEF ExitForRun
  <2>2. p \in Plugins /\ Alive(i)
    BY <1>0, <1>1, <1>2, RunOfPlugin DEF Alive
  <2>3. v \in Versions
    BY <1>0, <1>2, <1>5, <2>2 DEF Chained, RestTypes, Row
  <2>4. Born(p, v) /\ proc'[i].stopper = None
    BY <1>0, <1>1, <1>2, <2>1, <2>3, SucceedsBorn
  <2>5. row[p] # None \/ ~Undisturbed(p)
    BY <1>0, <1>1, <2>2 DEF Alone, Silent
  <2>6. Alone'
    BY <1>0, <1>2, <2>2, <2>4, <2>5, BornAlone DEF Born
  <2>7. p \notin unseen' /\ Undisturbed(p)' => Right(p)' \/ Len(chain) >= 2
    <3> SUFFICES ASSUME p \notin unseen, Undisturbed(p), ~(Len(chain) >= 2) PROVE Right(p)'
      BY <1>2, <2>4 DEF Born
    <3>1. rows[p] = row[p] /\ MayRun(p, row[p])
      BY <1>0, <1>2, <1>5 DEF WaitsRightly
    <3> QED
      BY <1>2, <2>2, <2>4, <3>1, BornRight
  <2>8. \A j \in Procs : proc'[j].stopper # "chain"
    BY <1>3, <2>4, NoneApart DEF StopsKept, Born
  <2>9. /\ rows' \in [Plugins -> Row \cup {None}] /\ rows'[p] = None
        /\ \A s \in Plugins \ {p} : rows'[s] = rows[s]
    BY <1>0, <2>1, <2>2 DEF Without, RestTypes
  <2>10. Walked(p)
    BY <1>2, <1>5, <2>4, <2>6, <2>7, <2>8, <2>9 DEF Walked, Born
  <2> QED
    BY <2>2, <2>10, WalkedStep
<1> QED
  BY <1>2, <1>4, <1>5

-----------------------------------------------------------------------------
(* The theorems *)

\* Nothing runs and nothing is asked when the server begins.
LEMMA InitIInv ==
    ASSUME Init
    PROVE  IInv
<1>1. proc \in [Procs -> Process] /\ \A i \in Procs : proc[i] = Gone /\ ~Alive(i)
  BY GoneType DEF Init, Alive
<1>2. \A q \in Requests : request[q] = Idle /\ Idle \in Request /\ Idle.at = "idle" /\ Idle.op = "none"
  BY DEF Init, Idle, Request
<1>3. run \in Run /\ run.phase = "between"
  BY PhaseType DEF Init
<1>4. chain = <<"timer">> /\ Len(chain) = 1 /\ DOMAIN chain = {1} /\ chain[1] = "timer" /\ chain # <<>>
      /\ chain \in Seq(Callers)
  BY DEF Init, Callers
<1>5. TypeOK
  BY <1>1, <1>2, <1>3, <1>4, GoneType DEF Init, TypeOK
<1>6. Mapped /\ Stopped /\ Stoppers /\ NothingOutside
  BY <1>1, GoneType, NoneApart DEF Init, Mapped, Stopped, Stoppers, NothingOutside, Told
<1>7. Asked /\ Chained
  BY <1>2, <1>3, <1>4, NoneApart DEF Asked, Chained
<1>8. Alone
  BY <1>1 DEF Alone, Silent
<1>9. RowsFresh /\ WaitsRightly /\ Awaited /\ RightOrDue
  BY <1>3 DEF Init, RowsFresh, WaitsRightly, Awaited, RightOrDue
<1> QED
  BY <1>5, <1>6, <1>7, <1>8, <1>9 DEF IInv

\* What administrators begin.
LEMMA AdministerStep ==
    ASSUME IInv, Administer
    PROVE  IInv'
<1>1. PICK q \in Requests, p \in Plugins :
          \/ \E on \in BOOLEAN : SetEnabled(q, p, on)
          \/ Restart(q, p)
          \/ Uninstall(q, p)
          \/ \E v \in Versions : Install(q, p, v)
  BY DEF Administer
<1>2. CASE \E on \in BOOLEAN : SetEnabled(q, p, on)
  BY <1>2, SetEnabledStep
<1>3. CASE Restart(q, p)
  BY <1>3, BeginStep DEF Restart
<1>4. CASE Uninstall(q, p)
  BY <1>4, BeginStep DEF Uninstall
<1>5. CASE \E v \in Versions : Install(q, p, v)
  BY <1>5, BeginStep DEF Install
<1> QED
  BY <1>1, <1>2, <1>3, <1>4, <1>5

\* Every step of the specification keeps the inductive invariant.
LEMMA NextStep ==
    ASSUME IInv, [Next]_vars
    PROVE  IInv'
<1>1. CASE Administer
  BY <1>1, AdministerStep
<1>2. CASE \E q \in Requests : StorageClosed(q) \/ Migrated(q) \/ MigrationFails(q)
  BY <1>2, StorageClosedStep, MigratedStep, MigrationFailsStep
<1>3. CASE StartRun \/ EndRun \/ TimerReconcile
  BY <1>3, StartRunStep, EndRunStep, TimerStep
<1>4. CASE \E p \in Plugins : WalkStop(p) \/ WalkRun(p) \/ WalkReplace(p) \/ EntitlementChanges(p)
  BY <1>4, WalkStopStep, WalkRunStep, WalkReplaceStep, EntitlementStep
<1>5. ASSUME NEW i \in Procs, Exit(i)
      PROVE  IInv'
  <2>1. Changed(i) /\ proc'[i].stopper = None
    BY <1>5, Parts, ExitChanges
  <2> QED
    BY <1>5, <2>1, ChangeStep DEF Exit
<1>6. ASSUME NEW i \in Procs, RestartTimer(i)
      PROVE  IInv'
  <2>1. Changed(i) /\ proc'[i].stopper = None
    BY <1>6, Parts, RestartTimerChanges
  <2>2. proc[i].stopper = None
    BY <1>6 DEF RestartTimer, IInv, TypeOK
  <2> QED
    BY <1>6, <2>1, <2>2, ChangeStep DEF RestartTimer
<1>7. CASE \E i \in Procs : Exit(i) \/ ExitForRequest(i) \/ ExitForRun(i) \/ RestartTimer(i)
  BY <1>5, <1>6, <1>7, ExitForRequestStep, ExitForRunStep
<1>8. CASE UNCHANGED vars
  BY <1>8 DEF vars, IInv, TypeOK, Mapped, Stopped, Stoppers, Asked, Chained, NothingOutside, Alone,
              RowsFresh, WaitsRightly, Awaited, RightOrDue, Right, Due, Silent, Alive, Told,
              Undisturbed, MayRun
<1> QED
  BY <1>1, <1>2, <1>3, <1>4, <1>7, <1>8 DEF Next

\* What holds of the processes, the map, the chain and the requests together: the inductive
\* invariant of the lifecycle of plugins.
THEOREM Inductive == Spec => []IInv
<1>1. Init => IInv
  BY InitIInv
<1>2. IInv /\ [Next]_vars => IInv'
  BY NextStep
<1> QED
  BY <1>1, <1>2, PTL DEF Spec

\* The variables keep their types, for every set of plugins, versions and requests.
THEOREM TypeCorrect == Spec => []TypeOK
<1>1. IInv => TypeOK
  BY DEF IInv
<1> QED
  BY <1>1, Inductive, PTL

\* No child and no restart timer is left outside the map of runtime.js, unless a stop met
\* a stop or a start.
THEOREM OneProcess == Spec => []NothingOutside
<1>1. IInv => NothingOutside
  BY DEF IInv
<1> QED
  BY <1>1, Inductive, PTL

\* When nothing is under way, what runs is what may run: whatever was written, stopped or
\* started since, a run or a request that would see to it was still to come until it did.
THEOREM RunsWhatIsDue == Spec => []RunsWhatMayRun
<1>1. ASSUME IInv, AtRest, NEW p \in Plugins \ unseen, Undisturbed(p)
      PROVE  Right(p)
  <2>1. chain = <<>> /\ Len(chain) = 0 /\ \A q \in Requests : request[q].at = "idle"
    BY <1>1 DEF AtRest
  <2>2. run.phase = "between"
    BY <1>1, <2>1 DEF IInv, Chained
  <2>3. ~Due(p)
    BY <2>1, <2>2 DEF Due
  <2> QED
    BY <1>1, <2>3 DEF IInv, RightOrDue
<1>2. IInv => RunsWhatMayRun
  BY <1>1 DEF RunsWhatMayRun, Right, Silent
<1> QED
  BY <1>2, Inductive, PTL

=============================================================================
