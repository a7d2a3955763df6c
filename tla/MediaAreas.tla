------------------------------ MODULE MediaAreas ------------------------------
(* The worker of a media area together with the scan for changes made on its target
   (services/plugins/mediaAreas.js, doScan).  Nobody touches the target by hand here,
   so that whatever the scan finds is the worker's own. *)
EXTENDS MediaTransfers, Naturals

CONSTANTS MaxCommands,  \* bound: how often plugins and administrators ask for something
          MaxFaults     \* bound: how often a call fails or the process stops

ASSUME MediaBounds == MaxCommands \in Nat /\ MaxFaults \in Nat

VARIABLES scan,         \* doScan(): what it is at, and what it has seen
          times,        \* remote_mtime of each file: unset, its object's, or another object's
          asked,        \* counts the commands
          faults        \* counts the faults

vars == <<media, scan, times, asked, faults>>

Times  == {"none", "own", "other"}
Found  == {"path"} \X AllPaths
Change == [id : Files, row : Row, time : Times, local : BOOLEAN]
Scans  == [at : {"idle", "list", "listed", "conflict", "take"}, target : Targets \cup {None},
           seen : SUBSET Keys, ripe : SUBSET Found, wanted : SUBSET Keys, key : Found \cup {None},
           changed : SUBSET Change, like : Change \cup {None}, old : SUBSET Found]

NoScan == [at |-> "idle", target |-> None, seen |-> {}, ripe |-> {}, wanted |-> {}, key |-> None,
           changed |-> {}, like |-> None, old |-> {}]

Init == MediaInit /\ scan = NoScan /\ times = [f \in {} |-> "none"] /\ asked = 0 /\ faults = 0

\* A row that gets another place gets no time with it; an object that another one replaces
\* leaves its time behind.
Dated ==
    [f \in DOMAIN rows' |->
        IF f \notin DOMAIN rows \/ rows'[f].place # rows[f].place THEN "none"
        ELSE IF times[f] = "own" /\ store'[rows[f].place] \notin {store[rows[f].place], None}
             THEN "other" ELSE times[f]]

-----------------------------------------------------------------------------
(* The scan *)

At(key) == <<scan.target, key>>

\* An area on a target, readable, and not moving.
ScanBegins ==
    /\ scan.at = "idle"
    /\ area.form = "files" /\ area.target # Server /\ ~area.moving
    /\ scan' = [NoScan EXCEPT !.at = "list", !.target = area.target]
    /\ UNCHANGED <<media, times>>

\* What the target holds, and what of it has been there for a minute.  A rename is
\* answered, and its row written, before a list that shows the new name.
Listed ==
    /\ scan.at = "list" /\ worker.at # "renamed"
    /\ scan' = [scan EXCEPT !.at = "listed",
                            !.seen = {k \in Keys : store[At(k)] # None},
                            !.ripe = {k \in Found : At(k) \in settled}]
    /\ UNCHANGED <<media, times>>

\* The next file, in the same turn.  A changed one first: the file there leaves its path and
\* its place, which the new one is to have (takeChanged).  Then a new one: under its path, or
\* out of the way of a file of the area.
Conflict(p) == <<"conflict", p>>
NotFree(s, k, r) == k \in s.wanted \/ \E f \in DOMAIN r : r[f].path = k[2]

Freed(r, c) ==
    [f \in DOMAIN r |-> IF f = c.id
                        THEN [r[f] EXCEPT !.path = None, !.place = Here, !.form = "none", !.missing = FALSE]
                        ELSE r[f]]

NextFound(s, r) ==
    \/ \E c \in s.changed :
          /\ scan' = [s EXCEPT !.at = "take", !.changed = @ \ {c}, !.key = c.row.place[2],
                               !.like = [c EXCEPT !.local = @ /\ c.id \in disk']]
          /\ rows' = Freed(r, c)
    \/ /\ s.changed = {} /\ rows' = r
       /\ IF s.ripe = {} THEN scan' = NoScan
          ELSE \E k \in s.ripe :
                  scan' = [s EXCEPT !.at = IF NotFree(s, k, r) THEN "conflict" ELSE "take",
                                    !.ripe = @ \ {k}, !.key = k, !.like = None]

\* The rows of the area on the target; of several at one key, one is looked at.
Mine  == {f \in DOMAIN rows : rows[f].place[1] = scan.target /\ rows[f].form = "files"}
ByKey == {m \in [{rows[f].place[2] : f \in Mine} -> Mine] : \A k \in DOMAIN m : rows[m[k]].place[2] = k}

Missing == {f \in Mine : rows[f].place[2] \notin scan.seen}
Forgotten == {f \in Missing : rows[f].missing}

\* Of the files that the list shows and that have been there for a minute, the list may be
\* older than the object: then it may have had another size or time.
Shown(m) == {m[k] : k \in {j \in DOMAIN m \cap scan.ripe : At(j) \notin gone}}
Stale(m) == {f \in Shown(m) : rows[f].place[2] \in scan.old}

\* Mutants: files of the area are taken for new ones; so are files that are to be deleted.
AddedMine == {k \in scan.ripe : At(k) \notin gone}
AddedGone == {k \in scan.ripe : \A f \in Mine : rows[f].place[2] # k}

Added ==
    {k \in scan.ripe : At(k) \notin gone /\ \A f \in Mine : rows[f].place[2] # k}
Wanted == {rows[f].want : f \in {e \in DOMAIN rows : rows[e].place # At(rows[e].want)}}

\* In one turn: a file without a time gets that of the list, or one that differs from the
\* list has changed; what is missing twice is forgotten, what is new is noted.
ScanTurn ==
    /\ scan.at = "listed"
    /\ disk' = disk \ Forgotten
    /\ UNCHANGED <<area, used, store, settled, gone, worker>>
    /\ \E m \in ByKey : \E D \in SUBSET Stale(m) : \E O \in SUBSET (Stale(m) \ D) :
          LET differ == D \cup {f \in Shown(m) \ Stale(m) : times[f] = "other"}
              adopt  == {f \in Shown(m) \ differ : times[f] = "none"}
          IN /\ NextFound([scan EXCEPT !.seen = {}, !.ripe = Added, !.wanted = Wanted,
                             !.changed = {[id |-> f, row |-> rows[f], time |-> times[f],
                                           local |-> f \in disk] : f \in differ}],
                          [f \in DOMAIN rows \ Forgotten |->
                             IF f \in Mine THEN [rows[f] EXCEPT !.missing = f \in Missing] ELSE rows[f]])
             /\ times' = [f \in DOMAIN rows' |->
                            IF f \in adopt THEN IF f \in O THEN "other" ELSE "own" ELSE Dated[f]]
             /\ torn' = torn \cup {rows[f].bytes : f \in D \cup O}

\* What the worker has put or renamed there since the list was made is taken for what was
\* listed.
Mistaken == IF scan.key \in scan.old THEN torn \cup {store[At(scan.key)]} ELSE torn
Sharing(path) == {rows[e].bytes : e \in {d \in DOMAIN rows : path # None /\ rows[d].path = path}}

\* The name carries the time; here there is one for each path, which bounds the names.
Away(k) == At(<<"path", Conflict(k[2])>>)
HasWay(k) == IF k[2] \in Paths THEN MayRename(At(k), Away(k)) ELSE FALSE

\* The file in the way is renamed first.
ConflictMoves ==
    LET k == scan.key
    IN /\ scan.at = "conflict" /\ HasWay(k)
       /\ store' = Renamed(At(k), Away(k))
       /\ settled' = settled \ {At(k)}
       /\ torn' = Mistaken
       /\ scan' = [scan EXCEPT !.at = "take", !.key = Away(k)[2]]
       /\ UNCHANGED <<area, rows, used, disk, gone, worker>>
       /\ times' = Dated

\* The file that a changed one replaces becomes a version when its copy is here, else it goes.
Replaced(r, c) ==
    IF c.local THEN [f \in DOMAIN r |->
                        IF f = c.id THEN [r[f] EXCEPT !.want = WantKey(f, r[f].path, area.form)] ELSE r[f]]
    ELSE [f \in DOMAIN r \ {c.id} |-> r[f]]

\* The object that was looked at may be another by now, with another time.
Now(time) == IF time = "own" /\ scan.key \in scan.old THEN {"own", "other"} ELSE {time}

\* importRemote(): the object is read and becomes a file of its own.  A plugin may have given
\* its path to a file since the scan looked (pathTaken() comes before the awaits, and the
\* table does not refuse it): then two files have one path.
Taken(f) ==
    LET k == scan.key
        c == scan.like
        p == IF c = None THEN k[2] ELSE c.row.path
        r == [path |-> p, place |-> At(k), form |-> "files", want |-> WantKey(f, p, "files"),
              bytes |-> store[At(k)], missing |-> FALSE]
    IN /\ scan.at = "take" /\ f \notin used /\ store[At(k)] # None
       /\ used' = used \cup {f}
       /\ torn' = Mistaken \cup Sharing(p)
       /\ disk' = IF c = None THEN disk ELSE IF c.local THEN disk ELSE disk \ {c.id}
       /\ NextFound(scan, IF c = None THEN With(f, r) ELSE Replaced(With(f, r), c))
       /\ UNCHANGED <<area, store, settled, gone, worker>>
       /\ \E t \in Now("own") : times' = [Dated EXCEPT ![f] = t]

\* Not taken in: a changed file gets its path and place back, whatever is there by now.
Bound(place) ==
    ({store[place]} \ {None}) \cup {rows[e].bytes : e \in {d \in DOMAIN rows : rows[d].place = place}}
    \cup {r.row.bytes : r \in {q \in Tasks : q.want = place}}

Left ==
    LET c == scan.like
    IN /\ UNCHANGED <<area, used, disk, store, settled, gone, worker>>
       /\ IF c = None \/ c.id \notin DOMAIN rows
          THEN NextFound(scan, rows) /\ times' = Dated /\ torn' = torn
          ELSE /\ NextFound(scan, [rows EXCEPT ![c.id].path = c.row.path, ![c.id].place = c.row.place,
                                               ![c.id].form = "files"])
               /\ \E t \in Now(c.time) : times' = [Dated EXCEPT ![c.id] = t]
               /\ torn' = torn \cup Sharing(c.row.path) \cup Bound(c.row.place)

NotTaken ==
    /\ \/ scan.at = "conflict" /\ ~HasWay(scan.key)
       \/ scan.at = "take" /\ (store[At(scan.key)] = None \/ scan.key \in scan.old \/ used = Files)
    /\ Left

Scan ==
    \/ ScanBegins \/ Listed \/ ScanTurn
    \/ ConflictMoves \/ NotTaken \/ \E f \in Files : Taken(f)

\* A call of the target fails: no list, or this file is left to the next scan.
ScanFails ==
    \/ scan.at = "list" /\ scan' = NoScan /\ UNCHANGED <<media, times>>
    \/ scan.at \in {"conflict", "take"} /\ Left

-----------------------------------------------------------------------------
\* What changes on the target behind the back of a scan.
Changes == scan.changed \cup ({scan.like} \ {None})
Watched == scan.ripe \cup {c.row.place[2] : c \in scan.changed} \cup {scan.key}

Rewritten ==
    IF scan.at \in {"idle", "list"} THEN {}
    ELSE {k \in Watched : k # None /\ store'[At(k)] # store[At(k)]}

Beside(A) == A /\ times' = Dated /\ scan' = [scan EXCEPT !.old = @ \cup Rewritten]

Asks ==
    /\ asked < MaxCommands /\ asked' = asked + 1
    /\ Commands /\ times' = Dated /\ UNCHANGED <<scan, faults>>

Works == (Beside(Worker) \/ Scan) /\ UNCHANGED <<asked, faults>>

Fault ==
    /\ faults < MaxFaults /\ faults' = faults + 1
    /\ \/ CallFails /\ UNCHANGED <<scan, times>>
       \/ ScanFails
       \/ Stops /\ scan' = NoScan /\ times' = times
    /\ asked' = asked

Time == (\E g \in Places : Settles(g)) /\ UNCHANGED <<scan, times, asked, faults>>

Next == Asks \/ Works \/ Fault \/ Time

Fairness == WF_vars(Beside(Worker) /\ UNCHANGED <<asked, faults>>)

Spec == Init /\ [][Next]_vars /\ Fairness

-----------------------------------------------------------------------------
(* Properties *)

Types ==
    /\ area \in [target : Targets \cup {Server}, moving : BOOLEAN, to : Targets \cup {Server}, form : Forms]
    /\ used \subseteq Files /\ DOMAIN rows \subseteq used
    /\ rows \in [DOMAIN rows -> Row]
    /\ disk \subseteq used
    /\ store \in [Places -> Files \cup {None}]
    /\ settled \subseteq {g \in Places : store[g] # None}
    /\ gone \subseteq Places
    /\ worker \in [at : {"idle", "gone", "removed", "todo", "fetch", "put", "written", "renamed"},
                  due : SUBSET Places, todo : SUBSET Transfer, job : {Job}]
    /\ worker.at = "removed" => Job \in Places
    /\ worker.at \in {"fetch", "put", "written", "renamed"} => Job \in Transfer /\ Job.id \in used
    /\ \A r \in worker.todo : r.id \in used
    /\ scan \in Scans /\ \A c \in Changes : c.id \in used
    /\ torn \subseteq Files

TypeOK == Types /\ times \in [DOMAIN rows -> Times]

\* No two files are kept in one place, so that deleting one leaves the other alone
\* (processTransfers lets a file wait while another one, or the deletion of one, is where it
\* belongs; the scan knows the files that are in their places).
OnePlaceEach ==
    \A f, g \in DOMAIN rows :
        rows[f].place = rows[g].place /\ rows[f].place # Here => f = g \/ rows[f].bytes \in torn

\* A file can be read: here, or where its row says that it is (mediaAreas.js:44, "Until a
\* file is moved it is read from where it was"), or where a rename has just brought it.
\* Not one whose transfer was cut off.
Readable(f) ==
    \/ f \in disk
    \/ rows[f].place # Here /\ store[rows[f].place] = rows[f].bytes
    \/ worker.at = "renamed" /\ Job.id = f /\ store[Job.want] = rows[f].bytes

NoneLost == \A f \in DOMAIN rows : rows[f].bytes \notin torn => Readable(f)

\* Nothing is left behind on a target: each object is that of a row, or is to be deleted,
\* or the worker has it in hand, or its transfer was cut off.
InHand(g) == worker.at \in {"written", "renamed"} /\ Job.want = g

NoneLeft ==
    \A g \in Places : store[g] # None =>
        UsedPlace(g) \/ g \in gone \/ InHand(g) \/ store[g] \in torn

\* The scan takes in nothing and forgets nothing that the server has put there itself (doScan:
\* the tombstones, the minute, the rows by key, and missing only at the second look).  Excused
\* are files whose transfer was cut off, files whose object was written or renamed after the
\* scan's list was made, which the list shows as something else, and files whose path or place
\* the scan had given to another one.
ScanHarmless ==
    [][Scan => /\ \A f \in DOMAIN rows \ DOMAIN rows' : rows[f].bytes \in torn'
               /\ \A f \in DOMAIN rows' \ DOMAIN rows : rows'[f].bytes \in torn']_vars

\* When nobody asks for anything more, in the end every file is where its area wants it, a
\* move is over and nothing is left to be deleted (processTransfers, processGone,
\* finishMoves): unless a transfer was cut off, or two files wait for each other's place.
Waiting ==
    \E f, g \in Pending : /\ f # g
                         /\ rows[f].place = WantPlace(rows[g]) /\ rows[g].place = WantPlace(rows[f])

EndsInPlace ==
    <>[](torn # {} \/ Waiting \/ (Pending = {} /\ gone = {} /\ ~area.moving))

=============================================================================
