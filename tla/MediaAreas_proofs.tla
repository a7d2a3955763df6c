-------------------------- MODULE MediaAreas_proofs --------------------------
(***************************************************************************)
(* Proofs about MediaAreas for every set of files, paths and targets, and  *)
(* any number of commands and faults.                                      *)
(***************************************************************************)
EXTENDS MediaAreas, TLAPS

-----------------------------------------------------------------------------
(* The inductive invariant: what torn does not excuse *)

Intact(r)  == r.bytes \notin torn
Busy       == worker.at \in {"fetch", "put", "written", "renamed"}
Holding    == scan.at \in {"conflict", "take"}
Moving(f)  == worker.at = "renamed" /\ Job.id = f
Spare(g)   == store[g] = None \/ store[g] \in torn

\* What the worker and the scan hold, at each of their awaits.
Phases ==
    /\ scan.at # "idle" => scan.target \in Targets
    /\ Holding => scan.key \in Found
    /\ worker.at \in {"idle", "gone", "removed"} => worker.todo = {}
    /\ worker.at \in {"put", "written", "renamed"} => Job.want # Here
    /\ Busy => Job \notin worker.todo

\* A file is kept under the key of its path and form, and no two files have one path.
Fits(form, key) == /\ (form = "files") <=> (key[1] # "sealed")
                   /\ key[1] = "path" => key[2] \in Paths

Keyed ==
    /\ \A f \in DOMAIN rows : Intact(rows[f]) =>
        /\ rows[f].path \in Paths \cup {None}
        /\ rows[f].want = WantKey(f, rows[f].path, area.form)
        /\ rows[f].place # Here => Fits(rows[f].form, rows[f].place[2])
    /\ \A e, f \in DOMAIN rows :
        /\ e # f /\ rows[e].path = rows[f].path /\ rows[e].path # None => ~Intact(rows[f])
        /\ e # f /\ rows[e].want = rows[f].want => ~Intact(rows[f])

\* What a row says of its file is so, but while a rename is not yet written down.
HereIsHere == \A f \in DOMAIN rows : Intact(rows[f]) /\ rows[f].place = Here => f \in disk

StoredWhole ==
    \A f \in DOMAIN rows :
        Intact(rows[f]) /\ rows[f].place # Here => store[rows[f].place] = rows[f].bytes \/ Moving(f)

StoredOwn ==
    \A f \in DOMAIN rows :
        rows[f].place # Here => store[rows[f].place] = rows[f].bytes \/ Spare(rows[f].place)

\* The tasks of one list: each of another file, to a place of its own that no other task
\* leaves.
TasksApart ==
    /\ \A r, s \in Tasks : r.id = s.id => r = s
    /\ \A r, s \in Tasks :
        r # s /\ r.want # Here => s.row.place # r.want /\ (s.want = r.want => ~Intact(r.row))
    /\ \A r \in Tasks : Intact(r.row) /\ r.want # Here => Fits(r.form, r.want[2])

\* A row keeps its place until its task is done: nobody else changes it, or comes there.
TaskRows ==
    /\ \A r \in Tasks : r.id \in DOMAIN rows =>
        /\ rows[r.id].bytes = r.row.bytes /\ (Intact(r.row) => rows[r.id].place = r.row.place)
        /\ r.local => r.id \in disk
    /\ \A r \in Tasks, f \in DOMAIN rows :
        f # r.id /\ rows[f].place = r.row.place /\ r.row.place # Here => ~Intact(rows[f])

TaskStore ==
    \A r \in Tasks : r.row.place # Here => store[r.row.place] = r.row.bytes \/ Spare(r.row.place)

\* No file is where a task will bring another, but one that a scan has found there: then
\* the task is put off, since the object stays in its way, or what it has renamed goes again.
PutsOff(r, f) ==
    /\ r \in worker.todo \/ worker.at = "fetch"
    /\ store[r.want] # None /\ rows[f].form = "files" /\ r.form = "files"
    /\ scan.target = r.want[1] /\ Holding =>
           r.want[2] \notin scan.ripe /\ ~(scan.at = "conflict" /\ scan.key = r.want[2])

Deleted(r) == worker.at = "renamed" /\ r = Job /\ r.id \notin DOMAIN rows

Vacancy ==
    \A r \in Tasks, f \in DOMAIN rows : f # r.id /\ rows[f].place = r.want /\ r.want # Here =>
        /\ ~Intact(rows[f])
        /\ Intact(r.row) => PutsOff(r, f) \/ Deleted(r)

\* The object that the worker has put, renamed or removed and not yet written down.
JobInHand ==
    /\ worker.at \in {"written", "renamed"} => store[Job.want] = Job.row.bytes \/ Spare(Job.want)
    /\ worker.at = "written" =>
        Job.want \notin settled /\ (Intact(Job.row) => store[Job.want] = Job.row.bytes)
    /\ worker.at = "renamed" =>
        /\ Job.row.place # Here /\ Spare(Job.row.place)
        /\ Job.id \in DOMAIN rows /\ Intact(Job.row) =>
            store[Job.want] = Job.row.bytes /\ store[Job.row.place] = None
    /\ worker.at = "removed" => Spare(Job)
    /\ worker.at = "put" /\ Intact(Job.row) /\ Job.form = "files" => store[Job.want] = None

\* Each object on a target is known to the tables, or in the worker's hand, or torn.
Accounted(g) == UsedPlace(g) \/ g \in gone \/ Spare(g)
InWork(g)    == worker.at \in {"written", "renamed"} /\ Job.want = g
AllAccounted == \A g \in Places : Accounted(g) \/ InWork(g)

\* What the scan has listed was known then, unless it has changed since; what it takes in
\* is torn; what it misses for the second time is torn.
ScanKnows ==
    /\ scan.at = "listed" => \A k \in scan.ripe : k \in scan.old \/ Accounted(At(k))
    /\ Holding => \A k \in scan.ripe \cup {scan.key} : k \in scan.old \/ Spare(At(k))
    /\ Holding => scan.key \notin scan.ripe \/ scan.key[2] \notin Paths
    /\ \A c \in Changes :
        /\ c.row.place[2] \in Found /\ c.row.place = At(c.row.place[2])
        /\ c.id \in DOMAIN rows => ~Intact(rows[c.id])
    /\ Holding => \A c \in scan.changed :
        LET k == c.row.place[2] IN k \notin scan.ripe /\ (k \in scan.old \/ Spare(At(k)))
    /\ Holding /\ scan.like # None => scan.at = "take" /\ scan.key = scan.like.row.place[2]
    /\ scan.at = "listed" => \A f \in Mine :
           rows[f].missing /\ Intact(rows[f]) => rows[f].place[2] \in scan.seen

IInv ==
    /\ Types /\ Phases /\ Keyed /\ HereIsHere /\ OnePlaceEach /\ StoredWhole /\ StoredOwn
    /\ TasksApart /\ TaskRows /\ TaskStore /\ Vacancy
    /\ JobInHand /\ AllAccounted /\ ScanKnows

\* Only a file that a scan has mistaken has the time of another object; a file has a time
\* only where an object has one.
Timed == \A f \in DOMAIN rows : Intact(rows[f]) =>
             times[f] # "other" /\ (times[f] = "own" => rows[f].place # Here)

Inv == IInv /\ TypeOK /\ Timed

-----------------------------------------------------------------------------
(* Keys, places and tasks *)

\* A place is a target and a key, and this server is none.
LEMMA PlaceFacts ==
    /\ Here \notin Places
    /\ \A g \in Places : g[1] \in Targets /\ g[2] \in Keys /\ g = <<g[1], g[2]>>
    /\ \A t \in Targets, k \in Keys : /\ <<t, k>> \in Places
                                      /\ <<t, k>>[1] = t /\ <<t, k>>[2] = k
BY MediaAssumption DEF Here, Places

\* What a scan may find lies under a path.
LEMMA FoundFacts ==
    /\ Found \subseteq Keys /\ None \notin Found
    /\ \A k \in Found : k[1] = "path" /\ k[2] \in AllPaths /\ k = <<"path", k[2]>>
BY MediaAssumption DEF Found, Keys

\* The key of a file is its path, or of its own, and fits its form.
LEMMA KeyFacts ==
    ASSUME NEW f \in Files, NEW p \in AllPaths \cup {None}, NEW form \in Forms
    PROVE  /\ WantKey(f, p, form) \in Keys
           /\ WantKey(f, p, form) \in {<<"path", p>>, <<"sealed", f>>, <<"hidden", f>>}
           /\ p \in Paths \cup {None} => Fits(form, WantKey(f, p, form))
           /\ WantKey(f, p, form)[1] = "path" => p # None
BY MediaAssumption DEF WantKey, Keys, Forms, Fits

\* The types of the tasks and the rows.
LEMMA TaskTypes ==
    ASSUME Types
    PROVE  /\ \A r \in Tasks : /\ r \in Transfer /\ r.id \in used /\ r.id \in Files
                               /\ r.row \in Row /\ r.want \in Places \cup {Here}
                               /\ r.row.place \in Places \cup {Here}
           /\ \A f \in DOMAIN rows : rows[f] \in Row /\ f \in used /\ f \in Files
           /\ Busy => Job \in Tasks
BY DEF Types, Tasks, Busy, Transfer, Row

-----------------------------------------------------------------------------
(* What most steps leave alone *)

\* Rows keep their places; new ones are of new files, which are here.
RowsStay ==
    \A f \in DOMAIN rows' :
        \/ /\ f \in DOMAIN rows
           /\ rows'[f].place = rows[f].place /\ rows'[f].bytes = rows[f].bytes
           /\ rows'[f].form = rows[f].form
        \/ f \notin used /\ rows'[f].place = Here

\* A task is not begun while an object is in its way.
TasksStay ==
    /\ Tasks' \subseteq Tasks
    /\ \A r \in Tasks' : (r \in worker.todo \/ worker.at = "fetch") /\ store[r.want] # None /\ r.form = "files"
            => r \in worker'.todo \/ worker'.at = "fetch"
    /\ worker.at = "renamed" =>
        \/ worker'.at = "renamed" /\ Job' = Job
        \/ Job \notin Tasks' /\ (Job.id \notin DOMAIN rows' \/ Job.row.bytes \in torn')

\* The copies here stay, but for those of files that are elsewhere and have no task.
DiskStays ==
    \A f \in DOMAIN rows' :
        /\ f \in disk => f \in disk' \/ (rows'[f].place # Here /\ Tasks' = {})
        /\ f \notin used => f \in disk'

\* The scan sees nothing, or notes that what it holds has changed.
ScanStays ==
    /\ scan'.at = scan.at /\ scan'.target = scan.target /\ scan'.seen = scan.seen
    /\ scan'.ripe = scan.ripe /\ scan'.key = scan.key
    /\ scan'.changed = scan.changed /\ scan'.like = scan.like
    /\ scan.old \subseteq scan'.old
    /\ scan.at \in {"listed", "conflict", "take"} =>
        \A k \in Watched : k \in Found => k \in scan'.old \/ store'[At(k)] = store[At(k)]

\* Where neither objects nor the places of rows change, what is stored stays right.
LEMMA StayStore ==
    ASSUME IInv, Types', RowsStay, TasksStay, store' = store, torn \subseteq torn'
    PROVE  OnePlaceEach' /\ StoredWhole' /\ StoredOwn' /\ TasksApart' /\ TaskStore'
<1>1. \A f \in DOMAIN rows' : rows'[f].place # Here =>
          /\ f \in DOMAIN rows
          /\ rows'[f].place = rows[f].place /\ rows'[f].bytes = rows[f].bytes
  BY DEF RowsStay
<1>2. OnePlaceEach'
  BY <1>1 DEF IInv, OnePlaceEach
<1>3. StoredWhole'
  BY <1>1 DEF IInv, StoredWhole, TasksStay, Moving, Intact, TaskRows, Tasks, Busy
<1>4. StoredOwn'
  BY <1>1 DEF IInv, StoredOwn, Spare
<1>5. TasksApart'
  BY DEF IInv, TasksApart, TasksStay, Intact
<1>6. TaskStore'
  BY DEF IInv, TaskStore, TasksStay, Spare
<1> QED
  BY <1>2, <1>3, <1>4, <1>5, <1>6

\* Rows and tasks go on agreeing on places and copies here.
LEMMA StayRows ==
    ASSUME IInv, Types', RowsStay, TasksStay, DiskStays, torn \subseteq torn'
    PROVE  HereIsHere' /\ TaskRows'
<1>1. HereIsHere'
  BY DEF IInv, HereIsHere, RowsStay, DiskStays, Intact
<1>2. ASSUME NEW r \in Tasks', r.id \in DOMAIN rows'
      PROVE  /\ rows'[r.id].bytes = r.row.bytes
             /\ r.row.bytes \notin torn' => rows'[r.id].place = r.row.place
             /\ r.local => r.id \in disk'
  <2>1. r \in Tasks /\ r.id \in used
    BY TaskTypes DEF IInv, TasksStay
  <2>2. /\ r.id \in DOMAIN rows
        /\ rows'[r.id].place = rows[r.id].place /\ rows'[r.id].bytes = rows[r.id].bytes
    BY <1>2, <2>1 DEF RowsStay
  <2> QED
    BY <1>2, <2>1, <2>2 DEF IInv, TaskRows, DiskStays, Intact
<1>3. \A r \in Tasks', f \in DOMAIN rows' :
          f # r.id /\ rows'[f].place = r.row.place /\ r.row.place # Here => rows'[f].bytes \in torn'
  BY DEF IInv, TaskRows, TasksStay, RowsStay, Intact
<1> QED
  BY <1>1, <1>2, <1>3 DEF TaskRows, Intact

\* A file found in the way of a task stays there, and its object with it.
LEMMA StayVacant ==
    ASSUME IInv, RowsStay, TasksStay, ScanStays, store' = store, torn \subseteq torn'
    PROVE  Vacancy'
<1> SUFFICES ASSUME NEW r \in Tasks', NEW f \in DOMAIN rows',
                    f # r.id, rows'[f].place = r.want, r.want # Here
             PROVE  /\ rows'[f].bytes \in torn'
                    /\ r.row.bytes \notin torn' => PutsOff(r, f)' \/ Deleted(r)'
  BY DEF Vacancy, Intact
<1>1. /\ f \in DOMAIN rows /\ rows[f].place = r.want /\ r \in Tasks
      /\ rows'[f].bytes = rows[f].bytes /\ rows'[f].form = rows[f].form
  BY DEF RowsStay, TasksStay
<1>2. rows[f].bytes \in torn /\ (r.row.bytes \notin torn => PutsOff(r, f) \/ Deleted(r))
  BY <1>1 DEF IInv, Vacancy, Intact
<1>3. PutsOff(r, f) => PutsOff(r, f)'
  BY <1>1 DEF PutsOff, TasksStay, ScanStays, Holding
<1>4. Deleted(r) => Deleted(r)'
  BY <1>1, TaskTypes DEF Deleted, TasksStay, RowsStay, IInv
<1> QED
  BY <1>1, <1>2, <1>3, <1>4

\* What the tables know of an object, they go on knowing while it is there.
KnownStays == \A g \in Places : Accounted(g) /\ store'[g] = store[g] => Accounted(g)'

\* A file is missing only when the scan has said so of it, there.
MissingStays ==
    \A f \in DOMAIN rows' : rows'[f].missing =>
        /\ f \in DOMAIN rows /\ rows[f].missing
        /\ rows'[f].place = rows[f].place /\ rows'[f].bytes = rows[f].bytes
        /\ rows'[f].form = rows[f].form

\* Files keep their bytes, and new ones have ids of their own.
BytesStay ==
    \A f \in DOMAIN rows' : f \notin used \/ (f \in DOMAIN rows /\ rows'[f].bytes = rows[f].bytes)

\* A step that leaves the rows alone keeps them.
LEMMA BytesKept ==
    ASSUME RowsStay
    PROVE  BytesStay
BY DEF RowsStay, BytesStay

\* What the scan knows it goes on knowing, but for what it notes as changed.
LEMMA StayScan ==
    ASSUME IInv, ScanStays, KnownStays, MissingStays, BytesStay, torn \subseteq torn',
           store' \in [Places -> Files \cup {None}]
    PROVE  ScanKnows'
<1>1. /\ scan.at # "idle" => scan.target \in Targets
      /\ Holding => scan.key \in Found
      /\ scan.ripe \subseteq Found
  BY DEF IInv, Types, Phases, Scans
<1>2. \A k \in Found : scan.at # "idle" => At(k)' = At(k) /\ At(k) \in Places
  BY <1>1, PlaceFacts, FoundFacts DEF At, ScanStays
<1>3. ASSUME scan.at = "listed", NEW k \in scan.ripe, k \notin scan'.old
      PROVE  Accounted(At(k))'
  <2>1. k \in Found /\ At(k) \in Places /\ store'[At(k)] = store[At(k)] /\ Accounted(At(k))
    BY <1>1, <1>2, <1>3 DEF ScanStays, IInv, ScanKnows, Watched
  <2>2. \A g \in Places : g = At(k) => Accounted(g)'
    BY <2>1 DEF KnownStays
  <2> QED
    BY <1>2, <1>3, <2>1, <2>2 DEF Accounted, UsedPlace, Spare
<1>4. ASSUME Holding, NEW k \in Watched, k \notin scan'.old
      PROVE  Spare(At(k))'
  <2>1. k \in Found /\ At(k) \in Places /\ store'[At(k)] = store[At(k)] /\ Spare(At(k)) /\ scan.at # "idle"
    BY <1>1, <1>2, <1>4 DEF ScanStays, IInv, ScanKnows, Holding, Watched, Changes
  <2> QED
    BY <1>2, <2>1 DEF Spare
<1>5. ASSUME scan'.at = "listed", NEW f \in Mine', rows'[f].missing, rows'[f].bytes \notin torn'
      PROVE  rows'[f].place[2] \in scan'.seen
  BY <1>5 DEF ScanStays, MissingStays, IInv, ScanKnows, Mine, Intact
<1>6. (Holding' <=> Holding) /\ Changes' = Changes /\ scan'.changed = scan.changed
  BY DEF Holding, ScanStays, Changes
<1>7. ASSUME NEW c \in Changes'
      PROVE  /\ c.row.place[2] \in Found /\ c.row.place = At(c.row.place[2])'
             /\ c.id \in DOMAIN rows' => rows'[c.id].bytes \in torn'
  <2>1. c \in Changes /\ c.id \in used /\ c.row.place[2] \in Found /\ c.row.place = At(c.row.place[2])
    BY <1>6 DEF IInv, Types, ScanKnows
  <2>2. \A k : At(k)' = At(k)
    BY DEF At, ScanStays
  <2>3. c.id \in DOMAIN rows' => c.id \in DOMAIN rows /\ rows'[c.id].bytes = rows[c.id].bytes
    BY <2>1 DEF BytesStay
  <2> QED
    BY <2>1, <2>2, <2>3 DEF IInv, ScanKnows, Intact
<1>8. ASSUME Holding, NEW c \in scan.changed
      PROVE  /\ c.row.place[2] \notin scan'.ripe
             /\ c.row.place[2] \in scan'.old \/ Spare(At(c.row.place[2]))'
  BY <1>4, <1>8 DEF ScanStays, IInv, ScanKnows, Watched
<1>9. Holding => \A k \in scan'.ripe \cup {scan'.key} : k \in scan'.old \/ Spare(At(k))'
  BY <1>4 DEF ScanStays, Watched
<1>10. Holding => /\ scan'.key \notin scan'.ripe \/ scan'.key[2] \notin Paths
                  /\ scan'.like # None => scan'.at = "take" /\ scan'.key = scan'.like.row.place[2]
  BY DEF ScanStays, IInv, ScanKnows
<1>11. scan'.at = "listed" => \A k \in scan'.ripe : k \in scan'.old \/ Accounted(At(k))'
  BY <1>3 DEF ScanStays
<1> QED
  BY <1>5, <1>6, <1>7, <1>8, <1>9, <1>10, <1>11 DEF ScanKnows, Intact

\* The rows keep what they are to be kept under.
KeysStay ==
    /\ area'.form = area.form
    /\ \A f \in DOMAIN rows' :
        /\ f \in DOMAIN rows
        /\ rows'[f].path = rows[f].path /\ rows'[f].want = rows[f].want
        /\ rows'[f].bytes = rows[f].bytes
        /\ rows'[f].place = rows[f].place /\ rows'[f].form = rows[f].form

\* Rows keep their keys and paths.
LEMMA StayKeyed ==
    ASSUME IInv, KeysStay, torn \subseteq torn'
    PROVE  Keyed'
<1>1. \A f \in DOMAIN rows' : rows'[f].bytes \notin torn' =>
          /\ rows'[f].path \in Paths \cup {None}
          /\ rows'[f].want = WantKey(f, rows'[f].path, area'.form)
          /\ rows'[f].place # Here => Fits(rows'[f].form, rows'[f].place[2])
  BY DEF IInv, Keyed, KeysStay, Intact
<1>2. \A e, f \in DOMAIN rows' :
          /\ e # f /\ rows'[e].path = rows'[f].path /\ rows'[e].path # None => rows'[f].bytes \in torn'
          /\ e # f /\ rows'[e].want = rows'[f].want => rows'[f].bytes \in torn'
  BY DEF IInv, Keyed, KeysStay, Intact
<1> QED
  BY <1>1, <1>2 DEF Keyed, Intact

\* A step of the worker, or a fault, that changes neither rows nor objects.
Quiet ==
    /\ area'.form = area.form /\ rows' = rows /\ used' = used /\ store' = store /\ settled' = settled
    /\ torn \subseteq torn'

\* The invariant after a step that changes neither rows nor objects.
LEMMA QuietStep ==
    ASSUME IInv, Types', Phases', Quiet, TasksStay, ScanStays, DiskStays, KnownStays,
           JobInHand', AllAccounted'
    PROVE  IInv'
<1>1. RowsStay /\ MissingStays /\ KeysStay /\ store' \in [Places -> Files \cup {None}]
      /\ store' = store /\ torn \subseteq torn'
  BY DEF Quiet, RowsStay, MissingStays, KeysStay, IInv, Types
<1>2. OnePlaceEach' /\ StoredWhole' /\ StoredOwn' /\ TasksApart' /\ TaskStore'
  BY <1>1, StayStore
<1>3. HereIsHere' /\ TaskRows'
  BY <1>1, StayRows
<1>4. Vacancy'
  BY <1>1, StayVacant
<1>5. ScanKnows'
  BY <1>1, BytesKept, StayScan
<1>6. Keyed'
  BY <1>1, StayKeyed
<1> QED
  BY <1>2, <1>3, <1>4, <1>5, <1>6 DEF IInv

\* A step that leaves the worker alone leaves what it has in hand.
LEMMA StayJob ==
    ASSUME IInv, RowsStay, worker' = worker, store' = store, torn \subseteq torn',
           InWork(Job.want) /\ worker.at = "written" /\ Job.want \notin settled => Job.want \notin settled'
    PROVE  JobInHand' /\ TasksStay
<1>1. TasksStay
  BY DEF TasksStay, Tasks, Busy, Job
<1>2. worker.at = "renamed" /\ Job.id \in DOMAIN rows' => Job.id \in DOMAIN rows
  BY DEF RowsStay, IInv, Types
<1>3. JobInHand'
  BY <1>2 DEF JobInHand, IInv, Spare, Intact, InWork, Job
<1> QED
  BY <1>1, <1>3

\* A command leaves the objects, the worker and the scan alone.
LEMMA CommandStep ==
    ASSUME IInv, Types', Keyed', RowsStay, DiskStays, MissingStays, KnownStays,
           UNCHANGED <<store, settled, worker, scan>>, torn \subseteq torn'
    PROVE  IInv'
<1>1. /\ torn \subseteq torn' /\ store' = store /\ ScanStays
      /\ store' \in [Places -> Files \cup {None}]
  BY DEF ScanStays, IInv, Types
<1>2. JobInHand' /\ TasksStay
  BY <1>1, StayJob
<1>3. OnePlaceEach' /\ StoredWhole' /\ StoredOwn' /\ TasksApart' /\ TaskStore'
  BY <1>1, <1>2, StayStore
<1>4. HereIsHere' /\ TaskRows'
  BY <1>1, <1>2, StayRows
<1>5. Vacancy'
  BY <1>1, <1>2, StayVacant
<1>6. ScanKnows'
  BY <1>1, BytesKept, StayScan
<1>7. Phases'
  BY DEF Phases, IInv, Holding, Job, Busy
<1>8. AllAccounted'
  BY DEF AllAccounted, IInv, KnownStays, InWork, Job
<1> QED
  BY <1>2, <1>3, <1>4, <1>5, <1>6, <1>7, <1>8 DEF IInv

\* Where a row leaves its place, the place is to be emptied.
LEMMA StayKnown ==
    ASSUME gone \subseteq gone', torn \subseteq torn',
           \A f \in DOMAIN rows : rows[f].place \in Places =>
               (f \in DOMAIN rows' /\ rows'[f].place = rows[f].place) \/ rows[f].place \in gone'
    PROVE  KnownStays
<1> SUFFICES ASSUME NEW g \in Places, Accounted(g), store'[g] = store[g] PROVE Accounted(g)'
  BY DEF KnownStays
<1>1. UsedPlace(g) => UsedPlace(g)' \/ g \in gone'
  BY DEF UsedPlace
<1> QED
  BY <1>1 DEF Accounted, Spare

-----------------------------------------------------------------------------
(* Commands *)

\* A new file is here, under a path that no other has.
LEMMA ClaimStep ==
    ASSUME IInv, NEW f \in Files, NEW p \in Paths, Claim(f, p), UNCHANGED scan
    PROVE  IInv'
<1> DEFINE r == [path |-> p, place |-> Here, form |-> "none", want |-> WantKey(f, p, area.form),
                 bytes |-> f, missing |-> FALSE]
<1>1. f \notin used /\ f \notin DOMAIN rows /\ rows' = With(f, r)
  BY DEF Claim, IInv, Types
<1>2. /\ WantKey(f, p, area.form) \in Keys
      /\ WantKey(f, p, area.form) \in {<<"path", p>>, <<"sealed", f>>, <<"hidden", f>>}
  BY KeyFacts DEF IInv, Types, AllPaths
<1>3. /\ r \in Row /\ r.place = Here /\ ~r.missing /\ r.path = p /\ r.want = WantKey(f, p, area.form)
      /\ r.bytes = f
  BY <1>2 DEF Row, AllPaths
<1> HIDE DEF r
<1>4. /\ DOMAIN rows' = DOMAIN rows \cup {f} /\ rows'[f] = r
      /\ \A g \in DOMAIN rows : rows'[g] = rows[g]
  BY <1>1 DEF With
<1>5. rows' \in [DOMAIN rows' -> Row]
  BY <1>1, <1>3 DEF With, IInv, Types
<1>6. Types'
  <2>1. torn' \subseteq Files /\ Changes' = Changes /\ DOMAIN rows' \subseteq used'
    BY <1>4 DEF Claim, IInv, Types, Changes
  <2> QED
    BY <1>4, <1>5, <2>1 DEF Claim, IInv, Types, Job
<1>7. RowsStay /\ DiskStays /\ MissingStays
  <2>1. DOMAIN rows \subseteq used /\ disk' = disk \cup {f}
    BY DEF Claim, IInv, Types
  <2>2. RowsStay
    BY <1>1, <1>3, <1>4, <2>1 DEF RowsStay
  <2>3. DiskStays
    BY <1>1, <1>3, <1>4, <2>1 DEF DiskStays
  <2>4. MissingStays
    BY <1>1, <1>3, <1>4, <2>1 DEF MissingStays
  <2> QED
    BY <2>2, <2>3, <2>4
<1>8. torn \subseteq torn' /\ KnownStays
  <2>1. torn \subseteq torn' /\ gone' = gone
    BY DEF Claim
  <2> QED
    BY <1>4, <2>1, StayKnown
<1>9. Keyed'
  <2>1. \A g \in DOMAIN rows : rows[g].path # p
    BY DEF Claim, PathTaken
  <2>2. /\ area' = area /\ torn \subseteq torn'
        /\ \A g \in DOMAIN rows : rows[g].want = WantKey(f, p, area.form) => f \in torn'
    BY <1>1 DEF Claim, Meets
  <2>3. ASSUME NEW g \in DOMAIN rows'
        PROVE  rows'[g].bytes \notin torn' =>
                   /\ rows'[g].path \in Paths \cup {None}
                   /\ rows'[g].want = WantKey(g, rows'[g].path, area'.form)
                   /\ rows'[g].place # Here => Fits(rows'[g].form, rows'[g].place[2])
    <3>1. CASE g = f
      BY <1>2, <1>3, <1>4, <2>2, <3>1
    <3>2. CASE g # f
      BY <1>4, <2>2, <3>2 DEF IInv, Keyed, Intact
    <3> QED
      BY <3>1, <3>2
  <2>4. \A e, g \in DOMAIN rows' :
            e # g /\ rows'[e].path = rows'[g].path /\ rows'[e].path # None => rows'[g].bytes \in torn'
    BY <1>3, <1>4, <2>1, <2>2 DEF IInv, Keyed, Intact
  <2>5. ASSUME NEW g \in DOMAIN rows, rows[g].want = WantKey(f, p, area.form), Intact(rows[g])
        PROVE  FALSE
    <3>1. rows[g].want = WantKey(g, rows[g].path, area.form) /\ g # f /\ rows[g].path # p
      BY <1>1, <2>1, <2>5 DEF IInv, Keyed
    <3> QED
      BY <2>5, <3>1 DEF WantKey, IInv, Types, Forms
  <2>6. \A e, g \in DOMAIN rows' :
            e # g /\ rows'[e].want = rows'[g].want => rows'[g].bytes \in torn'
    BY <1>3, <1>4, <2>2, <2>5 DEF IInv, Keyed, Intact
  <2> QED
    BY <2>3, <2>4, <2>6 DEF Keyed, Intact
<1> QED
  BY <1>6, <1>7, <1>8, <1>9, CommandStep DEF Claim

\* A file gets another path, and the key to it.
LEMMA MoveToStep ==
    ASSUME IInv, NEW f \in Files, NEW p \in Paths \cup {None}, MoveTo(f, p), UNCHANGED scan
    PROVE  IInv'
<1> DEFINE w == WantKey(f, p, area.form)
<1>1. /\ f \in DOMAIN rows /\ (p # None => \A g \in DOMAIN rows : rows[g].path # p)
      /\ rows \in [DOMAIN rows -> Row] /\ rows[f] \in Row
  BY DEF MoveTo, PathTaken, IInv, Types
<1>2. /\ w \in Keys
      /\ w \in {<<"path", p>>, <<"sealed", f>>, <<"hidden", f>>}
  BY KeyFacts DEF IInv, Types, AllPaths
<1> HIDE DEF w
<1>3. PICK r : r = [rows[f] EXCEPT !.path = p, !.want = w]
  OBVIOUS
<1>4. /\ r \in Row /\ r.path = p /\ r.want = w /\ r.place = rows[f].place /\ r.form = rows[f].form
      /\ r.bytes = rows[f].bytes /\ r.missing = rows[f].missing
  BY <1>1, <1>2, <1>3 DEF Row, AllPaths
<1>5. rows' = [rows EXCEPT ![f] = r]
  BY <1>3 DEF MoveTo, w
<1>6. /\ DOMAIN rows' = DOMAIN rows /\ rows'[f] = r /\ rows' \in [DOMAIN rows' -> Row]
      /\ \A g \in DOMAIN rows : g # f => rows'[g] = rows[g]
  BY <1>1, <1>4, <1>5
<1>7. Types'
  <2>1. torn' \subseteq Files /\ Changes' = Changes
    BY <1>1 DEF MoveTo, IInv, Types, Changes, Row
  <2> QED
    BY <1>6, <2>1 DEF MoveTo, IInv, Types, Job
<1>8. RowsStay /\ DiskStays /\ MissingStays
  BY <1>1, <1>4, <1>6 DEF RowsStay, DiskStays, MissingStays, MoveTo, IInv, Types
<1>9. torn \subseteq torn' /\ KnownStays
  <2>1. torn \subseteq torn' /\ gone' = gone
    BY DEF MoveTo
  <2> QED
    BY <1>4, <1>6, <2>1, StayKnown
<1>10. Keyed'
  <2>1. /\ area' = area /\ torn \subseteq torn'
        /\ \A g \in DOMAIN rows \ {f} : rows[g].want = w => rows[f].bytes \in torn'
    BY DEF MoveTo, Meets, w
  <2>2. ASSUME NEW g \in DOMAIN rows'
        PROVE  rows'[g].bytes \notin torn' =>
                   /\ rows'[g].path \in Paths \cup {None}
                   /\ rows'[g].want = WantKey(g, rows'[g].path, area'.form)
                   /\ rows'[g].place # Here => Fits(rows'[g].form, rows'[g].place[2])
    <3>1. CASE g = f
      BY <1>1, <1>2, <1>4, <1>6, <2>1, <3>1 DEF IInv, Keyed, Intact, w
    <3>2. CASE g # f
      BY <1>6, <2>1, <3>2 DEF IInv, Keyed, Intact
    <3> QED
      BY <3>1, <3>2
  <2>3. \A e, g \in DOMAIN rows' :
            e # g /\ rows'[e].path = rows'[g].path /\ rows'[e].path # None => rows'[g].bytes \in torn'
    BY <1>1, <1>4, <1>6, <2>1 DEF IInv, Keyed, Intact
  <2>4. ASSUME NEW g \in DOMAIN rows, g # f, rows[g].want = w, Intact(rows[g])
        PROVE  FALSE
    <3>1. rows[g].want = WantKey(g, rows[g].path, area.form) /\ (p # None => rows[g].path # p)
      BY <1>1, <2>4 DEF IInv, Keyed
    <3> QED
      BY <2>4, <3>1 DEF WantKey, IInv, Types, Forms, w
  <2>5. \A e, g \in DOMAIN rows' :
            e # g /\ rows'[e].want = rows'[g].want => rows'[g].bytes \in torn'
    BY <1>4, <1>6, <2>1, <2>4 DEF IInv, Keyed, Intact
  <2> QED
    BY <2>2, <2>3, <2>5 DEF Keyed, Intact
<1> QED
  BY <1>7, <1>8, <1>9, <1>10, CommandStep DEF MoveTo

\* A file goes, and its object is to be deleted.
LEMMA DeleteStep ==
    ASSUME IInv, NEW f \in Files, Delete(f), UNCHANGED scan
    PROVE  IInv'
<1>1. /\ DOMAIN rows' = DOMAIN rows \ {f} /\ rows' \in [DOMAIN rows' -> Row]
      /\ \A g \in DOMAIN rows' : g \in DOMAIN rows /\ g \in used /\ rows'[g] = rows[g]
  BY DEF Delete, Without, IInv, Types
<1>2. /\ gone' = gone \cup ({rows[f].place} \ {Here}) /\ disk' = disk \ {f}
      /\ rows[f].place \in Places \cup {Here}
  BY DEF Delete, Buried, IInv, Types, Row
<1>3. Types'
  <2>1. Changes' = Changes
    BY DEF Changes
  <2> QED
    BY <1>1, <1>2, <2>1 DEF Delete, IInv, Types, Job
<1>4. RowsStay /\ DiskStays /\ MissingStays
  BY <1>1, <1>2 DEF RowsStay, DiskStays, MissingStays
<1>5. KnownStays
  BY <1>1, <1>2, StayKnown, PlaceFacts DEF Delete
<1>6. Keyed'
  BY <1>1, StayKeyed DEF KeysStay, Delete
<1> QED
  BY <1>3, <1>4, <1>5, <1>6, CommandStep DEF Delete

\* The area changes its target or form, and every row its key.
LEMMA SetTargetStep ==
    ASSUME IInv, NEW t \in Targets \cup {Server}, NEW form \in Forms, SetTarget(t, form), UNCHANGED scan
    PROVE  IInv'
<1>1. /\ DOMAIN rows' = DOMAIN rows
      /\ \A f \in DOMAIN rows : rows'[f] = [rows[f] EXCEPT !.want = WantKey(f, rows[f].path, form)]
      /\ rows' = [f \in DOMAIN rows |-> [rows[f] EXCEPT !.want = WantKey(f, rows[f].path, form)]]
  BY DEF SetTarget
<1>2. ASSUME NEW f \in DOMAIN rows
      PROVE  /\ rows'[f] \in Row /\ rows'[f].path = rows[f].path /\ rows'[f].place = rows[f].place
             /\ rows'[f].form = rows[f].form /\ rows'[f].bytes = rows[f].bytes
             /\ rows'[f].missing = rows[f].missing
             /\ rows'[f].want = WantKey(f, rows[f].path, form)
             /\ rows'[f].want \in {<<"path", rows[f].path>>, <<"sealed", f>>, <<"hidden", f>>}
  <2>1. rows[f] \in Row /\ f \in Files /\ rows[f].path \in AllPaths \cup {None}
    BY DEF IInv, Types, Row
  <2>2. PICK w \in Keys : w = WantKey(f, rows[f].path, form)
    BY <2>1, KeyFacts
  <2>3. w \in {<<"path", rows[f].path>>, <<"sealed", f>>, <<"hidden", f>>}
    BY <2>1, <2>2, KeyFacts
  <2>4. rows'[f] = [rows[f] EXCEPT !.want = w]
    BY <1>1, <2>2
  <2> QED
    BY <2>1, <2>2, <2>3, <2>4 DEF Row
<1>3. /\ area' \in [target : Targets \cup {Server}, moving : BOOLEAN, to : Targets \cup {Server}, form : Forms]
      /\ area'.form = form
  BY DEF SetTarget, IInv, Types
<1>4. rows' \in [DOMAIN rows' -> Row]
  BY <1>1, <1>2
<1>5. Types'
  <2>1. Changes' = Changes
    BY DEF SetTarget, Changes
  <2> QED
    BY <1>1, <1>3, <1>4, <2>1 DEF SetTarget, IInv, Types, Job
<1>6. RowsStay /\ DiskStays /\ MissingStays
  BY <1>1, <1>2 DEF RowsStay, DiskStays, MissingStays, SetTarget, IInv, Types
<1>7. KnownStays
  BY <1>1, <1>2, StayKnown DEF SetTarget
<1>8. Keyed'
  <2>1. torn' = torn
    BY DEF SetTarget
  <2>2. ASSUME NEW f \in DOMAIN rows'
        PROVE  rows'[f].bytes \notin torn' =>
                   /\ rows'[f].path \in Paths \cup {None}
                   /\ rows'[f].want = WantKey(f, rows'[f].path, area'.form)
                   /\ rows'[f].place # Here => Fits(rows'[f].form, rows'[f].place[2])
    <3>1. f \in DOMAIN rows
      BY <1>1
    <3>2. rows[f].bytes \notin torn =>
            /\ rows[f].path \in Paths \cup {None}
            /\ rows[f].place # Here => Fits(rows[f].form, rows[f].place[2])
      BY <3>1 DEF IInv, Keyed, Intact
    <3> QED
      BY <1>2, <1>3, <2>1, <3>1, <3>2
  <2>3. \A e, f \in DOMAIN rows' :
            e # f /\ rows'[e].path = rows'[f].path /\ rows'[e].path # None => rows'[f].bytes \in torn'
    <3>1. \A f \in DOMAIN rows' :
              f \in DOMAIN rows /\ rows'[f].path = rows[f].path /\ rows'[f].bytes = rows[f].bytes
      BY <1>1, <1>2
    <3> QED
      BY <2>1, <3>1 DEF IInv, Keyed, Intact
  <2>4. ASSUME NEW e \in DOMAIN rows', NEW f \in DOMAIN rows', e # f, rows'[e].want = rows'[f].want,
               rows'[f].bytes \notin torn'
        PROVE  FALSE
    <3>1. /\ e \in DOMAIN rows /\ f \in DOMAIN rows
          /\ rows'[e].want = WantKey(e, rows[e].path, form) /\ rows'[f].want = WantKey(f, rows[f].path, form)
      BY <1>1, <1>2
    <3>2. WantKey(e, rows[e].path, form) = WantKey(f, rows[f].path, form)
      BY <2>4, <3>1
    <3>3. rows[e].path = rows[f].path /\ rows[f].path # None
      BY <2>4, <3>2 DEF WantKey, Forms
    <3> QED
      BY <1>2, <2>1, <2>4, <3>1, <3>3 DEF IInv, Keyed, Intact
  <2> QED
    BY <2>2, <2>3, <2>4 DEF Keyed, Intact
<1> QED
  BY <1>5, <1>6, <1>7, <1>8, CommandStep DEF SetTarget

-----------------------------------------------------------------------------
(* The worker: steps that change neither rows nor objects *)

\* Beside a scan: what it holds and what has changed is noted.
LEMMA BesideScan ==
    ASSUME IInv, scan' = [scan EXCEPT !.old = @ \cup Rewritten]
    PROVE  ScanStays /\ scan' \in Scans
<1>1. /\ scan \in Scans /\ scan.ripe \subseteq Found /\ scan.old \subseteq Found
      /\ scan.key \in Found \cup {None}
  BY DEF IInv, Types, Scans
<1>2. Rewritten \subseteq Found
  BY <1>1 DEF Rewritten, Watched, IInv, ScanKnows, Changes
<1>3. scan' \in Scans /\ scan'.old = scan.old \cup Rewritten
  BY <1>1, <1>2 DEF Scans
<1>4. /\ scan'.at = scan.at /\ scan'.target = scan.target /\ scan'.seen = scan.seen
      /\ scan'.ripe = scan.ripe /\ scan'.key = scan.key
      /\ scan'.changed = scan.changed /\ scan'.like = scan.like
  BY <1>1 DEF Scans
<1>5. scan.at \in {"listed", "conflict", "take"} =>
          \A k \in Watched : k \in Found => k \in Rewritten \/ store'[At(k)] = store[At(k)]
  BY FoundFacts DEF Rewritten
<1> QED
  BY <1>3, <1>4, <1>5 DEF ScanStays

\* A step that leaves the scan and the objects alone.
LEMMA SameScan ==
    ASSUME scan' = scan, store' = store
    PROVE  ScanStays
BY DEF ScanStays

\* The worker goes on to another await.
LEMMA WorkerType ==
    ASSUME Types
    PROVE  /\ worker.due \subseteq Places /\ worker.todo \subseteq Transfer
           /\ \A r \in worker.todo : r.id \in used
           /\ DOMAIN worker = {"at", "due", "todo", "job"}
           /\ worker = [at |-> worker.at, due |-> worker.due, todo |-> worker.todo, job |-> Job]
BY DEF Types, Job

\* What a worker may be at, with what in its hands.
WorkerIs(at, due, todo, job) ==
    /\ worker' = [at |-> at, due |-> due, todo |-> todo, job |-> job]
    /\ at \in {"idle", "gone", "removed", "todo", "fetch", "put", "written", "renamed"}
    /\ due \subseteq Places /\ todo \subseteq Transfer /\ \A r \in todo : r.id \in used
    /\ at = "removed" => job \in Places
    /\ at \in {"fetch", "put", "written", "renamed"} => job \in Transfer /\ job.id \in used
    /\ at \in {"idle", "gone", "removed"} => todo = {}
    /\ at \in {"put", "written", "renamed"} => job.want # Here
    /\ at \in {"fetch", "put", "written", "renamed"} => job \notin todo

\* The types after a step of the worker.
LEMMA WorkerGoesOn ==
    ASSUME IInv, ScanStays, scan' \in Scans, NEW at, NEW due, NEW todo, NEW job, WorkerIs(at, due, todo, job),
           area' \in [target : Targets \cup {Server}, moving : BOOLEAN, to : Targets \cup {Server}, form : Forms],
           used' = used, DOMAIN rows' = DOMAIN rows, rows' \in [DOMAIN rows -> Row],
           disk' \subseteq used, store' \in [Places -> Files \cup {None}],
           settled' \subseteq {g \in Places : store'[g] # None}, gone' \subseteq Places, torn' \subseteq Files
    PROVE  /\ Types' /\ Phases'
           /\ worker'.at = at /\ worker'.due = due /\ worker'.todo = todo /\ Job' = job
           /\ Tasks' = todo \cup {r \in {job} : at \in {"fetch", "put", "written", "renamed"}}
<1>1. worker'.at = at /\ worker'.due = due /\ worker'.todo = todo /\ Job' = job
  BY DEF WorkerIs, Job
<1>2. worker' \in [at : {"idle", "gone", "removed", "todo", "fetch", "put", "written", "renamed"},
                   due : SUBSET Places, todo : SUBSET Transfer, job : {job}]
  BY DEF WorkerIs
<1>3. Types'
  <2>1. Changes' = Changes
    BY DEF Changes, ScanStays
  <2> QED
    BY <1>1, <1>2, <2>1 DEF IInv, Types, WorkerIs
<1>4. Phases'
  BY <1>1 DEF IInv, Phases, WorkerIs, ScanStays, Holding, Busy
<1> QED
  BY <1>1, <1>3, <1>4 DEF Tasks, Busy

\* The worker lists what is to be deleted.
LEMMA TickBeginsStep ==
    ASSUME IInv, Beside(TickBegins)
    PROVE  IInv'
<1>1. ScanStays /\ scan' \in Scans
  BY BesideScan DEF Beside, IInv
<1>2. WorkerIs("gone", gone, {}, Job) /\ worker.at = "idle"
  BY WorkerType DEF Beside, TickBegins, IInv, Phases, Types, WorkerIs
<1>3. Types' /\ Phases' /\ worker'.at = "gone" /\ Tasks' = {}
  BY <1>1, <1>2, WorkerGoesOn DEF Beside, TickBegins, IInv, Types
<1>4. Quiet /\ KnownStays /\ DiskStays
  BY StayKnown DEF Beside, TickBegins, Quiet, DiskStays, IInv, Types
<1>5. TasksStay /\ JobInHand'
  BY <1>2, <1>3 DEF TasksStay, JobInHand
<1>6. AllAccounted'
  BY <1>2, <1>4 DEF AllAccounted, InWork, KnownStays, Quiet, IInv
<1> QED
  BY <1>1, <1>3, <1>4, <1>5, <1>6, QuietStep

\* A deletion is crossed out when a file lives there again.
LEMMA GoneKeepsStep ==
    ASSUME IInv, NEW g \in Places, Beside(GoneKeeps(g))
    PROVE  IInv'
<1>1. ScanStays /\ scan' \in Scans
  BY BesideScan DEF Beside, IInv
<1>2. WorkerIs("gone", worker.due \ {g}, {}, Job) /\ worker.at = "gone"
  BY WorkerType DEF Beside, GoneKeeps, IInv, Phases, WorkerIs
<1>3. Types' /\ Phases' /\ worker'.at = "gone" /\ Tasks' = {}
  BY <1>1, <1>2, WorkerGoesOn DEF Beside, GoneKeeps, IInv, Types
<1>4. Quiet /\ DiskStays
  BY DEF Beside, GoneKeeps, Quiet, DiskStays, IInv, Types
<1>5. KnownStays
  BY DEF Beside, GoneKeeps, KnownStays, Accounted, UsedPlace, Spare
<1>6. TasksStay /\ JobInHand'
  BY <1>2, <1>3 DEF TasksStay, JobInHand
<1>7. AllAccounted'
  BY <1>2, <1>4, <1>5 DEF AllAccounted, InWork, KnownStays, Quiet, IInv
<1> QED
  BY <1>1, <1>3, <1>4, <1>5, <1>6, <1>7, QuietStep

\* A deletion is crossed out when its object is gone.
LEMMA RemoveEndsStep ==
    ASSUME IInv, Beside(RemoveEnds)
    PROVE  IInv'
<1>1. ScanStays /\ scan' \in Scans
  BY BesideScan DEF Beside, IInv
<1>2. WorkerIs("gone", worker.due, {}, None) /\ worker.at = "removed" /\ Spare(Job)
  BY WorkerType DEF Beside, RemoveEnds, IInv, Phases, WorkerIs, JobInHand
<1>3. Types' /\ Phases' /\ worker'.at = "gone" /\ Tasks' = {}
  BY <1>1, <1>2, WorkerGoesOn DEF Beside, RemoveEnds, IInv, Types
<1>4. Quiet /\ DiskStays
  BY DEF Beside, RemoveEnds, Quiet, DiskStays, IInv, Types
<1>5. KnownStays
  BY <1>2 DEF Beside, RemoveEnds, KnownStays, Accounted, UsedPlace, Spare, Job
<1>6. TasksStay /\ JobInHand'
  BY <1>2, <1>3 DEF TasksStay, JobInHand
<1>7. AllAccounted'
  BY <1>2, <1>4, <1>5 DEF AllAccounted, InWork, KnownStays, Quiet, IInv
<1> QED
  BY <1>1, <1>3, <1>4, <1>5, <1>6, <1>7, QuietStep

\* A task goes to its next await, or is put off: what it is to do stays as it is.
LEMMA FetchStep ==
    ASSUME IInv, NEW r \in worker.todo, worker.at = "todo", Fetch(r), UNCHANGED <<area, used, disk, torn>>,
           scan' = [scan EXCEPT !.old = @ \cup Rewritten]
    PROVE  IInv'
<1>1. ScanStays /\ scan' \in Scans
  BY BesideScan DEF IInv
<1>2. WorkerIs("fetch", worker.due, worker.todo \ {r}, r)
  BY WorkerType DEF Fetch, IInv, WorkerIs
<1>3. /\ Types' /\ Phases' /\ worker'.at = "fetch" /\ Job' = r /\ worker'.todo = worker.todo \ {r}
      /\ Tasks' = (worker.todo \ {r}) \cup {r}
  BY <1>1, <1>2, WorkerGoesOn DEF Fetch, IInv, Types
<1>4. Quiet /\ DiskStays /\ KnownStays
  BY StayKnown DEF Fetch, Quiet, DiskStays, IInv, Types
<1>5. TasksStay /\ JobInHand'
  BY <1>3 DEF TasksStay, JobInHand, Tasks
<1>6. AllAccounted'
  BY <1>4 DEF AllAccounted, InWork, KnownStays, Quiet, IInv
<1> QED
  BY <1>1, <1>3, <1>4, <1>5, <1>6, QuietStep

\* A task comes to its put: nothing readable is in its way.
LEMMA PutStep ==
    ASSUME IInv, NEW r \in Tasks, worker.at \in {"todo", "fetch"}, worker.at = "fetch" => r = Job,
           r.want # Here, ~InTheWay(r), disk \subseteq disk', disk' \subseteq used,
           WorkerIs("put", worker.due, worker.todo \ {r}, r),
           UNCHANGED <<area, rows, used, store, settled, gone, torn>>,
           scan' = [scan EXCEPT !.old = @ \cup Rewritten]
    PROVE  IInv'
<1>1. ScanStays /\ scan' \in Scans
  BY BesideScan DEF IInv
<1>2. /\ Types' /\ Phases' /\ worker'.at = "put" /\ Job' = r /\ worker'.todo = worker.todo \ {r}
      /\ Tasks' = (worker.todo \ {r}) \cup {r}
  BY <1>1, WorkerGoesOn DEF IInv, Types
<1>3. Quiet /\ DiskStays /\ KnownStays
  BY StayKnown DEF Quiet, DiskStays, IInv, Types
<1>4. TasksStay
  BY <1>2 DEF TasksStay, Tasks, InTheWay
<1>5. JobInHand'
  BY <1>2 DEF JobInHand, InTheWay
<1>6. AllAccounted'
  BY <1>3 DEF AllAccounted, InWork, KnownStays, Quiet, IInv
<1> QED
  BY <1>1, <1>2, <1>3, <1>4, <1>5, <1>6, QuietStep

\* A task ends without a change, is put off or fails.
LEMMA DropStep ==
    ASSUME IInv, NEW todo \in SUBSET worker.todo, worker.at \in {"todo", "fetch", "put"},
           disk \subseteq disk', disk' \subseteq used,
           NEW job, WorkerIs("todo", worker.due, todo, job),
           UNCHANGED <<area, rows, used, store, settled, gone, torn>>,
           ScanStays, scan' \in Scans
    PROVE  IInv'
<1>1. /\ area \in [target : Targets \cup {Server}, moving : BOOLEAN, to : Targets \cup {Server}, form : Forms]
      /\ DOMAIN rows' = DOMAIN rows /\ rows' \in [DOMAIN rows -> Row] /\ area' = area
      /\ store' \in [Places -> Files \cup {None}] /\ settled' \subseteq {g \in Places : store'[g] # None}
      /\ gone' \subseteq Places /\ torn' \subseteq Files
  BY DEF IInv, Types
<1>2. Types' /\ Phases' /\ worker'.at = "todo" /\ worker'.todo = todo /\ Tasks' = todo
  <2>1. /\ Types' /\ Phases' /\ worker'.at = "todo" /\ worker'.todo = todo
    BY <1>1, WorkerGoesOn
  <2> QED
    BY <2>1 DEF Tasks, Busy
<1>3. Quiet /\ DiskStays /\ KnownStays
  BY StayKnown DEF Quiet, DiskStays, IInv, Types
<1>4. TasksStay /\ JobInHand'
  BY <1>2 DEF TasksStay, Tasks, JobInHand
<1>5. AllAccounted'
  BY <1>3 DEF AllAccounted, InWork, KnownStays, Quiet, IInv
<1> QED
  BY <1>2, <1>3, <1>4, <1>5, QuietStep

\* A task fails.
LEMMA TaskFailsStep ==
    ASSUME IInv, Beside(TaskFails)
    PROVE  IInv'
<1>1. ScanStays /\ scan' \in Scans
  BY BesideScan DEF Beside, IInv
<1>2. WorkerIs("todo", worker.due, worker.todo, None)
  BY WorkerType DEF Beside, TaskFails, Ends, IInv, WorkerIs
<1> QED
  BY <1>1, <1>2, DropStep DEF Beside, TaskFails, IInv, Types

\* The end of a tick: copies here go only of files that are elsewhere.
LEMMA TickEndsStep ==
    ASSUME IInv, NEW S \in SUBSET Files, Beside(TickEnds(S))
    PROVE  IInv'
<1>1. ScanStays /\ scan' \in Scans
  BY BesideScan DEF Beside, IInv
<1>2. WorkerIs("idle", {}, {}, None) /\ worker.at = "todo" /\ worker.todo = {}
  BY DEF Beside, TickEnds, WorkerIs, Idle
<1>3. /\ area' \in [target : Targets \cup {Server}, moving : BOOLEAN, to : Targets \cup {Server}, form : Forms]
      /\ area'.form = area.form
  BY DEF Beside, TickEnds, IInv, Types
<1>4. Types' /\ Phases' /\ worker'.at = "idle" /\ Tasks' = {}
  BY <1>1, <1>2, <1>3, WorkerGoesOn DEF Beside, TickEnds, IInv, Types
<1>5. Quiet /\ KnownStays
  BY <1>3, StayKnown DEF Beside, TickEnds, Quiet
<1>6. DiskStays
  BY <1>4 DEF Beside, TickEnds, DiskStays, Evictable, IInv, Types
<1>7. TasksStay /\ JobInHand'
  BY <1>2, <1>4 DEF TasksStay, JobInHand
<1>8. AllAccounted'
  BY <1>2, <1>5 DEF AllAccounted, InWork, KnownStays, Quiet, IInv
<1> QED
  BY <1>1, <1>4, <1>5, <1>6, <1>7, <1>8, QuietStep

\* The worker goes on to its next task.
LEMMA TodoIs ==
    ASSUME Types, NEW S, worker' = [worker EXCEPT !.todo = S]
    PROVE  worker' = [at |-> worker.at, due |-> worker.due, todo |-> S, job |-> Job]
BY WorkerType

\* A task is put off.
LEMMA PutOffStep ==
    ASSUME IInv, NEW r \in worker.todo, worker.at = "todo", PutOff(r), UNCHANGED <<area, used, disk, torn>>,
           scan' = [scan EXCEPT !.old = @ \cup Rewritten]
    PROVE  IInv'
<1>1. ScanStays /\ scan' \in Scans
  BY BesideScan DEF IInv
<1>2. worker' = [worker EXCEPT !.todo = @ \ {r}]
  BY DEF PutOff
<1>3. worker' = [at |-> "todo", due |-> worker.due, todo |-> worker.todo \ {r}, job |-> Job]
  BY <1>2, TodoIs DEF IInv
<1>4. WorkerIs("todo", worker.due, worker.todo \ {r}, Job)
  BY <1>3, WorkerType DEF IInv, WorkerIs
<1> QED
  BY <1>1, <1>4, DropStep DEF PutOff, IInv, Types

-----------------------------------------------------------------------------
(* The worker: a file is where it was to go, and its row says so *)

\* The task j ends with its file at place: here, or where j has brought it.
Arrives(j, place, form) ==
    /\ rows' = Placed(j.id, place, form)
    /\ \/ place = Here /\ form = "none" /\ j.id \in disk' /\ worker.at \in {"todo", "fetch"}
       \/ place = j.want /\ place # Here /\ form = j.form /\ j = Job /\ worker.at \in {"written", "renamed"}
    /\ gone' = gone \cup ({j.row.place} \ {Here}) \/ (gone' = gone /\ Spare(j.row.place))

\* The row that is written down, and the others.
LEMMA ArrivesRows ==
    ASSUME IInv, NEW j \in Tasks, Still(j), NEW place \in Places \cup {Here}, NEW form, Arrives(j, place, form)
    PROVE  /\ j.id \in DOMAIN rows /\ DOMAIN rows' = DOMAIN rows /\ rows' \in [DOMAIN rows -> Row]
           /\ \A g \in DOMAIN rows : g # j.id => rows'[g] = rows[g]
           /\ rows'[j.id].place = place /\ rows'[j.id].form = form /\ ~rows'[j.id].missing
           /\ rows'[j.id].path = rows[j.id].path /\ rows'[j.id].want = rows[j.id].want
           /\ rows'[j.id].bytes = rows[j.id].bytes
           /\ rows[j.id].place = j.row.place /\ rows[j.id].bytes = j.row.bytes
<1>1. /\ j \in Transfer /\ j.id \in DOMAIN rows /\ rows[j.id] \in Row /\ rows \in [DOMAIN rows -> Row]
      /\ rows[j.id].place = j.row.place /\ rows[j.id].bytes = j.row.bytes
  BY TaskTypes DEF IInv, Types, TaskRows, Still
<1>2. form \in Forms \cup {"none"}
  BY <1>1 DEF Arrives, Transfer
<1>3. PICK r : r = [rows[j.id] EXCEPT !.place = place, !.form = form, !.missing = FALSE]
  OBVIOUS
<1>4. /\ r \in Row /\ r.place = place /\ r.form = form /\ ~r.missing
      /\ r.path = rows[j.id].path /\ r.want = rows[j.id].want /\ r.bytes = rows[j.id].bytes
  BY <1>1, <1>2, <1>3 DEF Row
<1>5. rows' = [rows EXCEPT ![j.id] = r]
  BY <1>1, <1>3 DEF Arrives, Placed
<1> QED
  BY <1>1, <1>4, <1>5

\* Nobody else is where the file has come, and it is there whole.
LEMMA ArrivesApart ==
    ASSUME IInv, NEW j \in Tasks, Still(j), NEW place \in Places \cup {Here}, NEW form, Arrives(j, place, form),
           UNCHANGED <<area, store, settled, torn>>, disk \subseteq disk'
    PROVE  Keyed' /\ HereIsHere' /\ OnePlaceEach' /\ StoredWhole' /\ StoredOwn'
<1>1. /\ j.id \in DOMAIN rows /\ DOMAIN rows' = DOMAIN rows
      /\ \A g \in DOMAIN rows : g # j.id => rows'[g] = rows[g]
      /\ rows'[j.id].place = place /\ rows'[j.id].form = form
      /\ rows'[j.id].path = rows[j.id].path /\ rows'[j.id].want = rows[j.id].want
      /\ rows'[j.id].bytes = rows[j.id].bytes /\ rows[j.id].bytes = j.row.bytes
  BY ArrivesRows
<1>2. place # Here => place = j.want /\ form = j.form /\ j = Job /\ worker.at \in {"written", "renamed"}
  BY DEF Arrives
<1>3. Keyed'
  <2>1. /\ area' = area /\ torn' = torn
        /\ \A g \in DOMAIN rows' : /\ g \in DOMAIN rows /\ rows'[g].path = rows[g].path
                                   /\ rows'[g].want = rows[g].want /\ rows'[g].bytes = rows[g].bytes
    BY <1>1
  <2>2. \A g \in DOMAIN rows' : rows'[g].bytes \notin torn' /\ rows'[g].place # Here
              => Fits(rows'[g].form, rows'[g].place[2])
    <3> SUFFICES ASSUME NEW g \in DOMAIN rows', rows'[g].bytes \notin torn', rows'[g].place # Here
                 PROVE  Fits(rows'[g].form, rows'[g].place[2])
      OBVIOUS
    <3>1. CASE g = j.id
      BY <1>1, <1>2, <2>1, <3>1 DEF IInv, TasksApart, Intact
    <3>2. CASE g # j.id
      BY <1>1, <2>1, <3>2 DEF IInv, Keyed, Intact
    <3> QED
      BY <3>1, <3>2
  <2>3. \A g \in DOMAIN rows' : rows'[g].bytes \notin torn' =>
            /\ rows'[g].path \in Paths \cup {None}
            /\ rows'[g].want = WantKey(g, rows'[g].path, area'.form)
    BY <2>1 DEF IInv, Keyed, Intact
  <2>4. \A e, g \in DOMAIN rows' :
            /\ e # g /\ rows'[e].path = rows'[g].path /\ rows'[e].path # None => rows'[g].bytes \in torn'
            /\ e # g /\ rows'[e].want = rows'[g].want => rows'[g].bytes \in torn'
    BY <2>1 DEF IInv, Keyed, Intact
  <2> QED
    BY <2>2, <2>3, <2>4 DEF Keyed, Intact
<1>4. HereIsHere'
  BY <1>1 DEF IInv, HereIsHere, Arrives, Intact
<1>5. \A g \in DOMAIN rows : g # j.id /\ rows[g].place = place /\ place # Here =>
          rows[g].bytes \in torn /\ rows[j.id].bytes \in torn
  BY <1>1, <1>2 DEF IInv, Vacancy, PutsOff, Deleted, Intact, Phases, Busy
<1>6. OnePlaceEach'
  BY <1>1, <1>5 DEF IInv, OnePlaceEach
<1>7. place # Here => /\ store[place] = rows[j.id].bytes \/ Spare(place)
                      /\ Intact(rows[j.id]) => store[place] = rows[j.id].bytes
  BY <1>1, <1>2 DEF IInv, JobInHand, Intact
<1>8. \A g \in DOMAIN rows : g # j.id => ~Moving(g)
  BY <1>2 DEF Moving, Arrives
<1>9. StoredWhole'
  BY <1>1, <1>7, <1>8 DEF IInv, StoredWhole, Intact
<1>10. StoredOwn'
  BY <1>1, <1>7 DEF IInv, StoredOwn, Spare
<1> QED
  BY <1>3, <1>4, <1>6, <1>9, <1>10

\* The worker is rid of the task j.
LEMMA ArrivesStep ==
    ASSUME IInv, NEW j \in Tasks, Still(j), NEW place \in Places \cup {Here}, NEW form, Arrives(j, place, form),
           NEW todo \in SUBSET worker.todo, j \notin todo, NEW job, WorkerIs("todo", worker.due, todo, job),
           UNCHANGED <<area, used, store, settled, torn>>, disk \subseteq disk', disk' \subseteq used,
           ScanStays, scan' \in Scans
    PROVE  IInv'
<1>1. /\ j.id \in DOMAIN rows /\ DOMAIN rows' = DOMAIN rows /\ rows' \in [DOMAIN rows -> Row]
      /\ \A g \in DOMAIN rows : g # j.id => rows'[g] = rows[g]
      /\ rows'[j.id].place = place /\ rows'[j.id].form = form /\ ~rows'[j.id].missing
      /\ rows'[j.id].bytes = rows[j.id].bytes
      /\ rows[j.id].place = j.row.place /\ rows[j.id].bytes = j.row.bytes
  BY ArrivesRows
<1>2. /\ area \in [target : Targets \cup {Server}, moving : BOOLEAN, to : Targets \cup {Server}, form : Forms]
      /\ area' = area /\ store' = store /\ torn' = torn
      /\ store' \in [Places -> Files \cup {None}] /\ settled' \subseteq {g \in Places : store'[g] # None}
      /\ torn' \subseteq Files /\ gone \subseteq Places
  BY DEF IInv, Types
<1>3. gone' \subseteq Places
  BY <1>2, TaskTypes DEF Arrives, IInv
<1>4. Types' /\ Phases' /\ worker'.at = "todo" /\ worker'.todo = todo /\ Tasks' = todo
  <2>1. Types' /\ Phases' /\ worker'.at = "todo" /\ worker'.todo = todo
    BY <1>1, <1>2, <1>3, WorkerGoesOn
  <2> QED
    BY <2>1 DEF Tasks, Busy
<1>5. Keyed' /\ HereIsHere' /\ OnePlaceEach' /\ StoredWhole' /\ StoredOwn'
  BY <1>2, ArrivesApart
<1>6. /\ Tasks' \subseteq Tasks /\ j \notin Tasks'
      /\ \A r \in Tasks' : r # j /\ r.id # j.id /\ r \in worker.todo /\ r \in worker'.todo
  BY <1>4 DEF IInv, TasksApart, Tasks
<1>7. TasksApart' /\ TaskStore'
  BY <1>2, <1>6 DEF IInv, TasksApart, TaskStore, Intact, Spare
<1>8. place # Here => place = j.want
  BY DEF Arrives
<1>9. TaskRows'
  <2>1. \A r \in Tasks' : r.id \in DOMAIN rows' =>
          /\ rows'[r.id].bytes = r.row.bytes
          /\ r.row.bytes \notin torn' => rows'[r.id].place = r.row.place
          /\ r.local => r.id \in disk'
    BY <1>1, <1>2, <1>6 DEF IInv, TaskRows, Intact
  <2>2. ASSUME NEW r \in Tasks', NEW g \in DOMAIN rows', g # r.id,
               rows'[g].place = r.row.place, r.row.place # Here
        PROVE  rows'[g].bytes \in torn'
    <3>1. CASE g = j.id
      BY <1>1, <1>6, <1>8, <2>2, <3>1 DEF IInv, TasksApart
    <3>2. CASE g # j.id
      BY <1>1, <1>2, <1>6, <2>2, <3>2 DEF IInv, TaskRows, Intact
    <3> QED
      BY <3>1, <3>2
  <2> QED
    BY <2>1, <2>2 DEF TaskRows, Intact
<1>10. Vacancy'
  <2> SUFFICES ASSUME NEW r \in Tasks', NEW g \in DOMAIN rows', g # r.id, rows'[g].place = r.want, r.want # Here
               PROVE  /\ rows'[g].bytes \in torn'
                      /\ r.row.bytes \notin torn' => PutsOff(r, g)' \/ Deleted(r)'
    BY DEF Vacancy, Intact
  <2>1. CASE g = j.id
    BY <1>1, <1>2, <1>6, <1>8, <2>1 DEF IInv, TasksApart, Intact
  <2>2. CASE g # j.id
    <3>1. ~Deleted(r)
      BY <1>1, <1>6 DEF Arrives, Deleted
    <3> QED
      BY <1>1, <1>2, <1>6, <2>2, <3>1 DEF IInv, Vacancy, Intact, PutsOff, ScanStays, Holding
  <2> QED
    BY <2>1, <2>2
<1>11. JobInHand'
  BY <1>4 DEF JobInHand
<1>12. ASSUME NEW g \in Places, Accounted(g)
       PROVE  Accounted(g)'
  <2>1. CASE UsedPlace(g)
    <3>1. PICK f \in DOMAIN rows : rows[f].place = g
      BY <2>1 DEF UsedPlace
    <3>2. CASE f = j.id
      BY <1>1, <1>2, <3>1, <3>2, PlaceFacts DEF Arrives, Accounted, Spare
    <3>3. CASE f # j.id
      BY <1>1, <3>1, <3>3 DEF Accounted, UsedPlace
    <3> QED
      BY <3>2, <3>3
  <2>2. CASE g \in gone \/ Spare(g)
    BY <1>2, <2>2 DEF Arrives, Accounted, Spare
  <2> QED
    BY <1>12, <2>1, <2>2 DEF Accounted
<1>13. AllAccounted'
  <2>1. \A g \in Places : InWork(g) => UsedPlace(g)' \/ Accounted(g)
    <3> SUFFICES ASSUME NEW g \in Places, InWork(g) PROVE UsedPlace(g)'
      OBVIOUS
    <3>1. g = j.want /\ place = j.want
      BY DEF InWork, Arrives
    <3> QED
      BY <1>1, <3>1 DEF UsedPlace
  <2> QED
    BY <1>12, <2>1 DEF AllAccounted, IInv, Accounted
<1>14. ScanKnows'
  <2>1. KnownStays
    BY <1>12 DEF KnownStays
  <2>2. MissingStays
    BY <1>1 DEF MissingStays
  <2>3. BytesStay
    BY <1>1 DEF BytesStay
  <2> QED
    BY <1>2, <2>1, <2>2, <2>3, StayScan
<1> QED
  BY <1>4, <1>5, <1>7, <1>9, <1>10, <1>11, <1>13, <1>14 DEF IInv

\* A copy home is written down at once, one elsewhere is put first.
LEMMA CopyStep ==
    ASSUME IInv, NEW r \in worker.todo, worker.at = "todo", Copy(r), UNCHANGED <<area, used, disk, torn>>,
           scan' = [scan EXCEPT !.old = @ \cup Rewritten]
    PROVE  IInv'
<1>1. ScanStays /\ scan' \in Scans
  BY BesideScan DEF IInv
<1>2. r \in Tasks /\ r \in Transfer /\ r.id \in used /\ disk \subseteq used
  BY TaskTypes DEF Tasks, IInv, Types
<1>3. CASE r.want = Here
  <2>1. /\ r.local /\ Home(r) /\ worker' = [worker EXCEPT !.todo = @ \ {r}]
        /\ store' = store /\ settled' = settled
    BY <1>3 DEF Copy
  <2>2. worker' = [at |-> worker.at, due |-> worker.due, todo |-> worker.todo \ {r}, job |-> Job]
    BY <2>1, TodoIs DEF IInv
  <2>3. WorkerIs("todo", worker.due, worker.todo \ {r}, Job)
    BY <2>2, WorkerType DEF IInv, WorkerIs
  <2>4. CASE Still(r)
    <3>1. r.id \in disk
      BY <1>2, <2>1, <2>4 DEF IInv, TaskRows, Still
    <3>2. Arrives(r, Here, "none")
      BY <2>1, <2>4, <3>1 DEF Arrives, Home, Buried
    <3> QED
      BY <1>1, <1>2, <2>1, <2>3, <2>4, <3>2, ArrivesStep
  <2>5. CASE ~Still(r)
    BY <1>1, <1>2, <2>1, <2>3, <2>5, DropStep DEF Home
  <2> QED
    BY <2>4, <2>5
<1>4. CASE r.want # Here
  <2>1. /\ ~InTheWay(r) /\ worker' = [worker EXCEPT !.at = "put", !.todo = @ \ {r}, !.job = r]
        /\ UNCHANGED <<rows, gone, store, settled>>
    BY <1>4 DEF Copy
  <2>2. WorkerIs("put", worker.due, worker.todo \ {r}, r)
    BY <1>2, <1>4, <2>1, WorkerType DEF IInv, WorkerIs
  <2> QED
    BY <1>2, <1>4, <2>1, <2>2, PutStep
<1> QED
  BY <1>3, <1>4

\* A file that was fetched is here, or goes on to be put.
LEMMA FetchedStep ==
    ASSUME IInv, Beside(Fetched)
    PROVE  IInv'
<1>1. ScanStays /\ scan' \in Scans
  BY BesideScan DEF Beside, IInv
<1>2. /\ worker.at = "fetch" /\ Job \in Tasks /\ Job \in Transfer /\ Job.id \in used /\ disk \subseteq used
      /\ Job \notin worker.todo /\ worker.todo \ {Job} = worker.todo
  BY TaskTypes DEF Beside, Fetched, Busy, IInv, Types, Phases
<1>3. /\ disk' = disk \cup {Job.id} /\ disk \subseteq disk' /\ disk' \subseteq used
      /\ UNCHANGED <<area, used, store, settled, torn>>
  BY <1>2 DEF Beside, Fetched
<1>4. WorkerIs("todo", worker.due, worker.todo, None) \/ worker' # Ends
  BY WorkerType DEF Ends, IInv, WorkerIs
<1>5. CASE Job.want = Here
  <2>1. Home(Job) /\ WorkerIs("todo", worker.due, worker.todo, None)
    BY <1>4, <1>5 DEF Beside, Fetched
  <2>2. CASE Still(Job)
    <3>1. Arrives(Job, Here, "none")
      BY <1>2, <1>3, <2>1, <2>2 DEF Arrives, Home, Buried
    <3> QED
      BY <1>1, <1>2, <1>3, <2>1, <2>2, <3>1, ArrivesStep
  <2>3. CASE ~Still(Job)
    BY <1>1, <1>2, <1>3, <2>1, <2>3, DropStep DEF Home
  <2> QED
    BY <2>2, <2>3
<1>6. CASE Job.want # Here /\ worker' = Ends
  BY <1>1, <1>2, <1>3, <1>4, <1>6, DropStep DEF Beside, Fetched
<1>7. CASE Job.want # Here /\ worker' # Ends
  <2>1. ~InTheWay(Job) /\ worker' = [worker EXCEPT !.at = "put"] /\ UNCHANGED <<rows, gone>>
    BY <1>7 DEF Beside, Fetched
  <2>2. WorkerIs("put", worker.due, worker.todo \ {Job}, Job)
    BY <1>2, <1>7, <2>1, WorkerType DEF IInv, WorkerIs
  <2> QED
    BY <1>2, <1>3, <1>7, <2>1, <2>2, PutStep DEF Beside
<1> QED
  BY <1>5, <1>6, <1>7

\* The worker's object is to be deleted again: the row has changed meanwhile.
LEMMA GivesUpStep ==
    ASSUME IInv, worker.at \in {"written", "renamed"}, worker.at = "renamed" => ~Still(Job),
           worker' = Ends, gone' = Buried(Job.want),
           UNCHANGED <<area, rows, used, disk, store, settled, torn>>,
           scan' = [scan EXCEPT !.old = @ \cup Rewritten]
    PROVE  IInv'
<1>1. ScanStays /\ scan' \in Scans
  BY BesideScan DEF IInv
<1>2. /\ Job \in Tasks /\ Job.want \in Places
      /\ gone' = gone \cup {Job.want} /\ gone' \subseteq Places
  BY TaskTypes DEF IInv, Types, Phases, Busy, Buried
<1>3. WorkerIs("todo", worker.due, worker.todo, None)
  BY WorkerType DEF Ends, IInv, WorkerIs
<1>4. Types' /\ Phases' /\ worker'.at = "todo" /\ worker'.todo = worker.todo /\ Tasks' = worker.todo
  <2>1. Types' /\ Phases' /\ worker'.at = "todo" /\ worker'.todo = worker.todo
    BY <1>1, <1>2, <1>3, WorkerGoesOn DEF IInv, Types
  <2> QED
    BY <2>1 DEF Tasks, Busy
<1>5. Quiet /\ DiskStays /\ KnownStays
  BY <1>2, StayKnown DEF Quiet, DiskStays, IInv, Types
<1>6. worker.at = "renamed" => Job.id \notin DOMAIN rows' \/ Job.row.bytes \in torn'
  BY <1>2 DEF IInv, TaskRows, Still, Intact
<1>7. TasksStay /\ JobInHand'
  BY <1>4, <1>6 DEF TasksStay, Tasks, JobInHand, IInv, Phases, Busy
<1>8. AllAccounted'
  BY <1>2, <1>5 DEF AllAccounted, InWork, KnownStays, Quiet, IInv, Accounted
<1> QED
  BY <1>1, <1>4, <1>5, <1>7, <1>8, QuietStep

\* A put or a rename is written down, or given up.
LEMMA PutEndsStep ==
    ASSUME IInv, Beside(PutEnds) \/ Beside(RenameEnds)
    PROVE  IInv'
<1>1. ScanStays /\ scan' \in Scans /\ scan' = [scan EXCEPT !.old = @ \cup Rewritten]
  BY BesideScan DEF Beside, IInv
<1>2. /\ worker.at \in {"written", "renamed"} /\ worker' = Ends
      /\ UNCHANGED <<area, used, disk, store, settled, torn>>
  BY DEF Beside, PutEnds, RenameEnds
<1>3. /\ Job \in Tasks /\ Job.want \in Places /\ Job.want # Here /\ Job \notin worker.todo /\ disk \subseteq used
  BY <1>2, TaskTypes DEF IInv, Types, Phases, Busy
<1>4. \/ Still(Job) /\ rows' = Placed(Job.id, Job.want, Job.form) /\ worker.at = "written"
         /\ gone' = Buried(Job.row.place)
      \/ Still(Job) /\ rows' = Placed(Job.id, Job.want, Job.form) /\ worker.at = "renamed" /\ gone' = gone
      \/ rows' = rows /\ gone' = Buried(Job.want) /\ (worker.at = "renamed" => ~Still(Job))
  BY DEF Beside, PutEnds, RenameEnds
<1>5. CASE Still(Job) /\ rows' = Placed(Job.id, Job.want, Job.form)
  <2>1. Arrives(Job, Job.want, Job.form) \/ rows' = rows
    BY <1>2, <1>3, <1>4, <1>5 DEF Arrives, Buried, IInv, JobInHand
  <2>2. CASE Arrives(Job, Job.want, Job.form)
    <3>1. WorkerIs("todo", worker.due, worker.todo, None)
      BY <1>2, WorkerType DEF Ends, IInv, WorkerIs
    <3> QED
      BY <1>1, <1>2, <1>3, <1>5, <2>2, <3>1, ArrivesStep
  <2>3. CASE ~Arrives(Job, Job.want, Job.form)
    <3>1. rows' = rows /\ gone' = Buried(Job.want) /\ (worker.at = "renamed" => ~Still(Job))
      BY <1>2, <1>3, <1>4, <1>5, <2>3 DEF Arrives, Buried, IInv, JobInHand
    <3> QED
      BY <1>1, <1>2, <3>1, GivesUpStep
  <2> QED
    BY <2>2, <2>3
<1>6. CASE ~(Still(Job) /\ rows' = Placed(Job.id, Job.want, Job.form))
  BY <1>1, <1>2, <1>4, <1>6, GivesUpStep
<1> QED
  BY <1>5, <1>6

-----------------------------------------------------------------------------
(* Faults *)

\* A call fails; only an object that was written and not looked at is torn.
LEMMA CallFailsStep ==
    ASSUME IInv, CallFails, UNCHANGED scan
    PROVE  IInv'
<1>1. /\ UNCHANGED <<area, rows, used, disk, store, settled, gone>>
      /\ torn' = IF worker.at = "written" THEN torn \cup {Job.row.bytes} ELSE torn
  BY DEF CallFails
<1>2. ScanStays /\ scan' \in Scans
  BY <1>1, SameScan DEF IInv, Types
<1>3. ASSUME worker.at = "gone", NEW g \in worker.due, worker' = [worker EXCEPT !.due = @ \ {g}]
      PROVE  IInv'
  <2>1. WorkerIs("gone", worker.due \ {g}, {}, Job) /\ torn' = torn
    BY <1>1, <1>3, WorkerType DEF IInv, Phases, WorkerIs
  <2>2. Types' /\ Phases' /\ worker'.at = "gone" /\ Tasks' = {}
    BY <1>1, <1>2, <2>1, WorkerGoesOn DEF IInv, Types
  <2>3. Quiet /\ DiskStays
    BY <1>1, <2>1 DEF Quiet, DiskStays, IInv, Types
  <2>4. KnownStays
    BY <1>1, <2>1 DEF KnownStays, Accounted, UsedPlace, Spare
  <2>5. TasksStay /\ JobInHand'
    BY <1>3, <2>2 DEF TasksStay, JobInHand
  <2>6. AllAccounted'
    BY <1>3, <2>3, <2>4 DEF AllAccounted, InWork, KnownStays, Quiet, IInv
  <2> QED
    BY <1>2, <2>2, <2>3, <2>4, <2>5, <2>6, QuietStep
<1>4. ASSUME worker.at = "todo", NEW r \in worker.todo, worker' = [worker EXCEPT !.todo = @ \ {r}]
      PROVE  IInv'
  <2>1. worker' = [at |-> worker.at, due |-> worker.due, todo |-> worker.todo \ {r}, job |-> Job]
    BY <1>4, TodoIs DEF IInv
  <2>2. WorkerIs("todo", worker.due, worker.todo \ {r}, Job) /\ torn' = torn
    BY <1>1, <1>4, <2>1, WorkerType DEF IInv, WorkerIs
  <2> QED
    BY <1>1, <1>2, <1>4, <2>2, DropStep DEF IInv, Types
<1>5. CASE worker.at \in {"fetch", "put", "written"} /\ worker' = Ends
  <2>1. WorkerIs("todo", worker.due, worker.todo, None)
    BY <1>5, WorkerType DEF Ends, IInv, WorkerIs
  <2>2. CASE worker.at \in {"fetch", "put"}
    BY <1>1, <1>2, <2>1, <2>2, DropStep DEF IInv, Types
  <2>3. CASE worker.at = "written"
    <3>1. /\ Job.want \in Places /\ torn' = torn \cup {Job.row.bytes} /\ torn' \subseteq Files
          /\ store[Job.want] \in torn' \/ Spare(Job.want)
      BY <1>1, <2>3, TaskTypes DEF IInv, Types, Phases, Busy, Row, JobInHand
    <3>2. Types' /\ Phases' /\ worker'.at = "todo" /\ worker'.todo = worker.todo /\ Tasks' = worker.todo
      <4>1. Types' /\ Phases' /\ worker'.at = "todo" /\ worker'.todo = worker.todo
        BY <1>1, <1>2, <2>1, <3>1, WorkerGoesOn DEF IInv, Types
      <4> QED
        BY <4>1 DEF Tasks, Busy
    <3>3. Quiet /\ DiskStays
      BY <1>1, <3>1 DEF Quiet, DiskStays, IInv, Types
    <3>4. KnownStays
      BY <1>1, <3>1 DEF KnownStays, Accounted, UsedPlace, Spare
    <3>5. TasksStay /\ JobInHand'
      BY <2>3, <3>2 DEF TasksStay, JobInHand, Tasks
    <3>6. \A g \in Places : InWork(g) => Spare(g)'
      BY <1>1, <3>1 DEF InWork, Spare
    <3>7. AllAccounted'
      BY <1>1, <3>4, <3>6 DEF AllAccounted, KnownStays, IInv, Accounted
    <3> QED
      BY <1>2, <3>2, <3>3, <3>4, <3>5, <3>7, QuietStep
  <2> QED
    BY <1>5, <2>2, <2>3
<1> QED
  BY <1>3, <1>4, <1>5 DEF CallFails

\* The process stops; only what was put or renamed and not written down is torn.
LEMMA StopsStep ==
    ASSUME IInv, Stops, scan' = NoScan
    PROVE  IInv'
<1>1. /\ UNCHANGED <<area, rows, used, disk, store, settled, gone>> /\ worker' = Idle
      /\ torn' = IF worker.at \in {"written", "renamed"} THEN torn \cup {Job.row.bytes} ELSE torn
  BY DEF Stops
<1>2. /\ torn \subseteq torn' /\ torn' \subseteq Files
      /\ worker.at \in {"written", "renamed"} => Job.row.bytes \in torn' /\ Job.want \in Places
  BY <1>1, TaskTypes DEF IInv, Types, Busy, Row, Phases
<1>3. worker'.at = "idle" /\ worker'.due = {} /\ worker'.todo = {} /\ Job' = None /\ Tasks' = {}
  BY <1>1 DEF Idle, Tasks, Busy, Job
<1>4. /\ scan'.at = "idle" /\ scan' \in Scans /\ ~Holding'
      /\ worker' \in [at : {"idle", "gone", "removed", "todo", "fetch", "put", "written", "renamed"},
                      due : SUBSET Places, todo : SUBSET Transfer, job : {Job'}]
  BY <1>1, <1>3 DEF NoScan, Scans, Holding, Idle
<1>5. Types'
  <2>1. Changes' = {}
    BY DEF Changes, NoScan
  <2> QED
    BY <1>1, <1>2, <1>3, <1>4, <2>1 DEF IInv, Types
<1>6. Phases' /\ Vacancy' /\ JobInHand'
  BY <1>3, <1>4 DEF Phases, Vacancy, JobInHand, Busy
<1>7. ScanKnows'
  <2>1. Changes' = {}
    BY DEF Changes, NoScan
  <2> QED
    BY <1>4, <2>1 DEF ScanKnows
<1>8. RowsStay /\ KeysStay
  BY <1>1 DEF RowsStay, KeysStay
<1>9. TasksStay
  BY <1>2, <1>3 DEF TasksStay
<1>10. OnePlaceEach' /\ StoredWhole' /\ StoredOwn' /\ TasksApart' /\ TaskStore'
  BY <1>1, <1>2, <1>5, <1>8, <1>9, StayStore
<1>11. HereIsHere'
  BY <1>1, <1>2 DEF IInv, HereIsHere, Intact
<1>12. TaskRows'
  BY <1>3 DEF TaskRows
<1>13. Keyed'
  BY <1>2, <1>8, StayKeyed
<1>14. \A g \in Places : InWork(g) => Spare(g)'
  BY <1>1, <1>2 DEF InWork, IInv, JobInHand, Spare
<1>15. AllAccounted'
  BY <1>1, <1>2, <1>14 DEF AllAccounted, IInv, Accounted, UsedPlace, Spare
<1> QED
  BY <1>5, <1>6, <1>7, <1>10, <1>11, <1>12, <1>13, <1>15 DEF IInv

-----------------------------------------------------------------------------
(* The worker: the list of tasks *)

\* A task takes down the row as it is; two of one list want one place only when they have
\* one path.
LEMMA TaskIs ==
    ASSUME IInv, NEW f \in DOMAIN rows
    PROVE  /\ Task(f) \in Transfer /\ Task(f).id = f /\ Task(f).row = rows[f] /\ Task(f).want = WantPlace(rows[f])
           /\ Task(f).local <=> f \in disk
           /\ WantPlace(rows[f]) # Here => /\ Task(f).form = area.form /\ Want \in Targets
                                           /\ WantPlace(rows[f]) = <<Want, rows[f].want>>
<1>1. rows[f] \in Row /\ f \in Files /\ rows[f].want \in Keys
  BY TaskTypes DEF IInv, Row
<1>2. Want \in Targets \cup {Server} /\ area.form \in Forms
  BY DEF IInv, Types, Want
<1>3. PICK w : w = WantPlace(rows[f])
  OBVIOUS
<1>4. w \in Places \cup {Here} /\ (w # Here => Want # Server /\ w = <<Want, rows[f].want>>)
  BY <1>1, <1>2, <1>3, PlaceFacts DEF WantPlace
<1>5. PICK local \in BOOLEAN : local <=> f \in disk
  OBVIOUS
<1>6. PICK form \in Forms : form = IF Want = Server THEN "blocks" ELSE area.form
  BY <1>2 DEF Forms
<1>7. Task(f) = [id |-> f, row |-> rows[f], want |-> w, form |-> form, local |-> local]
  BY <1>3, <1>5, <1>6 DEF Task
<1> QED
  BY <1>1, <1>2, <1>3, <1>4, <1>5, <1>6, <1>7 DEF Transfer

\* The list of tasks is read: each task knows its row, and its place is vacant.
LEMMA GoneDoneStep ==
    ASSUME IInv, Beside(GoneDone)
    PROVE  IInv'
<1>1. ScanStays /\ scan' \in Scans
  BY BesideScan DEF Beside, IInv
<1>2. /\ worker.at = "gone" /\ worker' = [worker EXCEPT !.at = "todo", !.todo = Todo]
      /\ UNCHANGED <<area, rows, used, disk, store, settled, gone, torn>>
  BY DEF Beside, GoneDone
<1>3. \A r \in Todo : \E f \in DOMAIN rows : /\ r = Task(f)
                                             /\ r.want # Here => Vacant(f)
  <2>1. \A f \in Pending : f \in DOMAIN rows /\ (Task(f).want # Here => Want # Server)
    BY DEF Pending, Task, WantPlace
  <2> QED
    BY <2>1 DEF Todo
<1>4. ASSUME NEW r \in Todo
      PROVE  /\ r \in Transfer /\ r.id \in DOMAIN rows /\ r.row = rows[r.id] /\ r = Task(r.id)
             /\ r.want = WantPlace(rows[r.id]) /\ (r.local => r.id \in disk)
             /\ r.want # Here => /\ r.form = area.form
                                 /\ r.want = <<Want, rows[r.id].want>>
                                 /\ \A o \in DOMAIN rows : o # r.id => rows[o].place # r.want
  <2>1. PICK f \in DOMAIN rows : r = Task(f) /\ (r.want # Here => Vacant(f))
    BY <1>3
  <2> QED
    BY <2>1, TaskIs DEF Vacant
<1>5. Todo \subseteq Transfer /\ \A r \in Todo : r.id \in used
  BY <1>4 DEF IInv, Types
<1>6. WorkerIs("todo", worker.due, Todo, Job)
  <2>1. PICK T : T = Todo
    OBVIOUS
  <2>2. worker' = [worker EXCEPT !.at = "todo", !.todo = T] /\ T \subseteq Transfer /\ \A r \in T : r.id \in used
    BY <1>2, <1>5, <2>1
  <2>3. worker' = [at |-> "todo", due |-> worker.due, todo |-> T, job |-> Job]
    BY <2>2, WorkerType DEF IInv, Job
  <2>4. WorkerIs("todo", worker.due, T, Job)
    BY <2>2, <2>3, WorkerType DEF IInv, WorkerIs
  <2> QED
    BY <2>1, <2>4
<1>7. Types' /\ Phases' /\ worker'.at = "todo" /\ worker'.todo = Todo /\ Tasks' = Todo
  <2>1. Types' /\ Phases' /\ worker'.at = "todo" /\ worker'.todo = Todo
    BY <1>1, <1>2, <1>6, WorkerGoesOn DEF IInv, Types
  <2> QED
    BY <2>1 DEF Tasks, Busy
<1>8. RowsStay /\ KeysStay /\ MissingStays /\ KnownStays /\ torn \subseteq torn' /\ store' = store
      /\ store' \in [Places -> Files \cup {None}]
  BY <1>2, StayKnown DEF RowsStay, KeysStay, MissingStays, IInv, Types
<1>9. Keyed'
  BY <1>8, StayKeyed
<1>10. HereIsHere' /\ OnePlaceEach' /\ StoredOwn'
  BY <1>2 DEF IInv, HereIsHere, OnePlaceEach, StoredOwn, Spare, Intact
<1>11. StoredWhole'
  BY <1>2 DEF IInv, StoredWhole, Intact, Moving
<1>12. TasksApart'
  <2>1. \A r, s \in Todo : r.id = s.id => r = s
    BY <1>4
  <2>2. ASSUME NEW r \in Todo, NEW s \in Todo, r # s, r.want # Here
        PROVE  s.row.place # r.want /\ (s.want = r.want => ~Intact(r.row))
    <3>1. r.id # s.id /\ r.id \in DOMAIN rows /\ s.id \in DOMAIN rows
      BY <1>4, <2>2
    <3>2. s.want = r.want => rows[r.id].want = rows[s.id].want
      BY <1>4, <2>2
    <3> QED
      BY <1>4, <2>2, <3>1, <3>2 DEF IInv, Keyed
  <2>3. ASSUME NEW r \in Todo, Intact(r.row), r.want # Here
        PROVE  Fits(r.form, r.want[2])
    <3>1. r.want = <<Want, rows[r.id].want>> /\ r.form = area.form /\ r.id \in DOMAIN rows /\ Intact(rows[r.id])
      BY <1>4, <2>3
    <3>2. /\ rows[r.id].path \in Paths \cup {None}
          /\ rows[r.id].want = WantKey(r.id, rows[r.id].path, area.form)
      BY <3>1 DEF IInv, Keyed
    <3>3. rows[r.id].path \in AllPaths \cup {None} /\ r.id \in Files /\ area.form \in Forms
      BY <3>1, TaskTypes DEF IInv, Types, Row
    <3>4. Fits(area.form, rows[r.id].want)
      BY <3>2, <3>3, KeyFacts
    <3> QED
      BY <3>1, <3>4
  <2> QED
    BY <1>2, <1>7, <2>1, <2>2, <2>3 DEF TasksApart, Intact
<1>13. TaskRows'
  <2>1. \A r \in Todo, f \in DOMAIN rows :
            f # r.id /\ rows[f].place = r.row.place /\ r.row.place # Here => rows[f].bytes \in torn
    BY <1>4 DEF IInv, OnePlaceEach
  <2> QED
    BY <1>2, <1>4, <1>7, <2>1 DEF TaskRows, Intact
<1>14. TaskStore'
  BY <1>2, <1>4, <1>7 DEF TaskStore, IInv, StoredOwn, Spare
<1>15. Vacancy'
  BY <1>2, <1>4, <1>7 DEF Vacancy
<1>16. JobInHand'
  BY <1>7 DEF JobInHand
<1>17. AllAccounted'
  BY <1>2, <1>8 DEF AllAccounted, IInv, KnownStays, InWork
<1>18. ScanKnows'
  BY <1>1, <1>8, BytesKept, StayScan
<1> QED
  BY <1>7, <1>9, <1>10, <1>11, <1>12, <1>13, <1>14, <1>15, <1>16, <1>17, <1>18 DEF IInv

-----------------------------------------------------------------------------
(* The worker: objects are removed, renamed and put *)

\* What is known of a step that changes objects and no row.
Rewrites ==
    /\ UNCHANGED <<area, rows, used, disk, gone, torn>>
    /\ store' \in [Places -> Files \cup {None}] /\ settled' \subseteq {g \in Places : store'[g] # None}
    /\ ScanStays /\ scan' \in Scans

\* What such a step leaves as it is.
LEMMA RewritesKeeps ==
    ASSUME IInv, Rewrites
    PROVE  Keyed' /\ HereIsHere' /\ OnePlaceEach' /\ ScanKnows'
<1>1. RowsStay /\ KeysStay /\ MissingStays /\ torn \subseteq torn'
  BY DEF Rewrites, RowsStay, KeysStay, MissingStays
<1>2. KnownStays
  BY DEF Rewrites, KnownStays, Accounted, UsedPlace, Spare
<1>3. Keyed'
  BY <1>1, StayKeyed
<1>4. HereIsHere' /\ OnePlaceEach'
  BY DEF Rewrites, IInv, HereIsHere, OnePlaceEach, Intact
<1>5. ScanKnows'
  BY <1>1, <1>2, BytesKept, StayScan DEF Rewrites
<1> QED
  BY <1>3, <1>4, <1>5

\* An object is removed that no row uses.
LEMMA GoneRemovesStep ==
    ASSUME IInv, NEW g \in Places, Beside(GoneRemoves(g))
    PROVE  IInv'
<1>1. /\ worker.at = "gone" /\ worker.todo = {} /\ ~UsedPlace(g)
      /\ store' = [store EXCEPT ![g] = None] /\ settled' = settled \ {g}
      /\ worker' = [worker EXCEPT !.at = "removed", !.due = @ \ {g}, !.job = g]
      /\ UNCHANGED <<area, rows, used, disk, gone, torn>>
  BY DEF Beside, GoneRemoves, IInv, Phases
<1>2. /\ store'[g] = None /\ \A h \in Places : h # g => store'[h] = store[h]
      /\ store' \in [Places -> Files \cup {None}] /\ settled' \subseteq {h \in Places : store'[h] # None}
  BY <1>1 DEF IInv, Types
<1>3. Rewrites
  BY <1>1, <1>2, BesideScan DEF Rewrites, Beside, IInv
<1>4. WorkerIs("removed", worker.due \ {g}, {}, g)
  BY <1>1, WorkerType DEF IInv, WorkerIs
<1>5. Types' /\ Phases' /\ worker'.at = "removed" /\ worker'.todo = {} /\ Job' = g /\ Tasks' = {}
  <2>1. Types' /\ Phases' /\ worker'.at = "removed" /\ worker'.todo = {} /\ Job' = g
    BY <1>1, <1>2, <1>3, <1>4, WorkerGoesOn DEF Rewrites, IInv, Types
  <2> QED
    BY <2>1 DEF Tasks, Busy
<1>6. \A f \in DOMAIN rows : rows[f].place # g /\ rows[f].place \in Places \cup {Here}
  BY <1>1, TaskTypes DEF UsedPlace, IInv, Row
<1>7. StoredWhole' /\ StoredOwn'
  BY <1>1, <1>2, <1>6 DEF IInv, StoredWhole, StoredOwn, Spare, Intact, Moving
<1>8. TasksApart' /\ TaskRows' /\ TaskStore' /\ Vacancy'
  BY <1>5 DEF TasksApart, TaskRows, TaskStore, Vacancy
<1>9. JobInHand'
  BY <1>2, <1>5 DEF JobInHand, Spare
<1>10. AllAccounted'
  BY <1>1, <1>2 DEF AllAccounted, IInv, InWork, Accounted, UsedPlace, Spare
<1> QED
  BY <1>3, <1>5, <1>7, <1>8, <1>9, <1>10, RewritesKeeps DEF IInv

\* An object is renamed: until that is written down its file is moving.
LEMMA RenameStep ==
    ASSUME IInv, NEW r \in worker.todo, worker.at = "todo", Rename(r), UNCHANGED <<area, used, disk, torn>>,
           scan' = [scan EXCEPT !.old = @ \cup Rewritten]
    PROVE  IInv'
<1> DEFINE from == r.row.place
<1>1. r \in Tasks /\ r \in Transfer /\ r.id \in used /\ r.row \in Row
  BY TaskTypes DEF Tasks, IInv
<1>2. /\ r.want \in Places /\ r.want # Here /\ from \in Places /\ from # Here /\ from # r.want
      /\ store[r.want] = None /\ store[from] # None
  <2>1. /\ r.want # Here /\ r.row.place[1] = r.want[1] /\ store[r.want] = None /\ store[r.row.place] # None
    BY DEF Rename, SameTarget, MayRename
  <2>2. r.want \in Places /\ from \in Places \cup {Here}
    BY <1>1, <2>1 DEF Transfer, Row
  <2>3. from # Here
    BY <2>1, <2>2, PlaceFacts, MediaAssumption DEF Here
  <2> QED
    BY <2>1, <2>2, <2>3
<1>3. /\ store' = [store EXCEPT ![r.want] = store[from], ![from] = None] /\ settled' = settled \ {from}
      /\ worker' = [worker EXCEPT !.at = "renamed", !.todo = @ \ {r}, !.job = r]
      /\ UNCHANGED <<area, rows, used, disk, gone, torn>>
  BY DEF Rename, Renamed
<1> HIDE DEF from
<1>4. /\ store'[r.want] = store[from] /\ store'[from] = None
      /\ \A h \in Places : h # from /\ h # r.want => store'[h] = store[h]
      /\ store' \in [Places -> Files \cup {None}] /\ settled' \subseteq {h \in Places : store'[h] # None}
  BY <1>2, <1>3 DEF IInv, Types
<1>5. Rewrites
  BY <1>3, <1>4, BesideScan DEF Rewrites, IInv
<1>6. WorkerIs("renamed", worker.due, worker.todo \ {r}, r)
  BY <1>1, <1>2, <1>3, WorkerType DEF IInv, WorkerIs
<1>7. /\ Types' /\ Phases' /\ worker'.at = "renamed" /\ worker'.todo = worker.todo \ {r} /\ Job' = r
      /\ Tasks' = Tasks
  <2>1. Types' /\ Phases' /\ worker'.at = "renamed" /\ worker'.todo = worker.todo \ {r} /\ Job' = r
    BY <1>3, <1>4, <1>5, <1>6, WorkerGoesOn DEF Rewrites, IInv, Types
  <2> QED
    BY <1>1, <2>1 DEF Tasks, Busy
<1>8. \A f \in DOMAIN rows : f # r.id /\ rows[f].place \in {from, r.want} => rows[f].bytes \in torn
  BY <1>1, <1>2 DEF IInv, TaskRows, Vacancy, Intact, from
<1>9. store[from] = r.row.bytes \/ store[from] \in torn
  BY <1>1, <1>2 DEF IInv, TaskStore, Spare, from
<1>10. \A f \in DOMAIN rows : rows[f].place = r.want => r.row.bytes \in torn
  BY <1>1, <1>2 DEF IInv, TaskRows, Vacancy, Intact, PutsOff, Deleted, from
<1>11. StoredWhole'
  <2> SUFFICES ASSUME NEW f \in DOMAIN rows, Intact(rows[f]), rows[f].place # Here, f # r.id
               PROVE  store'[rows[f].place] = rows[f].bytes
    BY <1>3, <1>7 DEF StoredWhole, Intact, Moving
  <2>1. rows[f].place \in Places /\ rows[f].place \notin {from, r.want}
    BY <1>8, TaskTypes DEF Intact, IInv, Row
  <2> QED
    BY <1>4, <2>1 DEF IInv, StoredWhole, Moving
<1>12. StoredOwn'
  <2> SUFFICES ASSUME NEW f \in DOMAIN rows, rows[f].place # Here
               PROVE  store'[rows[f].place] = rows[f].bytes \/ store'[rows[f].place] = None
                         \/ store'[rows[f].place] \in torn
    BY <1>3 DEF StoredOwn, Spare
  <2>1. rows[f].place \in Places
    BY TaskTypes DEF IInv, Row
  <2> QED
    BY <1>4, <1>9, <1>10, <2>1 DEF IInv, StoredOwn, Spare
<1>13. TasksApart' /\ TaskRows'
  BY <1>3, <1>7 DEF IInv, TasksApart, TaskRows, Intact
<1>14. TaskStore'
  <2> SUFFICES ASSUME NEW s \in Tasks, s.row.place # Here
               PROVE  store'[s.row.place] = s.row.bytes \/ store'[s.row.place] = None
                         \/ store'[s.row.place] \in torn
    BY <1>3, <1>7 DEF TaskStore, Spare
  <2>1. s.row.place \in Places /\ s.row.place # r.want
    BY <1>1, <1>2, TaskTypes DEF IInv, TasksApart, Row, from
  <2> QED
    BY <1>4, <2>1 DEF IInv, TaskStore, Spare
<1>15. Vacancy'
  <2> SUFFICES ASSUME NEW s \in Tasks, NEW f \in DOMAIN rows, f # s.id, rows[f].place = s.want, s.want # Here
               PROVE  /\ rows[f].bytes \in torn
                      /\ s.row.bytes \notin torn => PutsOff(s, f)' \/ Deleted(s)'
    BY <1>3, <1>7 DEF Vacancy, Intact
  <2>1. rows[f].bytes \in torn /\ (s.row.bytes \notin torn => PutsOff(s, f))
    BY <1>1 DEF IInv, Vacancy, Intact, Deleted
  <2>2. ASSUME PutsOff(s, f)
        PROVE  PutsOff(s, f)'
    <3>1. s # r /\ store[s.want] # None /\ s.want \in Places
      BY <1>2, <2>2, TaskTypes DEF PutsOff, IInv
    <3>2. s.want # from
      BY <1>1, <3>1 DEF IInv, TasksApart, from
    <3>3. store'[s.want] # None /\ s \in worker'.todo
      BY <1>2, <1>4, <1>7, <2>2, <3>1, <3>2 DEF PutsOff
    <3> QED
      BY <1>3, <1>5, <2>2, <3>3 DEF PutsOff, Rewrites, ScanStays, Holding
  <2> QED
    BY <2>1, <2>2
<1>16. JobInHand'
  <2>1. r.id \in DOMAIN rows /\ Intact(r.row) => store[from] = r.row.bytes
    BY <1>1, <1>2 DEF IInv, TaskRows, StoredWhole, Intact, Moving, from
  <2> QED
    BY <1>2, <1>3, <1>4, <1>7, <1>9, <2>1 DEF JobInHand, Spare, Intact, from
<1>17. AllAccounted'
  BY <1>2, <1>3, <1>4, <1>7 DEF AllAccounted, IInv, InWork, Accounted, UsedPlace, Spare
<1> QED
  BY <1>5, <1>7, <1>11, <1>12, <1>13, <1>14, <1>15, <1>16, <1>17, RewritesKeeps DEF IInv

\* An object is put: nothing but its own file was there.
LEMMA WrittenStep ==
    ASSUME IInv, Beside(Written)
    PROVE  IInv'
<1> DEFINE to == Job.want
<1>1. /\ worker.at = "put" /\ worker' = [worker EXCEPT !.at = "written"]
      /\ store' = [store EXCEPT ![to] = Job.row.bytes] /\ settled' = settled \ {to}
      /\ UNCHANGED <<area, rows, used, disk, gone, torn>>
  BY DEF Beside, Written
<1>2. /\ Job \in Tasks /\ Job \in Transfer /\ Job.id \in used /\ Job \notin worker.todo
      /\ to \in Places /\ to # Here /\ Job.row.bytes \in Files /\ Job.row.bytes # None
  BY <1>1, TaskTypes, MediaAssumption DEF IInv, Types, Phases, Busy, Row
<1> HIDE DEF to
<1>3. /\ store'[to] = Job.row.bytes /\ \A h \in Places : h # to => store'[h] = store[h]
      /\ store' \in [Places -> Files \cup {None}] /\ settled' \subseteq {h \in Places : store'[h] # None}
  BY <1>1, <1>2 DEF IInv, Types
<1>4. Rewrites
  BY <1>1, <1>3, BesideScan DEF Rewrites, Beside, IInv
<1>5. WorkerIs("written", worker.due, worker.todo, Job)
  BY <1>1, <1>2, WorkerType DEF IInv, WorkerIs, to
<1>6. /\ Types' /\ Phases' /\ worker'.at = "written" /\ worker'.todo = worker.todo /\ Job' = Job
      /\ Tasks' = Tasks
  <2>1. Types' /\ Phases' /\ worker'.at = "written" /\ worker'.todo = worker.todo /\ Job' = Job
    BY <1>1, <1>3, <1>4, <1>5, WorkerGoesOn DEF Rewrites, IInv, Types
  <2> QED
    BY <1>1, <2>1 DEF Tasks, Busy
<1>7. \A f \in DOMAIN rows : rows[f].place = to =>
          \/ f = Job.id /\ rows[f].bytes = Job.row.bytes
          \/ f # Job.id /\ rows[f].bytes \in torn /\ Job.row.bytes \in torn
  BY <1>1, <1>2 DEF IInv, TaskRows, Vacancy, PutsOff, Deleted, Intact, to
<1>8. StoredWhole'
  <2> SUFFICES ASSUME NEW f \in DOMAIN rows, Intact(rows[f]), rows[f].place # Here
               PROVE  store'[rows[f].place] = rows[f].bytes
    BY <1>1 DEF StoredWhole, Intact
  <2>1. rows[f].place \in Places /\ ~Moving(f)
    BY <1>1, TaskTypes DEF IInv, Row, Moving
  <2> QED
    BY <1>3, <1>7, <2>1 DEF IInv, StoredWhole, Intact
<1>9. StoredOwn'
  <2> SUFFICES ASSUME NEW f \in DOMAIN rows, rows[f].place # Here
               PROVE  store'[rows[f].place] = rows[f].bytes \/ store'[rows[f].place] = None
                         \/ store'[rows[f].place] \in torn
    BY <1>1 DEF StoredOwn, Spare
  <2>1. rows[f].place \in Places
    BY TaskTypes DEF IInv, Row
  <2> QED
    BY <1>3, <1>7, <2>1 DEF IInv, StoredOwn, Spare
<1>10. TasksApart' /\ TaskRows'
  BY <1>1, <1>6 DEF IInv, TasksApart, TaskRows, Intact
<1>11. TaskStore'
  <2> SUFFICES ASSUME NEW s \in Tasks, s.row.place # Here
               PROVE  store'[s.row.place] = s.row.bytes \/ store'[s.row.place] = None
                         \/ store'[s.row.place] \in torn
    BY <1>1, <1>6 DEF TaskStore, Spare
  <2>1. s.row.place \in Places /\ (s = Job \/ s.row.place # to)
    BY <1>2, TaskTypes DEF IInv, TasksApart, Row, to
  <2> QED
    BY <1>3, <2>1 DEF IInv, TaskStore, Spare
<1>12. Vacancy'
  <2> SUFFICES ASSUME NEW s \in Tasks, NEW f \in DOMAIN rows, f # s.id, rows[f].place = s.want, s.want # Here
               PROVE  /\ rows[f].bytes \in torn
                      /\ s.row.bytes \notin torn => PutsOff(s, f)' \/ Deleted(s)'
    BY <1>1, <1>6 DEF Vacancy, Intact
  <2>1. rows[f].bytes \in torn /\ (s.row.bytes \notin torn => PutsOff(s, f))
    BY <1>1 DEF IInv, Vacancy, Intact, Deleted
  <2>2. ASSUME PutsOff(s, f)
        PROVE  PutsOff(s, f)'
    <3>1. s \in worker'.todo /\ store[s.want] # None /\ s.want \in Places
      BY <1>1, <1>6, <2>2, TaskTypes DEF PutsOff, IInv
    <3>2. store'[s.want] # None
      BY <1>2, <1>3, <3>1
    <3> QED
      BY <1>1, <1>4, <2>2, <3>1, <3>2 DEF PutsOff, Rewrites, ScanStays, Holding
  <2> QED
    BY <2>1, <2>2
<1>13. JobInHand'
  BY <1>1, <1>3, <1>6 DEF JobInHand, to
<1>14. AllAccounted'
  BY <1>1, <1>3, <1>6 DEF AllAccounted, IInv, InWork, Accounted, UsedPlace, Spare, to
<1> QED
  BY <1>4, <1>6, <1>8, <1>9, <1>10, <1>11, <1>12, <1>13, <1>14, RewritesKeeps DEF IInv

\* Every step of the worker.
LEMMA WorkerStep ==
    ASSUME IInv, Beside(Worker)
    PROVE  IInv'
<1>1. ASSUME NEW r \in worker.todo, TaskBegins(r)
      PROVE  IInv'
  <2>1. /\ worker.at = "todo" /\ UNCHANGED <<area, used, disk, torn>>
        /\ Rename(r) \/ Fetch(r) \/ Copy(r) \/ PutOff(r)
        /\ scan' = [scan EXCEPT !.old = @ \cup Rewritten]
    BY <1>1 DEF TaskBegins, Beside
  <2> QED
    BY <2>1, RenameStep, FetchStep, CopyStep, PutOffStep
<1>2. CASE \E r \in worker.todo : TaskBegins(r)
  BY <1>1, <1>2
<1>3. CASE TickBegins \/ GoneDone \/ RemoveEnds
  BY <1>3, TickBeginsStep, GoneDoneStep, RemoveEndsStep DEF Beside
<1>4. CASE \E g \in Places : GoneKeeps(g) \/ GoneRemoves(g)
  BY <1>4, GoneKeepsStep, GoneRemovesStep DEF Beside
<1>5. CASE Fetched \/ Written \/ PutEnds \/ RenameEnds \/ TaskFails
  BY <1>5, FetchedStep, WrittenStep, PutEndsStep, TaskFailsStep DEF Beside
<1>6. CASE \E S \in SUBSET Files : TickEnds(S)
  BY <1>6, TickEndsStep DEF Beside
<1> QED
  BY <1>2, <1>3, <1>4, <1>5, <1>6 DEF Beside, Worker

\* Every command.
LEMMA CommandsStep ==
    ASSUME IInv, Commands, UNCHANGED scan
    PROVE  IInv'
<1>1. CASE \E f \in Files, p \in Paths : Claim(f, p) \/ Move(f, p)
  BY <1>1, ClaimStep, MoveToStep DEF Move
<1>2. CASE \E f \in Files : Version(f) \/ Delete(f)
  BY <1>2, MoveToStep, DeleteStep DEF Version
<1>3. CASE \E t \in Targets \cup {Server}, form \in Forms : SetTarget(t, form)
  BY <1>3, SetTargetStep
<1> QED
  BY <1>1, <1>2, <1>3 DEF Commands

\* A minute passes: what the worker has put is written down by then.
LEMMA SettlesStep ==
    ASSUME IInv, NEW g \in Places, Settles(g), UNCHANGED scan
    PROVE  IInv'
<1>1. /\ settled' = settled \cup {g} /\ store[g] # None /\ ~(worker.at = "written" /\ Job.want = g)
      /\ UNCHANGED <<area, rows, used, disk, store, gone, worker, torn>>
  BY DEF Settles
<1>2. Types'
  <2>1. Changes' = Changes
    BY DEF Changes
  <2> QED
    BY <1>1, <2>1 DEF IInv, Types, Job
<1>3. RowsStay /\ KeysStay /\ DiskStays /\ MissingStays /\ KnownStays /\ ScanStays
  BY <1>1, StayKnown DEF RowsStay, KeysStay, DiskStays, MissingStays, ScanStays, IInv, Types
<1>4. /\ torn \subseteq torn' /\ store' = store /\ store' \in [Places -> Files \cup {None}]
  BY <1>1 DEF IInv, Types
<1>5. JobInHand' /\ TasksStay
  BY <1>1, <1>3, StayJob DEF InWork
<1>6. OnePlaceEach' /\ StoredWhole' /\ StoredOwn' /\ TasksApart' /\ TaskStore'
  BY <1>2, <1>3, <1>4, <1>5, StayStore
<1>7. HereIsHere' /\ TaskRows'
  BY <1>2, <1>3, <1>4, <1>5, StayRows
<1>8. Vacancy'
  BY <1>3, <1>4, <1>5, StayVacant
<1>9. ScanKnows'
  BY <1>3, <1>4, BytesKept, StayScan
<1>10. Keyed'
  BY <1>3, <1>4, StayKeyed
<1>11. Phases'
  BY <1>1 DEF Phases, IInv, Holding, Job, Busy
<1>12. AllAccounted'
  BY <1>1 DEF AllAccounted, IInv, InWork, Job, Accounted, UsedPlace, Spare
<1> QED
  BY <1>2, <1>5, <1>6, <1>7, <1>8, <1>9, <1>10, <1>11, <1>12 DEF IInv

-----------------------------------------------------------------------------
(* The scan *)

\* The types of the scan.
LEMMA ScanFacts ==
    ASSUME IInv
    PROVE  /\ scan \in Scans /\ scan.ripe \subseteq Found
           /\ scan.at # "idle" => scan.target \in Targets
           /\ Holding => scan.key \in Found /\ scan.at # "idle"
           /\ scan.at # "idle" => \A k \in Keys : /\ At(k) \in Places /\ At(k) # Here
                                                  /\ At(k)[1] = scan.target /\ At(k)[2] = k
BY PlaceFacts DEF IInv, Types, Phases, Scans, At, Holding

\* A scan that changes nothing but what it holds itself.
LEMMA ScanOnly ==
    ASSUME IInv, UNCHANGED media, scan' \in Scans, scan'.at # "idle" => scan'.target \in Targets,
           Holding' => scan'.key \in Found, \A c \in Changes' : c.id \in used, Vacancy', ScanKnows'
    PROVE  IInv'
<1>1. UNCHANGED <<area, rows, used, disk, store, settled, gone, worker, torn>>
  BY DEF media
<1>2. Types'
  BY <1>1 DEF IInv, Types, Job
<1>3. Phases'
  BY <1>1 DEF IInv, Phases, Busy, Job
<1>4. Keyed' /\ HereIsHere' /\ OnePlaceEach' /\ StoredWhole' /\ StoredOwn'
  BY <1>1 DEF IInv, Keyed, HereIsHere, OnePlaceEach, StoredWhole, StoredOwn, Intact, Spare, Moving, Job
<1>5. TasksApart' /\ TaskRows' /\ TaskStore'
  BY <1>1 DEF IInv, TasksApart, TaskRows, TaskStore, Tasks, Busy, Job, Intact, Spare
<1>6. JobInHand' /\ AllAccounted'
  BY <1>1 DEF IInv, JobInHand, AllAccounted, Accounted, InWork, UsedPlace, Job, Intact, Spare
<1> QED
  BY <1>2, <1>3, <1>4, <1>5, <1>6 DEF IInv

\* A scan begins.
LEMMA ScanBeginsStep ==
    ASSUME IInv, ScanBegins
    PROVE  IInv'
<1>1. /\ UNCHANGED media /\ area.target \in Targets
      /\ scan' = [NoScan EXCEPT !.at = "list", !.target = area.target]
  BY DEF ScanBegins, IInv, Types
<1>2. /\ scan' \in Scans /\ scan'.at = "list" /\ scan'.target \in Targets /\ ~Holding'
      /\ Changes' = {}
  BY <1>1 DEF NoScan, Scans, Holding, Changes
<1>3. ScanKnows'
  BY <1>2 DEF ScanKnows
<1>4. Vacancy'
  BY <1>1, <1>2 DEF media, IInv, Vacancy, PutsOff, Deleted, Tasks, Busy, Job, Intact
<1> QED
  BY <1>1, <1>2, <1>3, <1>4, ScanOnly

\* The list is there: what has been there for a minute is known.
LEMMA ListedStep ==
    ASSUME IInv, Listed
    PROVE  IInv'
<1>1. /\ scan.at = "list" /\ worker.at # "renamed" /\ UNCHANGED media
      /\ scan' = [scan EXCEPT !.at = "listed",
                              !.seen = {k \in Keys : store[At(k)] # None},
                              !.ripe = {k \in Found : At(k) \in settled}]
  BY DEF Listed
<1>2. /\ scan' \in Scans /\ scan'.at = "listed" /\ scan'.target = scan.target /\ scan'.target \in Targets
      /\ ~Holding' /\ (\A k : At(k)' = At(k)) /\ Changes' = Changes
      /\ scan'.seen = {k \in Keys : store[At(k)] # None} /\ scan'.ripe = {k \in Found : At(k) \in settled}
  BY <1>1, ScanFacts DEF Scans, Holding, At, Changes
<1>3. Vacancy'
  BY <1>1, <1>2 DEF media, IInv, Vacancy, PutsOff, Deleted, Tasks, Busy, Job, Intact
<1>4. \A k \in Found : At(k) \in settled => Accounted(At(k))
  <2>1. \A k \in Found : At(k) \in Places
    BY <1>1, ScanFacts, FoundFacts
  <2>2. \A g \in settled : ~InWork(g)
    BY <1>1 DEF InWork, IInv, JobInHand
  <2> QED
    BY <2>1, <2>2 DEF IInv, AllAccounted
<1>5. \A f \in Mine : Intact(rows[f]) => rows[f].place[2] \in scan'.seen
  <2> SUFFICES ASSUME NEW f \in Mine, Intact(rows[f])
               PROVE  rows[f].place[2] \in Keys /\ store[At(rows[f].place[2])] # None
    BY <1>2
  <2>1. f \in DOMAIN rows /\ rows[f].place[1] = scan.target /\ rows[f] \in Row
    BY TaskTypes DEF Mine, IInv
  <2>2. rows[f].place \in Places
    BY <1>1, <2>1, ScanFacts, MediaAssumption DEF Row, Here
  <2>3. rows[f].place = At(rows[f].place[2]) /\ rows[f].place[2] \in Keys
    BY <2>1, <2>2, PlaceFacts DEF At
  <2>4. store[rows[f].place] = rows[f].bytes
    BY <1>1, <2>1, <2>2, PlaceFacts DEF IInv, StoredWhole, Moving
  <2>5. rows[f].bytes # None
    BY <2>1, MediaAssumption DEF Row
  <2> QED
    BY <2>3, <2>4, <2>5
<1>6. ScanKnows'
  <2>1. \A k \in scan'.ripe : Accounted(At(k))'
    BY <1>1, <1>2, <1>4 DEF media, Accounted, UsedPlace, Spare
  <2>2. \A f \in Mine' : f \in Mine /\ rows'[f] = rows[f]
    BY <1>1, <1>2 DEF media, Mine
  <2>3. \A c \in Changes' : /\ c.row.place[2] \in Found /\ c.row.place = At(c.row.place[2])'
                            /\ c.id \in DOMAIN rows' => rows'[c.id].bytes \in torn'
    BY <1>1, <1>2 DEF IInv, ScanKnows, media, Intact
  <2> QED
    BY <1>1, <1>2, <1>5, <2>1, <2>2, <2>3 DEF ScanKnows, media, Intact
<1> QED
  BY <1>1, <1>2, <1>3, <1>6, ScanOnly DEF IInv, Types

\* What the scan holds of the next file, and the rows: as they were to be, or without the
\* path and the place of one that is torn.
LEMMA NextIs ==
    ASSUME NEW s \in Scans, NEW r, r \in [DOMAIN r -> Row], NextFound(s, r), s.at # "idle", s.target \in Targets,
           \A k \in s.ripe : k \in s.old \/ Spare(<<s.target, k>>)',
           \A c \in s.changed :
               LET k == c.row.place[2]
               IN /\ c.id \in used' /\ k \in Found /\ c.row.place = <<s.target, k>>
                  /\ c.id \in DOMAIN r => r[c.id].bytes \in torn'
                  /\ k \notin s.ripe /\ (k \in s.old \/ Spare(<<s.target, k>>)')
    PROVE  /\ scan' \in Scans /\ scan'.at # "listed" /\ (scan'.at # "idle" => scan'.target = s.target)
           /\ Holding' => scan'.key \in Found
           /\ \A c \in Changes' : c.id \in used'
           /\ scan'.ripe \subseteq s.ripe /\ (scan'.at = "conflict" => scan'.key \in s.ripe)
           /\ ScanKnows'
           /\ rows' = r \/ \E c \in s.changed : rows' = Freed(r, c)
<1>1. ASSUME NEW c \in s.changed, rows' = Freed(r, c),
             scan' = [s EXCEPT !.at = "take", !.changed = @ \ {c}, !.key = c.row.place[2],
                               !.like = [c EXCEPT !.local = @ /\ c.id \in disk']]
      PROVE  /\ scan' \in Scans /\ scan'.at = "take" /\ scan'.target = s.target
             /\ scan'.key \in Found /\ (\A d \in Changes' : d.id \in used') /\ scan'.ripe = s.ripe
             /\ ScanKnows'
  <2>1. c \in Change /\ s.changed \subseteq Change
    BY DEF Scans
  <2>2. PICK b \in BOOLEAN : b = (c.local /\ c.id \in disk')
    BY <2>1 DEF Change
  <2>3. PICK d : d = [c EXCEPT !.local = b]
    OBVIOUS
  <2>4. d \in Change /\ d.id = c.id /\ d.row = c.row
    BY <2>1, <2>3 DEF Change
  <2>5. scan' = [s EXCEPT !.at = "take", !.changed = @ \ {c}, !.key = c.row.place[2], !.like = d]
    BY <1>1, <2>2, <2>3
  <2>6. /\ scan' \in Scans /\ scan'.at = "take" /\ scan'.target = s.target /\ scan'.ripe = s.ripe
        /\ scan'.key = c.row.place[2] /\ scan'.changed = s.changed \ {c} /\ scan'.like = d /\ scan'.old = s.old
    BY <2>4, <2>5 DEF Scans
  <2>7. /\ Changes' \subseteq (s.changed \ {c}) \cup {d} /\ \A k : At(k)' = <<s.target, k>>
        /\ Holding'
    BY <2>6 DEF Changes, At, Holding
  <2>8. DOMAIN rows' = DOMAIN r /\ \A f \in DOMAIN r : rows'[f].bytes = r[f].bytes
    BY <1>1 DEF Freed, Row
  <2>9. \A e \in Changes' : /\ e.id \in used' /\ e.row.place[2] \in Found
                            /\ e.row.place = At(e.row.place[2])'
                            /\ e.id \in DOMAIN rows' => rows'[e.id].bytes \in torn'
    BY <2>4, <2>7, <2>8
  <2>10. \A k \in scan'.ripe \cup {scan'.key} : k \in scan'.old \/ Spare(At(k))'
    BY <2>6, <2>7 DEF Spare
  <2>11. \A e \in scan'.changed : /\ e.row.place[2] \notin scan'.ripe
                                  /\ e.row.place[2] \in scan'.old \/ Spare(At(e.row.place[2]))'
    BY <2>6, <2>7 DEF Spare
  <2>12. ScanKnows'
    BY <2>4, <2>6, <2>9, <2>10, <2>11 DEF ScanKnows, Intact
  <2> QED
    BY <2>6, <2>9, <2>12
<1>2. CASE s.changed = {} /\ s.ripe = {} /\ rows' = r /\ scan' = NoScan
  <2>1. scan' \in Scans /\ scan'.at = "idle" /\ scan'.ripe = {} /\ Changes' = {} /\ ~Holding'
    BY <1>2 DEF NoScan, Scans, Holding, Changes
  <2>2. ScanKnows'
    BY <2>1 DEF ScanKnows
  <2> QED
    BY <1>2, <2>1, <2>2
<1>3. ASSUME s.changed = {}, rows' = r, NEW k \in s.ripe, NEW at \in {"conflict", "take"},
             scan' = [s EXCEPT !.at = at, !.ripe = @ \ {k}, !.key = k, !.like = None]
      PROVE  /\ scan' \in Scans /\ scan'.at = at /\ scan'.target = s.target /\ scan'.key = k
             /\ scan'.key \in Found /\ Changes' = {} /\ scan'.ripe = s.ripe \ {k}
             /\ ScanKnows'
  <2>1. /\ scan' \in Scans /\ scan'.at = at /\ scan'.target = s.target /\ scan'.ripe = s.ripe \ {k}
        /\ scan'.key = k /\ k \in Found /\ scan'.changed = {} /\ scan'.like = None /\ scan'.old = s.old
    BY <1>3 DEF Scans
  <2>2. Changes' = {} /\ \A j : At(j)' = <<s.target, j>>
    BY <2>1 DEF Changes, At
  <2>3. \A j \in scan'.ripe \cup {scan'.key} : j \in scan'.old \/ Spare(At(j))'
    BY <2>1, <2>2 DEF Spare
  <2>4. ScanKnows'
    BY <2>1, <2>2, <2>3 DEF ScanKnows
  <2> QED
    BY <2>1, <2>2, <2>4
<1>4. CASE \E c \in s.changed :
              /\ scan' = [s EXCEPT !.at = "take", !.changed = @ \ {c}, !.key = c.row.place[2],
                                   !.like = [c EXCEPT !.local = @ /\ c.id \in disk']]
              /\ rows' = Freed(r, c)
  BY <1>1, <1>4
<1>5. CASE s.changed = {} /\ s.ripe # {} /\ rows' = r
  <2>1. PICK k \in s.ripe :
            scan' = [s EXCEPT !.at = IF NotFree(s, k, r) THEN "conflict" ELSE "take", !.ripe = @ \ {k}, !.key = k,
                              !.like = None]
    BY <1>5 DEF NextFound
  <2>2. PICK at \in {"conflict", "take"} : at = IF NotFree(s, k, r) THEN "conflict" ELSE "take"
    OBVIOUS
  <2>3. scan' = [s EXCEPT !.at = at, !.ripe = @ \ {k}, !.key = k, !.like = None]
    BY <2>1, <2>2
  <2> QED
    BY <1>3, <1>5, <2>3
<1> QED
  BY <1>2, <1>4, <1>5 DEF NextFound

\* Whoever is to come to the place g is put off by what is there.
StaysOff(q) ==
    /\ q \in worker.todo \/ worker.at = "fetch"
    /\ store[q.want] # None /\ q.form = "files"
    /\ scan'.target = q.want[1] /\ Holding' =>
           q.want[2] \notin scan'.ripe /\ ~(scan'.at = "conflict" /\ scan'.key = q.want[2])

\* Only what is torn is at the place g, or is still to come there.
Torn(g) ==
    /\ store[g] = None \/ store[g] \in torn'
    /\ \A e \in DOMAIN rows : rows[e].place = g => rows[e].bytes \in torn'
    /\ \A q \in Tasks : q.want = g /\ q.row.bytes \notin torn' => StaysOff(q) \/ Deleted(q)

\* A row that stays as it is.
SameRow(r, f) ==
    /\ f \in DOMAIN rows
    /\ r[f].path = rows[f].path /\ r[f].place = rows[f].place /\ r[f].form = rows[f].form
    /\ r[f].want = rows[f].want /\ r[f].bytes = rows[f].bytes

\* The row of a torn file, a new one perhaps, which goes nowhere where it could do harm.
TornRow(r, f) ==
    /\ r[f].bytes \in torn'
    /\ (f \in DOMAIN rows /\ r[f].bytes = rows[f].bytes) \/ f \notin used
    /\ \/ r[f].place = Here
       \/ f \in DOMAIN rows /\ r[f].place = rows[f].place /\ r[f].form = rows[f].form
       \/ r[f].place \in Places /\ r[f].form = "files" /\ Torn(r[f].place)

\* What the scan leaves of the rows: it changes those of torn files alone, and drops only these.
Fine(r) ==
    /\ r \in [DOMAIN r -> Row]
    /\ \A f \in DOMAIN r : SameRow(r, f) \/ TornRow(r, f)
    /\ \A f \in DOMAIN rows \ DOMAIN r : rows[f].bytes \in torn'
    /\ \A e, f \in DOMAIN r :
        /\ e # f /\ r[e].path = r[f].path /\ r[e].path # None => r[f].bytes \in torn'
        /\ e # f /\ r[e].want = r[f].want => r[f].bytes \in torn'

\* A torn row may lose its path and place.
LEMMA FreedFine ==
    ASSUME NEW r, Fine(r), NEW c, c.id \in DOMAIN r => r[c.id].bytes \in torn'
    PROVE  Fine(Freed(r, c)) /\ DOMAIN Freed(r, c) = DOMAIN r
<1>1. PICK t : t = Freed(r, c)
  OBVIOUS
<1>2. /\ DOMAIN t = DOMAIN r /\ \A f \in DOMAIN r : f # c.id => t[f] = r[f]
      /\ \A f \in DOMAIN r : f = c.id =>
            t[f] = [r[f] EXCEPT !.path = None, !.place = Here, !.form = "none", !.missing = FALSE]
  BY <1>1 DEF Freed
<1>3. ASSUME NEW f \in DOMAIN r, f = c.id
      PROVE  t[f] \in Row /\ t[f].path = None /\ t[f].place = Here /\ t[f].bytes = r[f].bytes /\ t[f].want = r[f].want
  <2>1. PICK u \in Row : u = r[f]
    BY <1>3 DEF Fine
  <2>2. t[f] = [u EXCEPT !.path = None, !.place = Here, !.form = "none", !.missing = FALSE]
    BY <1>2, <1>3, <2>1
  <2> QED
    BY <2>1, <2>2 DEF Row
<1>4. t \in [DOMAIN t -> Row]
  <2>1. \A f \in DOMAIN t : t[f] \in Row
    BY <1>2, <1>3 DEF Fine
  <2>2. t = [f \in DOMAIN t |-> t[f]]
    BY <1>1 DEF Freed
  <2> QED
    BY <2>1, <2>2
<1>5. ASSUME NEW f \in DOMAIN t
      PROVE  SameRow(t, f) \/ TornRow(t, f)
  <2>1. SameRow(r, f) \/ TornRow(r, f)
    BY <1>2 DEF Fine
  <2>2. CASE f = c.id
    BY <1>2, <1>3, <2>1, <2>2 DEF SameRow, TornRow
  <2>3. CASE f # c.id
    BY <1>2, <2>1, <2>3 DEF SameRow, TornRow
  <2> QED
    BY <2>2, <2>3
<1>6. \A e, f \in DOMAIN t :
        /\ e # f /\ t[e].path = t[f].path /\ t[e].path # None => t[f].bytes \in torn'
        /\ e # f /\ t[e].want = t[f].want => t[f].bytes \in torn'
  <2>1. \A f \in DOMAIN r : /\ t[f].want = r[f].want /\ t[f].bytes = r[f].bytes
                            /\ t[f].path = r[f].path \/ t[f].path = None
    <3> SUFFICES ASSUME NEW f \in DOMAIN r
                 PROVE  /\ t[f].want = r[f].want /\ t[f].bytes = r[f].bytes
                        /\ t[f].path = r[f].path \/ t[f].path = None
      OBVIOUS
    <3>1. CASE f = c.id
      BY <1>3, <3>1
    <3>2. CASE f # c.id
      BY <1>2, <3>2
    <3> QED
      BY <3>1, <3>2
  <2>2. \A e, f \in DOMAIN r :
          /\ e # f /\ r[e].path = r[f].path /\ r[e].path # None => r[f].bytes \in torn'
          /\ e # f /\ r[e].want = r[f].want => r[f].bytes \in torn'
    BY DEF Fine
  <2>3. DOMAIN t = DOMAIN r
    BY <1>2
  <2> QED
    BY <2>1, <2>2, <2>3
<1>7. Fine(t)
  BY <1>2, <1>4, <1>5, <1>6 DEF Fine
<1> QED
  BY <1>1, <1>2, <1>7

\* The invariant after a turn of the scan that moves no object.
LEMMA ScanRows ==
    ASSUME IInv, UNCHANGED <<area, store, settled, gone, worker>>, torn \subseteq torn', torn' \subseteq Files,
           used \subseteq used', used' \subseteq Files, DOMAIN rows' \subseteq used', Fine(rows'),
           disk' \subseteq used', \A f \in DOMAIN rows' : f \in disk => f \in disk',
           scan' \in Scans, scan'.at # "idle" => scan'.target \in Targets, Holding' => scan'.key \in Found,
           \A c \in Changes' : c.id \in used',
           \A q \in Tasks, f \in DOMAIN rows : PutsOff(q, f) /\ rows[f].place = q.want => StaysOff(q),
           ScanKnows'
    PROVE  IInv'
<1>1. Types'
  BY DEF IInv, Types, Fine, Job
<1>2. Phases'
  BY DEF IInv, Phases, Job, Busy
<1>3. Tasks' = Tasks /\ Job' = Job /\ \A q \in Tasks : q.id \in used
  BY TaskTypes DEF Tasks, Job, IInv
<1>4. \A f \in DOMAIN rows' : rows'[f].bytes \notin torn' =>
          SameRow(rows', f) /\ Intact(rows[f])
  BY DEF Fine, TornRow, SameRow, Intact
<1>5. Keyed'
  <2>1. \A f \in DOMAIN rows' : rows'[f].bytes \notin torn' =>
            /\ rows'[f].path \in Paths \cup {None}
            /\ rows'[f].want = WantKey(f, rows'[f].path, area'.form)
            /\ rows'[f].place # Here => Fits(rows'[f].form, rows'[f].place[2])
    BY <1>4 DEF SameRow, IInv, Keyed
  <2> QED
    BY <2>1 DEF Fine, Keyed, Intact
<1>6. HereIsHere'
  BY <1>4 DEF SameRow, IInv, HereIsHere, Intact
<1>7. OnePlaceEach'
  <2> SUFFICES ASSUME NEW f \in DOMAIN rows', NEW g \in DOMAIN rows', f # g, rows'[f].bytes \notin torn',
                      rows'[f].place = rows'[g].place, rows'[f].place # Here
               PROVE  FALSE
    BY DEF OnePlaceEach
  <2>1. SameRow(rows', f) /\ Intact(rows[f])
    BY <1>4
  <2>2. CASE g \in DOMAIN rows /\ rows'[g].place = rows[g].place
    BY <2>1, <2>2 DEF SameRow, IInv, OnePlaceEach, Intact
  <2>3. CASE Torn(rows'[g].place)
    BY <2>1, <2>3 DEF SameRow, Torn
  <2> QED
    BY <2>2, <2>3 DEF Fine, SameRow, TornRow
<1>8. StoredWhole'
  BY <1>3, <1>4 DEF SameRow, IInv, StoredWhole, Intact, Moving
<1>9. StoredOwn'
  <2> SUFFICES ASSUME NEW f \in DOMAIN rows', rows'[f].place # Here
               PROVE  store[rows'[f].place] = rows'[f].bytes \/ store[rows'[f].place] = None
                      \/ store[rows'[f].place] \in torn'
    BY DEF StoredOwn, Spare
  <2>1. CASE f \in DOMAIN rows /\ rows'[f].place = rows[f].place /\ rows'[f].bytes = rows[f].bytes
    BY <2>1 DEF IInv, StoredOwn, Spare
  <2>2. CASE Torn(rows'[f].place)
    BY <2>2 DEF Torn
  <2>3. CASE f \notin used /\ f \in DOMAIN rows
    BY <2>3 DEF IInv, Types
  <2> QED
    BY <2>1, <2>2, <2>3 DEF Fine, SameRow, TornRow
<1>10. TasksApart' /\ TaskStore'
  BY <1>3 DEF IInv, TasksApart, TaskStore, Intact, Spare
<1>11. TaskRows'
  <2>1. ASSUME NEW q \in Tasks, q.id \in DOMAIN rows'
        PROVE  /\ rows'[q.id].bytes = q.row.bytes
               /\ q.row.bytes \notin torn' => rows'[q.id].place = q.row.place
               /\ q.local => q.id \in disk'
    <3>1. q.id \in DOMAIN rows /\ rows'[q.id].bytes = rows[q.id].bytes
      BY <1>3, <2>1 DEF Fine, SameRow, TornRow
    <3>2. rows[q.id].bytes = q.row.bytes /\ (Intact(q.row) => rows[q.id].place = q.row.place)
      BY <3>1 DEF IInv, TaskRows
    <3> QED
      BY <1>4, <2>1, <3>1, <3>2 DEF SameRow, Intact, IInv, TaskRows
  <2>2. ASSUME NEW q \in Tasks, NEW f \in DOMAIN rows', f # q.id, rows'[f].place = q.row.place, q.row.place # Here
        PROVE  rows'[f].bytes \in torn'
    BY <1>4, <2>2 DEF SameRow, Intact, IInv, TaskRows
  <2> QED
    BY <1>3, <2>1, <2>2 DEF TaskRows, Intact
<1>12. \A q : Deleted(q) /\ q \in Tasks => Deleted(q)'
  BY <1>3 DEF Deleted, Fine, SameRow, TornRow
<1>13. ASSUME NEW q \in Tasks, NEW f, StaysOff(q), rows'[f].form = "files"
       PROVE  PutsOff(q, f)'
  BY <1>13 DEF StaysOff, PutsOff
<1>14. Vacancy'
  <2> SUFFICES ASSUME NEW q \in Tasks, NEW f \in DOMAIN rows', f # q.id, rows'[f].place = q.want, q.want # Here
               PROVE  /\ rows'[f].bytes \in torn'
                      /\ q.row.bytes \notin torn' => PutsOff(q, f)' \/ Deleted(q)'
    BY <1>3 DEF Vacancy, Intact
  <2>1. CASE f \in DOMAIN rows /\ rows'[f].place = rows[f].place /\ rows'[f].form = rows[f].form
             /\ rows'[f].bytes = rows[f].bytes
    <3>1. rows[f].bytes \in torn /\ (q.row.bytes \notin torn => PutsOff(q, f) \/ Deleted(q))
      BY <2>1 DEF IInv, Vacancy, Intact
    <3>2. PutsOff(q, f) => StaysOff(q) /\ rows'[f].form = "files"
      BY <2>1 DEF PutsOff
    <3> QED
      BY <1>12, <1>13, <2>1, <3>1, <3>2
  <2>2. CASE rows'[f].form = "files" /\ Torn(rows'[f].place) /\ rows'[f].bytes \in torn'
    BY <1>12, <1>13, <2>2 DEF Torn
  <2> QED
    BY <2>1, <2>2 DEF Fine, SameRow, TornRow, IInv, Types
<1>15. JobInHand'
  <2>1. Job \in Tasks /\ Job.id \in DOMAIN rows' => Job.id \in DOMAIN rows
    BY <1>3 DEF Fine, SameRow, TornRow
  <2>2. worker.at = "renamed" => Job \in Tasks
    BY DEF Tasks
  <2> QED
    BY <1>3, <2>1, <2>2 DEF IInv, JobInHand, Spare, Intact
<1>16. AllAccounted'
  <2>1. ASSUME NEW g \in Places, UsedPlace(g)
        PROVE  UsedPlace(g)' \/ Spare(g)'
    <3>1. PICK f \in DOMAIN rows : rows[f].place = g
      BY <2>1 DEF UsedPlace
    <3>2. CASE rows[f].bytes \in torn'
      BY <3>1, <3>2, PlaceFacts DEF IInv, StoredOwn, Spare
    <3>3. CASE rows[f].bytes \notin torn'
      <4>1. f \in DOMAIN rows' /\ f \in used
        BY <3>3 DEF Fine, IInv, Types
      <4>2. SameRow(rows', f)
        BY <3>3, <4>1 DEF Fine, TornRow
      <4> QED
        BY <3>1, <4>1, <4>2 DEF SameRow, UsedPlace
    <3> QED
      BY <3>2, <3>3
  <2> QED
    BY <1>3, <2>1 DEF AllAccounted, IInv, Accounted, Spare, InWork
<1> QED
  BY <1>1, <1>2, <1>5, <1>6, <1>7, <1>8, <1>9, <1>10, <1>11, <1>14, <1>15, <1>16 DEF IInv

\* The invariant after a turn of the scan that ends with its next file.
LEMMA NextRows ==
    ASSUME IInv, NEW s \in Scans, NEW r, NextFound(s, r), s.at # "idle", s.target = scan.target, s.target \in Targets,
           \A c \in s.changed :
               LET k == c.row.place[2]
               IN /\ c.id \in used /\ k \in Found /\ c.row.place = <<s.target, k>>
                  /\ c.id \in DOMAIN rows => rows[c.id].bytes \in torn'
                  /\ k \notin s.ripe /\ (k \in s.old \/ store[c.row.place] = None \/ store[c.row.place] \in torn'),
           \A k \in s.ripe : k \in s.old \/ store[<<s.target, k>>] = None \/ store[<<s.target, k>>] \in torn',
           \A q \in Tasks, f \in DOMAIN rows :
               PutsOff(q, f) /\ rows[f].place = q.want /\ s.target = q.want[1] => q.want[2] \notin s.ripe,
           UNCHANGED <<area, store, settled, gone, worker>>, torn \subseteq torn', torn' \subseteq Files,
           used \subseteq used', used' \subseteq Files, Fine(r), DOMAIN r \subseteq used',
           disk' \subseteq used', \A f \in DOMAIN r : f \in disk => f \in disk'
    PROVE  IInv' /\ DOMAIN rows' = DOMAIN r /\ Fine(rows')
<1>1. ASSUME NEW c \in s.changed
      PROVE  LET k == c.row.place[2]
             IN /\ c.id \in used' /\ k \in Found /\ c.row.place = <<s.target, k>>
                /\ c.id \in DOMAIN r => r[c.id].bytes \in torn'
                /\ k \notin s.ripe /\ (k \in s.old \/ Spare(<<s.target, k>>)')
  <2>1. c.id \in DOMAIN r => r[c.id].bytes \in torn'
    BY DEF Fine, SameRow, TornRow
  <2> QED
    BY <2>1 DEF Spare
<1>2. \A k \in s.ripe : k \in s.old \/ Spare(<<s.target, k>>)'
  BY DEF Spare
<1>3. r \in [DOMAIN r -> Row]
  BY DEF Fine
<1>4. /\ scan' \in Scans /\ scan'.at # "listed" /\ (scan'.at # "idle" => scan'.target = s.target)
      /\ Holding' => scan'.key \in Found
      /\ \A c \in Changes' : c.id \in used'
      /\ scan'.ripe \subseteq s.ripe /\ (scan'.at = "conflict" => scan'.key \in s.ripe)
      /\ ScanKnows'
      /\ rows' = r \/ \E c \in s.changed : rows' = Freed(r, c)
  BY <1>1, <1>2, <1>3, NextIs
<1>5. Fine(rows') /\ DOMAIN rows' = DOMAIN r
  <2>1. CASE rows' = r
    BY <2>1
  <2>2. ASSUME NEW c \in s.changed, rows' = Freed(r, c)
        PROVE  Fine(rows') /\ DOMAIN rows' = DOMAIN r
    <3>1. Fine(Freed(r, c)) /\ DOMAIN Freed(r, c) = DOMAIN r
      BY <1>1, FreedFine
    <3>2. PICK t : t = Freed(r, c)
      OBVIOUS
    <3> QED
      BY <2>2, <3>1, <3>2
  <2> QED
    BY <1>4, <2>1, <2>2
<1>6. \A q \in Tasks, f \in DOMAIN rows : PutsOff(q, f) /\ rows[f].place = q.want => StaysOff(q)
  BY <1>4 DEF PutsOff, StaysOff, Holding
<1>7. IInv'
  BY <1>4, <1>5, <1>6, ScanRows
<1> QED
  BY <1>5, <1>7

\* What the scan holds already.
LEMMA HeldFacts ==
    ASSUME IInv, Holding, store' = store, torn \subseteq torn'
    PROVE  /\ scan \in Scans /\ scan.at # "idle" /\ scan.target \in Targets
           /\ \A c \in scan.changed :
               LET k == c.row.place[2]
               IN /\ c.id \in used /\ k \in Found /\ c.row.place = <<scan.target, k>>
                  /\ c.id \in DOMAIN rows => rows[c.id].bytes \in torn'
                  /\ k \notin scan.ripe
                  /\ (k \in scan.old \/ store[c.row.place] = None \/ store[c.row.place] \in torn')
           /\ \A k \in scan.ripe : k \in scan.old \/ store[<<scan.target, k>>] = None
                                   \/ store[<<scan.target, k>>] \in torn'
           /\ \A q \in Tasks, f \in DOMAIN rows :
                  PutsOff(q, f) /\ scan.target = q.want[1] => q.want[2] \notin scan.ripe
<1>1. scan \in Scans /\ scan.at # "idle" /\ scan.target \in Targets
  BY ScanFacts
<1>2. ASSUME NEW c \in scan.changed
      PROVE  /\ c.id \in used /\ c.row.place[2] \in Found /\ c.row.place = At(c.row.place[2])
             /\ c.id \in DOMAIN rows => rows[c.id].bytes \in torn'
             /\ c.row.place[2] \notin scan.ripe
             /\ (c.row.place[2] \in scan.old \/ Spare(At(c.row.place[2])))
  <2>1. c \in Changes
    BY DEF Changes
  <2> QED
    BY <2>1 DEF IInv, ScanKnows, Types, Intact
<1>3. \A k \in scan.ripe : k \in scan.old \/ Spare(At(k))
  BY DEF IInv, ScanKnows
<1>4. \A q \in Tasks, f \in DOMAIN rows :
          PutsOff(q, f) /\ scan.target = q.want[1] => q.want[2] \notin scan.ripe
  BY DEF PutsOff
<1> QED
  BY <1>1, <1>2, <1>3, <1>4 DEF At, Spare

\* The rows as they are.
LEMMA RowsFine ==
    ASSUME IInv, torn \subseteq torn'
    PROVE  Fine(rows)
BY DEF IInv, Types, Keyed, Intact, Fine, SameRow

\* A file is left to the next scan; a changed one gets its path and place back.
LEMMA LeftStep ==
    ASSUME IInv, Holding, Left
    PROVE  IInv' /\ Fine(rows') /\ torn \subseteq torn'
<1>1. PICK c : c = scan.like
  OBVIOUS
<1>2. UNCHANGED <<area, used, disk, store, settled, gone, worker>> /\ torn \subseteq torn'
  BY DEF Left
<1>3. DOMAIN rows \subseteq used /\ disk \subseteq used /\ used \subseteq Files /\ torn \subseteq Files
  BY DEF IInv, Types
<1>4. CASE c = None \/ c.id \notin DOMAIN rows
  <2>1. PICK r : r = rows
    OBVIOUS
  <2>2. NextFound(scan, r) /\ torn' = torn
    BY <1>1, <1>4, <2>1 DEF Left
  <2>3. Fine(r)
    BY <1>2, <2>1, RowsFine
  <2> QED
    BY <1>2, <1>3, <2>1, <2>2, <2>3, HeldFacts, NextRows
<1>5. CASE c # None /\ c.id \in DOMAIN rows
  <2>1. /\ c \in Change /\ c.row \in Row /\ c.row.place[2] \in Found /\ c.row.place = At(c.row.place[2])
        /\ rows[c.id].bytes \in torn
    <3>1. c \in Changes /\ c \in Change
      BY <1>1, <1>5, ScanFacts DEF Changes, Scans
    <3> QED
      BY <1>5, <3>1 DEF IInv, ScanKnows, Intact, Change
  <2>2. PICK g : g = c.row.place
    OBVIOUS
  <2>3. g \in Places /\ g # Here
    BY <2>1, <2>2, ScanFacts, FoundFacts
  <2>4. PICK u : u = [rows[c.id] EXCEPT !.path = c.row.path, !.place = g, !.form = "files"]
    OBVIOUS
  <2>5. /\ u \in Row /\ u.path = c.row.path /\ u.place = g /\ u.form = "files"
        /\ u.want = rows[c.id].want /\ u.bytes = rows[c.id].bytes
  BY <1>5, <2>1, <2>3, <2>4 DEF Row, Forms, IInv, Types
  <2>6. PICK r : r = [rows EXCEPT ![c.id] = u]
    OBVIOUS
  <2>7. /\ DOMAIN r = DOMAIN rows /\ r[c.id] = u /\ \A f \in DOMAIN rows : f # c.id => r[f] = rows[f]
        /\ r \in [DOMAIN r -> Row]
    BY <1>5, <2>5, <2>6 DEF IInv, Types
  <2>8. NextFound(scan, r) /\ torn' = torn \cup Sharing(c.row.path) \cup Bound(g)
    <3>1. rows \in [DOMAIN rows -> Row]
      BY DEF IInv, Types
    <3>2. r = [rows EXCEPT ![c.id].path = c.row.path, ![c.id].place = c.row.place, ![c.id].form = "files"]
      BY <1>5, <2>2, <2>4, <2>6, <3>1
    <3> QED
      BY <1>1, <1>5, <2>2, <3>2 DEF Left
  <2>9. torn' \subseteq Files
    <3>1. Sharing(c.row.path) \subseteq Files
      BY TaskTypes DEF Sharing, IInv, Row
    <3>2. Bound(g) \subseteq Files
      <4>1. store[g] \in Files \cup {None}
        BY <2>3 DEF IInv, Types
      <4>2. (\A e \in DOMAIN rows : rows[e].bytes \in Files) /\ \A q \in Tasks : q.row.bytes \in Files
        BY TaskTypes DEF IInv, Row
      <4> QED
        BY <4>1, <4>2 DEF Bound
    <3> QED
      BY <1>3, <2>8, <3>1, <3>2
  <2>10. Torn(g)
    BY <2>8 DEF Torn, Bound
  <2>11. \A f \in DOMAIN r : SameRow(r, f) \/ TornRow(r, f)
    <3> SUFFICES ASSUME NEW f \in DOMAIN r PROVE SameRow(r, f) \/ TornRow(r, f)
      OBVIOUS
    <3>1. CASE f = c.id
      BY <1>2, <1>5, <2>1, <2>3, <2>5, <2>7, <2>10, <3>1 DEF TornRow
    <3>2. CASE f # c.id
      BY <2>7, <3>2 DEF SameRow
    <3> QED
      BY <3>1, <3>2
  <2>12. \A e, f \in DOMAIN r :
          /\ e # f /\ r[e].path = r[f].path /\ r[e].path # None => r[f].bytes \in torn'
          /\ e # f /\ r[e].want = r[f].want => r[f].bytes \in torn'
    <3> SUFFICES ASSUME NEW e \in DOMAIN r, NEW f \in DOMAIN r, e # f, r[f].bytes \notin torn'
                 PROVE  r[e].want # r[f].want /\ (r[e].path = r[f].path => r[e].path = None)
      OBVIOUS
    <3>1. f \in DOMAIN rows /\ f # c.id /\ r[f] = rows[f] /\ Intact(rows[f])
      BY <1>2, <2>1, <2>5, <2>7 DEF Intact
    <3>2. CASE e = c.id
      BY <2>5, <2>7, <2>8, <3>1, <3>2 DEF Sharing, IInv, Keyed
    <3>3. CASE e # c.id
      BY <2>7, <3>1, <3>3 DEF IInv, Keyed
    <3> QED
      BY <3>2, <3>3
  <2>13. Fine(r)
    BY <2>7, <2>11, <2>12 DEF Fine
  <2> QED
    BY <1>2, <1>3, <2>7, <2>8, <2>9, <2>13, HeldFacts, NextRows
<1> QED
  BY <1>4, <1>5

\* A file is not taken in, or there is no list.
LEMMA NotTakenStep ==
    ASSUME IInv, NotTaken \/ ScanFails
    PROVE  IInv' /\ Fine(rows') /\ torn \subseteq torn'
<1>1. CASE Holding /\ Left
  BY <1>1, LeftStep
<1>2. CASE scan' = NoScan /\ UNCHANGED media
  <2>1. scan' \in Scans /\ scan'.at = "idle" /\ ~Holding' /\ Changes' = {}
    BY <1>2 DEF NoScan, Scans, Holding, Changes
  <2>2. ScanKnows'
    BY <2>1 DEF ScanKnows
  <2>3. Vacancy'
    BY <1>2, <2>1 DEF media, IInv, Vacancy, PutsOff, Deleted, Tasks, Busy, Job, Intact
  <2>4. IInv'
    BY <1>2, <2>1, <2>2, <2>3, ScanOnly DEF media
  <2>5. rows' = rows /\ torn' = torn
    BY <1>2 DEF media
  <2> QED
    BY <2>4, <2>5, RowsFine
<1> QED
  BY <1>1, <1>2 DEF NotTaken, ScanFails, Holding

\* What is missing for the second time was torn, and so is what differs from the list.
LEMMA ScanTurnStep ==
    ASSUME IInv, Timed, times \in [DOMAIN rows -> Times], ScanTurn
    PROVE  IInv' /\ Fine(rows') /\ torn \subseteq torn'
<1>1. PICK m \in ByKey : \E D \in SUBSET Stale(m) : \E O \in SUBSET (Stale(m) \ D) :
          LET differ == D \cup {f \in Shown(m) \ Stale(m) : times[f] = "other"}
          IN /\ NextFound([scan EXCEPT !.seen = {}, !.ripe = Added, !.wanted = Wanted,
                             !.changed = {[id |-> f, row |-> rows[f], time |-> times[f],
                                           local |-> f \in disk] : f \in differ}],
                          [f \in DOMAIN rows \ Forgotten |->
                             IF f \in Mine THEN [rows[f] EXCEPT !.missing = f \in Missing] ELSE rows[f]])
             /\ torn' = torn \cup {rows[f].bytes : f \in D \cup O}
  BY DEF ScanTurn
<1>2. PICK D \in SUBSET Stale(m) : \E O \in SUBSET (Stale(m) \ D) :
          LET differ == D \cup {f \in Shown(m) \ Stale(m) : times[f] = "other"}
          IN /\ NextFound([scan EXCEPT !.seen = {}, !.ripe = Added, !.wanted = Wanted,
                             !.changed = {[id |-> f, row |-> rows[f], time |-> times[f],
                                           local |-> f \in disk] : f \in differ}],
                          [f \in DOMAIN rows \ Forgotten |->
                             IF f \in Mine THEN [rows[f] EXCEPT !.missing = f \in Missing] ELSE rows[f]])
             /\ torn' = torn \cup {rows[f].bytes : f \in D \cup O}
  BY <1>1
<1>3. PICK O \in SUBSET (Stale(m) \ D) :
          LET differ == D \cup {f \in Shown(m) \ Stale(m) : times[f] = "other"}
          IN /\ NextFound([scan EXCEPT !.seen = {}, !.ripe = Added, !.wanted = Wanted,
                             !.changed = {[id |-> f, row |-> rows[f], time |-> times[f],
                                           local |-> f \in disk] : f \in differ}],
                          [f \in DOMAIN rows \ Forgotten |->
                             IF f \in Mine THEN [rows[f] EXCEPT !.missing = f \in Missing] ELSE rows[f]])
             /\ torn' = torn \cup {rows[f].bytes : f \in D \cup O}
  BY <1>2
<1>4. PICK differ : differ = D \cup {f \in Shown(m) \ Stale(m) : times[f] = "other"}
  OBVIOUS
<1>5. PICK C : C = {[id |-> f, row |-> rows[f], time |-> times[f], local |-> f \in disk] : f \in differ}
  OBVIOUS
<1>6. PICK s : s = [scan EXCEPT !.seen = {}, !.ripe = Added, !.wanted = Wanted, !.changed = C]
  OBVIOUS
<1>7. PICK r : r = [f \in DOMAIN rows \ Forgotten |->
                        IF f \in Mine THEN [rows[f] EXCEPT !.missing = f \in Missing] ELSE rows[f]]
  OBVIOUS
<1>8. /\ scan.at = "listed" /\ NextFound(s, r) /\ torn' = torn \cup {rows[f].bytes : f \in D \cup O}
      /\ disk' = disk \ Forgotten
      /\ UNCHANGED <<area, used, store, settled, gone, worker>>
  BY <1>3, <1>4, <1>5, <1>6, <1>7 DEF ScanTurn
<1>9. scan \in Scans /\ scan.target \in Targets /\ scan.ripe \subseteq Found
  BY <1>8, ScanFacts
<1>10. \A f \in DOMAIN rows : rows[f] \in Row /\ f \in used /\ f \in Files /\ rows[f].want \in Keys
                              /\ rows[f].bytes \in Files
  BY TaskTypes DEF IInv, Row
<1>11. ASSUME NEW f \in Mine
       PROVE  /\ f \in DOMAIN rows /\ rows[f].place \in Places /\ rows[f].place # Here
              /\ rows[f].place = <<scan.target, rows[f].place[2]>> /\ rows[f].form = "files"
  <2>1. f \in DOMAIN rows /\ rows[f].place[1] = scan.target /\ rows[f].form = "files" /\ rows[f] \in Row
    BY <1>10 DEF Mine
  <2>2. rows[f].place \in Places
    BY <1>9, <2>1, MediaAssumption DEF Row, Here
  <2> QED
    BY <2>1, <2>2, PlaceFacts
<1>12. \A f \in differ : f \in Mine /\ rows[f].place[2] \in scan.ripe
  <2>1. \A k \in DOMAIN m : m[k] \in Mine /\ rows[m[k]].place[2] = k
    BY DEF ByKey
  <2>2. \A f \in Shown(m) : f \in Mine /\ rows[f].place[2] \in scan.ripe
    BY <2>1 DEF Shown
  <2>3. differ \subseteq Shown(m)
    BY <1>4 DEF Stale
  <2> QED
    BY <2>2, <2>3
<1>13. /\ torn \subseteq torn' /\ torn' \subseteq Files
       /\ \A f \in differ : f \in DOMAIN rows /\ rows[f].bytes \in torn'
  <2>1. D \cup O \subseteq DOMAIN rows
    <3>1. Stale(m) \subseteq Shown(m) /\ Shown(m) \subseteq DOMAIN rows
      BY <1>11 DEF Stale, Shown, ByKey
    <3> QED
      BY <3>1
  <2>2. torn \subseteq Files
    BY DEF IInv, Types
  <2>3. \A f \in differ : f \in DOMAIN rows /\ (f \in D \/ times[f] = "other")
    BY <1>4, <1>11, <1>12
  <2> QED
    BY <1>8, <1>10, <2>1, <2>2, <2>3 DEF Timed, Intact
<1>14. ASSUME NEW c \in C
       PROVE  /\ c \in Change /\ c.id \in differ /\ c.row = rows[c.id]
  <2>1. PICK f \in differ : c = [id |-> f, row |-> rows[f], time |-> times[f], local |-> f \in disk]
    BY <1>5
  <2>2. f \in DOMAIN rows
    BY <1>13
  <2>3. PICK b \in BOOLEAN : b <=> f \in disk
    OBVIOUS
  <2>4. c = [id |-> f, row |-> rows[f], time |-> times[f], local |-> b]
    BY <2>1, <2>3
  <2> QED
    BY <1>10, <2>2, <2>4 DEF Change
<1>15. Added \subseteq scan.ripe /\ Wanted \subseteq Keys
  BY <1>10 DEF Added, Wanted
<1>16. /\ s \in Scans /\ s.at # "idle" /\ s.ripe = Added /\ s.changed = C
       /\ s.target = scan.target /\ s.old = scan.old
  <2>1. C \subseteq Change
    BY <1>14
  <2> QED
    BY <1>6, <1>8, <1>9, <1>15, <2>1 DEF Scans
<1>17. \A f \in Forgotten : ~Intact(rows[f])
  BY <1>8 DEF Forgotten, Missing, IInv, ScanKnows
<1>18. ASSUME NEW f \in DOMAIN r
       PROVE  f \in DOMAIN rows /\ f \notin Forgotten /\ r[f] \in Row /\ SameRow(r, f)
  <2>1. f \in DOMAIN rows /\ f \notin Forgotten
    BY <1>7
  <2>2. PICK b \in BOOLEAN : b <=> f \in Missing
    OBVIOUS
  <2>3. r[f] = IF f \in Mine THEN [rows[f] EXCEPT !.missing = b] ELSE rows[f]
    BY <1>7, <2>1, <2>2
  <2> QED
    BY <1>10, <2>1, <2>3 DEF Row, SameRow
<1>19. Fine(r) /\ DOMAIN r = DOMAIN rows \ Forgotten
  <2>1. DOMAIN r = DOMAIN rows \ Forgotten /\ r = [f \in DOMAIN r |-> r[f]]
    BY <1>7
  <2>2. r \in [DOMAIN r -> Row]
    BY <1>18, <2>1
  <2>3. \A f \in DOMAIN rows \ DOMAIN r : rows[f].bytes \in torn'
    BY <1>13, <1>17, <2>1 DEF Intact
  <2>4. \A e, f \in DOMAIN r :
          /\ e # f /\ r[e].path = r[f].path /\ r[e].path # None => r[f].bytes \in torn'
          /\ e # f /\ r[e].want = r[f].want => r[f].bytes \in torn'
    BY <1>13, <1>18 DEF SameRow, IInv, Keyed, Intact
  <2> QED
    BY <1>18, <2>1, <2>2, <2>3, <2>4 DEF Fine
<1>20. ASSUME NEW k \in Added
       PROVE  k \in scan.old \/ store[<<scan.target, k>>] = None \/ store[<<scan.target, k>>] \in torn'
  <2> SUFFICES ASSUME k \notin scan.old PROVE Spare(At(k))
    BY <1>13 DEF Spare, At
  <2>1. k \in Found /\ k[1] = "path" /\ k \in Keys /\ Accounted(At(k)) /\ At(k) \notin gone
    BY <1>8, <1>9, <1>15, FoundFacts DEF IInv, ScanKnows, Added
  <2>2. ASSUME NEW f \in DOMAIN rows, rows[f].place = At(k)
        PROVE  Spare(At(k))
    <3>1. At(k)[1] = scan.target /\ At(k)[2] = k /\ At(k) # Here
      BY <1>8, <2>1, ScanFacts
    <3>2. rows[f].form # "files"
      BY <2>2, <3>1 DEF Added, Mine
    <3>3. rows[f].bytes \in torn
      BY <2>1, <2>2, <3>1, <3>2 DEF IInv, Keyed, Fits, Intact
    <3> QED
      BY <2>2, <3>1, <3>3 DEF IInv, StoredOwn, Spare
  <2> QED
    BY <2>1, <2>2 DEF Accounted, UsedPlace
<1>21. ASSUME NEW c \in s.changed
       PROVE  LET k == c.row.place[2]
              IN /\ c.id \in used /\ k \in Found /\ c.row.place = <<s.target, k>>
                 /\ c.id \in DOMAIN rows => rows[c.id].bytes \in torn'
                 /\ k \notin s.ripe /\ (k \in s.old \/ store[c.row.place] = None \/ store[c.row.place] \in torn')
  <2>1. c.id \in differ /\ c.row = rows[c.id]
    BY <1>14, <1>16, <1>21
  <2>2. /\ c.id \in Mine /\ c.id \in DOMAIN rows /\ rows[c.id].bytes \in torn'
        /\ rows[c.id].place[2] \in scan.ripe /\ c.id \in used
    BY <1>10, <1>12, <1>13, <2>1
  <2>3. rows[c.id].place # Here /\ rows[c.id].place = <<scan.target, rows[c.id].place[2]>>
    BY <1>11, <2>2
  <2>4. rows[c.id].place[2] \notin Added
    BY <2>2 DEF Added
  <2>5. store[rows[c.id].place] = None \/ store[rows[c.id].place] \in torn'
    BY <1>13, <2>2, <2>3 DEF IInv, StoredOwn, Spare
  <2> QED
    BY <1>9, <1>16, <2>1, <2>2, <2>3, <2>4, <2>5
<1>22. ASSUME NEW q \in Tasks, NEW f \in DOMAIN rows, PutsOff(q, f), rows[f].place = q.want,
              scan.target = q.want[1]
       PROVE  q.want[2] \notin Added
  <2>1. f \in Mine
    BY <1>22 DEF Mine, PutsOff
  <2> QED
    BY <1>22, <2>1 DEF Added
<1> QED
  <2>1. /\ DOMAIN r \subseteq used' /\ disk' \subseteq used' /\ (\A f \in DOMAIN r : f \in disk => f \in disk')
        /\ used \subseteq used' /\ used' \subseteq Files
    BY <1>8, <1>10, <1>19 DEF IInv, Types
  <2>2. IInv' /\ Fine(rows')
    BY <1>8, <1>9, <1>13, <1>16, <1>19, <1>20, <1>21, <1>22, <2>1, NextRows
  <2> QED
    BY <1>13, <2>2

\* The object that is moved out of the way is torn by then, and the name it gets is no
\* plugin's.
LEMMA ConflictMovesStep ==
    ASSUME IInv, ConflictMoves
    PROVE  IInv' /\ rows' = rows /\ torn \subseteq torn' /\ worker' = worker
<1>0. PICK k, from, to, new :
          k = scan.key /\ from = At(k) /\ to = Away(k) /\ new = <<"path", Conflict(k[2])>>
  OBVIOUS
<1>1. /\ scan.at = "conflict" /\ HasWay(k)
      /\ store' = [store EXCEPT ![to] = store[from], ![from] = None] /\ settled' = settled \ {from}
      /\ torn' = Mistaken
      /\ scan' = [scan EXCEPT !.at = "take", !.key = to[2]]
      /\ UNCHANGED <<area, rows, used, disk, gone, worker>>
  BY <1>0 DEF ConflictMoves, Renamed
<1>2. /\ scan \in Scans /\ scan.target \in Targets /\ k \in Found /\ k \in Keys /\ from \in Places
      /\ from = <<scan.target, k>>
  BY <1>0, <1>1, ScanFacts, FoundFacts DEF Holding, At
<1>3. /\ k[2] \in Paths /\ store[from] # None /\ store[to] = None
  BY <1>0, <1>1 DEF HasWay, MayRename
<1>4. /\ new \in Found /\ new \in Keys /\ new[1] = "path" /\ new[2] \notin Paths
      /\ to \in Places /\ to = <<scan.target, new>> /\ to[2] = new
  BY <1>0, <1>2, <1>3, PlaceFacts, FoundFacts, MediaAssumption DEF Conflict, Found, AllPaths, Away, At
<1>5. from # to
  BY <1>3
<1>6. store[from] \in Files /\ store[from] \in torn' /\ torn \subseteq torn' /\ torn' \subseteq Files
  <2>1. k \in scan.old \/ Spare(from)
    BY <1>0, <1>1 DEF IInv, ScanKnows, Holding
  <2>2. store[from] \in Files
    BY <1>2, <1>3 DEF IInv, Types
  <2> QED
    BY <1>0, <1>1, <1>3, <2>1, <2>2 DEF Mistaken, Spare, IInv, Types
<1>7. /\ store'[from] = None /\ store'[to] = store[from]
      /\ \A h \in Places : h # from /\ h # to => store'[h] = store[h]
      /\ store' \in [Places -> Files \cup {None}] /\ settled' \subseteq {h \in Places : store'[h] # None}
      /\ settled' \subseteq settled
  <2>1. to \notin settled
    BY <1>3 DEF IInv, Types
  <2>2. store \in [Places -> Files \cup {None}] /\ settled \subseteq {h \in Places : store[h] # None}
    BY DEF IInv, Types
  <2> QED
    BY <1>1, <1>2, <1>4, <1>5, <1>6, <2>1, <2>2
<1>8. /\ scan' \in Scans /\ scan'.at = "take" /\ scan'.key = new /\ scan'.target = scan.target
      /\ scan'.ripe = scan.ripe /\ scan'.old = scan.old
      /\ scan.like = None /\ scan'.changed = scan.changed /\ Changes' = Changes /\ Changes = scan.changed
  <2>1. scan.like = None
    BY <1>1 DEF IInv, ScanKnows, Holding
  <2>2. scan' = [scan EXCEPT !.at = "take", !.key = new]
    BY <1>1, <1>4
  <2> QED
    BY <1>2, <1>4, <2>1, <2>2 DEF Scans, Changes
<1>9. Types'
  BY <1>1, <1>6, <1>7, <1>8 DEF IInv, Types, Job
<1>10. Phases'
  BY <1>1, <1>2, <1>4, <1>8 DEF IInv, Phases, Job, Busy
<1>11. KeysStay /\ Holding /\ Tasks' = Tasks /\ Job' = Job
  BY <1>1 DEF KeysStay, Tasks, Job, Holding
<1>12. Keyed'
  BY <1>6, <1>11, StayKeyed
<1>13. HereIsHere' /\ OnePlaceEach'
  BY <1>1, <1>6 DEF IInv, HereIsHere, OnePlaceEach, Intact
<1>14. \A f \in DOMAIN rows : Intact(rows[f]) /\ rows[f].place # Here => rows[f].place # to \/ Moving(f)
  <2> SUFFICES ASSUME NEW f \in DOMAIN rows, Intact(rows[f]), rows[f].place = to, ~Moving(f), to # Here PROVE FALSE
    OBVIOUS
  <2>1. store[to] = rows[f].bytes /\ rows[f].bytes # None
    BY TaskTypes, MediaAssumption DEF IInv, StoredWhole, Row
  <2> QED
    BY <1>3, <2>1
<1>15. StoredWhole'
  <2> SUFFICES ASSUME NEW f \in DOMAIN rows, rows[f].bytes \notin torn', rows[f].place # Here, ~Moving(f)
               PROVE  store'[rows[f].place] = rows[f].bytes
    BY <1>1, <1>11 DEF StoredWhole, Intact, Moving
  <2>1. rows[f].place \in Places /\ store[rows[f].place] = rows[f].bytes /\ Intact(rows[f])
    BY <1>6, TaskTypes DEF IInv, StoredWhole, Intact, Row
  <2>2. rows[f].place # from /\ rows[f].place # to
    BY <1>6, <1>14, <2>1
  <2> QED
    BY <1>7, <2>1, <2>2
<1>16. \A g \in Places : \A b : store[g] = b \/ Spare(g) => store'[g] = b \/ store'[g] = None \/ store'[g] \in torn'
  BY <1>6, <1>7 DEF Spare
<1>17. StoredOwn' /\ TaskStore'
  <2>1. \A f \in DOMAIN rows : rows[f].place # Here => rows[f].place \in Places
    BY TaskTypes DEF IInv, Row
  <2>2. \A r \in Tasks : r.row.place # Here => r.row.place \in Places
    BY TaskTypes DEF IInv
  <2>3. StoredOwn'
    BY <1>1, <1>16, <2>1 DEF IInv, StoredOwn, Spare
  <2>4. TaskStore'
    BY <1>11, <1>16, <2>2 DEF IInv, TaskStore, Spare
  <2> QED
    BY <2>3, <2>4
<1>18. TasksApart' /\ TaskRows'
  BY <1>1, <1>6, <1>11 DEF IInv, TasksApart, TaskRows, Intact
<1>19. Vacancy'
  <2> SUFFICES ASSUME NEW r \in Tasks, NEW f \in DOMAIN rows, f # r.id, rows[f].place = r.want, r.want # Here
               PROVE  /\ rows[f].bytes \in torn'
                      /\ r.row.bytes \notin torn' => PutsOff(r, f)' \/ Deleted(r)'
    BY <1>1, <1>11 DEF Vacancy, Intact
  <2>1. rows[f].bytes \in torn /\ (r.row.bytes \notin torn => PutsOff(r, f) \/ Deleted(r))
    BY DEF IInv, Vacancy, Intact
  <2>2. Deleted(r) => Deleted(r)'
    BY <1>1, <1>11 DEF Deleted
  <2>3. ASSUME PutsOff(r, f)
        PROVE  PutsOff(r, f)'
    <3>1. r.want # from /\ r.want \in Places
      BY <1>0, <1>1, <1>2, <2>3, TaskTypes, PlaceFacts DEF PutsOff, Holding, IInv
    <3>2. store'[r.want] # None
      BY <1>3, <1>7, <2>3, <3>1 DEF PutsOff
    <3> QED
      BY <1>1, <1>8, <2>3, <3>2 DEF PutsOff, Holding
  <2> QED
    BY <1>6, <2>1, <2>2, <2>3
<1>20. JobInHand'
  <2>1. worker.at \in {"written", "renamed", "put"} => Job.want \in Places /\ Job \in Tasks /\ Job.row.bytes \in Files
    BY TaskTypes DEF IInv, Phases, Busy, Row
  <2>2. worker.at \in {"written", "renamed"} =>
            store'[Job.want] = Job.row.bytes \/ store'[Job.want] = None \/ store'[Job.want] \in torn'
    BY <1>16, <2>1 DEF IInv, JobInHand
  <2>3. ASSUME NEW g \in Places, store[g] = Job.row.bytes, Job.row.bytes \notin torn', Job.row.bytes \in Files
        PROVE  store'[g] = Job.row.bytes
    BY <1>3, <1>6, <1>7, <2>3, MediaAssumption
  <2>4. worker.at = "written" => Job.want \notin settled' /\ (Job.row.bytes \notin torn' => store'[Job.want] = Job.row.bytes)
    BY <1>6, <1>7, <2>1, <2>3 DEF IInv, JobInHand, Intact
  <2>5. ASSUME worker.at = "renamed"
        PROVE  /\ Job.row.place # Here
               /\ store'[Job.row.place] = None \/ store'[Job.row.place] \in torn'
               /\ Job.id \in DOMAIN rows /\ Job.row.bytes \notin torn' =>
                      store'[Job.want] = Job.row.bytes /\ store'[Job.row.place] = None
    <3>1. Job.row.place # Here /\ Job.row.place \in Places /\ Spare(Job.row.place)
      BY <2>1, <2>5, TaskTypes DEF IInv, JobInHand
    <3>2. ASSUME Job.id \in DOMAIN rows, Job.row.bytes \notin torn'
          PROVE  Job.row.place # to
      <4>1. /\ rows[Job.id].place = Job.row.place /\ Intact(rows[Job.id])
        BY <1>6, <2>1, <2>5, <3>2 DEF IInv, TaskRows, Intact
      <4>2. Fits(rows[Job.id].form, Job.row.place[2])
        BY <3>1, <3>2, <4>1 DEF IInv, Keyed
      <4> QED
        BY <1>4, <4>2 DEF Fits
    <3> QED
      BY <1>6, <1>7, <1>16, <2>1, <2>3, <2>5, <3>1, <3>2 DEF IInv, JobInHand, Intact
  <2>6. worker.at = "removed" => Spare(Job)'
    BY <1>11, <1>16 DEF IInv, Types, JobInHand, Spare
  <2>7. worker.at = "put" /\ Job.row.bytes \notin torn' /\ Job.form = "files" => store'[Job.want] = None
    <3> SUFFICES ASSUME worker.at = "put", Job.row.bytes \notin torn', Job.form = "files" PROVE store'[Job.want] = None
      OBVIOUS
    <3>1. store[Job.want] = None /\ Intact(Job.row) /\ Job.want # Here
      BY <1>6 DEF IInv, JobInHand, Intact, Phases
    <3>2. Fits(Job.form, Job.want[2])
      BY <2>1, <3>1 DEF IInv, TasksApart
    <3>3. Job.want # to
      BY <1>4, <3>2 DEF Fits
    <3> QED
      BY <1>7, <2>1, <3>1, <3>3
  <2> QED
    BY <1>1, <1>11, <2>2, <2>4, <2>5, <2>6, <2>7 DEF JobInHand, Spare, Intact
<1>21. AllAccounted'
  BY <1>1, <1>6, <1>7, <1>11 DEF AllAccounted, IInv, Accounted, UsedPlace, Spare, InWork
<1>22. ScanKnows'
  <2>1. \A q \in Found : At(q)' = At(q) /\ At(q) \in Places
    BY <1>1, <1>8, ScanFacts, FoundFacts DEF At
  <2>2. Spare(to)' /\ At(new)' = to
    BY <1>4, <1>6, <1>7, <1>8 DEF Spare, At
  <2>3. \A q \in scan.ripe : q \in scan.old \/ Spare(At(q))'
    <3> SUFFICES ASSUME NEW q \in scan.ripe, q \notin scan.old PROVE Spare(At(q))'
      OBVIOUS
    <3>1. q \in Found /\ Spare(At(q))
      BY <1>1, ScanFacts DEF IInv, ScanKnows, Holding
    <3> QED
      BY <1>6, <1>7, <2>1, <3>1 DEF Spare
  <2>4. \A c \in Changes : /\ c.row.place[2] \in Found /\ c.row.place = At(c.row.place[2])
                           /\ c.id \in DOMAIN rows => rows[c.id].bytes \in torn
    BY DEF IInv, ScanKnows, Intact
  <2>5. \A c \in Changes' : /\ c.row.place[2] \in Found /\ c.row.place = At(c.row.place[2])'
                            /\ c.id \in DOMAIN rows' => rows'[c.id].bytes \in torn'
    BY <1>1, <1>6, <1>8, <2>1, <2>4
  <2>6. ASSUME NEW c \in scan.changed
        PROVE  c.row.place[2] \notin scan.ripe /\ (c.row.place[2] \in scan.old \/ Spare(At(c.row.place[2]))')
    <3>1. c.row.place[2] \notin scan.ripe /\ (c.row.place[2] \in scan.old \/ Spare(At(c.row.place[2])))
      BY <1>11 DEF IInv, ScanKnows
    <3>2. c.row.place[2] \in Found
      BY <1>8, <2>4
    <3> QED
      BY <1>6, <1>7, <2>1, <3>1, <3>2 DEF Spare
  <2> QED
    <3>1. \A q \in scan'.ripe \cup {scan'.key} : q \in scan'.old \/ Spare(At(q))'
      <4>1. CASE scan'.ripe = scan.ripe /\ scan'.key = new
        BY <1>8, <2>2, <2>3, <4>1 DEF Spare
      <4> QED
        BY <1>8, <4>1
    <3>2. \A c \in scan'.changed : c.row.place[2] \notin scan'.ripe
                                  /\ (c.row.place[2] \in scan'.old \/ Spare(At(c.row.place[2]))')
      BY <1>8, <2>6
    <3>3. scan'.at # "listed" /\ scan'.like = None /\ scan'.key[2] \notin Paths
      BY <1>1, <1>4, <1>8
    <3> QED
      BY <2>5, <3>1, <3>2, <3>3 DEF ScanKnows, Intact
<1> QED
  BY <1>1, <1>6, <1>9, <1>10, <1>12, <1>13, <1>15, <1>17, <1>18, <1>19, <1>20, <1>21, <1>22 DEF IInv

\* The next file is one of those that were left.
LEMMA NextRipe ==
    ASSUME NEW s \in Scans, NEW r, NextFound(s, r)
    PROVE  scan'.ripe \subseteq s.ripe /\ (scan'.at = "conflict" => scan'.key \in s.ripe)
<1>1. ASSUME NEW c \in s.changed, NEW d,
             scan' = [s EXCEPT !.at = "take", !.changed = @ \ {c}, !.key = c.row.place[2], !.like = d]
      PROVE  scan'.ripe = s.ripe /\ scan'.at = "take"
  BY <1>1 DEF Scans
<1>2. CASE scan' = NoScan
  BY <1>2 DEF NoScan
<1>3. ASSUME NEW k \in s.ripe, NEW at,
             scan' = [s EXCEPT !.at = at, !.ripe = @ \ {k}, !.key = k, !.like = None]
      PROVE  scan'.ripe = s.ripe \ {k} /\ scan'.key = k
  BY <1>3 DEF Scans
<1>4. CASE \E c \in s.changed :
              scan' = [s EXCEPT !.at = "take", !.changed = @ \ {c}, !.key = c.row.place[2],
                                !.like = [c EXCEPT !.local = @ /\ c.id \in disk']]
  <2>1. PICK c \in s.changed :
              scan' = [s EXCEPT !.at = "take", !.changed = @ \ {c}, !.key = c.row.place[2],
                                !.like = [c EXCEPT !.local = @ /\ c.id \in disk']]
    BY <1>4
  <2>2. PICK d : d = [c EXCEPT !.local = @ /\ c.id \in disk']
    OBVIOUS
  <2>3. scan' = [s EXCEPT !.at = "take", !.changed = @ \ {c}, !.key = c.row.place[2], !.like = d]
    BY <2>1, <2>2
  <2> QED
    BY <1>1, <2>3
<1>5. CASE \E k \in s.ripe :
              scan' = [s EXCEPT !.at = IF NotFree(s, k, r) THEN "conflict" ELSE "take",
                                !.ripe = @ \ {k}, !.key = k, !.like = None]
  <2>1. PICK k \in s.ripe :
              scan' = [s EXCEPT !.at = IF NotFree(s, k, r) THEN "conflict" ELSE "take",
                                !.ripe = @ \ {k}, !.key = k, !.like = None]
    BY <1>5
  <2>2. PICK at : at = IF NotFree(s, k, r) THEN "conflict" ELSE "take"
    OBVIOUS
  <2>3. scan' = [s EXCEPT !.at = at, !.ripe = @ \ {k}, !.key = k, !.like = None]
    BY <2>1, <2>2
  <2> QED
    BY <1>3, <2>3
<1> QED
  BY <1>2, <1>4, <1>5 DEF NextFound

\* Two files are to be kept under one key only when they have one path.
LEMMA OneKey ==
    ASSUME NEW e \in Files, NEW d \in Files, e # d, NEW p \in AllPaths \cup {None}, NEW q \in AllPaths \cup {None},
           NEW x \in Forms, NEW y \in Forms, WantKey(e, p, x) = WantKey(d, q, y)
    PROVE  p = q /\ p # None
<1>1. /\ WantKey(e, p, x) \in {<<"path", p>>, <<"sealed", e>>, <<"hidden", e>>}
      /\ WantKey(e, p, x)[1] = "path" => p # None
  BY KeyFacts
<1>2. WantKey(d, q, y) \in {<<"path", q>>, <<"sealed", d>>, <<"hidden", d>>}
  BY KeyFacts
<1> QED
  BY <1>1, <1>2

\* The row of a file that is not torn is as it was.
LEMMA FineIs ==
    ASSUME IInv, torn \subseteq torn', NEW r, Fine(r), NEW f \in DOMAIN r, r[f].bytes \notin torn'
    PROVE  /\ SameRow(r, f) /\ Intact(rows[f]) /\ f \in Files
           /\ r[f].want = WantKey(f, r[f].path, area.form) /\ r[f].path \in AllPaths \cup {None}
<1>1. SameRow(r, f) /\ Intact(rows[f])
  BY DEF Fine, TornRow, SameRow, Intact
<1>2. rows[f].want = WantKey(f, rows[f].path, area.form) /\ f \in Files /\ rows[f].path \in AllPaths \cup {None}
  BY <1>1, TaskTypes DEF SameRow, IInv, Keyed, Row
<1> QED
  BY <1>1, <1>2 DEF SameRow

\* The torn row of the file that has changed becomes a version, or goes.
LEMMA ReplacedFine ==
    ASSUME IInv, torn \subseteq torn', NEW r, Fine(r), DOMAIN r \subseteq Files, NEW c \in Change,
           c.id \in DOMAIN r => c.id \in DOMAIN rows,
           c.id \in DOMAIN rows => rows[c.id].bytes \in torn'
    PROVE  /\ Fine(Replaced(r, c))
           /\ DOMAIN Replaced(r, c) = IF c.local THEN DOMAIN r ELSE DOMAIN r \ {c.id}
<1>1. PICK t : t = Replaced(r, c)
  OBVIOUS
<1>2. PICK w : w = WantKey(c.id, r[c.id].path, area.form)
  OBVIOUS
<1>3. c.id \in DOMAIN r => r[c.id].bytes \in torn' /\ r[c.id].bytes = rows[c.id].bytes /\ c.id \in used
  BY DEF Fine, SameRow, TornRow, IInv, Types
<1>4. CASE ~c.local
  <2>1. DOMAIN t = DOMAIN r \ {c.id} /\ t = [f \in DOMAIN t |-> t[f]] /\ \A f \in DOMAIN t : t[f] = r[f]
    BY <1>1, <1>4 DEF Replaced
  <2>2. t \in [DOMAIN t -> Row]
    <3>1. \A f \in DOMAIN t : t[f] \in Row
      BY <2>1 DEF Fine
    <3> QED
      BY <2>1, <3>1
  <2>3. \A f \in DOMAIN t : SameRow(t, f) \/ TornRow(t, f)
    <3> SUFFICES ASSUME NEW f \in DOMAIN t PROVE SameRow(t, f) \/ TornRow(t, f)
      OBVIOUS
    <3>1. SameRow(r, f) \/ TornRow(r, f)
      BY <2>1 DEF Fine
    <3> QED
      BY <2>1, <3>1 DEF SameRow, TornRow
  <2>4. \A f \in DOMAIN rows \ DOMAIN t : rows[f].bytes \in torn'
    BY <1>3, <2>1 DEF Fine
  <2>5. \A e, f \in DOMAIN t :
          /\ e # f /\ t[e].path = t[f].path /\ t[e].path # None => t[f].bytes \in torn'
          /\ e # f /\ t[e].want = t[f].want => t[f].bytes \in torn'
    BY <2>1 DEF Fine
  <2>6. Fine(t)
    BY <2>2, <2>3, <2>4, <2>5 DEF Fine
  <2> QED
    BY <1>1, <1>4, <2>1, <2>6
<1>5. CASE c.local
  <2>1. /\ DOMAIN t = DOMAIN r /\ t = [f \in DOMAIN t |-> t[f]]
        /\ \A f \in DOMAIN r : f # c.id => t[f] = r[f]
        /\ \A f \in DOMAIN r : f = c.id => t[f] = [r[f] EXCEPT !.want = w]
    BY <1>1, <1>2, <1>5 DEF Replaced
  <2>2. ASSUME c.id \in DOMAIN r
        PROVE  /\ t[c.id] \in Row /\ t[c.id].path = r[c.id].path /\ t[c.id].place = r[c.id].place
               /\ t[c.id].form = r[c.id].form /\ t[c.id].bytes = r[c.id].bytes /\ t[c.id].want = w
               /\ r[c.id].path \in AllPaths \cup {None}
    <3>1. PICK v \in Row : v = r[c.id]
      BY <2>2 DEF Fine
    <3>2. v.path \in AllPaths \cup {None} /\ area.form \in Forms /\ c.id \in Files
      BY DEF Row, IInv, Types, Change
    <3>3. w \in Keys
      BY <1>2, <3>1, <3>2, KeyFacts
    <3>4. t[c.id] = [v EXCEPT !.want = w]
      BY <2>1, <2>2, <3>1
    <3> QED
      BY <3>1, <3>2, <3>3, <3>4 DEF Row
  <2>3. t \in [DOMAIN t -> Row]
    <3>1. \A f \in DOMAIN t : t[f] \in Row
      BY <2>1, <2>2 DEF Fine
    <3> QED
      BY <2>1, <3>1
  <2>4. \A f \in DOMAIN t : SameRow(t, f) \/ TornRow(t, f)
    <3> SUFFICES ASSUME NEW f \in DOMAIN t PROVE SameRow(t, f) \/ TornRow(t, f)
      OBVIOUS
    <3>1. SameRow(r, f) \/ TornRow(r, f)
      BY <2>1 DEF Fine
    <3>2. CASE f = c.id
      BY <1>3, <2>1, <2>2, <3>1, <3>2 DEF SameRow, TornRow
    <3>3. CASE f # c.id
      BY <2>1, <3>1, <3>3 DEF SameRow, TornRow
    <3> QED
      BY <3>2, <3>3
  <2>5. \A f \in DOMAIN rows \ DOMAIN t : rows[f].bytes \in torn'
    BY <2>1 DEF Fine
  <2>6. \A f \in DOMAIN r : t[f].path = r[f].path /\ t[f].bytes = r[f].bytes
    BY <2>1, <2>2
  <2>7. ASSUME NEW e \in DOMAIN r, NEW f \in DOMAIN r, e # f, t[f].bytes \notin torn'
        PROVE  /\ t[e].path = t[f].path => t[e].path = None
               /\ t[e].want # t[f].want
    <3>1. t[e].path = t[f].path => t[e].path = None
      BY <2>6, <2>7 DEF Fine
    <3>2. f # c.id /\ t[f] = r[f]
      BY <1>3, <2>1, <2>6, <2>7
    <3>3. CASE e # c.id
      BY <2>1, <2>7, <3>2, <3>3 DEF Fine
    <3>4. CASE e = c.id
      <4>1. /\ t[f].want = WantKey(f, t[f].path, area.form) /\ f \in Files /\ t[f].path \in AllPaths \cup {None}
        BY <2>7, <3>2, FineIs
      <4>2. t[e].want = WantKey(e, t[e].path, area.form) /\ e \in Files /\ t[e].path \in AllPaths \cup {None}
        BY <1>2, <2>2, <3>4 DEF Change
      <4>3. area.form \in Forms
        BY DEF IInv, Types
      <4> QED
        BY <2>7, <3>1, <4>1, <4>2, <4>3, OneKey
    <3> QED
      BY <3>1, <3>3, <3>4
  <2>8. Fine(t)
    BY <2>1, <2>3, <2>4, <2>5, <2>7 DEF Fine
  <2> QED
    BY <1>1, <1>5, <2>1, <2>8
<1> QED
  BY <1>4, <1>5

\* What is taken in is torn by then, and so is what it shares a place or a path with.
LEMMA TakenStep ==
    ASSUME IInv, NEW f \in Files, Taken(f)
    PROVE  IInv' /\ Fine(rows') /\ torn \subseteq torn'
<1>0. PICK k, g, b, c : k = scan.key /\ g = At(k) /\ b = store[g] /\ c = scan.like
  OBVIOUS
<1>1. PICK p : p = IF c = None THEN k[2] ELSE c.row.path
  OBVIOUS
<1>2. PICK u : u = [path |-> p, place |-> g, form |-> "files", want |-> WantKey(f, p, "files"), bytes |-> b,
                    missing |-> FALSE]
  OBVIOUS
<1>3. PICK n : n = With(f, u)
  OBVIOUS
<1>4. /\ scan.at = "take" /\ f \notin used /\ b # None /\ used' = used \cup {f}
      /\ torn' = Mistaken \cup Sharing(p)
      /\ disk' = IF c = None THEN disk ELSE IF c.local THEN disk ELSE disk \ {c.id}
      /\ NextFound(scan, IF c = None THEN n ELSE Replaced(n, c))
      /\ UNCHANGED <<area, store, settled, gone, worker>>
  BY <1>0, <1>1, <1>2, <1>3 DEF Taken
<1>5. /\ Holding /\ scan \in Scans /\ scan.at # "idle" /\ scan.target \in Targets
      /\ k \in Found /\ k \in Keys /\ k[1] = "path" /\ k[2] \in AllPaths /\ k = <<"path", k[2]>>
      /\ g \in Places /\ g # Here /\ g[1] = scan.target /\ g[2] = k
  BY <1>0, <1>4, ScanFacts, FoundFacts DEF Holding
<1>6. ASSUME c # None
      PROVE  /\ c \in Change /\ c.row.path \in AllPaths \cup {None} /\ c.id \in used /\ c.id # f
             /\ c.id \in DOMAIN rows => rows[c.id].bytes \in torn
             /\ c.local \in BOOLEAN
  <2>1. c \in Changes /\ c \in Change
    BY <1>0, <1>5, <1>6 DEF Changes, Scans
  <2> QED
    BY <1>4, <2>1 DEF Change, Row, IInv, Types, ScanKnows, Intact
<1>7. p \in AllPaths \cup {None}
  BY <1>1, <1>5, <1>6
<1>8. /\ b \in Files /\ b \in torn' /\ torn \subseteq torn' /\ torn' \subseteq Files
      /\ \A e \in DOMAIN rows : rows[e].path = p /\ p # None => rows[e].bytes \in torn'
  <2>1. b \in Files /\ torn \subseteq Files
    BY <1>0, <1>4, <1>5 DEF IInv, Types
  <2>2. k \in scan.old \/ Spare(g)
    BY <1>0, <1>5 DEF IInv, ScanKnows
  <2>3. b \in Mistaken /\ torn \subseteq Mistaken /\ Mistaken \subseteq Files
    BY <1>0, <1>4, <2>1, <2>2 DEF Mistaken, Spare
  <2>4. \A e \in DOMAIN rows : rows[e].bytes \in Files
    BY TaskTypes DEF IInv, Row
  <2> QED
    BY <1>4, <2>1, <2>3, <2>4 DEF Sharing
<1>9. /\ u \in Row /\ u.path = p /\ u.place = g /\ u.form = "files" /\ u.want = WantKey(f, p, "files")
      /\ u.bytes = b
  <2>1. WantKey(f, p, "files") \in Keys
    BY <1>7, KeyFacts DEF Forms
  <2> QED
    BY <1>2, <1>5, <1>7, <1>8, <2>1 DEF Row, Forms
<1>10. /\ f \notin DOMAIN rows /\ DOMAIN n = DOMAIN rows \cup {f} /\ n[f] = u
       /\ \A e \in DOMAIN rows : e # f /\ n[e] = rows[e]
       /\ n \in [DOMAIN n -> Row] /\ DOMAIN n \subseteq Files /\ DOMAIN n \subseteq used'
  <2>1. DOMAIN rows \subseteq used /\ rows \in [DOMAIN rows -> Row] /\ used \subseteq Files
    BY DEF IInv, Types
  <2> QED
    BY <1>3, <1>4, <1>9, <2>1 DEF With
<1>11. ASSUME NEW e \in DOMAIN rows, rows[e].place = g
       PROVE  rows[e].bytes \in torn'
  <2> SUFFICES ASSUME Intact(rows[e]) PROVE b = rows[e].bytes
    BY <1>8 DEF Intact
  <2>1. CASE ~Moving(e)
    BY <1>0, <1>5, <1>11, <2>1 DEF IInv, StoredWhole
  <2>2. CASE Moving(e)
    <3>1. Job \in Tasks /\ Job.row.bytes = rows[e].bytes
      BY <2>2, TaskTypes DEF Moving, IInv, TaskRows, Busy
    <3>2. Job.row.place = g
      BY <1>11, <2>2, <3>1 DEF Moving, IInv, TaskRows, Intact
    <3> QED
      BY <1>0, <1>4, <2>2, <3>1, <3>2 DEF Moving, IInv, JobInHand, Intact
  <2> QED
    BY <2>1, <2>2
<1>12. ASSUME NEW q \in Tasks, q.want = g, q.row.bytes \notin torn'
       PROVE  StaysOff(q) \/ Deleted(q)
  <2>1. Intact(q.row) /\ Fits(q.form, k)
    BY <1>5, <1>8, <1>12 DEF Intact, IInv, TasksApart
  <2>2. q.form \in Forms
    BY TaskTypes DEF IInv, Transfer
  <2>3. q.form = "files" /\ k \notin scan.ripe
    BY <1>0, <1>5, <2>1, <2>2 DEF Fits, IInv, ScanKnows
  <2>4. q \in worker.todo \/ worker.at = "fetch" \/ Deleted(q)
    <3> SUFFICES ASSUME q = Job, worker.at \in {"put", "written", "renamed"}, ~Deleted(q) PROVE FALSE
      BY DEF Tasks, Busy
    <3>1. store[g] = None \/ store[g] = q.row.bytes
      BY <1>12, <2>1, <2>3 DEF IInv, JobInHand, Deleted
    <3> QED
      BY <1>0, <1>4, <1>8, <1>12, <3>1
  <2>5. scan'.ripe \subseteq scan.ripe /\ (scan'.at = "conflict" => scan'.key \in scan.ripe)
    BY <1>4, <1>5, NextRipe
  <2>6. q \in worker.todo \/ worker.at = "fetch" => StaysOff(q)
    BY <1>0, <1>4, <1>5, <1>12, <2>3, <2>5 DEF StaysOff
  <2> QED
    BY <2>4, <2>6
<1>13. Torn(g)
  BY <1>0, <1>8, <1>11, <1>12 DEF Torn
<1>14. Fine(n)
  <2>1. \A e \in DOMAIN n : SameRow(n, e) \/ TornRow(n, e)
    <3>1. SameRow(n, f) \/ TornRow(n, f)
      BY <1>4, <1>5, <1>8, <1>9, <1>10, <1>13 DEF TornRow
    <3>2. \A e \in DOMAIN rows : SameRow(n, e)
      BY <1>10 DEF SameRow
    <3> QED
      BY <1>10, <3>1, <3>2
  <2>2. ASSUME NEW e \in DOMAIN n, NEW d \in DOMAIN n, e # d, n[d].bytes \notin torn'
        PROVE  /\ n[e].path = n[d].path => n[e].path = None
               /\ n[e].want # n[d].want
    <3>1. d \in DOMAIN rows /\ n[d] = rows[d] /\ Intact(rows[d]) /\ d \in Files
      BY <1>8, <1>9, <1>10, <2>2 DEF Intact
    <3>2. CASE e # f
      BY <1>10, <2>2, <3>1, <3>2 DEF IInv, Keyed
    <3>3. CASE e = f
      <4>1. n[e].path = p /\ n[e].want = WantKey(f, p, "files")
        BY <1>9, <1>10, <3>3
      <4>2. rows[d].path = p => p = None
        BY <1>8, <2>2, <3>1
      <4>3. rows[d].want = WantKey(d, rows[d].path, area.form) /\ rows[d].path \in AllPaths \cup {None}
        BY <3>1, TaskTypes DEF IInv, Keyed, Row
      <4>4. area.form \in Forms /\ "files" \in Forms
        BY DEF IInv, Types, Forms
      <4> QED
        BY <1>7, <2>2, <3>1, <3>3, <4>1, <4>2, <4>3, <4>4, OneKey
    <3> QED
      BY <3>2, <3>3
  <2> QED
    BY <1>10, <2>1, <2>2 DEF Fine
<1>15. /\ used \subseteq used' /\ used' \subseteq Files /\ disk' \subseteq used'
  BY <1>4 DEF IInv, Types
<1>16. CASE c = None
  <2>1. NextFound(scan, n) /\ disk' = disk
    BY <1>4, <1>16
  <2> QED
    BY <1>4, <1>5, <1>8, <1>10, <1>14, <1>15, <2>1, HeldFacts, NextRows
<1>17. CASE c # None
  <2>1. PICK r : r = Replaced(n, c)
    OBVIOUS
  <2>2. NextFound(scan, r) /\ disk' = IF c.local THEN disk ELSE disk \ {c.id}
    BY <1>4, <1>17, <2>1
  <2>3. Fine(r) /\ DOMAIN r = IF c.local THEN DOMAIN n ELSE DOMAIN n \ {c.id}
    BY <1>6, <1>8, <1>10, <1>14, <1>17, <2>1, ReplacedFine
  <2>4. DOMAIN r \subseteq used' /\ \A e \in DOMAIN r : e \in disk => e \in disk'
    BY <1>10, <2>2, <2>3
  <2> QED
    BY <1>4, <1>5, <1>8, <1>15, <2>2, <2>3, <2>4, HeldFacts, NextRows
<1> QED
  BY <1>16, <1>17

-----------------------------------------------------------------------------
(* The times of the objects *)

\* Files keep their bytes, but torn ones.
SameBytes ==
    \A f \in DOMAIN rows' \cap DOMAIN rows : rows'[f].bytes = rows[f].bytes \/ rows'[f].bytes \in torn'

\* The times that a step leaves.
LEMMA DatedType ==
    ASSUME times \in [DOMAIN rows -> Times]
    PROVE  /\ Dated \in [DOMAIN rows' -> Times]
           /\ \A f \in DOMAIN rows' : f \notin DOMAIN rows => Dated[f] = "none"
           /\ \A f \in DOMAIN rows' \cap DOMAIN rows :
                /\ rows'[f].place # rows[f].place => Dated[f] = "none"
                /\ rows'[f].place = rows[f].place =>
                       Dated[f] = IF times[f] = "own" /\ store'[rows[f].place] \notin {store[rows[f].place], None}
                                  THEN "other" ELSE times[f]
BY DEF Dated, Times

\* A file that is not torn never has another's time: its object is replaced by none.
LEMMA StayTimed ==
    ASSUME Inv, IInv', torn \subseteq torn', SameBytes,
           store' = store \/ worker.at # "renamed" \/ worker' = worker,
           \A f \in DOMAIN rows' : rows'[f].bytes \notin torn' =>
               times'[f] = Dated[f] \/ (times'[f] = "own" /\ rows'[f].place # Here)
    PROVE  Timed'
<1> SUFFICES ASSUME NEW f \in DOMAIN rows', rows'[f].bytes \notin torn', times'[f] = Dated[f]
             PROVE  times'[f] # "other" /\ (times'[f] = "own" => rows'[f].place # Here)
  BY DEF Timed, Intact
<1>1. CASE f \notin DOMAIN rows
  BY <1>1, DatedType DEF Inv, TypeOK
<1>2. CASE f \in DOMAIN rows /\ rows'[f].place # rows[f].place
  BY <1>2, DatedType DEF Inv, TypeOK
<1>3. CASE f \in DOMAIN rows /\ rows'[f].place = rows[f].place
  <2>1. Intact(rows[f]) /\ rows[f].bytes = rows'[f].bytes
    BY <1>3 DEF SameBytes, Intact
  <2>2. times[f] # "other" /\ (times[f] = "own" => rows[f].place # Here)
    BY <1>3, <2>1 DEF Inv, Timed
  <2>3. ASSUME rows[f].place # Here
        PROVE  store'[rows[f].place] \in {store[rows[f].place], None}
    <3> DEFINE g == rows[f].place
    <3>1. store[g] = rows[f].bytes \/ Moving(f)
      BY <1>3, <2>1, <2>3 DEF Inv, IInv, StoredWhole
    <3>2. store'[g] = rows[f].bytes \/ Moving(f)'
      BY <1>3, <2>1, <2>3 DEF IInv, StoredWhole, Intact
    <3>3. ASSUME Moving(f) PROVE store[g] = None
      <4>1. /\ Job \in Tasks /\ Job.id = f /\ worker.at = "renamed" /\ Job.row.bytes = rows[f].bytes
            /\ Job.row.place = g
        BY <1>3, <2>1, <3>3, TaskTypes DEF Moving, Busy, Inv, IInv, TaskRows, Intact
      <4> QED
        BY <1>3, <2>1, <4>1 DEF Inv, IInv, JobInHand, Intact
    <3>4. ASSUME Moving(f)' PROVE store'[g] = None
      <4>1. /\ Job' \in Tasks' /\ Job'.id = f /\ worker'.at = "renamed"
        BY <3>4 DEF Moving, Tasks
      <4>2. Job'.row.bytes = rows'[f].bytes /\ Job'.row.place = g
        BY <1>3, <4>1 DEF IInv, TaskRows, Intact
      <4> QED
        BY <4>1, <4>2 DEF IInv, JobInHand, Intact
    <3>5. worker' = worker => (Moving(f)' <=> Moving(f))
      BY DEF Moving, Job
    <3>6. Moving(f) => worker.at = "renamed"
      BY DEF Moving
    <3> QED
      BY <3>1, <3>2, <3>3, <3>4, <3>5, <3>6
  <2> QED
    BY <1>3, <2>2, <2>3, DatedType DEF Inv, TypeOK
<1> QED
  BY <1>1, <1>2, <1>3

\* A command gives no file other bytes.
LEMMA CommandBytes ==
    ASSUME IInv, Commands
    PROVE  SameBytes /\ torn \subseteq torn' /\ store' = store
<1>1. DOMAIN rows \subseteq used /\ rows \in [DOMAIN rows -> Row]
  BY DEF IInv, Types
<1>2. ASSUME NEW f, NEW p, Claim(f, p)
      PROVE  SameBytes /\ torn \subseteq torn' /\ store' = store
  BY <1>1, <1>2 DEF Claim, With, SameBytes
<1>3. ASSUME NEW f, NEW p, MoveTo(f, p)
      PROVE  SameBytes /\ torn \subseteq torn' /\ store' = store
  <2>1. PICK w : w = WantKey(f, p, area.form)
    OBVIOUS
  <2>2. rows' = [rows EXCEPT ![f].path = p, ![f].want = w] /\ torn \subseteq torn' /\ store' = store
    BY <1>3, <2>1 DEF MoveTo
  <2>3. \A e \in DOMAIN rows : rows'[e].bytes = rows[e].bytes
    BY <1>1, <2>2 DEF Row
  <2> QED
    BY <2>2, <2>3 DEF SameBytes
<1>4. ASSUME NEW f, Delete(f)
      PROVE  SameBytes /\ torn \subseteq torn' /\ store' = store
  BY <1>4 DEF Delete, Without, SameBytes
<1>5. ASSUME NEW t, NEW form, SetTarget(t, form)
      PROVE  SameBytes /\ torn \subseteq torn' /\ store' = store
  <2>1. ASSUME NEW f \in DOMAIN rows
        PROVE  rows'[f].bytes = rows[f].bytes
    <3>1. PICK w : w = WantKey(f, rows[f].path, form)
      OBVIOUS
    <3>2. rows'[f] = [rows[f] EXCEPT !.want = w]
      BY <1>5, <3>1 DEF SetTarget
    <3> QED
      BY <1>1, <3>2 DEF Row
  <2> QED
    BY <1>5, <2>1 DEF SetTarget, SameBytes
<1> QED
  BY <1>2, <1>3, <1>4, <1>5 DEF Commands, Move, Version

\* The worker gives no file other bytes, and moves no object before a rename is written down.
LEMMA WorkerBytes ==
    ASSUME IInv, Worker
    PROVE  SameBytes /\ torn' = torn /\ (store' = store \/ worker.at # "renamed")
<1>1. rows \in [DOMAIN rows -> Row]
  BY DEF IInv, Types
<1>2. ASSUME NEW f, NEW place, NEW form, rows' = Placed(f, place, form)
      PROVE  SameBytes
  BY <1>1, <1>2 DEF Placed, Row, SameBytes
<1>3. ASSUME rows' = rows
      PROVE  SameBytes
  BY <1>3 DEF SameBytes
<1>4. CASE TickBegins \/ GoneDone \/ RemoveEnds \/ TaskFails
  BY <1>3, <1>4 DEF TickBegins, GoneDone, RemoveEnds, TaskFails
<1>5. CASE \E g \in Places : GoneKeeps(g) \/ GoneRemoves(g)
  BY <1>3, <1>5 DEF GoneKeeps, GoneRemoves
<1>6. ASSUME NEW r \in worker.todo, TaskBegins(r)
      PROVE  SameBytes /\ torn' = torn /\ worker.at # "renamed"
  <2>1. CASE Rename(r) \/ Fetch(r) \/ PutOff(r)
    BY <1>3, <1>6, <2>1 DEF TaskBegins, Rename, Fetch, PutOff
  <2>2. CASE Copy(r)
    BY <1>2, <1>3, <1>6, <2>2 DEF TaskBegins, Copy, Home
  <2> QED
    BY <1>6, <2>1, <2>2 DEF TaskBegins
<1>7. CASE Fetched
  BY <1>2, <1>3, <1>7 DEF Fetched, Home
<1>8. CASE Written
  BY <1>3, <1>8 DEF Written
<1>9. CASE PutEnds \/ RenameEnds
  BY <1>2, <1>3, <1>9 DEF PutEnds, RenameEnds
<1>10. CASE \E S \in SUBSET Files : TickEnds(S)
  BY <1>3, <1>10 DEF TickEnds
<1> QED
  BY <1>4, <1>5, <1>6, <1>7, <1>8, <1>9, <1>10 DEF Worker

\* What a scan leaves of the rows that are not torn.
LEMMA FineKept ==
    ASSUME IInv, torn \subseteq torn', Fine(rows')
    PROVE  /\ SameBytes
           /\ \A f \in DOMAIN rows \ DOMAIN rows' : rows[f].bytes \in torn'
           /\ \A f \in DOMAIN rows' : rows'[f].bytes \notin torn' => SameRow(rows', f)
BY DEF Fine, SameRow, TornRow, SameBytes

\* Of the files that a scan gives a time those that are not torn get their object's.
LEMMA ScanTimes ==
    ASSUME Inv, Scan \/ ScanFails, torn \subseteq torn', Fine(rows')
    PROVE  /\ times' \in [DOMAIN rows' -> Times]
           /\ \A f \in DOMAIN rows' : rows'[f].bytes \notin torn' =>
                  times'[f] = Dated[f] \/ (times'[f] = "own" /\ rows'[f].place # Here)
<1>1. /\ times \in [DOMAIN rows -> Times] /\ Dated \in [DOMAIN rows' -> Times]
      /\ \A f \in DOMAIN rows' : rows'[f].bytes \notin torn' => SameRow(rows', f)
  BY FineKept, DatedType DEF Inv, TypeOK
<1>2. CASE UNCHANGED <<media, times>>
  <2>1. rows' = rows /\ store' = store
    BY <1>2 DEF media
  <2>2. \A f \in DOMAIN rows : Dated[f] = times[f]
    BY <1>1, <2>1, DatedType
  <2> QED
    BY <1>1, <1>2, <2>1, <2>2
<1>3. CASE times' = Dated
  BY <1>1, <1>3
<1>4. CASE ScanTurn
  <2>1. PICK m \in ByKey : \E D \in SUBSET Stale(m) : \E O \in SUBSET (Stale(m) \ D) :
          LET differ == D \cup {f \in Shown(m) \ Stale(m) : times[f] = "other"}
              adopt  == {f \in Shown(m) \ differ : times[f] = "none"}
          IN /\ times' = [f \in DOMAIN rows' |-> IF f \in adopt THEN IF f \in O THEN "other" ELSE "own" ELSE Dated[f]]
             /\ torn' = torn \cup {rows[f].bytes : f \in D \cup O}
    BY <1>4 DEF ScanTurn
  <2>2. PICK D \in SUBSET Stale(m) : \E O \in SUBSET (Stale(m) \ D) :
          LET differ == D \cup {f \in Shown(m) \ Stale(m) : times[f] = "other"}
              adopt  == {f \in Shown(m) \ differ : times[f] = "none"}
          IN /\ times' = [f \in DOMAIN rows' |-> IF f \in adopt THEN IF f \in O THEN "other" ELSE "own" ELSE Dated[f]]
             /\ torn' = torn \cup {rows[f].bytes : f \in D \cup O}
    BY <2>1
  <2>3. PICK O \in SUBSET (Stale(m) \ D) :
          LET differ == D \cup {f \in Shown(m) \ Stale(m) : times[f] = "other"}
              adopt  == {f \in Shown(m) \ differ : times[f] = "none"}
          IN /\ times' = [f \in DOMAIN rows' |-> IF f \in adopt THEN IF f \in O THEN "other" ELSE "own" ELSE Dated[f]]
             /\ torn' = torn \cup {rows[f].bytes : f \in D \cup O}
    BY <2>2
  <2>4. PICK adopt : adopt = {f \in Shown(m) \ (D \cup {f \in Shown(m) \ Stale(m) : times[f] = "other"}) : times[f] = "none"}
    OBVIOUS
  <2>5. /\ times' = [f \in DOMAIN rows' |-> IF f \in adopt THEN IF f \in O THEN "other" ELSE "own" ELSE Dated[f]]
        /\ torn' = torn \cup {rows[f].bytes : f \in D \cup O}
    BY <2>3, <2>4
  <2>6. \A f \in adopt : f \in Mine
    BY <2>4 DEF Shown, ByKey
  <2>7. \A f \in adopt : f \in DOMAIN rows /\ rows[f].place # Here
    BY <1>4, <2>6, ScanFacts, MediaAssumption DEF Mine, Here, Inv, ScanTurn
  <2>8. times' \in [DOMAIN rows' -> Times]
    BY <1>1, <2>5 DEF Times
  <2>9. \A f \in DOMAIN rows' : rows'[f].bytes \notin torn' /\ f \in adopt => times'[f] = "own" /\ rows'[f].place # Here
    BY <1>1, <2>5, <2>7 DEF SameRow
  <2> QED
    BY <2>5, <2>8, <2>9
<1>5. ASSUME NEW f, NEW t \in Times, times' = [Dated EXCEPT ![f] = t], f \in DOMAIN rows' => rows'[f].bytes \in torn'
      PROVE  /\ times' \in [DOMAIN rows' -> Times]
             /\ \A e \in DOMAIN rows' : rows'[e].bytes \notin torn' => times'[e] = Dated[e]
  BY <1>1, <1>5
<1>6. ASSUME NEW f \in Files, Taken(f)
      PROVE  \E t \in Times : /\ times' = [Dated EXCEPT ![f] = t]
                              /\ f \in DOMAIN rows' => rows'[f].bytes \in torn'
  <2>1. PICK t \in Now("own") : times' = [Dated EXCEPT ![f] = t]
    BY <1>6 DEF Taken
  <2>2. t \in Times
    BY DEF Now, Times
  <2>3. f \notin DOMAIN rows
    BY <1>6 DEF Taken, Inv, IInv, Types
  <2> QED
    BY <1>1, <2>1, <2>2, <2>3 DEF SameRow
<1>7. ASSUME Holding, Left
      PROVE  \/ times' = Dated
             \/ \E f : \E t \in Times : /\ times' = [Dated EXCEPT ![f] = t]
                                        /\ f \in DOMAIN rows' => rows'[f].bytes \in torn'
  <2>1. PICK c : c = scan.like
    OBVIOUS
  <2>2. CASE c = None \/ c.id \notin DOMAIN rows
    BY <1>7, <2>1, <2>2 DEF Left
  <2>3. CASE c # None /\ c.id \in DOMAIN rows
    <3>1. c \in Change /\ rows[c.id].bytes \in torn
      <4>1. c \in Changes /\ c \in Change
        BY <2>1, <2>3, ScanFacts DEF Changes, Scans, Inv
      <4> QED
        BY <2>3, <4>1 DEF Inv, IInv, ScanKnows, Intact
    <3>2. PICK t \in Now(c.time) : times' = [Dated EXCEPT ![c.id] = t]
      BY <1>7, <2>1, <2>3 DEF Left
    <3>3. t \in Times
      BY <3>1 DEF Now, Times, Change
    <3>4. c.id \in DOMAIN rows' => rows'[c.id].bytes \in torn'
      BY <1>1, <3>1 DEF SameRow
    <3> QED
      BY <3>2, <3>3, <3>4
  <2> QED
    BY <2>2, <2>3
<1>8. CASE \E f \in Files : Taken(f)
  BY <1>5, <1>6, <1>8
<1>9. CASE Holding /\ Left
  BY <1>3, <1>5, <1>7, <1>9
<1> QED
  BY <1>2, <1>3, <1>4, <1>8, <1>9 DEF Scan, ScanFails, ScanBegins, Listed, ConflictMoves, NotTaken, Holding

-----------------------------------------------------------------------------
(* The specification *)

\* An area begins empty.
LEMMA InitInv ==
    ASSUME Init
    PROVE  Inv
<1>1. /\ rows = [f \in {} |-> None] /\ used = {} /\ disk = {} /\ store = [g \in Places |-> None]
      /\ settled = {} /\ gone = {} /\ worker = Idle /\ torn = {} /\ scan = NoScan /\ times = [f \in {} |-> "none"]
      /\ area \in [target : Targets \cup {Server}, moving : BOOLEAN, to : Targets \cup {Server}, form : Forms]
  BY DEF Init, MediaInit
<1>2. DOMAIN rows = {} /\ rows \in [DOMAIN rows -> Row] /\ \A g \in Places : store[g] = None
  BY <1>1
<1>3. /\ worker.at = "idle" /\ worker.todo = {} /\ Tasks = {} /\ ~Busy
      /\ scan.at = "idle" /\ ~Holding /\ scan \in Scans /\ Changes = {}
  BY <1>1 DEF Idle, Tasks, Busy, NoScan, Holding, Scans, Changes
<1>4. worker \in [at : {"idle", "gone", "removed", "todo", "fetch", "put", "written", "renamed"},
                  due : SUBSET Places, todo : SUBSET Transfer, job : {Job}]
  BY <1>1 DEF Idle, Job
<1>5. Types
  BY <1>1, <1>2, <1>3, <1>4 DEF Types
<1>6. Phases /\ Keyed /\ HereIsHere /\ OnePlaceEach /\ StoredWhole /\ StoredOwn
  BY <1>2, <1>3 DEF Phases, Keyed, HereIsHere, OnePlaceEach, StoredWhole, StoredOwn
<1>7. TasksApart /\ TaskRows /\ TaskStore /\ Vacancy
  BY <1>3 DEF TasksApart, TaskRows, TaskStore, Vacancy
<1>8. JobInHand /\ AllAccounted /\ ScanKnows
  BY <1>2, <1>3 DEF JobInHand, AllAccounted, Accounted, Spare, ScanKnows
<1>9. times \in [DOMAIN rows -> Times] /\ Timed
  BY <1>1, <1>2 DEF Timed
<1> QED
  BY <1>5, <1>6, <1>7, <1>8, <1>9 DEF IInv, TypeOK, Inv

\* A scan keeps the invariant, and what it forgets, changes or takes in is torn.
LEMMA ScanStep ==
    ASSUME Inv, Scan \/ ScanFails
    PROVE  Inv' /\ torn \subseteq torn' /\ Fine(rows')
<1>1. IInv /\ Timed /\ times \in [DOMAIN rows -> Times]
  BY DEF Inv, TypeOK
<1>2. CASE ScanBegins \/ Listed
  <2>1. rows' = rows /\ torn' = torn
    BY <1>2 DEF ScanBegins, Listed, media
  <2>2. IInv' /\ Fine(rows)
    BY <1>1, <1>2, <2>1, ScanBeginsStep, ListedStep, RowsFine
  <2> QED
    BY <1>2, <2>1, <2>2, <1>1 DEF Inv, TypeOK, IInv, Timed, Intact, ScanBegins, Listed, media
<1>3. CASE ScanTurn \/ ConflictMoves \/ NotTaken \/ ScanFails \/ \E f \in Files : Taken(f)
  <2>1. IInv' /\ torn \subseteq torn' /\ Fine(rows')
    <3>1. CASE ConflictMoves
      <4>1. IInv' /\ rows' = rows /\ torn \subseteq torn' /\ Fine(rows)
        BY <1>1, <3>1, ConflictMovesStep, RowsFine
      <4> QED
        BY <4>1
    <3> QED
      BY <1>1, <1>3, <3>1, ScanTurnStep, NotTakenStep, TakenStep
  <2>2. /\ times' \in [DOMAIN rows' -> Times]
        /\ \A f \in DOMAIN rows' : rows'[f].bytes \notin torn' =>
               times'[f] = Dated[f] \/ (times'[f] = "own" /\ rows'[f].place # Here)
    BY <1>3, <2>1, ScanTimes
  <2>3. worker' = worker
    BY <1>3 DEF ScanTurn, ConflictMoves, NotTaken, ScanFails, Taken, Left, media
  <2>4. SameBytes
    BY <1>1, <2>1, FineKept
  <2>5. Timed'
    BY <2>1, <2>2, <2>3, <2>4, StayTimed
  <2> QED
    BY <2>1, <2>2, <2>5 DEF Inv, TypeOK, IInv
<1> QED
  BY <1>2, <1>3 DEF Scan

\* The times after a step that is not of the scan.
LEMMA OtherStep ==
    ASSUME Inv, IInv', torn \subseteq torn', SameBytes, store' = store \/ worker.at # "renamed",
           times' = Dated
    PROVE  Inv'
<1>1. times' \in [DOMAIN rows' -> Times]
  BY DatedType DEF Inv, TypeOK
<1>2. Timed'
  BY StayTimed
<1> QED
  BY <1>1, <1>2 DEF Inv, TypeOK, IInv

\* The times after a step that leaves the files alone.
LEMMA StillStep ==
    ASSUME Inv, IInv', rows' = rows, torn \subseteq torn', times' = times
    PROVE  Inv'
BY DEF Inv, TypeOK, IInv, Timed, Intact

\* Every step of the specification keeps the inductive invariant.
LEMMA NextStep ==
    ASSUME Inv, [Next]_vars
    PROVE  Inv'
<1>0. IInv
  BY DEF Inv
<1>1. CASE Asks
  <2>1. IInv' /\ times' = Dated
    BY <1>0, <1>1, CommandsStep DEF Asks
  <2> QED
    BY <1>0, <1>1, <2>1, CommandBytes, OtherStep DEF Asks
<1>2. CASE Beside(Worker)
  <2>1. IInv' /\ times' = Dated /\ Worker
    BY <1>0, <1>2, WorkerStep DEF Beside
  <2> QED
    BY <1>0, <2>1, WorkerBytes, OtherStep
<1>3. CASE Scan \/ ScanFails
  BY <1>3, ScanStep
<1>4. CASE (CallFails /\ UNCHANGED <<scan, times>>) \/ (Stops /\ scan' = NoScan /\ times' = times)
  <2>1. IInv'
    BY <1>0, <1>4, CallFailsStep, StopsStep
  <2>2. rows' = rows /\ torn \subseteq torn' /\ times' = times
    BY <1>4 DEF CallFails, Stops
  <2> QED
    BY <2>1, <2>2, StillStep
<1>5. CASE Time
  <2>1. IInv'
    BY <1>0, <1>5, SettlesStep DEF Time
  <2>2. rows' = rows /\ torn' = torn /\ times' = times
    BY <1>5 DEF Time, Settles
  <2> QED
    BY <2>1, <2>2, StillStep
<1>6. CASE UNCHANGED vars
  <2>1. UNCHANGED media /\ scan' = scan /\ times' = times /\ rows' = rows /\ torn' = torn
    BY <1>6 DEF vars, media
  <2>2. Vacancy' /\ ScanKnows' /\ (Holding' <=> Holding) /\ Changes' = Changes
    BY <1>0, <2>1 DEF media, IInv, Vacancy, PutsOff, Deleted, Tasks, Busy, Job, Intact, ScanKnows, Accounted,
                UsedPlace, Spare, At, Mine, Holding, Changes
  <2>3. IInv'
    BY <1>0, <2>1, <2>2, ScanOnly DEF IInv, Phases, Types
  <2> QED
    BY <2>1, <2>3, StillStep
<1> QED
  BY <1>1, <1>2, <1>3, <1>4, <1>5, <1>6 DEF Next, Works, Fault

\* The invariant that the others follow from: whatever the worker, the scan, commands and
\* faults do, and in whatever order, what torn does not excuse is where the tables say
\* (mediaAreas.js, the whole of processGone, processTransfers and doScan).
THEOREM Inductive == Spec => []Inv
<1>1. Init => Inv
  BY InitInv
<1>2. Inv /\ [Next]_vars => Inv'
  BY NextStep
<1> QED
  BY <1>1, <1>2, PTL DEF Spec

\* The types; what waits and what is at work is of files that have been claimed.
THEOREM TypeCorrect == Spec => []TypeOK
<1>1. Inv => TypeOK
  BY DEF Inv
<1> QED
  BY <1>1, Inductive, PTL

\* No two files are kept in one place (processTransfers, the scan's rows by key).
THEOREM Apart == Spec => []OnePlaceEach
<1>1. Inv => OnePlaceEach
  BY DEF Inv, IInv
<1> QED
  BY <1>1, Inductive, PTL

\* A file can be read wherever its transfer is, even while a rename is not yet written down
\* (mediaAreas.js, transferOne: the object first, then the row, then what it has left).
THEOREM Safe == Spec => []NoneLost
<1>1. ASSUME IInv PROVE NoneLost
  <2> SUFFICES ASSUME NEW f \in DOMAIN rows, rows[f].bytes \notin torn PROVE Readable(f)
    BY DEF NoneLost
  <2>1. CASE rows[f].place = Here
    BY <1>1, <2>1 DEF IInv, HereIsHere, Intact, Readable
  <2>2. CASE rows[f].place # Here /\ ~Moving(f)
    BY <1>1, <2>2 DEF IInv, StoredWhole, Intact, Readable
  <2>3. CASE Moving(f)
    <3>1. Job \in Tasks /\ Job.row.bytes = rows[f].bytes
      BY <1>1, <2>3, TaskTypes DEF Moving, Busy, IInv, TaskRows
    <3> QED
      BY <1>1, <2>3, <3>1 DEF Moving, IInv, JobInHand, Intact, Readable
  <2> QED
    BY <2>1, <2>2, <2>3
<1>2. Inv => NoneLost
  BY <1>1 DEF Inv
<1> QED
  BY <1>2, Inductive, PTL

\* Every object on a target is known or in somebody's hand (plugin_media_gone).
THEOREM Tidy == Spec => []NoneLeft
<1>1. Inv => NoneLeft
  BY DEF Inv, IInv, AllAccounted, Accounted, InWork, Spare, NoneLeft, InHand
<1> QED
  BY <1>1, Inductive, PTL

\* A scan takes in nothing and forgets nothing that the server has put there itself, but
\* what was cut off, and what it has mistaken for something older.
THEOREM ScanIsHarmless == Spec => ScanHarmless
<1>1. ASSUME Inv, Scan
      PROVE  /\ \A f \in DOMAIN rows \ DOMAIN rows' : rows[f].bytes \in torn'
             /\ \A f \in DOMAIN rows' \ DOMAIN rows : rows'[f].bytes \in torn'
  BY <1>1, ScanStep, FineKept DEF Inv, SameRow
<1>2. Inv /\ [Next]_vars =>
        [Scan => /\ \A f \in DOMAIN rows \ DOMAIN rows' : rows[f].bytes \in torn'
                 /\ \A f \in DOMAIN rows' \ DOMAIN rows : rows'[f].bytes \in torn']_vars
  BY <1>1
<1> QED
  BY <1>2, Inductive, PTL DEF Spec, ScanHarmless
=============================================================================
