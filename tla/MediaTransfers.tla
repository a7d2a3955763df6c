---------------------------- MODULE MediaTransfers ----------------------------
(* The files of one media area and the worker that brings them where the area wants
   them (services/plugins/mediaAreas.js, media.js).  A storage target keeps objects
   under keys; a row says where its file is, and `gone` lists the objects that are to
   be deleted.  Objects are told apart by whose bytes they are. *)

CONSTANTS Files,        \* ids of media files; none is used twice
          Paths,        \* the paths plugins give their files
          Targets,      \* storage targets: folders, whose calls take effect in their order
          Server,       \* this server, where every file arrives
          None

VARIABLES area,         \* target, moving (to), form
          rows,         \* the claimed files of plugin_media
          used,         \* ids that have been given away
          disk,         \* files with a sealed copy on this server
          store,        \* the objects on the targets
          settled,      \* readable objects written more than a minute ago
          gone,         \* plugin_media_gone: objects to be deleted
          worker,       \* tick(): what it is at, its snapshots, its task
          torn          \* history: bytes whose last transfer was never written down, that a scan
                        \* has mistaken for what it had listed, or whose path or place it gave
                        \* to another file

media == <<area, rows, used, disk, store, settled, gone, worker, torn>>

-----------------------------------------------------------------------------
(* Keys and places *)

Forms    == {"blocks", "files"}
AllPaths == Paths \cup ({"conflict"} \X Paths)
Keys     == ({"path"} \X AllPaths) \cup ({"sealed", "hidden"} \X Files)
Places   == Targets \X Keys
Here     == <<Server, None>>

\* A conflict copy has a name of its own: no plugin gives it to a file of its own accord.
ASSUME MediaAssumption ==
    /\ Server \notin Targets
    /\ None \notin Files \cup AllPaths \cup Keys \cup Targets \cup {Server}
    /\ \A p \in Paths : <<"conflict", p>> \notin Paths

\* Mutant: a file without a path is kept under its path as well.
WantKeyNoPath(f, path, form) == IF form = "blocks" THEN <<"sealed", f>> ELSE <<"path", path>>

\* wantKeyOf(): sealed under the id; readable under the path, or hidden as a version.
WantKey(f, path, form) ==
    CASE form = "blocks"                -> <<"sealed", f>>
      [] form = "files" /\ path # None  -> <<"path", path>>
      [] form = "files" /\ path = None  -> <<"hidden", f>>

Row == [path : AllPaths \cup {None}, place : Places \cup {Here}, form : Forms \cup {"none"},
        want : Keys, bytes : Files, missing : BOOLEAN]

Transfer == [id : Files, row : Row, want : Places \cup {Here}, form : Forms, local : BOOLEAN]

\* WANT_SQL, IN_PLACE_SQL.
Want          == IF area.moving THEN area.to ELSE area.target
WantPlace(r)  == IF Want = Server THEN Here ELSE <<Want, r.want>>
InPlace(r)    == r.place = WantPlace(r) /\ (Want # Server => r.form = area.form)
Pending       == {f \in DOMAIN rows : ~InPlace(rows[f])}

PathTaken(p)  == \E f \in DOMAIN rows : rows[f].path = p
UsedPlace(g)  == \E f \in DOMAIN rows : rows[f].place = g

With(f, r)    == [g \in DOMAIN rows \cup {f} |-> IF g = f THEN r ELSE rows[g]]
Without(S)    == [g \in DOMAIN rows \ S |-> rows[g]]
Buried(place) == gone \cup ({place} \ {Here})

\* The row is where the worker found it.
Placed(f, place, form) ==
    [rows EXCEPT ![f].place = place, ![f].form = form, ![f].missing = FALSE]

Idle == [at |-> "idle", due |-> {}, todo |-> {}, job |-> None]

\* Readable files are kept on targets only.
Offered(t, form) == t = Server => form = "blocks"

MediaInit ==
    /\ \E t \in Targets \cup {Server}, form \in Forms :
          Offered(t, form) /\ area = [target |-> t, moving |-> FALSE, to |-> Server, form |-> form]
    /\ rows = [f \in {} |-> None] /\ used = {} /\ disk = {}
    /\ store = [g \in Places |-> None] /\ settled = {}
    /\ gone = {}
    /\ worker = Idle /\ torn = {}

-----------------------------------------------------------------------------
(* Plugins and administrators, each call one turn *)

\* A file that a scan has taken a path from may still be on its way there.
Meets(f, key) == \E e \in DOMAIN rows \ {f} : rows[e].want = key

\* A file that has been uploaded is claimed into the area (claimInto).
Claim(f, p) ==
    /\ f \notin used /\ ~PathTaken(p)
    /\ rows' = With(f, [path |-> p, place |-> Here, form |-> "none", want |-> WantKey(f, p, area.form),
                        bytes |-> f, missing |-> FALSE])
    /\ used' = used \cup {f}
    /\ disk' = disk \cup {f}
    /\ torn' = IF Meets(f, WantKey(f, p, area.form)) THEN torn \cup {f} ELSE torn
    /\ UNCHANGED <<area, store, settled, gone, worker>>

\* gc.media.move: another path, or a version comes back to one.  gc.media.version and a move
\* to no path: the file leaves its path.
MoveTo(f, p) ==
    /\ f \in DOMAIN rows /\ p # rows[f].path
    /\ p # None => ~PathTaken(p)
    /\ rows' = [rows EXCEPT ![f].path = p, ![f].want = WantKey(f, p, area.form)]
    /\ torn' = IF Meets(f, WantKey(f, p, area.form)) THEN torn \cup {rows[f].bytes} ELSE torn
    /\ UNCHANGED <<area, used, disk, store, settled, gone, worker>>

Move(f, p) == p \in Paths /\ MoveTo(f, p)
Version(f) == MoveTo(f, None)

\* media.remove(): the row, the copy here, the object on the target.
Delete(f) ==
    /\ f \in DOMAIN rows
    /\ rows' = Without({f})
    /\ disk' = disk \ {f}
    /\ gone' = Buried(rows[f].place)
    /\ UNCHANGED <<area, used, store, settled, worker, torn>>

\* setTarget(): another place or form; an empty area changes at once.
SetTarget(t, form) ==
    /\ Offered(t, form)
    /\ ~(Want = t /\ area.form = form)
    /\ area' = IF DOMAIN rows = {}
               THEN [target |-> t, moving |-> FALSE, to |-> Server, form |-> form]
               ELSE [area EXCEPT !.moving = TRUE, !.to = t, !.form = form]
    /\ rows' = [f \in DOMAIN rows |-> [rows[f] EXCEPT !.want = WantKey(f, rows[f].path, form)]]
    /\ UNCHANGED <<used, disk, store, settled, gone, worker, torn>>

Commands ==
    \/ \E f \in Files, p \in Paths : Claim(f, p) \/ Move(f, p)
    \/ \E f \in Files : Version(f) \/ Delete(f)
    \/ \E t \in Targets \cup {Server}, form \in Forms : SetTarget(t, form)

-----------------------------------------------------------------------------
(* The worker: deletions (processGone) *)

TickBegins ==
    /\ worker.at = "idle"
    /\ worker' = [worker EXCEPT !.at = "gone", !.due = gone]
    /\ UNCHANGED <<area, rows, used, disk, store, settled, gone, torn>>

\* A file lives under the key again: it is never deleted.
GoneKeeps(g) ==
    /\ worker.at = "gone" /\ g \in worker.due /\ UsedPlace(g)
    /\ gone' = gone \ {g}
    /\ worker' = [worker EXCEPT !.due = @ \ {g}]
    /\ UNCHANGED <<area, rows, used, disk, store, settled, torn>>

\* The call takes effect, and the answer follows.
GoneRemoves(g) ==
    /\ worker.at = "gone" /\ g \in worker.due /\ ~UsedPlace(g)
    /\ store' = [store EXCEPT ![g] = None] /\ settled' = settled \ {g}
    /\ worker' = [worker EXCEPT !.at = "removed", !.due = @ \ {g}, !.job = g]
    /\ UNCHANGED <<area, rows, used, disk, gone, torn>>

\* Mutant: a deletion that is done is not crossed out.
RemoveEndsDue ==
    /\ worker.at = "removed"
    /\ worker' = [worker EXCEPT !.at = "gone", !.job = None]
    /\ UNCHANGED <<area, rows, used, disk, store, settled, gone, torn>>

RemoveEnds ==
    /\ worker.at = "removed"
    /\ gone' = gone \ {worker.job}
    /\ worker' = [worker EXCEPT !.at = "gone", !.job = None]
    /\ UNCHANGED <<area, rows, used, disk, store, settled, torn>>

\* What is left to bring to its place; not while another file or a deletion is there.
Task(f) == [id |-> f, row |-> rows[f], want |-> WantPlace(rows[f]),
            form |-> IF Want = Server THEN "blocks" ELSE area.form, local |-> f \in disk]

Vacant(f) ==
    /\ \A o \in DOMAIN rows \ {f} : rows[o].place # WantPlace(rows[f])
    /\ WantPlace(rows[f]) \notin gone

Todo == {Task(f) : f \in {e \in Pending : Want = Server \/ Vacant(e)}}

GoneDone ==
    /\ worker.at = "gone" /\ worker.due = {}
    /\ worker' = [worker EXCEPT !.at = "todo", !.todo = Todo]
    /\ UNCHANGED <<area, rows, used, disk, store, settled, gone, torn>>

-----------------------------------------------------------------------------
(* The worker: transfers.  A task keeps the row as it was when the list was read. *)

Job      == worker.job
Tasks    == worker.todo \cup {r \in {Job} : worker.at \in {"fetch", "put", "written", "renamed"}}
Ends     == [worker EXCEPT !.at = "todo", !.job = None]
Still(r) == r.id \in DOMAIN rows /\ rows[r.id].place = r.row.place

\* A rename on the same target in the same form, never over another object.
SameTarget(r)      == r.want # Here /\ r.row.place[1] = r.want[1] /\ r.row.form = r.form
Renamed(from, to)  == [store EXCEPT ![to] = store[from], ![from] = None]
MayRename(from, to) == store[from] # None /\ store[to] = None

Rename(r) ==
    /\ SameTarget(r) /\ MayRename(r.row.place, r.want)
    /\ store' = Renamed(r.row.place, r.want)
    /\ settled' = settled \ {r.row.place}
    /\ worker' = [worker EXCEPT !.at = "renamed", !.todo = @ \ {r}, !.job = r]
    /\ UNCHANGED <<rows, gone>>

\* Else a copy from the file here, which one that is only elsewhere needs first.
Fetch(r) ==
    /\ ~SameTarget(r) /\ ~r.local
    /\ worker' = [worker EXCEPT !.at = "fetch", !.todo = @ \ {r}, !.job = r]
    /\ UNCHANGED <<rows, gone, store, settled>>

\* The file comes back to this server: the copy here is the file.
Home(r) ==
    /\ rows' = IF Still(r) THEN Placed(r.id, Here, "none") ELSE rows
    /\ gone' = IF Still(r) THEN Buried(r.row.place) ELSE gone

\* A readable file is never written over: one in the way is left for the scan.
InTheWay(r) == r.form = "files" /\ store[r.want] # None

Copy(r) ==
    /\ ~SameTarget(r) /\ r.local
    /\ \/ /\ r.want = Here /\ Home(r)
          /\ worker' = [worker EXCEPT !.todo = @ \ {r}]
       \/ /\ r.want # Here /\ ~InTheWay(r) /\ r.id \in disk
          /\ worker' = [worker EXCEPT !.at = "put", !.todo = @ \ {r}, !.job = r]
          /\ UNCHANGED <<rows, gone>>
    /\ UNCHANGED <<store, settled>>

\* A file is in the way, or the copy here went with its row.
PutOff(r) ==
    /\ \/ SameTarget(r) /\ ~MayRename(r.row.place, r.want)
       \/ ~SameTarget(r) /\ r.want # Here /\ r.local
          /\ (InTheWay(r) \/ r.id \notin disk)
    /\ worker' = [worker EXCEPT !.todo = @ \ {r}]
    /\ UNCHANGED <<rows, gone, store, settled>>

TaskBegins(r) ==
    /\ worker.at = "todo" /\ r \in worker.todo
    /\ Rename(r) \/ Fetch(r) \/ Copy(r) \/ PutOff(r)
    /\ UNCHANGED <<area, used, disk, torn>>

\* ensureLocal(): the object is read whole and must still be the file.  A row that has
\* been deleted meanwhile ends the task.
Whole(r) == r.row.place # Here /\ store[r.row.place] = r.row.bytes

Fetched ==
    /\ worker.at = "fetch" /\ Whole(Job)
    /\ disk' = disk \cup {Job.id}
    /\ IF Job.want = Here
       THEN Home(Job) /\ worker' = Ends
       ELSE /\ worker' = IF Job.id \in DOMAIN rows /\ ~InTheWay(Job)
                         THEN [worker EXCEPT !.at = "put"] ELSE Ends
            /\ UNCHANGED <<rows, gone>>
    /\ UNCHANGED <<area, used, store, settled, torn>>

\* put() writes beside the key and renames, then the new object is looked at.
Written ==
    /\ worker.at = "put"
    /\ store' = [store EXCEPT ![Job.want] = Job.row.bytes]
    /\ settled' = settled \ {Job.want}
    /\ worker' = [worker EXCEPT !.at = "written"]
    /\ UNCHANGED <<area, rows, used, disk, gone, torn>>

\* The row says where the file is now, and the object it has left is deleted.  When the
\* row has changed meanwhile the new copy goes again.
PutEnds ==
    /\ worker.at = "written"
    /\ IF Still(Job) /\ rows[Job.id].want = Job.want[2]
       THEN rows' = Placed(Job.id, Job.want, Job.form) /\ gone' = Buried(Job.row.place)
       ELSE rows' = rows /\ gone' = Buried(Job.want)
    /\ worker' = Ends
    /\ UNCHANGED <<area, used, disk, store, settled, torn>>

\* Mutant: a row that has changed meanwhile is not noticed.
RenameEndsBlind ==
    /\ worker.at = "renamed"
    /\ rows' = IF Still(Job) THEN Placed(Job.id, Job.want, Job.form) ELSE rows
    /\ worker' = Ends
    /\ UNCHANGED <<area, used, disk, store, settled, gone, torn>>

RenameEnds ==
    /\ worker.at = "renamed"
    /\ IF Still(Job)
       THEN rows' = Placed(Job.id, Job.want, Job.form) /\ gone' = gone
       ELSE rows' = rows /\ gone' = Buried(Job.want)
    /\ worker' = Ends
    /\ UNCHANGED <<area, used, disk, store, settled, torn>>

\* The object is not there, or not the file, or is nowhere; the copy here went with its row.
TaskFails ==
    /\ \/ worker.at = "fetch" /\ ~Whole(Job)
       \/ worker.at = "put"   /\ Job.id \notin disk
    /\ worker' = Ends
    /\ UNCHANGED <<area, rows, used, disk, store, settled, gone, torn>>

\* Mutant: files that wait to be copied are dropped as well.
EvictableAll == DOMAIN rows \cap disk

\* evict(): copies here of files that are in place elsewhere.
Evictable == {f \in (DOMAIN rows \cap disk) \ Pending : rows[f].place # Here}

\* finishMoves(), and evict() with whatever limit the cache has.
TickEnds(S) ==
    /\ worker.at = "todo" /\ worker.todo = {}
    /\ S \subseteq Evictable
    /\ area' = IF area.moving /\ Pending = {}
               THEN [area EXCEPT !.target = area.to, !.moving = FALSE, !.to = Server] ELSE area
    /\ disk' = disk \ S
    /\ worker' = Idle
    /\ UNCHANGED <<rows, used, store, settled, gone, torn>>

Worker ==
    \/ TickBegins \/ GoneDone
    \/ \E g \in Places : GoneKeeps(g) \/ GoneRemoves(g)
    \/ RemoveEnds
    \/ \E r \in worker.todo : TaskBegins(r)
    \/ Fetched \/ Written \/ PutEnds \/ RenameEnds \/ TaskFails
    \/ \E S \in SUBSET Files : TickEnds(S)

-----------------------------------------------------------------------------
(* Faults *)

\* A call of a target fails: a deletion stays due, a file where it is.  When it is the look
\* at an object that has just been written, that object stays behind.
CallFails ==
    /\ \/ \E g \in worker.due : worker.at = "gone" /\ worker' = [worker EXCEPT !.due = @ \ {g}]
       \/ \E r \in worker.todo : worker.at = "todo" /\ worker' = [worker EXCEPT !.todo = @ \ {r}]
       \/ worker.at \in {"fetch", "put", "written"} /\ worker' = Ends
    /\ torn' = IF worker.at = "written" THEN torn \cup {Job.row.bytes} ELSE torn
    /\ UNCHANGED <<area, rows, used, disk, store, settled, gone>>

\* The process stops.
Stops ==
    /\ worker' = Idle
    /\ torn' = IF worker.at \in {"written", "renamed"} THEN torn \cup {Job.row.bytes} ELSE torn
    /\ UNCHANGED <<area, rows, used, disk, store, settled, gone>>

-----------------------------------------------------------------------------
(* Time *)

\* A minute has passed since an object was written (not since it was renamed: that may be
\* at once); the worker's own are written down by then.
Settles(g) ==
    /\ g[2][1] = "path" /\ store[g] # None /\ g \notin settled
    /\ ~(worker.at = "written" /\ Job.want = g)
    /\ settled' = settled \cup {g}
    /\ UNCHANGED <<area, rows, used, disk, store, gone, worker, torn>>

=============================================================================
