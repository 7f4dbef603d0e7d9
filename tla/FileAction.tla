----------------------------- MODULE FileAction -----------------------------
(***************************************************************************)
(* The destructive file actions of src/action/action.cpp (fsop with op     *)
(* move or trash) as handlers of POST /api/v1/actions run them, several at *)
(* once: the file is renamed on disk, or copied and removed where the      *)
(* destination is on another device than the source, and the index is      *)
(* written back afterwards by a statement of its own.                      *)
(*                                                                         *)
(* A file is known by its content, here its number. The row whose id is    *)
(* that number indexes it at first. A place is a directory and a name; a   *)
(* move keeps the name. Beside the jobs a sweep walks the root. It is as   *)
(* coarse as a file at a time, since nothing is claimed of a sweep that    *)
(* meets a job (mixed); what happens within a file is in Sweep.            *)
(*                                                                         *)
(* Not here: copy, symlink and stage, which only create files and leave    *)
(* the index alone; dry runs, which touch nothing; and what a copy that    *)
(* fails half way leaves at its destination.                               *)
(***************************************************************************)
EXTENDS Integers, Sequences, FiniteSets

CONSTANTS
    Handlers,    \* threads that serve requests
    Home,        \* Home[f] is the place where file f is at first
    RootDirs,    \* directories of the registered roots
    OtherDirs,   \* further directories a move may name
    WalkOrder,   \* the places in the root as the iterator meets them
    TrashRoot,   \* cfg.trash_root, outside of the roots
    Layouts,     \* which device each directory may be on
    MaxJobs,     \* bound on the requests
    MaxFrames,   \* bound on the frames of all requests
    MaxSweeps,   \* bound on the sweeps
    MaxFaults    \* bound on failing statements and crashes

Files == DOMAIN Home
TrashDir(j) == <<TrashRoot, j>>
TrashDirs == {TrashDir(j) : j \in 1..MaxJobs}
FileNames == {Home[f][2] : f \in Files}
Dirs == RootDirs \cup OtherDirs \cup TrashDirs
Places == Dirs \X FileNames
RootPlaces == RootDirs \X FileNames

ASSUME FileActionAssumption ==
    /\ Home \in Seq(RootPlaces)
    /\ \A f, g \in Files : Home[f] = Home[g] => f = g
    /\ RootDirs \cap (OtherDirs \cup TrashDirs) = {}
    /\ WalkOrder \in Seq(RootPlaces)
    /\ RootPlaces = {WalkOrder[n] : n \in DOMAIN WalkOrder}
    /\ MaxJobs \in Nat /\ MaxFrames \in Nat /\ MaxSweeps \in Nat /\ MaxFaults \in Nat

VARIABLES
    disk,        \* what is at the occupied places
    device,      \* the layout
    rows,        \* table files: place, status, and the file that was indexed
    nextId,      \* AUTO_INCREMENT of files
    jobs,        \* table jobs with its job_items; the id is the index
    work,        \* per handler: its job and where it is in the loop
    sweep,       \* whether a sweep is on, what it walked, prior_ok_count
    seen,        \* rows stamped since the sweep began
    fresh,       \* rows the sweep inserted
    sweeps, faults,
    unsettled,   \* history: rows a job left to the next sweep
    astray,      \* history: files a job left to the next sweep
    mixed        \* history: a sweep met a job, and none was alone since

vars == <<disk, device, rows, nextId, jobs, work, sweep, seen, fresh, sweeps, faults,
          unsettled, astray, mixed>>

Idle == [at |-> "idle"]
Busy(h) == work[h].at # "idle"
Off == [on |-> FALSE]

Init ==
    /\ disk = [p \in {Home[f] : f \in Files} |-> CHOOSE f \in Files : Home[f] = p]
    /\ device \in Layouts
    /\ rows = [f \in Files |-> [path |-> Home[f], status |-> "ok", file |-> f]]
    /\ nextId = Len(Home) + 1
    /\ jobs = <<>>
    /\ work = [h \in Handlers |-> Idle]
    /\ sweep = Off
    /\ seen = {} /\ fresh = {}
    /\ sweeps = 0 /\ faults = 0
    /\ unsettled = {} /\ astray = {} /\ mixed = FALSE

Holds(p, f) == p \in DOMAIN disk /\ disk[p] = f
RowsAt(p) == {k \in DOMAIN rows : rows[k].path = p}
Without(p) == [q \in DOMAIN disk \ {p} |-> disk[q]]
With(d, p, f) == [q \in DOMAIN d \cup {p} |-> IF q = p THEN f ELSE d[q]]

(* What was moved and is not written back yet, and its rows; this and what  *)
(* was copied and is not removed yet.                                       *)
Moved == {h \in Handlers : work[h].at = "moved"}
InHand == {work[h].cur.row : h \in Moved}
Carried == {h \in Handlers : work[h].at \in {"copied", "moved"}}

IndexUnchanged == UNCHANGED <<rows, nextId, seen, fresh>>
SweepUnchanged == UNCHANGED <<sweep, sweeps, mixed>>
HistoryUnchanged == UNCHANGED <<unsettled, astray>>

-----------------------------------------------------------------------------
(* POST /api/v1/actions *)

(* Mutant: all jobs share one directory of the trash. *)
DestSharedTrash(op, dir, j) == IF op = "trash" THEN TrashDir(1) ELSE dir

Dest(op, dir, j) == IF op = "trash" THEN TrashDir(j) ELSE dir

(* resolve_by_ids reads the places of all the frames, whatever the status  *)
(* of their files, before the first is moved; create_job.                  *)
Submit(h) ==
    /\ ~Busy(h)
    /\ Len(jobs) < MaxJobs
    /\ \E op \in {"move", "trash"}, F \in SUBSET DOMAIN rows \ {{}} :
         /\ Cardinality(UNION {{j} \X jobs[j].frames : j \in DOMAIN jobs}) + Cardinality(F) <= MaxFrames
         /\ \E dir \in IF op = "move" THEN RootDirs \cup OtherDirs ELSE {TrashRoot} :
           LET j == Len(jobs) + 1
               refs == {[row |-> k, src |-> rows[k].path] : k \in F}
           IN  /\ jobs' = Append(jobs, [status |-> "running", dir |-> Dest(op, dir, j),
                                        frames |-> refs, items |-> {}])
               /\ work' = [work EXCEPT ![h] =
                             [at |-> "next", job |-> j, dir |-> Dest(op, dir, j), todo |-> refs]]
    /\ mixed' = (mixed \/ sweep.on)
    /\ sweep' = IF sweep.on THEN [sweep EXCEPT !.alone = FALSE] ELSE sweep
    /\ IndexUnchanged
    /\ HistoryUnchanged
    /\ UNCHANGED <<disk, device, sweeps, faults>>

Crosses(h, r) == device[r.src[1]] # device[work[h].dir]
Dst(h, r) == <<work[h].dir, r.src[2]>>

(* Rows that place their file at p, or will when they are written back. *)
Claims(p) == RowsAt(p) \cup {work[h].cur.row : h \in {g \in Carried : Dst(g, work[g].cur) = p}}

(* File f of row k was at src, where the row says, and no other job carries *)
(* either.                                                                  *)
Own(h, k, src, f) ==
    /\ k \in DOMAIN rows
    /\ rows[k].path = src /\ rows[k].file = f
    /\ Holds(src, f)
    /\ \A g \in Carried \ {h} : work[g].cur.row # k /\ work[g].file # f

(* History: h takes frame k, as file f, from src, and these places are not  *)
(* what they were. Other rows that claim one of them are left to the next   *)
(* sweep, and so is what is taken if it is not the frame's own file or      *)
(* another job carries it and may write it back before or after; left is    *)
(* what stays behind.                                                       *)
LeftToSweep(h, k, src, f, places, left) ==
    /\ unsettled' = unsettled \cup ((UNION {Claims(p) : p \in places}) \ {k})
                       \cup (IF Own(h, k, src, f) THEN {} ELSE {k})
    /\ astray' = astray \cup left
                    \cup (IF Own(h, k, src, f) THEN {}
                            ELSE {f} \cup {rows[l].file : l \in {k} \cap DOMAIN rows})

(* rename(2) replaces what is at the destination.                          *)
Renames(h) ==
    /\ work[h].at = "next"
    /\ \E r \in work[h].todo :
         /\ ~Crosses(h, r)
         /\ r.src \in DOMAIN disk
         /\ disk' = With(Without(r.src), Dst(h, r), disk[r.src])
         /\ work' = [work EXCEPT ![h] =
                       [at |-> "moved", job |-> @.job, dir |-> @.dir, todo |-> @.todo \ {r},
                        cur |-> r, file |-> disk[r.src]]]
         /\ LeftToSweep(h, r.row, r.src, disk[r.src], {r.src, Dst(h, r)}, {})
    /\ IndexUnchanged
    /\ SweepUnchanged
    /\ UNCHANGED <<device, jobs, faults>>

(* Across devices: copy_file, which does not overwrite, and then remove.   *)
CopiesAcross(h) ==
    /\ work[h].at = "next"
    /\ \E r \in work[h].todo :
         /\ Crosses(h, r)
         /\ r.src \in DOMAIN disk
         /\ Dst(h, r) \notin DOMAIN disk
         /\ disk' = With(disk, Dst(h, r), disk[r.src])
         /\ work' = [work EXCEPT ![h] =
                       [at |-> "copied", job |-> @.job, dir |-> @.dir, todo |-> @.todo \ {r},
                        cur |-> r, file |-> disk[r.src]]]
         /\ LeftToSweep(h, r.row, r.src, disk[r.src], {Dst(h, r)}, {})
    /\ IndexUnchanged
    /\ SweepUnchanged
    /\ UNCHANGED <<device, jobs, faults>>

(* remove() takes whatever is at src by now, and is no error where nothing *)
(* is.                                                                     *)
Removes(h) ==
    /\ work[h].at = "copied"
    /\ LET w == work[h] src == w.cur.src
       IN  /\ disk' = Without(src)
           /\ work' = [work EXCEPT ![h].at = "moved"]
           /\ LeftToSweep(h, w.cur.row, src, w.file, {src}, {})
    /\ IndexUnchanged
    /\ SweepUnchanged
    /\ UNCHANGED <<device, jobs, faults>>

(* The item fails, and the row stays as it is: the file is not at src, or  *)
(* across devices something is in the way.                                 *)
Fails(h) ==
    /\ work[h].at = "next"
    /\ \E r \in work[h].todo :
         /\ r.src \notin DOMAIN disk \/ (Crosses(h, r) /\ Dst(h, r) \in DOMAIN disk)
         /\ work' = [work EXCEPT ![h] =
                       [at |-> "record", job |-> @.job, dir |-> @.dir, todo |-> @.todo \ {r},
                        cur |-> r, status |-> "failed"]]
    /\ IndexUnchanged
    /\ SweepUnchanged
    /\ HistoryUnchanged
    /\ UNCHANGED <<disk, device, jobs, faults>>

(* Mutant: what copy_file returns is not looked at. *)
IoFailsUnnoticed(h) ==
    /\ faults < MaxFaults
    /\ faults' = faults + 1
    /\ work[h].at = "next"
    /\ \E r \in work[h].todo :
         work' = [work EXCEPT ![h] =
                    [at |-> "copied", job |-> @.job, dir |-> @.dir, todo |-> @.todo \ {r},
                     cur |-> r, file |-> rows[r.row].file]]
    /\ IndexUnchanged
    /\ SweepUnchanged
    /\ HistoryUnchanged
    /\ UNCHANGED <<disk, device, jobs>>

(* A copy in a root stays behind without a row. *)
Stray(h, r, f) == IF Dst(h, r) \in RootPlaces THEN {f} ELSE {}

(* The file system refuses the rename and the copy, or the removal of what *)
(* was copied, which leaves the file in both places.                       *)
IoFails(h) ==
    /\ faults < MaxFaults
    /\ faults' = faults + 1
    /\ \/ /\ work[h].at = "next"
          /\ \E r \in work[h].todo :
               work' = [work EXCEPT ![h] =
                          [at |-> "record", job |-> @.job, dir |-> @.dir, todo |-> @.todo \ {r},
                           cur |-> r, status |-> "failed"]]
          /\ HistoryUnchanged
       \/ /\ work[h].at = "copied"
          /\ work' = [work EXCEPT ![h] =
                        [at |-> "record", job |-> @.job, dir |-> @.dir, todo |-> @.todo,
                         cur |-> @.cur, status |-> "failed"]]
          /\ astray' = astray \cup Stray(h, work[h].cur, work[h].file)
          /\ UNCHANGED unsettled
    /\ IndexUnchanged
    /\ SweepUnchanged
    /\ UNCHANGED <<disk, device, jobs>>

(* Within one device: from a directory that may be read but not written    *)
(* neither the rename nor the removal is allowed, but the copy is made.    *)
LeavesCopy(h) ==
    /\ faults < MaxFaults
    /\ faults' = faults + 1
    /\ work[h].at = "next"
    /\ \E r \in work[h].todo :
         /\ ~Crosses(h, r)
         /\ r.src \in DOMAIN disk
         /\ Dst(h, r) \notin DOMAIN disk
         /\ disk' = With(disk, Dst(h, r), disk[r.src])
         /\ work' = [work EXCEPT ![h] =
                       [at |-> "record", job |-> @.job, dir |-> @.dir, todo |-> @.todo \ {r},
                        cur |-> r, status |-> "failed"]]
         /\ LeftToSweep(h, r.row, r.src, disk[r.src], {Dst(h, r)}, Stray(h, r, disk[r.src]))
    /\ IndexUnchanged
    /\ SweepUnchanged
    /\ UNCHANGED <<device, jobs>>

Reanchors(k, p) == [rows EXCEPT ![k].path = p, ![k].status = "ok"]

(* Mutant: a file that leaves the root keeps its row as it is. *)
LeavesAsIs(k) == rows

Leaves(k) == [rows EXCEPT ![k].status = "missing"]

(* Mutant: the place of a missing file is free. *)
TakenByOk(k, p) == {l \in RowsAt(p) : rows[l].status = "ok"} \ {k} # {}

(* uk_files_path *)
Taken(k, p) == RowsAt(p) \ {k} # {}

(* The write-back; an UPDATE of a row that the sweep deleted changes none. *)
(* last_seen_utc is cut to the second, and may fall before the start of a  *)
(* sweep that is on.                                                       *)
WritesBack(h) ==
    /\ work[h].at = "moved"
    /\ LET w == work[h]
           k == w.cur.row
           p == Dst(h, w.cur)
       IN  /\ IF k \notin DOMAIN rows
              THEN UNCHANGED <<rows, seen>>
              ELSE IF p \in RootPlaces
                   THEN /\ ~Taken(k, p)
                        /\ rows' = Reanchors(k, p)
                        /\ \/ UNCHANGED seen
                           \/ sweep.on /\ seen' = seen \cup {k}
                   ELSE /\ rows' = Leaves(k)
                        /\ UNCHANGED seen
           /\ work' = [work EXCEPT ![h] =
                         [at |-> "record", job |-> @.job, dir |-> @.dir, todo |-> @.todo,
                          cur |-> @.cur, status |-> "ok", file |-> @.file]]
    /\ SweepUnchanged
    /\ HistoryUnchanged
    /\ UNCHANGED <<disk, device, nextId, fresh, jobs, faults>>

(* record_item. job_items.frame_id has a foreign key. *)
Item(h) == LET w == work[h] IN
    [row |-> w.cur.row, dst |-> Dst(h, w.cur), status |-> w.status,
     file |-> IF w.status = "ok" THEN {w.file} ELSE {}]

Records(h) ==
    /\ work[h].at = "record"
    /\ work[h].cur.row \in DOMAIN rows
    /\ jobs' = [jobs EXCEPT ![work[h].job].items = @ \cup {Item(h)}]
    /\ work' = [work EXCEPT ![h] = [at |-> "next", job |-> @.job, dir |-> @.dir, todo |-> @.todo]]
    /\ IndexUnchanged
    /\ SweepUnchanged
    /\ HistoryUnchanged
    /\ UNCHANGED <<disk, device, faults>>

(* finish_job *)
Finishes(h) ==
    /\ work[h].at = "next"
    /\ work[h].todo = {}
    /\ LET j == work[h].job IN
         jobs' = [jobs EXCEPT ![j].status =
                    IF \E it \in jobs[j].items : it.status = "failed" THEN "failed" ELSE "done"]
    /\ work' = [work EXCEPT ![h] = Idle]
    /\ IndexUnchanged
    /\ SweepUnchanged
    /\ HistoryUnchanged
    /\ UNCHANGED <<disk, device, faults>>

-----------------------------------------------------------------------------
(* Failures. A DbError leaves fsop through the handler (500): the rest of  *)
(* the frames is not touched, and the job stays 'running'.                 *)

Abandon(h) ==
    /\ work' = [work EXCEPT ![h] = Idle]
    /\ unsettled' = unsettled \cup {work[g].cur.row : g \in Moved \cap {h}}
    /\ astray' = astray \cup {work[g].file : g \in Carried \cap {h}}
    /\ IndexUnchanged
    /\ SweepUnchanged
    /\ UNCHANGED <<disk, device, jobs>>

(* The place is another row's, be its file missing or not. *)
WriteBackRefused(h) ==
    /\ work[h].at = "moved"
    /\ LET k == work[h].cur.row  p == Dst(h, work[h].cur)
       IN  k \in DOMAIN rows /\ p \in RootPlaces /\ Taken(k, p)
    /\ Abandon(h)
    /\ UNCHANGED faults

(* The frame is gone with the row that a sweep deleted. *)
RecordRefused(h) ==
    /\ work[h].at = "record"
    /\ work[h].cur.row \notin DOMAIN rows
    /\ Abandon(h)
    /\ UNCHANGED faults

(* The database fails. *)
StatementFails(h) ==
    /\ faults < MaxFaults
    /\ work[h].at \in {"moved", "record", "next"}
    /\ work[h].at = "next" => work[h].todo = {}
    /\ faults' = faults + 1
    /\ Abandon(h)

(* The daemon ends in the middle of its jobs and of a sweep. *)
Crash ==
    /\ faults < MaxFaults
    /\ faults' = faults + 1
    /\ sweep.on \/ \E h \in Handlers : Busy(h)
    /\ work' = [h \in Handlers |-> Idle]
    /\ unsettled' = unsettled \cup InHand
    /\ astray' = astray \cup {work[h].file : h \in Carried}
    /\ sweep' = Off
    /\ UNCHANGED <<disk, device, rows, nextId, jobs, seen, fresh, sweeps, mixed>>

-----------------------------------------------------------------------------
(* The sweep of the root *)

SweepStarts ==
    /\ ~sweep.on
    /\ sweeps < MaxSweeps
    /\ sweeps' = sweeps + 1
    /\ LET alone == \A h \in Handlers : ~Busy(h)
       IN  /\ sweep' = [on |-> TRUE, walked |-> 0, alone |-> alone,
                        prior |-> Cardinality({k \in DOMAIN rows : rows[k].status = "ok"})]
           /\ mixed' = (mixed \/ ~alone)
    /\ seen' = {} /\ fresh' = {}
    /\ HistoryUnchanged
    /\ UNCHANGED <<disk, device, rows, nextId, jobs, work, faults>>

(* One file of the walk; store_file keeps or makes the row of its place. *)
Index(p, f) ==
    IF RowsAt(p) # {}
    THEN LET k == CHOOSE k \in RowsAt(p) : TRUE
         IN  /\ rows' = [rows EXCEPT ![k].status = "ok", ![k].file = f]
             /\ seen' = seen \cup {k}
             /\ UNCHANGED <<nextId, fresh>>
    ELSE /\ rows' = With(rows, nextId, [path |-> p, status |-> "ok", file |-> f])
         /\ nextId' = nextId + 1
         /\ seen' = seen \cup {nextId}
         /\ fresh' = fresh \cup {nextId}

SweepVisits ==
    /\ sweep.on
    /\ sweep.walked < Len(WalkOrder)
    /\ sweep' = [sweep EXCEPT !.walked = @ + 1]
    /\ LET p == WalkOrder[sweep.walked + 1]
       IN  IF p \in DOMAIN disk THEN Index(p, disk[p]) ELSE IndexUnchanged
    /\ HistoryUnchanged
    /\ UNCHANGED <<disk, device, jobs, work, sweeps, faults, mixed>>

SeenNow == seen \cap DOMAIN rows
Unhealthy == sweep.prior > 0 /\ (SeenNow = {} \/ Cardinality(SeenNow) < sweep.prior \div 2)

Vanished == {k \in DOMAIN rows : rows[k].status # "missing" /\ k \notin seen}
Appeared == fresh \cap DOMAIN rows
MoveTargets(v) ==
    {a \in Appeared :
        /\ rows[a].file = rows[v].file
        /\ \A b \in Appeared : rows[b].file = rows[v].file => b = a
        /\ \A u \in Vanished : rows[u].file = rows[v].file => u = v}

(* reconcile_root: a clear rename takes over the row that the sweep made   *)
(* for it, and what else vanished is missing. What was alone leaves the    *)
(* index true, and finds whatever is on the disk.                          *)
SweepReconciles ==
    /\ sweep.on
    /\ sweep.walked = Len(WalkOrder)
    /\ LET moved == {v \in Vanished : MoveTargets(v) # {}}
           target == [v \in moved |-> CHOOSE a \in MoveTargets(v) : TRUE]
       IN  rows' = IF Unhealthy THEN rows
                   ELSE [k \in DOMAIN rows \ {target[v] : v \in moved} |->
                           IF k \in moved THEN rows[target[k]]
                           ELSE IF k \in Vanished THEN [rows[k] EXCEPT !.status = "missing"]
                           ELSE rows[k]]
    /\ IF sweep.alone /\ ~Unhealthy
       THEN unsettled' = {} /\ astray' = astray \ {disk[p] : p \in DOMAIN disk} /\ mixed' = FALSE
       ELSE HistoryUnchanged /\ UNCHANGED mixed
    /\ sweep' = Off
    /\ seen' = {} /\ fresh' = {}
    /\ UNCHANGED <<disk, device, nextId, jobs, work, sweeps, faults>>

-----------------------------------------------------------------------------
Handler(h) ==
    \/ Submit(h) \/ Renames(h) \/ CopiesAcross(h) \/ Removes(h)
    \/ Fails(h) \/ IoFails(h) \/ LeavesCopy(h)
    \/ WritesBack(h) \/ Records(h) \/ Finishes(h)
    \/ WriteBackRefused(h) \/ RecordRefused(h) \/ StatementFails(h)

Next ==
    \/ \E h \in Handlers : Handler(h)
    \/ Crash
    \/ SweepStarts
    \/ SweepVisits
    \/ SweepReconciles

Spec == Init /\ [][Next]_vars

-----------------------------------------------------------------------------
Row == [path : Places, status : {"ok", "missing"}, file : Files]

(* The type of the tables, the disk and the handlers. *)
TypeOK ==
    /\ DOMAIN disk \subseteq Places
    /\ \A p \in DOMAIN disk : disk[p] \in Files
    /\ DOMAIN rows \subseteq 1..nextId - 1
    /\ \A k \in DOMAIN rows : rows[k] \in Row /\ rows[k].path \in RootPlaces
    /\ \A k, l \in DOMAIN rows : rows[k].path = rows[l].path => k = l
    /\ \A h \in Handlers : Busy(h) => jobs[work[h].job].status = "running"
    /\ seen \subseteq 1..nextId - 1 /\ fresh \subseteq seen

(* ARCHITECTURE.md:658-659: a row is ok exactly if its file is where the   *)
(* row says, and a file in a root has such a row, from the write-back on.  *)
(* Left out are the row of a file between the move and the write-back, and *)
(* the file where it is moved or copied to; rows and files that a failed   *)
(* write-back, a copy whose original could not be removed, or another job  *)
(* on the same frame, file or place left to the next sweep; and the time   *)
(* from when a sweep met a job to the next sweep that meets none.          *)
IndexIsTrue ==
    ~mixed =>
      /\ \A k \in DOMAIN rows \ (unsettled \cup InHand) :
            (rows[k].status = "ok") <=> Holds(rows[k].path, rows[k].file)
      /\ \A p \in DOMAIN disk \cap RootPlaces :
            \/ disk[p] \in astray
            \/ \E h \in Carried : p = Dst(h, work[h].cur) /\ disk[p] = work[h].file
            \/ \E k \in RowsAt(p) : rows[k].status = "ok" /\ rows[k].file = disk[p]

(* What an item of the ledger says was trashed stays where the item says,  *)
(* unless the job took another file of that name.                          *)
TrashedStaysFound ==
    \A j \in DOMAIN jobs : \A it \in jobs[j].items :
        /\ it.dst[1] \in TrashDirs
        /\ \A r \in jobs[j].frames : r.src[2] = it.dst[2] => r.row = it.row
        => \A f \in it.file : Holds(it.dst, f)

(* README.md:91-92: a file is never destroyed. *)
NothingDestroyed == \A f \in Files : \E p \in DOMAIN disk : disk[p] = f

(* Some roots are on another device than others. *)
RootsApart == \E d, e \in RootDirs : device[d] # device[e]

(* Only a namesake destroys a file. Where files are copied from root to     *)
(* root, so can a job that takes the copy for a file of its own while the   *)
(* original is about to be removed: the file is left to a sweep then, which *)
(* does not find it.                                                        *)
LossNeedsNamesake ==
    \A f \in Files : (\A p \in DOMAIN disk : disk[p] # f)
                     => \/ \E g \in Files \ {f} : Home[g][2] = Home[f][2]
                        \/ RootsApart /\ f \in astray
=============================================================================
