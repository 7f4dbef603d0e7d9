-------------------------- MODULE FileActionProofs --------------------------
(***************************************************************************)
(* FileAction, for any files, directories and handlers and any bounds on   *)
(* jobs, frames, sweeps and failures.  Each part has an invariant, which   *)
(* builds on those before it:                                              *)
(*                                                                         *)
(*   A  the type of the state and one row per path (TInv)                  *)
(*   B  a file whose name no other has is never destroyed (LInv)           *)
(*   C  what was trashed stays where the ledger says (XInv)                *)
(*   D  the index is true from the write-back on (IInv)                    *)
(*                                                                         *)
(* C assumes that no move names a directory of the trash.                  *)
(***************************************************************************)
EXTENDS FileAction, TLAPS

-----------------------------------------------------------------------------
(***************************************************************************)
(* A. The type of the state.                                               *)
(***************************************************************************)

(* The records of the tables. *)
Ref == [row : Nat, src : RootPlaces]
JobItem == [row : Nat, dst : Places, status : {"ok", "failed"}, file : SUBSET Files]
Job == [status : {"running", "failed", "done"}, dir : Dirs,
        frames : SUBSET Ref, items : SUBSET JobItem]

(* Places hold files. *)
DiskOK == DOMAIN disk \subseteq Places /\ \A p \in DOMAIN disk : disk[p] \in Files

(* The table: ids below the next one, whole rows, one per path. *)
RowsOK ==
    /\ nextId \in Nat \ {0}
    /\ DOMAIN rows \subseteq 1..nextId - 1
    /\ \A k \in DOMAIN rows : rows[k] \in Row /\ rows[k].path \in RootPlaces
    /\ \A k, l \in DOMAIN rows : rows[k].path = rows[l].path => k = l

(* A handler works on the job that it created, on frames of it. *)
WorkOK(h) ==
    LET w == work[h] IN
    /\ w.at \in {"idle", "next", "copied", "moved", "record"}
    /\ Busy(h) => /\ w.job \in DOMAIN jobs /\ jobs[w.job].status = "running"
                  /\ w.dir = jobs[w.job].dir
                  /\ w.todo \subseteq jobs[w.job].frames
    /\ w.at \in {"copied", "moved", "record"} => w.cur \in jobs[w.job].frames
    /\ w.at \in {"copied", "moved"} => w.file \in Files
    /\ w.at = "copied" => w = [at |-> "copied", job |-> w.job, dir |-> w.dir, todo |-> w.todo,
                               cur |-> w.cur, file |-> w.file]
    /\ w.at = "record" => w.status \in {"ok", "failed"} /\ (w.status = "ok" => w.file \in Files)

(* No two handlers have one job. *)
WorkersOK ==
    /\ DOMAIN work = Handlers
    /\ \A h \in Handlers : WorkOK(h)
    /\ \A g, h \in Handlers : Busy(g) /\ Busy(h) /\ work[g].job = work[h].job => g = h

(* How far a sweep is. *)
SweepOK ==
    /\ sweep.on \in BOOLEAN
    /\ sweep.on => \E w \in 0..Len(WalkOrder), a \in BOOLEAN : \E n :
                     sweep = [on |-> TRUE, walked |-> w, alone |-> a, prior |-> n]

(* Only ids that were given out are stamped. *)
StampsOK == seen \subseteq 1..nextId - 1 /\ fresh \subseteq seen

(* The inductive invariant of part A. *)
TInv == DiskOK /\ RowsOK /\ jobs \in Seq(Job) /\ WorkersOK /\ SweepOK /\ StampsOK

-----------------------------------------------------------------------------
(* Everything is well formed at first.                                      *)
LEMMA InitTInv == Init => TInv
<1>. SUFFICES ASSUME Init PROVE TInv
  OBVIOUS
<1>1. Files = 1..Len(Home) /\ Len(Home) \in Nat /\ \A f \in Files : Home[f] \in RootPlaces
  BY FileActionAssumption DEF Files
<1>2. \A f \in Files : Home[f] \in Places
  BY <1>1 DEF RootPlaces, Places, Dirs
<1>3. DiskOK
  BY <1>2 DEF Init, DiskOK
<1>4. RowsOK
  <2>1. \A k \in DOMAIN rows : rows[k] = [path |-> Home[k], status |-> "ok", file |-> k]
    BY DEF Init
  <2>. QED
    BY <1>1, <1>2, <2>1, FileActionAssumption DEF Init, RowsOK, Row
<1>5. WorkersOK
  BY DEF Init, WorkersOK, WorkOK, Busy, Idle
<1>6. SweepOK /\ StampsOK /\ jobs \in Seq(Job)
  BY DEF Init, SweepOK, StampsOK, Off
<1>. QED
  BY <1>3, <1>4, <1>5, <1>6 DEF TInv

(* The place a frame goes to is a place.                                    *)
LEMMA DstPlace ==
  ASSUME TInv, NEW h \in Handlers, Busy(h)
  PROVE  \A r \in jobs[work[h].job].frames : Dst(h, r) \in Places /\ r.src \in RootPlaces /\ r \in Ref
<1>1. jobs[work[h].job] \in Job /\ work[h].dir = jobs[work[h].job].dir
  BY DEF TInv, WorkersOK, WorkOK
<1>2. \A r \in jobs[work[h].job].frames : r \in Ref
  BY <1>1 DEF Job
<1>3. \A r \in Ref : r.src \in RootPlaces /\ r.src[2] \in FileNames
  BY DEF Ref, RootPlaces
<1>4. work[h].dir \in Dirs
  BY <1>1 DEF Job
<1>. QED
  BY <1>2, <1>3, <1>4 DEF Dst, Places, Dirs

(* A step that replaces the work of h, on its job, leaves the others' work. *)
LEMMA WorkerStep ==
  ASSUME TInv, NEW h \in Handlers, NEW w, work' = [work EXCEPT ![h] = w],
         jobs' = jobs, WorkOK(h)', Busy(h), Busy(h)' => w.job = work[h].job
  PROVE  WorkersOK'
<1>1. \A g \in Handlers \ {h} : work'[g] = work[g]
  BY DEF TInv, WorkersOK
<1>2. \A g \in Handlers \ {h} : WorkOK(g)' /\ (Busy(g)' <=> Busy(g))
  BY <1>1 DEF TInv, WorkersOK, WorkOK, Busy
<1>3. work'[h] = w
  BY DEF TInv, WorkersOK
<1>4. \A f, g \in Handlers : Busy(f)' /\ Busy(g)' /\ work'[f].job = work'[g].job => f = g
  BY <1>1, <1>2, <1>3 DEF TInv, WorkersOK
<1>. QED
  BY <1>2, <1>4 DEF TInv, WorkersOK

(* Submit keeps the types.                                                  *)
LEMMA TypesSubmit ==
  ASSUME TInv, NEW h \in Handlers, Submit(h)
  PROVE  TInv'
<1>. DEFINE j == Len(jobs) + 1
<1>1. PICK op \in {"move", "trash"}, F \in SUBSET DOMAIN rows :
        \E dir \in IF op = "move" THEN RootDirs \cup OtherDirs ELSE {TrashRoot} :
          LET refs == {[row |-> k, src |-> rows[k].path] : k \in F}
          IN  /\ jobs' = Append(jobs, [status |-> "running", dir |-> Dest(op, dir, j),
                                       frames |-> refs, items |-> {}])
              /\ work' = [work EXCEPT ![h] =
                            [at |-> "next", job |-> j, dir |-> Dest(op, dir, j), todo |-> refs]]
  BY DEF Submit
<1>2. PICK dir \in IF op = "move" THEN RootDirs \cup OtherDirs ELSE {TrashRoot} :
          LET refs == {[row |-> k, src |-> rows[k].path] : k \in F}
          IN  /\ jobs' = Append(jobs, [status |-> "running", dir |-> Dest(op, dir, j),
                                       frames |-> refs, items |-> {}])
              /\ work' = [work EXCEPT ![h] =
                            [at |-> "next", job |-> j, dir |-> Dest(op, dir, j), todo |-> refs]]
  BY <1>1
<1>. DEFINE refs == {[row |-> k, src |-> rows[k].path] : k \in F}
            new == [status |-> "running", dir |-> Dest(op, dir, j), frames |-> refs, items |-> {}]
<1>3. j \in 1..MaxJobs /\ j \in Nat /\ Len(jobs) \in Nat /\ DOMAIN jobs = 1..Len(jobs)
  BY FileActionAssumption DEF Submit, TInv
<1>4. Dest(op, dir, j) \in Dirs
  BY <1>2, <1>3 DEF Dest, Dirs, TrashDirs
<1>5. refs \subseteq Ref
  BY DEF TInv, RowsOK, Ref
<1>6. new \in Job
  BY <1>4, <1>5 DEF Job
<1>7. jobs' = Append(jobs, new) /\ work' = [work EXCEPT ![h] =
                            [at |-> "next", job |-> j, dir |-> new.dir, todo |-> refs]]
  BY <1>2
<1>. HIDE DEF j, refs, new
<1>8. jobs' \in Seq(Job) /\ DOMAIN jobs' = 1..j /\ jobs'[j] = new
      /\ \A i \in DOMAIN jobs : i \in DOMAIN jobs' /\ jobs'[i] = jobs[i] /\ i # j
  BY <1>3, <1>6, <1>7 DEF TInv, j
<1>9. WorkersOK'
  <2>1. work'[h] = [at |-> "next", job |-> j, dir |-> new.dir, todo |-> refs]
        /\ \A g \in Handlers \ {h} : work'[g] = work[g]
    BY <1>7 DEF TInv, WorkersOK
  <2>2. WorkOK(h)'
    BY <2>1, <1>3, <1>8 DEF WorkOK, Busy, new
  <2>3. \A g \in Handlers \ {h} : WorkOK(g)' /\ (Busy(g)' <=> Busy(g)) /\ (Busy(g) => work[g].job # j)
    BY <2>1, <1>8 DEF TInv, WorkersOK, WorkOK, Busy
  <2>. QED
    BY <2>1, <2>2, <2>3, <1>7 DEF TInv, WorkersOK
<1>10. SweepOK'
  <2>1. CASE sweep.on
    <3>1. PICK w \in 0..Len(WalkOrder), a \in BOOLEAN : \E n :
            sweep = [on |-> TRUE, walked |-> w, alone |-> a, prior |-> n]
      BY <2>1 DEF TInv, SweepOK
    <3>2. PICK n : sweep = [on |-> TRUE, walked |-> w, alone |-> a, prior |-> n]
      BY <3>1
    <3>3. sweep' = [sweep EXCEPT !.alone = FALSE]
      BY <2>1 DEF Submit
    <3>4. sweep' = [on |-> TRUE, walked |-> w, alone |-> FALSE, prior |-> n]
      BY <3>2, <3>3
    <3>. QED
      BY <3>4 DEF SweepOK
  <2>2. CASE ~sweep.on
    <3>1. sweep' = sweep
      BY <2>2 DEF Submit
    <3>. QED
      BY <3>1 DEF TInv, SweepOK
  <2>. QED
    BY <2>1, <2>2
<1>11. DiskOK' /\ RowsOK' /\ StampsOK'
  BY DEF Submit, TInv, IndexUnchanged, DiskOK, RowsOK, StampsOK
<1>. QED
  BY <1>8, <1>9, <1>10, <1>11 DEF TInv

(* What does not touch the table keeps its type.                            *)
LEMMA SameTable ==
  ASSUME TInv, IndexUnchanged, SweepUnchanged
  PROVE  RowsOK' /\ StampsOK' /\ SweepOK'
BY DEF TInv, IndexUnchanged, SweepUnchanged, RowsOK, StampsOK, SweepOK

(* The steps that handle the file of a frame keep the types.                *)
LEMMA TypesFile ==
  ASSUME TInv, NEW h \in Handlers,
         Renames(h) \/ CopiesAcross(h) \/ Removes(h) \/ Fails(h) \/ IoFails(h) \/ LeavesCopy(h)
  PROVE  TInv'
<1>0. RowsOK' /\ StampsOK' /\ SweepOK' /\ jobs' = jobs
  BY SameTable DEF Renames, CopiesAcross, Removes, Fails, IoFails, LeavesCopy
<1>1. ASSUME NEW r \in work[h].todo, NEW a \in {"copied", "moved"}, NEW f \in Files,
             work[h].at = "next",
             work' = [work EXCEPT ![h] = [at |-> a, job |-> work[h].job, dir |-> work[h].dir,
                                          todo |-> work[h].todo \ {r}, cur |-> r, file |-> f]]
      PROVE  WorkersOK'
  <2>1. work'[h] = [at |-> a, job |-> work[h].job, dir |-> work[h].dir,
                    todo |-> work[h].todo \ {r}, cur |-> r, file |-> f]
    BY <1>1 DEF TInv, WorkersOK
  <2>2. Busy(h) /\ WorkOK(h)
    BY <1>1 DEF Busy, TInv, WorkersOK
  <2>3. WorkOK(h)'
    BY <1>0, <1>1, <2>1, <2>2 DEF WorkOK, Busy
  <2>. QED
    BY <1>0, <1>1, <2>2, <2>3, WorkerStep
<1>10. ASSUME NEW r \in work[h].todo, work[h].at = "next",
             work' = [work EXCEPT ![h] = [at |-> "record", job |-> work[h].job, dir |-> work[h].dir,
                                          todo |-> work[h].todo \ {r}, cur |-> r, status |-> "failed"]]
      PROVE  WorkersOK'
  <2>1. work'[h] = [at |-> "record", job |-> work[h].job, dir |-> work[h].dir,
                    todo |-> work[h].todo \ {r}, cur |-> r, status |-> "failed"]
    BY <1>10 DEF TInv, WorkersOK
  <2>2. Busy(h) /\ WorkOK(h)
    BY <1>10 DEF Busy, TInv, WorkersOK
  <2>3. WorkOK(h)'
    BY <1>0, <1>10, <2>1, <2>2 DEF WorkOK, Busy
  <2>. QED
    BY <1>0, <1>10, <2>2, <2>3, WorkerStep
<1>2. ASSUME work[h].at = "next" PROVE \A r \in work[h].todo : r.src \in RootPlaces /\ Dst(h, r) \in Places
  <2>1. Busy(h) /\ work[h].todo \subseteq jobs[work[h].job].frames
    BY <1>2 DEF Busy, TInv, WorkersOK, WorkOK
  <2>. QED
    BY <2>1, DstPlace
<1>3. CASE Renames(h)
  <2>1. PICK r \in work[h].todo :
         /\ r.src \in DOMAIN disk
         /\ disk' = With(Without(r.src), Dst(h, r), disk[r.src])
         /\ work' = [work EXCEPT ![h] =
                       [at |-> "moved", job |-> @.job, dir |-> @.dir, todo |-> @.todo \ {r},
                        cur |-> r, file |-> disk[r.src]]]
    BY <1>3 DEF Renames
  <2>2. DiskOK'
    BY <1>2, <1>3, <2>1 DEF Renames, TInv, DiskOK, With, Without
  <2>3. disk[r.src] \in Files /\ work[h].at = "next"
    BY <1>3, <2>1 DEF Renames, TInv, DiskOK
  <2>4. work' = [work EXCEPT ![h] = [at |-> "moved", job |-> work[h].job, dir |-> work[h].dir,
                             todo |-> work[h].todo \ {r}, cur |-> r, file |-> disk[r.src]]]
    BY <2>1
  <2>5. WorkersOK'
    BY <1>1, <2>3, <2>4
  <2>. QED
    BY <1>0, <2>2, <2>5 DEF TInv
<1>4. CASE CopiesAcross(h)
  <2>1. PICK r \in work[h].todo :
         /\ r.src \in DOMAIN disk
         /\ disk' = With(disk, Dst(h, r), disk[r.src])
         /\ work' = [work EXCEPT ![h] =
                       [at |-> "copied", job |-> @.job, dir |-> @.dir, todo |-> @.todo \ {r},
                        cur |-> r, file |-> disk[r.src]]]
    BY <1>4 DEF CopiesAcross
  <2>2. DiskOK'
    BY <1>2, <1>4, <2>1 DEF CopiesAcross, TInv, DiskOK, With
  <2>3. disk[r.src] \in Files /\ work[h].at = "next"
    BY <1>4, <2>1 DEF CopiesAcross, TInv, DiskOK
  <2>4. work' = [work EXCEPT ![h] = [at |-> "copied", job |-> work[h].job, dir |-> work[h].dir,
                             todo |-> work[h].todo \ {r}, cur |-> r, file |-> disk[r.src]]]
    BY <2>1
  <2>5. WorkersOK'
    BY <1>1, <2>3, <2>4
  <2>. QED
    BY <1>0, <2>2, <2>5 DEF TInv
<1>5. CASE Removes(h)
  <2>1. work[h].at = "copied" /\ disk' = Without(work[h].cur.src)
        /\ work' = [work EXCEPT ![h].at = "moved"]
    BY <1>5 DEF Removes
  <2>2. DiskOK'
    BY <2>1 DEF TInv, DiskOK, Without
  <2>3. WorkOK(h) /\ Busy(h)
    BY <2>1 DEF TInv, WorkersOK, Busy
  <2>4. work' = [work EXCEPT ![h] = [work[h] EXCEPT !.at = "moved"]]
    BY <2>1
  <2>5. [work[h] EXCEPT !.at = "moved"]
          = [at |-> "moved", job |-> work[h].job, dir |-> work[h].dir, todo |-> work[h].todo,
             cur |-> work[h].cur, file |-> work[h].file]
    BY <2>1, <2>3 DEF WorkOK
  <2>6. work'[h] = [at |-> "moved", job |-> work[h].job, dir |-> work[h].dir, todo |-> work[h].todo,
             cur |-> work[h].cur, file |-> work[h].file]
    BY <2>4, <2>5 DEF TInv, WorkersOK
  <2>7. WorkOK(h)'
    BY <1>0, <2>1, <2>3, <2>6 DEF WorkOK, Busy
  <2>8. WorkersOK'
    BY <1>0, <2>3, <2>4, <2>5, <2>7, WorkerStep
  <2>. QED
    BY <1>0, <2>2, <2>8 DEF TInv
<1>6. CASE Fails(h)
  <2>1. PICK r \in work[h].todo :
         work' = [work EXCEPT ![h] =
                       [at |-> "record", job |-> work[h].job, dir |-> work[h].dir,
                        todo |-> work[h].todo \ {r}, cur |-> r, status |-> "failed"]]
    BY <1>6 DEF Fails
  <2>2. WorkersOK'
    BY <1>10, <1>6, <2>1 DEF Fails
  <2>3. DiskOK'
    BY <1>6 DEF Fails, TInv, DiskOK
  <2>. QED
    BY <1>0, <2>2, <2>3 DEF TInv
<1>7. CASE IoFails(h)
  <2>1. DiskOK'
    BY <1>7 DEF IoFails, TInv, DiskOK
  <2>2. ASSUME work[h].at = "next", NEW r \in work[h].todo,
               work' = [work EXCEPT ![h] =
                       [at |-> "record", job |-> work[h].job, dir |-> work[h].dir,
                        todo |-> work[h].todo \ {r}, cur |-> r, status |-> "failed"]]
        PROVE  WorkersOK'
    BY <1>10, <2>2
  <2>3. ASSUME work[h].at = "copied",
               work' = [work EXCEPT ![h] =
                       [at |-> "record", job |-> work[h].job, dir |-> work[h].dir,
                        todo |-> work[h].todo, cur |-> work[h].cur, status |-> "failed"]]
        PROVE  WorkersOK'
    <3>1. WorkOK(h) /\ Busy(h)
      BY <2>3 DEF TInv, WorkersOK, Busy
    <3>2. work'[h] = [at |-> "record", job |-> work[h].job, dir |-> work[h].dir,
                        todo |-> work[h].todo, cur |-> work[h].cur, status |-> "failed"]
      BY <2>3 DEF TInv, WorkersOK
    <3>3. WorkOK(h)'
      BY <1>0, <2>3, <3>1, <3>2 DEF WorkOK, Busy
    <3>. QED
      BY <1>0, <2>3, <3>1, <3>3, WorkerStep
  <2>4. WorkersOK'
    BY <1>7, <2>2, <2>3 DEF IoFails
  <2>. QED
    BY <1>0, <2>1, <2>4 DEF TInv
<1>8. CASE LeavesCopy(h)
  <2>1. PICK r \in work[h].todo :
         /\ r.src \in DOMAIN disk
         /\ disk' = With(disk, Dst(h, r), disk[r.src])
         /\ work' = [work EXCEPT ![h] =
                       [at |-> "record", job |-> work[h].job, dir |-> work[h].dir,
                        todo |-> work[h].todo \ {r}, cur |-> r, status |-> "failed"]]
    BY <1>8 DEF LeavesCopy
  <2>2. DiskOK'
    BY <1>2, <1>8, <2>1 DEF LeavesCopy, TInv, DiskOK, With
  <2>3. WorkersOK'
    BY <1>10, <1>8, <2>1 DEF LeavesCopy
  <2>. QED
    BY <1>0, <2>2, <2>3 DEF TInv
<1>. QED
  BY <1>3, <1>4, <1>5, <1>6, <1>7, <1>8

(* The write-back keeps one row per path.                                   *)
LEMMA TypesWritesBack ==
  ASSUME TInv, NEW h \in Handlers, WritesBack(h)
  PROVE  TInv'
<1>. DEFINE k == work[h].cur.row
            p == Dst(h, work[h].cur)
<1>1. /\ work[h].at = "moved" /\ jobs' = jobs /\ disk' = disk /\ nextId' = nextId /\ fresh' = fresh
      /\ work' = [work EXCEPT ![h] = [at |-> "record", job |-> work[h].job, dir |-> work[h].dir,
                    todo |-> work[h].todo, cur |-> work[h].cur, status |-> "ok", file |-> work[h].file]]
      /\ UNCHANGED sweep
  BY DEF WritesBack, SweepUnchanged
<1>2. \/ rows' = rows /\ seen' = seen
      \/ /\ k \in DOMAIN rows /\ p \in RootPlaces /\ ~Taken(k, p)
         /\ rows' = Reanchors(k, p)
         /\ seen' = seen \/ seen' = seen \cup {k}
      \/ k \in DOMAIN rows /\ rows' = Leaves(k) /\ seen' = seen
  BY DEF WritesBack
<1>3. WorkOK(h) /\ Busy(h)
  BY <1>1 DEF TInv, WorkersOK, Busy
<1>4. WorkersOK'
  <2>1. work'[h] = [at |-> "record", job |-> work[h].job, dir |-> work[h].dir,
                    todo |-> work[h].todo, cur |-> work[h].cur, status |-> "ok", file |-> work[h].file]
    BY <1>1 DEF TInv, WorkersOK
  <2>2. WorkOK(h)'
    BY <1>1, <1>3, <2>1 DEF WorkOK, Busy
  <2>. QED
    BY <1>1, <1>3, <2>2, WorkerStep
<1>5. p \in Places
  BY <1>1, <1>3, DstPlace DEF WorkOK
<1>. HIDE DEF k, p
<1>6. RowsOK'
  <2>1. ASSUME k \in DOMAIN rows, p \in RootPlaces, ~Taken(k, p), rows' = Reanchors(k, p)
        PROVE  RowsOK'
    <3>1. rows[k] \in Row
      BY <2>1 DEF TInv, RowsOK
    <3>2. rows' = [rows EXCEPT ![k] = [rows[k] EXCEPT !.path = p, !.status = "ok"]]
      BY <2>1, <3>1 DEF Reanchors
    <3>3. rows'[k] = [path |-> p, status |-> "ok", file |-> rows[k].file]
      BY <2>1, <3>1, <3>2 DEF Row
    <3>4. DOMAIN rows' = DOMAIN rows /\ \A l \in DOMAIN rows \ {k} : rows'[l] = rows[l]
      BY <3>2
    <3>5. \A l \in DOMAIN rows \ {k} : rows[l].path # p
      BY <2>1 DEF Taken, RowsAt
    <3>6. rows'[k] \in Row
      BY <1>5, <3>1, <3>3 DEF Row
    <3>7. rows'[k].path = p
      BY <3>3
    <3>8. \A l \in DOMAIN rows' : rows'[l] \in Row /\ rows'[l].path \in RootPlaces
      BY <1>1, <2>1, <3>4, <3>6, <3>7 DEF TInv, RowsOK
    <3>9. \A l, m \in DOMAIN rows' : rows'[l].path = rows'[m].path => l = m
      BY <3>4, <3>5, <3>7 DEF TInv, RowsOK
    <3>. QED
      BY <1>1, <3>4, <3>8, <3>9 DEF TInv, RowsOK
  <2>2. ASSUME k \in DOMAIN rows, rows' = Leaves(k)
        PROVE  RowsOK'
    <3>1. rows[k] \in Row
      BY <2>2 DEF TInv, RowsOK
    <3>2. rows'[k] = [path |-> rows[k].path, status |-> "missing", file |-> rows[k].file]
      BY <2>2, <3>1 DEF Leaves, Row
    <3>3. DOMAIN rows' = DOMAIN rows /\ \A l \in DOMAIN rows \ {k} : rows'[l] = rows[l]
      BY <2>2 DEF Leaves
    <3>4. rows'[k] \in Row
      BY <3>1, <3>2 DEF Row
    <3>. QED
      BY <1>1, <2>2, <3>2, <3>3, <3>4 DEF TInv, RowsOK
  <2>3. ASSUME rows' = rows PROVE RowsOK'
    BY <1>1, <2>3 DEF TInv, RowsOK
  <2>. QED
    BY <1>2, <2>1, <2>2, <2>3
<1>7. StampsOK' /\ SweepOK' /\ DiskOK'
  BY <1>1, <1>2 DEF TInv, StampsOK, RowsOK, SweepOK, DiskOK
<1>. QED
  BY <1>1, <1>4, <1>6, <1>7 DEF TInv

(* Records and Finishes write to the handler's own job.                     *)
LEMMA OwnJobStep ==
  ASSUME TInv, NEW h \in Handlers, Busy(h), NEW job \in Job, NEW w,
         jobs' = [jobs EXCEPT ![work[h].job] = job], work' = [work EXCEPT ![h] = w], WorkOK(h)',
         w = Idle \/ w.job = work[h].job
  PROVE  WorkersOK' /\ jobs' \in Seq(Job)
<1>1. work[h].job \in DOMAIN jobs
  BY DEF TInv, WorkersOK, WorkOK
<1>2. jobs' \in Seq(Job) /\ DOMAIN jobs' = DOMAIN jobs
      /\ \A j \in DOMAIN jobs \ {work[h].job} : jobs'[j] = jobs[j]
  BY <1>1 DEF TInv
<1>3. work'[h] = w /\ DOMAIN work' = Handlers /\ \A g \in Handlers \ {h} : work'[g] = work[g]
  BY DEF TInv, WorkersOK
<1>4. \A g \in Handlers \ {h} : /\ WorkOK(g)' /\ (Busy(g)' <=> Busy(g))
                                /\ Busy(g) => work[g].job # work[h].job
  BY <1>2, <1>3 DEF TInv, WorkersOK, WorkOK, Busy
<1>5. Busy(h)' => w.job = work[h].job
  BY <1>3 DEF Busy, Idle
<1>. QED
  BY <1>2, <1>3, <1>4, <1>5 DEF TInv, WorkersOK

(* The ledger keeps its type.                                               *)
LEMMA TypesLedger ==
  ASSUME TInv, NEW h \in Handlers, Records(h) \/ Finishes(h)
  PROVE  TInv'
<1>1. DiskOK' /\ RowsOK' /\ StampsOK' /\ SweepOK'
  BY SameTable DEF Records, Finishes, TInv, DiskOK
<1>2. WorkOK(h) /\ Busy(h)
  BY DEF Records, Finishes, TInv, WorkersOK, Busy
<1>3. work[h].job \in DOMAIN jobs /\ jobs[work[h].job] \in Job
  BY <1>2 DEF TInv, WorkOK
<1>4. CASE Records(h)
  <2>1. Item(h) \in JobItem
    <3>1. work[h].cur \in Ref /\ Dst(h, work[h].cur) \in Places
      BY <1>2, <1>4, DstPlace DEF Records, WorkOK
    <3>2. work[h].status \in {"ok", "failed"}
          /\ (IF work[h].status = "ok" THEN {work[h].file} ELSE {}) \in SUBSET Files
      BY <1>2, <1>4 DEF Records, WorkOK
    <3>. QED
      BY <3>1, <3>2 DEF Item, JobItem, Ref
  <2>. DEFINE job == [jobs[work[h].job] EXCEPT !.items = @ \cup {Item(h)}]
              w == [at |-> "next", job |-> work[h].job, dir |-> work[h].dir, todo |-> work[h].todo]
  <2>2. job \in Job
    BY <1>3, <2>1 DEF Job
  <2>3. jobs' = [jobs EXCEPT ![work[h].job] = job] /\ work' = [work EXCEPT ![h] = w]
    BY <1>3, <1>4 DEF Records
  <2>4. job.status = jobs[work[h].job].status /\ job.dir = jobs[work[h].job].dir
        /\ job.frames = jobs[work[h].job].frames
    BY <1>3 DEF Job
  <2>5. w.at = "next" /\ w.job = work[h].job /\ w.dir = work[h].dir /\ w.todo = work[h].todo
    OBVIOUS
  <2>. HIDE DEF job, w
  <2>6. jobs'[work[h].job] = job /\ work'[h] = w /\ DOMAIN jobs' = DOMAIN jobs
    BY <1>3, <2>3 DEF TInv, WorkersOK
  <2>7. WorkOK(h)'
    BY <1>2, <1>3, <2>4, <2>5, <2>6 DEF WorkOK, Busy
  <2>8. WorkersOK' /\ jobs' \in Seq(Job)
    BY <1>2, <2>2, <2>3, <2>5, <2>7, OwnJobStep
  <2>. QED
    BY <1>1, <2>8 DEF TInv
<1>5. CASE Finishes(h)
  <2>1. PICK s \in {"failed", "done"} : jobs' = [jobs EXCEPT ![work[h].job].status = s]
    BY <1>5 DEF Finishes
  <2>. DEFINE job == [jobs[work[h].job] EXCEPT !.status = s]
  <2>2. job \in Job
    BY <1>3 DEF Job
  <2>3. jobs' = [jobs EXCEPT ![work[h].job] = job] /\ work' = [work EXCEPT ![h] = Idle]
    BY <1>3, <1>5, <2>1 DEF Finishes
  <2>. HIDE DEF job
  <2>4. WorkOK(h)'
    BY <2>3 DEF WorkOK, Busy, Idle, TInv, WorkersOK
  <2>5. WorkersOK' /\ jobs' \in Seq(Job)
    BY <1>2, <2>2, <2>3, <2>4, OwnJobStep
  <2>. QED
    BY <1>1, <2>5 DEF TInv
<1>. QED
  BY <1>4, <1>5

(* A handler that gives up, or all of them at once, leave types alone.      *)
LEMMA TypesGiveUp ==
  ASSUME TInv, Crash \/ \E h \in Handlers : WriteBackRefused(h) \/ RecordRefused(h) \/ StatementFails(h)
  PROVE  TInv'
<1>1. DiskOK' /\ RowsOK' /\ StampsOK' /\ SweepOK' /\ jobs' = jobs
  <2>1. CASE Crash
    BY <2>1 DEF Crash, TInv, DiskOK, RowsOK, StampsOK, SweepOK, Off
  <2>2. CASE \E h \in Handlers : WriteBackRefused(h) \/ RecordRefused(h) \/ StatementFails(h)
    BY <2>2, SameTable DEF WriteBackRefused, RecordRefused, StatementFails, Abandon, TInv, DiskOK
  <2>. QED
    BY <2>1, <2>2
<1>2. DOMAIN work' = Handlers /\ \A g \in Handlers : work'[g] = Idle \/ work'[g] = work[g]
  BY DEF Crash, WriteBackRefused, RecordRefused, StatementFails, Abandon, TInv, WorkersOK
<1>3. WorkersOK'
  <2>1. \A g \in Handlers : WorkOK(g)' /\ (Busy(g)' => Busy(g) /\ work'[g] = work[g])
    BY <1>1, <1>2 DEF TInv, WorkersOK, WorkOK, Busy, Idle
  <2>. QED
    BY <1>2, <2>1 DEF TInv, WorkersOK
<1>. QED
  BY <1>1, <1>3 DEF TInv

(* The file of a visited place gets the row of the place, or a new one.     *)
LEMMA IndexTable ==
  ASSUME TInv, NEW p \in RootPlaces, NEW f \in Files, Index(p, f)
  PROVE  RowsOK' /\ StampsOK'
<1>0. p \in Places
  BY DEF RootPlaces, Places, Dirs
<1>1. CASE RowsAt(p) # {}
  <2>1. PICK k \in RowsAt(p) :
            /\ rows' = [rows EXCEPT ![k].status = "ok", ![k].file = f]
            /\ seen' = seen \cup {k} /\ nextId' = nextId /\ fresh' = fresh
    BY <1>1 DEF Index
  <2>2. k \in DOMAIN rows /\ rows[k] \in Row
    BY DEF RowsAt, TInv, RowsOK
  <2>3. rows' = [rows EXCEPT ![k] = [rows[k] EXCEPT !.status = "ok", !.file = f]]
    BY <2>1, <2>2
  <2>4. rows'[k] = [path |-> rows[k].path, status |-> "ok", file |-> f]
    BY <2>2, <2>3 DEF Row
  <2>5. rows'[k] \in Row
    BY <2>2, <2>4 DEF Row
  <2>6. DOMAIN rows' = DOMAIN rows /\ \A l \in DOMAIN rows \ {k} : rows'[l] = rows[l]
    BY <2>3
  <2>. QED
    BY <2>1, <2>2, <2>4, <2>5, <2>6 DEF TInv, RowsOK, StampsOK
<1>2. CASE RowsAt(p) = {}
  <2>. DEFINE r == [path |-> p, status |-> "ok", file |-> f]
  <2>1. /\ rows' = With(rows, nextId, r) /\ nextId' = nextId + 1
        /\ seen' = seen \cup {nextId} /\ fresh' = fresh \cup {nextId}
    BY <1>2 DEF Index
  <2>2. DOMAIN rows' = DOMAIN rows \cup {nextId} /\ nextId \notin DOMAIN rows
        /\ rows'[nextId] = r /\ \A l \in DOMAIN rows : rows'[l] = rows[l]
    BY <2>1 DEF With, TInv, RowsOK
  <2>3. r \in Row /\ r.path = p
    BY <1>0 DEF Row
  <2>4. \A l \in DOMAIN rows : rows[l].path # p
    BY <1>2 DEF RowsAt
  <2>5. DOMAIN rows' \subseteq 1..nextId' - 1 /\ nextId' \in Nat \ {0}
    BY <2>1, <2>2 DEF TInv, RowsOK
  <2>. HIDE DEF r
  <2>6. \A k \in DOMAIN rows' : rows'[k] \in Row /\ rows'[k].path \in RootPlaces
    BY <2>2, <2>3 DEF TInv, RowsOK
  <2>7. \A k, l \in DOMAIN rows' : rows'[k].path = rows'[l].path => k = l
    BY <2>2, <2>3, <2>4 DEF TInv, RowsOK
  <2>8. StampsOK'
    BY <2>1 DEF TInv, RowsOK, StampsOK
  <2>. QED
    BY <2>5, <2>6, <2>7, <2>8 DEF RowsOK
<1>. QED
  BY <1>1, <1>2

(* A clear rename has one row on either side.                               *)
LEMMA TargetFacts ==
  ASSUME TInv
  PROVE  \A v \in Vanished : \A a \in MoveTargets(v) :
           /\ a \in DOMAIN rows /\ a \in fresh /\ a \notin Vanished /\ rows[a].file = rows[v].file
           /\ \A u \in Vanished : a \in MoveTargets(u) => u = v
BY DEF TInv, StampsOK, MoveTargets, Appeared, Vanished

(* The rows that the reconciliation takes for renamed. *)
Moving == {v \in Vanished : MoveTargets(v) # {}}

(* What the reconciliation leaves in the table.                             *)
LEMMA ReconcileEffect ==
  ASSUME TInv, SweepReconciles, ~Unhealthy
  PROVE  \E target \in [Moving -> DOMAIN rows] :
           /\ \A v \in Moving : target[v] \in MoveTargets(v)
           /\ DOMAIN rows' = DOMAIN rows \ {target[v] : v \in Moving}
           /\ \A k \in DOMAIN rows' :
                /\ k \in Moving => rows'[k] = rows[target[k]]
                /\ k \in Vanished \ Moving => rows'[k] = [rows[k] EXCEPT !.status = "missing"]
                /\ k \notin Vanished => rows'[k] = rows[k]
<1>. DEFINE target == [v \in Moving |-> CHOOSE a \in MoveTargets(v) : TRUE]
<1>1. \A v \in Moving : target[v] \in MoveTargets(v)
  BY DEF Moving
<1>2. target \in [Moving -> DOMAIN rows]
  BY <1>1, TargetFacts DEF Moving
<1>3. rows' = [k \in DOMAIN rows \ {target[v] : v \in Moving} |->
                 IF k \in Moving THEN rows[target[k]]
                 ELSE IF k \in Vanished THEN [rows[k] EXCEPT !.status = "missing"]
                 ELSE rows[k]]
  BY DEF SweepReconciles, Moving
<1>. HIDE DEF target
<1>4. DOMAIN rows' = DOMAIN rows \ {target[v] : v \in Moving}
  BY <1>3
<1>5. \A k \in DOMAIN rows' :
                /\ k \in Moving => rows'[k] = rows[target[k]]
                /\ k \in Vanished \ Moving => rows'[k] = [rows[k] EXCEPT !.status = "missing"]
                /\ k \notin Vanished => rows'[k] = rows[k]
  BY <1>3 DEF Moving
<1>. QED
  BY <1>1, <1>2, <1>4, <1>5

(* The sweep keeps the types.                                               *)
LEMMA TypesSweep ==
  ASSUME TInv, SweepStarts \/ SweepVisits \/ SweepReconciles
  PROVE  TInv'
<1>1. DiskOK' /\ jobs' = jobs /\ work' = work
  BY DEF SweepStarts, SweepVisits, SweepReconciles, TInv, DiskOK
<1>2. WorkersOK'
  BY <1>1 DEF TInv, WorkersOK, WorkOK, Busy
<1>3. CASE SweepStarts
  <2>1. RowsOK' /\ StampsOK'
    BY <1>3 DEF SweepStarts, TInv, RowsOK, StampsOK
  <2>2. SweepOK'
    <3>1. PICK alone \in BOOLEAN : \E prior : sweep' = [on |-> TRUE, walked |-> 0, alone |-> alone, prior |-> prior]
      BY <1>3 DEF SweepStarts
    <3>2. 0 \in 0..Len(WalkOrder)
      BY FileActionAssumption
    <3>3. PICK prior : sweep' = [on |-> TRUE, walked |-> 0, alone |-> alone, prior |-> prior]
      BY <3>1
    <3>. QED
      BY <3>2, <3>3 DEF SweepOK
  <2>. QED
    BY <1>1, <1>2, <2>1, <2>2 DEF TInv
<1>4. CASE SweepVisits
  <2>0. sweep.on /\ SweepOK
    BY <1>4 DEF SweepVisits, TInv
  <2>1. SweepOK' /\ sweep.walked \in 0..Len(WalkOrder)
    <3>1. PICK w \in 0..Len(WalkOrder), a \in BOOLEAN : \E n :
            sweep = [on |-> TRUE, walked |-> w, alone |-> a, prior |-> n]
      BY <2>0 DEF SweepOK
    <3>2. PICK n : sweep = [on |-> TRUE, walked |-> w, alone |-> a, prior |-> n]
      BY <3>1
    <3>3. sweep.walked = w /\ w + 1 \in 0..Len(WalkOrder)
      BY <1>4, <3>2, FileActionAssumption DEF SweepVisits
    <3>4. sweep' = [on |-> TRUE, walked |-> w + 1, alone |-> a, prior |-> n]
      BY <1>4, <3>2 DEF SweepVisits
    <3>. QED
      BY <3>3, <3>4 DEF SweepOK
  <2>. DEFINE p == WalkOrder[sweep.walked + 1]
  <2>2. p \in RootPlaces
    BY <1>4, <2>1, FileActionAssumption DEF SweepVisits
  <2>3. CASE p \in DOMAIN disk
    <3>1. Index(p, disk[p]) /\ disk[p] \in Files
      BY <1>4, <2>3 DEF SweepVisits, TInv, DiskOK
    <3>2. RowsOK' /\ StampsOK'
      BY <2>2, <3>1, IndexTable
    <3>. QED
      BY <1>1, <1>2, <2>1, <3>2 DEF TInv
  <2>4. CASE p \notin DOMAIN disk
    <3>1. IndexUnchanged
      BY <1>4, <2>4 DEF SweepVisits
    <3>2. RowsOK' /\ StampsOK'
      BY <3>1 DEF IndexUnchanged, TInv, RowsOK, StampsOK
    <3>. QED
      BY <1>1, <1>2, <2>1, <3>2 DEF TInv
  <2>. QED
    BY <2>3, <2>4
<1>5. CASE SweepReconciles
  <2>1. SweepOK' /\ StampsOK' /\ nextId' = nextId
    BY <1>5 DEF SweepReconciles, SweepOK, StampsOK, Off
  <2>2. CASE Unhealthy
    <3>1. RowsOK'
      BY <1>5, <2>2 DEF SweepReconciles, TInv, RowsOK
    <3>. QED
      BY <1>1, <1>2, <2>1, <3>1 DEF TInv
  <2>3. CASE ~Unhealthy
    <3>1. PICK target \in [Moving -> DOMAIN rows] :
           /\ \A v \in Moving : target[v] \in MoveTargets(v)
           /\ DOMAIN rows' = DOMAIN rows \ {target[v] : v \in Moving}
           /\ \A k \in DOMAIN rows' :
                /\ k \in Moving => rows'[k] = rows[target[k]]
                /\ k \in Vanished \ Moving => rows'[k] = [rows[k] EXCEPT !.status = "missing"]
                /\ k \notin Vanished => rows'[k] = rows[k]
      BY <1>5, <2>3, ReconcileEffect
    <3>2. \A k \in DOMAIN rows' : k \in DOMAIN rows /\ rows[k] \in Row
                                  /\ (k \in Moving => target[k] \in DOMAIN rows)
      BY <3>1 DEF TInv, RowsOK
    <3>3. \A k \in DOMAIN rows' \ Moving : rows'[k].path = rows[k].path /\ rows'[k] \in Row
      <4>1. \A r \in Row : /\ [r EXCEPT !.status = "missing"].path = r.path
                            /\ [r EXCEPT !.status = "missing"] \in Row
        BY DEF Row
      <4>2. ASSUME NEW k \in DOMAIN rows' \ Moving PROVE rows'[k].path = rows[k].path /\ rows'[k] \in Row
        <5>1. rows[k] \in Row
          BY <3>2
        <5>2. rows'[k] = [rows[k] EXCEPT !.status = "missing"] \/ rows'[k] = rows[k]
          BY <3>1, <4>2
        <5>. QED
          BY <4>1, <5>1, <5>2
      <4>. QED
        BY <4>2
    <3>4. \A k \in DOMAIN rows' \cap Moving : rows'[k].path = rows[target[k]].path /\ rows'[k] \in Row
      <4>1. \A l \in DOMAIN rows : rows[l] \in Row
        BY DEF TInv, RowsOK
      <4>2. \A k \in DOMAIN rows' \cap Moving : target[k] \in DOMAIN rows /\ rows'[k] = rows[target[k]]
        BY <3>1, <3>2, Zenon
      <4>. QED
        BY <4>1, <4>2
    <3>5. \A k \in Moving : k \in Vanished
      BY DEF Moving
    <3>6. \A k, l \in Moving : target[k] = target[l] => k = l
      BY <3>1, <3>5, TargetFacts
    <3>7. \A k \in DOMAIN rows' : rows'[k] \in Row /\ rows'[k].path \in RootPlaces
      BY <3>2, <3>3, <3>4 DEF TInv, RowsOK
    <3>8. \A k, l \in DOMAIN rows' : rows'[k].path = rows'[l].path => k = l
      BY <3>1, <3>2, <3>3, <3>4, <3>6 DEF TInv, RowsOK
    <3>9. RowsOK'
      BY <2>1, <3>1, <3>7, <3>8 DEF TInv, RowsOK
    <3>. QED
      BY <1>1, <1>2, <2>1, <3>9 DEF TInv
  <2>. QED
    BY <2>2, <2>3
<1>. QED
  BY <1>3, <1>4, <1>5

(* Every step keeps the types.                                              *)
LEMMA TypesStep ==
  ASSUME TInv, [Next]_vars
  PROVE  TInv'
<1>1. CASE UNCHANGED vars
  BY <1>1 DEF vars, TInv, DiskOK, RowsOK, WorkersOK, WorkOK, Busy, SweepOK, StampsOK
<1>2. ASSUME NEW h \in Handlers, Handler(h) PROVE TInv'
  BY <1>2, TypesSubmit, TypesFile, TypesWritesBack, TypesLedger, TypesGiveUp DEF Handler
<1>. QED
  BY <1>1, <1>2, TypesGiveUp, TypesSweep DEF Next

(* The invariant of part A holds throughout.                                *)
LEMMA TInvAlways == Spec => []TInv
BY InitTInv, TypesStep, PTL DEF Spec

(* Paths stay unique, rows and files of their type, and a handler's job is  *)
(* running, whatever jobs, sweeps and failures do to one another.           *)
THEOREM FileActionTypes == Spec => []TypeOK
<1>1. TInv => TypeOK
  BY DEF TInv, DiskOK, RowsOK, WorkersOK, WorkOK, StampsOK, TypeOK
<1>. QED
  BY <1>1, TInvAlways, PTL

-----------------------------------------------------------------------------
(***************************************************************************)
(* B. Only a namesake destroys a file.                                     *)
(***************************************************************************)

(* A move keeps the name. *)
NamesKept == \A p \in DOMAIN disk : Home[disk[p]][2] = p[2]

(* No other file has the name of f. *)
Unlike(f) == \A g \in Files \ {f} : Home[g][2] # Home[f][2]

(* Until the original is removed, the copy of a file unlike others stands,  *)
(* or a job took it from a root for its own, and left the file to a sweep.  *)
CopyStands(h) ==
    /\ Crosses(h, work[h].cur)
    /\ Home[work[h].file][2] = work[h].cur.src[2]
    /\ Unlike(work[h].file) => \/ Holds(Dst(h, work[h].cur), work[h].file)
                               \/ /\ Dst(h, work[h].cur) \in RootPlaces
                                  /\ work[h].file \in astray
CopiesStand == \A h \in Handlers : work[h].at = "copied" => CopyStands(h)

(* A file unlike others is there, or is such a copy's. *)
Survivors ==
    \A f \in Files : Unlike(f) => (\E p \in DOMAIN disk : disk[p] = f) \/ (RootsApart /\ f \in astray)

(* No job runs while a sweep is alone. *)
AloneOK == sweep.on /\ sweep.alone => \A h \in Handlers : ~Busy(h)

(* The inductive invariant of part B. *)
LInv == NamesKept /\ CopiesStand /\ Survivors /\ AloneOK

(* What a rename does to the disk and to the handlers. *)
Renamed(h, r) ==
    /\ work[h].at = "next" /\ r \in work[h].todo /\ ~Crosses(h, r) /\ r.src \in DOMAIN disk
    /\ DOMAIN disk' = (DOMAIN disk \ {r.src}) \cup {Dst(h, r)}
    /\ disk'[Dst(h, r)] = disk[r.src]
    /\ \A q \in DOMAIN disk \ {r.src, Dst(h, r)} : disk'[q] = disk[q]
    /\ work'[h] = [at |-> "moved", job |-> work[h].job, dir |-> work[h].dir,
                   todo |-> work[h].todo \ {r}, cur |-> r, file |-> disk[r.src]]

(* What a copy does to the disk. *)
CopyMade(h, r) ==
    /\ work[h].at = "next" /\ r \in work[h].todo /\ r.src \in DOMAIN disk
    /\ Dst(h, r) \notin DOMAIN disk
    /\ DOMAIN disk' = DOMAIN disk \cup {Dst(h, r)}
    /\ disk'[Dst(h, r)] = disk[r.src]
    /\ \A q \in DOMAIN disk : disk'[q] = disk[q]

(* A copy whose original is removed next. *)
Copied(h, r) ==
    /\ CopyMade(h, r) /\ Crosses(h, r)
    /\ work'[h] = [at |-> "copied", job |-> work[h].job, dir |-> work[h].dir,
                   todo |-> work[h].todo \ {r}, cur |-> r, file |-> disk[r.src]]

(* A copy whose original cannot be removed. *)
CopyLeft(h, r) ==
    /\ CopyMade(h, r)
    /\ work'[h] = [at |-> "record", job |-> work[h].job, dir |-> work[h].dir,
                   todo |-> work[h].todo \ {r}, cur |-> r, status |-> "failed"]

(* What the removal of the original does to disk and handlers. *)
Removed(h) ==
    /\ work[h].at = "copied"
    /\ DOMAIN disk' = DOMAIN disk \ {work[h].cur.src}
    /\ \A q \in DOMAIN disk' : disk'[q] = disk[q]
    /\ work'[h] = [at |-> "moved", job |-> work[h].job, dir |-> work[h].dir,
                   todo |-> work[h].todo, cur |-> work[h].cur, file |-> work[h].file]

(* The step is that of h. *)
OthersWait(h) == \A g \in Handlers \ {h} : work'[g] = work[g]

(* The four steps that change the disk. *)
ChangesDisk(h) == Renames(h) \/ CopiesAcross(h) \/ Removes(h) \/ LeavesCopy(h)

(* Each of them, by what it does.                                           *)
LEMMA RenamesEffect ==
  ASSUME TInv, NEW h \in Handlers, Renames(h)
  PROVE  \E r \in work[h].todo :
           /\ Renamed(h, r)
           /\ LeftToSweep(h, r.row, r.src, disk[r.src], {r.src, Dst(h, r)}, {})
<1>1. PICK r \in work[h].todo :
         /\ ~Crosses(h, r)
         /\ r.src \in DOMAIN disk
         /\ disk' = With(Without(r.src), Dst(h, r), disk[r.src])
         /\ work' = [work EXCEPT ![h] =
                       [at |-> "moved", job |-> work[h].job, dir |-> work[h].dir,
                        todo |-> work[h].todo \ {r}, cur |-> r, file |-> disk[r.src]]]
         /\ LeftToSweep(h, r.row, r.src, disk[r.src], {r.src, Dst(h, r)}, {})
  BY DEF Renames
<1>2. /\ DOMAIN disk' = (DOMAIN disk \ {r.src}) \cup {Dst(h, r)}
      /\ disk'[Dst(h, r)] = disk[r.src]
      /\ \A q \in DOMAIN disk \ {r.src, Dst(h, r)} : disk'[q] = disk[q]
  BY <1>1 DEF With, Without
<1>3. work'[h] = [at |-> "moved", job |-> work[h].job, dir |-> work[h].dir,
                  todo |-> work[h].todo \ {r}, cur |-> r, file |-> disk[r.src]]
  BY <1>1 DEF TInv, WorkersOK
<1>4. work[h].at = "next"
  BY DEF Renames
<1>. QED
  BY <1>1, <1>2, <1>3, <1>4 DEF Renamed

(* CopiesAcross is a copy.                                                  *)
LEMMA CopiesEffect ==
  ASSUME TInv, NEW h \in Handlers, CopiesAcross(h)
  PROVE  \E r \in work[h].todo :
           Copied(h, r) /\ LeftToSweep(h, r.row, r.src, disk[r.src], {Dst(h, r)}, {})
<1>1. PICK r \in work[h].todo :
         /\ Crosses(h, r)
         /\ r.src \in DOMAIN disk
         /\ Dst(h, r) \notin DOMAIN disk
         /\ disk' = With(disk, Dst(h, r), disk[r.src])
         /\ work' = [work EXCEPT ![h] =
                       [at |-> "copied", job |-> work[h].job, dir |-> work[h].dir,
                        todo |-> work[h].todo \ {r}, cur |-> r, file |-> disk[r.src]]]
         /\ LeftToSweep(h, r.row, r.src, disk[r.src], {Dst(h, r)}, {})
  BY DEF CopiesAcross
<1>2. /\ DOMAIN disk' = DOMAIN disk \cup {Dst(h, r)}
      /\ disk'[Dst(h, r)] = disk[r.src]
      /\ \A q \in DOMAIN disk : disk'[q] = disk[q]
  BY <1>1 DEF With
<1>3. work'[h] = [at |-> "copied", job |-> work[h].job, dir |-> work[h].dir,
                  todo |-> work[h].todo \ {r}, cur |-> r, file |-> disk[r.src]]
  BY <1>1 DEF TInv, WorkersOK
<1>4. work[h].at = "next"
  BY DEF CopiesAcross
<1>. QED
  BY <1>1, <1>2, <1>3, <1>4 DEF Copied, CopyMade

(* LeavesCopy is one whose original stays.                                  *)
LEMMA LeavesEffect ==
  ASSUME TInv, NEW h \in Handlers, LeavesCopy(h)
  PROVE  \E r \in work[h].todo :
           /\ CopyLeft(h, r)
           /\ LeftToSweep(h, r.row, r.src, disk[r.src], {Dst(h, r)}, Stray(h, r, disk[r.src]))
<1>1. PICK r \in work[h].todo :
         /\ r.src \in DOMAIN disk
         /\ Dst(h, r) \notin DOMAIN disk
         /\ disk' = With(disk, Dst(h, r), disk[r.src])
         /\ work' = [work EXCEPT ![h] =
                       [at |-> "record", job |-> work[h].job, dir |-> work[h].dir,
                        todo |-> work[h].todo \ {r}, cur |-> r, status |-> "failed"]]
         /\ LeftToSweep(h, r.row, r.src, disk[r.src], {Dst(h, r)}, Stray(h, r, disk[r.src]))
  BY DEF LeavesCopy
<1>2. /\ DOMAIN disk' = DOMAIN disk \cup {Dst(h, r)}
      /\ disk'[Dst(h, r)] = disk[r.src]
      /\ \A q \in DOMAIN disk : disk'[q] = disk[q]
  BY <1>1 DEF With
<1>3. work'[h] = [at |-> "record", job |-> work[h].job, dir |-> work[h].dir,
                  todo |-> work[h].todo \ {r}, cur |-> r, status |-> "failed"]
  BY <1>1 DEF TInv, WorkersOK
<1>4. work[h].at = "next"
  BY DEF LeavesCopy
<1>. QED
  BY <1>1, <1>2, <1>3, <1>4 DEF CopyLeft, CopyMade

(* Removes is such a removal.                                               *)
LEMMA RemovesEffect ==
  ASSUME TInv, NEW h \in Handlers, Removes(h)
  PROVE  /\ Removed(h)
         /\ LeftToSweep(h, work[h].cur.row, work[h].cur.src, work[h].file, {work[h].cur.src}, {})
<1>1. /\ work[h].at = "copied" /\ disk' = Without(work[h].cur.src)
      /\ work' = [work EXCEPT ![h].at = "moved"]
      /\ LeftToSweep(h, work[h].cur.row, work[h].cur.src, work[h].file, {work[h].cur.src}, {})
  BY DEF Removes
<1>2. WorkOK(h)
  BY DEF TInv, WorkersOK
<1>3. work'[h] = [work[h] EXCEPT !.at = "moved"]
  BY <1>1 DEF TInv, WorkersOK
<1>4. work'[h] = [at |-> "moved", job |-> work[h].job, dir |-> work[h].dir,
                   todo |-> work[h].todo, cur |-> work[h].cur, file |-> work[h].file]
  BY <1>1, <1>2, <1>3 DEF WorkOK
<1>5. /\ DOMAIN disk' = DOMAIN disk \ {work[h].cur.src}
      /\ \A q \in DOMAIN disk' : disk'[q] = disk[q]
  BY <1>1 DEF Without
<1>. QED
  BY <1>1, <1>4, <1>5 DEF Removed

(* Whoever changes the disk leaves the other handlers and the tables alone. *)
LEMMA FileStepFrame ==
  ASSUME TInv, NEW h \in Handlers, ChangesDisk(h)
  PROVE  /\ OthersWait(h) /\ IndexUnchanged /\ SweepUnchanged /\ UNCHANGED <<device, jobs>>
         /\ astray \subseteq astray' /\ Busy(h)
<1>1. OthersWait(h)
  BY DEF ChangesDisk, Renames, CopiesAcross, Removes, LeavesCopy, TInv, WorkersOK, OthersWait
<1>2. Busy(h)
  BY DEF ChangesDisk, Renames, CopiesAcross, Removes, LeavesCopy, Busy
<1>3. astray \subseteq astray'
  BY DEF ChangesDisk, Renames, CopiesAcross, Removes, LeavesCopy, LeftToSweep
<1>. QED
  BY <1>1, <1>2, <1>3 DEF ChangesDisk, Renames, CopiesAcross, Removes, LeavesCopy

(* No other step changes the disk, or what a handler has copied or moved.   *)
LEMMA SameDisk ==
  ASSUME TInv, [Next]_vars, ~ \E h \in Handlers : ChangesDisk(h)
  PROVE  /\ UNCHANGED <<disk, device>>
         /\ \A h \in Handlers : work'[h].at \in {"copied", "moved"} => work'[h] = work[h]
         /\ SweepReconciles \/ astray \subseteq astray'
<1>1. ASSUME NEW h \in Handlers, Handler(h), ~ChangesDisk(h)
      PROVE  /\ UNCHANGED <<disk, device>> /\ astray \subseteq astray'
             /\ \A g \in Handlers \ {h} : work'[g] = work[g]
             /\ work'[h].at \in {"idle", "next", "record"}
  <2>1. CASE Submit(h)
    BY <2>1 DEF Submit, HistoryUnchanged, TInv, WorkersOK
  <2>2. CASE Fails(h) \/ IoFails(h)
    BY <2>2 DEF Fails, IoFails, HistoryUnchanged, TInv, WorkersOK
  <2>3. CASE WritesBack(h)
    BY <2>3 DEF WritesBack, HistoryUnchanged, TInv, WorkersOK
  <2>4. CASE Records(h) \/ Finishes(h)
    BY <2>4 DEF Records, Finishes, HistoryUnchanged, TInv, WorkersOK, Idle
  <2>5. CASE WriteBackRefused(h) \/ RecordRefused(h) \/ StatementFails(h)
    BY <2>5 DEF WriteBackRefused, RecordRefused, StatementFails, Abandon, TInv, WorkersOK, Idle
  <2>. QED
    BY <1>1, <2>1, <2>2, <2>3, <2>4, <2>5 DEF Handler, ChangesDisk
<1>2. CASE Crash
  BY <1>2 DEF Crash, Idle
<1>3. CASE SweepStarts \/ SweepVisits \/ SweepReconciles \/ UNCHANGED vars
  BY <1>3 DEF SweepStarts, SweepVisits, SweepReconciles, HistoryUnchanged, vars
<1>. QED
  BY <1>1, <1>2, <1>3 DEF Next

(* A sweep is alone until a job is submitted.                               *)
LEMMA AloneStep ==
  ASSUME TInv, AloneOK, [Next]_vars
  PROVE  AloneOK'
<1>1. ASSUME NEW h \in Handlers, Handler(h) PROVE AloneOK'
  <2>1. CASE Submit(h)
    BY <2>1 DEF Submit, AloneOK, TInv, SweepOK
  <2>2. CASE ~Submit(h)
    <3>1. sweep' = sweep /\ Busy(h)
      BY <1>1, <2>2 DEF Handler, Renames, CopiesAcross, Removes, Fails, IoFails, LeavesCopy,
         WritesBack, Records, Finishes, WriteBackRefused, RecordRefused, StatementFails, Abandon,
         SweepUnchanged, Busy
    <3>. QED
      BY <3>1 DEF AloneOK
  <2>. QED
    BY <2>1, <2>2
<1>2. CASE Crash \/ SweepReconciles
  BY <1>2 DEF Crash, SweepReconciles, AloneOK, Off
<1>3. CASE SweepStarts
  BY <1>3 DEF SweepStarts, AloneOK, Busy
<1>4. CASE SweepVisits
  BY <1>4 DEF SweepVisits, AloneOK, Busy, TInv, SweepOK
<1>5. CASE UNCHANGED vars
  BY <1>5 DEF vars, AloneOK, Busy
<1>. QED
  BY <1>1, <1>2, <1>3, <1>4, <1>5 DEF Next

(* The files are at home at first, each at a place of its own.              *)
LEMMA InitDisk ==
  ASSUME Init
  PROVE  /\ DOMAIN disk = {Home[f] : f \in Files}
         /\ \A f \in Files : disk[Home[f]] = f
<1>1. \A f \in Files : (CHOOSE g \in Files : Home[g] = Home[f]) = f
  BY FileActionAssumption
<1>. QED
  BY <1>1 DEF Init

(* At first every file is at a place of its name, and nothing is copied.    *)
LEMMA InitLInv == Init => LInv
<1>. SUFFICES ASSUME Init PROVE LInv
  OBVIOUS
<1>1. NamesKept /\ Survivors
  BY InitDisk DEF NamesKept, Survivors
<1>2. CopiesStand /\ AloneOK
  BY DEF Init, CopiesStand, AloneOK, Idle, Off
<1>. QED
  BY <1>1, <1>2 DEF LInv

(* Who takes what another job carries leaves the file to a sweep.           *)
LEMMA TakenIsAstray ==
  ASSUME NEW h \in Handlers, NEW g \in Handlers \ {h}, g \in Carried,
         NEW k, NEW src, NEW places, NEW left, LeftToSweep(h, k, src, work[g].file, places, left)
  PROVE  work[g].file \in astray'
BY DEF LeftToSweep, Own

(* A copy stands while others rename, copy and remove, or its file is left  *)
(* to a sweep.                                                              *)
LEMMA CopyStandsStep ==
  ASSUME TInv, LInv, NEW h \in Handlers, NEW g \in Handlers, g # h, work[g].at = "copied",
         ChangesDisk(h)
  PROVE  CopyStands(g)'
<1>1. work'[g] = work[g] /\ device' = device /\ astray \subseteq astray'
  BY FileStepFrame DEF OthersWait
<1>2. CopyStands(g) /\ g \in Carried /\ work[g].file \in Files
  BY DEF LInv, CopiesStand, Carried, TInv, WorkersOK, WorkOK
<1>. DEFINE d == Dst(g, work[g].cur)
            f == work[g].file
<1>3. Dst(g, work[g].cur)' = d /\ Crosses(g, work[g].cur)' /\ Home[work[g].file][2]' = work[g].cur.src[2]'
  BY <1>1, <1>2 DEF Dst, Crosses, CopyStands
<1>4. ASSUME Unlike(f), Holds(d, f)
      PROVE  (d \in DOMAIN disk' /\ disk'[d] = f) \/ (d \in RootPlaces /\ f \in astray')
  <2>. HIDE DEF d, f
  <2>1. d \in DOMAIN disk /\ disk[d] = f /\ Home[f][2] = d[2]
    BY <1>4 DEF Holds, LInv, NamesKept
  <2>2. CASE Renames(h)
    <3>1. PICK r \in work[h].todo :
            Renamed(h, r) /\ LeftToSweep(h, r.row, r.src, disk[r.src], {r.src, Dst(h, r)}, {})
      BY <2>2, RenamesEffect
    <3>2. Busy(h) /\ r \in jobs[work[h].job].frames
      BY <3>1 DEF Renamed, Busy, TInv, WorkersOK, WorkOK
    <3>3. r.src \in RootPlaces /\ Dst(h, r)[2] = r.src[2]
      BY <3>2, DstPlace DEF Dst
    <3>4. CASE Dst(h, r) = d
      <4>1. disk[r.src] \in Files /\ Home[disk[r.src]][2] = Home[f][2]
        BY <2>1, <3>1, <3>3, <3>4 DEF Renamed, LInv, NamesKept, TInv, DiskOK
      <4>2. disk[r.src] = f
        BY <1>4, <4>1 DEF Unlike
      <4>. QED
        BY <3>1, <3>4, <4>2 DEF Renamed
    <3>5. CASE r.src = d
      <4>1. f \in astray'
        BY <1>2, <2>1, <3>1, <3>5, TakenIsAstray DEF f
      <4>. QED
        BY <3>3, <3>5, <4>1
    <3>6. CASE d \notin {r.src, Dst(h, r)}
      BY <2>1, <3>1, <3>6 DEF Renamed
    <3>. QED
      BY <3>4, <3>5, <3>6
  <2>3. CASE CopiesAcross(h) \/ LeavesCopy(h)
    <3>1. \E r \in work[h].todo : CopyMade(h, r)
      BY <2>3, CopiesEffect, LeavesEffect DEF Copied, CopyLeft
    <3>. QED
      BY <2>1, <3>1 DEF CopyMade
  <2>4. CASE Removes(h)
    <3>1. /\ Removed(h)
          /\ LeftToSweep(h, work[h].cur.row, work[h].cur.src, work[h].file, {work[h].cur.src}, {})
      BY <2>4, RemovesEffect
    <3>2. CASE work[h].cur.src = d
      <4>1. Busy(h) /\ work[h].cur \in jobs[work[h].job].frames /\ work[h].file \in Files
        BY <3>1 DEF Removed, Busy, TInv, WorkersOK, WorkOK
      <4>2. d \in RootPlaces
        BY <3>2, <4>1, DstPlace
      <4>3. Home[work[h].file][2] = Home[f][2]
        BY <2>1, <3>1, <3>2 DEF Removed, LInv, CopiesStand, CopyStands
      <4>4. work[h].file = f
        BY <1>4, <4>1, <4>3 DEF Unlike
      <4>5. f \in astray'
        BY <1>2, <3>1, <4>4, TakenIsAstray DEF f
      <4>. QED
        BY <4>2, <4>5
    <3>3. CASE work[h].cur.src # d
      BY <2>1, <3>1, <3>3 DEF Removed
    <3>. QED
      BY <3>2, <3>3
  <2>. QED
    BY <2>2, <2>3, <2>4 DEF ChangesDisk
<1>5. Unlike(f) => (d \in DOMAIN disk' /\ disk'[d] = f) \/ (d \in RootPlaces /\ f \in astray')
  BY <1>1, <1>2, <1>4 DEF CopyStands
<1>. QED
  BY <1>1, <1>3, <1>5 DEF CopyStands, Unlike, Holds

(* A rename that destroys a file does so to a namesake of the one moved.    *)
LEMMA LossRenames ==
  ASSUME TInv, LInv, NEW h \in Handlers, Renames(h)
  PROVE  NamesKept' /\ CopiesStand' /\ Survivors'
<1>1. PICK r \in work[h].todo : Renamed(h, r)
  BY RenamesEffect
<1>2. Dst(h, r)[2] = r.src[2]
  BY DEF Dst
<1>3. NamesKept'
  BY <1>1, <1>2 DEF Renamed, LInv, NamesKept
<1>4. CopiesStand'
  <2>1. work'[h].at = "moved"
    BY <1>1 DEF Renamed
  <2>2. \A g \in Handlers \ {h} : work'[g] = work[g]
    BY FileStepFrame DEF OthersWait, ChangesDisk
  <2>. QED
    BY <2>1, <2>2, CopyStandsStep DEF CopiesStand, ChangesDisk
<1>5. Survivors'
  <2>. SUFFICES ASSUME NEW f \in Files, Unlike(f), NEW p \in DOMAIN disk, disk[p] = f
                PROVE  \E q \in DOMAIN disk' : disk'[q] = f
    BY FileStepFrame DEF Survivors, Unlike, LInv, RootsApart, ChangesDisk
  <2>2. CASE p = r.src
    BY <1>1, <2>2 DEF Renamed
  <2>3. CASE p = Dst(h, r)
    <3>1. Home[disk[r.src]][2] = Home[f][2] /\ disk[r.src] \in Files
      BY <1>1, <1>2, <2>3 DEF Renamed, LInv, NamesKept, TInv, DiskOK
    <3>2. disk[r.src] = f
      BY <3>1 DEF Unlike
    <3>. QED
      BY <1>1, <3>2 DEF Renamed
  <2>4. CASE p \notin {r.src, Dst(h, r)}
    BY <1>1, <2>4 DEF Renamed
  <2>. QED
    BY <2>2, <2>3, <2>4
<1>. QED
  BY <1>3, <1>4, <1>5

(* A copy destroys nothing and does not overwrite.                          *)
LEMMA LossCopies ==
  ASSUME TInv, LInv, NEW h \in Handlers, CopiesAcross(h) \/ LeavesCopy(h)
  PROVE  NamesKept' /\ CopiesStand' /\ Survivors'
<1>. ChangesDisk(h)
  BY DEF ChangesDisk
<1>1. PICK r \in work[h].todo : CopyMade(h, r) /\ (Copied(h, r) \/ CopyLeft(h, r))
  BY CopiesEffect, LeavesEffect DEF Copied, CopyLeft
<1>2. Dst(h, r)[2] = r.src[2]
  BY DEF Dst
<1>3. NamesKept'
  BY <1>1, <1>2 DEF CopyMade, LInv, NamesKept
<1>4. Survivors'
  <2>. SUFFICES ASSUME NEW f \in Files, Unlike(f), NEW p \in DOMAIN disk, disk[p] = f
                PROVE  \E q \in DOMAIN disk' : disk'[q] = f
    BY FileStepFrame DEF Survivors, Unlike, LInv, RootsApart
  <2>. QED
    BY <1>1 DEF CopyMade
<1>5. ASSUME work'[h].at = "copied" PROVE CopyStands(h)'
  <2>1. Copied(h, r)
    BY <1>1, <1>5 DEF CopyLeft
  <2>2. work'[h].dir = work[h].dir /\ work'[h].cur = r /\ work'[h].file = disk[r.src]
        /\ device' = device
    BY <2>1, FileStepFrame DEF Copied
  <2>3. Dst(h, work[h].cur)' = Dst(h, r) /\ Crosses(h, work[h].cur)'
    BY <2>1, <2>2 DEF Dst, Crosses, Copied
  <2>4. Holds(Dst(h, work[h].cur), work[h].file)'
    BY <1>1, <2>2, <2>3 DEF CopyMade, Holds
  <2>5. Home[disk[r.src]][2] = r.src[2]
    BY <1>1 DEF CopyMade, LInv, NamesKept
  <2>. QED
    BY <2>2, <2>3, <2>4, <2>5 DEF CopyStands
<1>6. CopiesStand'
  <2>1. \A g \in Handlers \ {h} : work'[g] = work[g]
    BY FileStepFrame DEF OthersWait
  <2>. QED
    BY <1>5, <2>1, CopyStandsStep DEF CopiesStand
<1>. QED
  BY <1>3, <1>4, <1>6

(* The original goes once the copy stands.                                  *)
LEMMA LossRemoves ==
  ASSUME TInv, LInv, NEW h \in Handlers, Removes(h)
  PROVE  NamesKept' /\ CopiesStand' /\ Survivors'
<1>. ChangesDisk(h)
  BY DEF ChangesDisk
<1>1. Removed(h)
  BY RemovesEffect
<1>. DEFINE d == Dst(h, work[h].cur)
            src == work[h].cur.src
<1>2. NamesKept'
  BY <1>1 DEF Removed, LInv, NamesKept
<1>3. CopiesStand'
  <2>1. work'[h].at = "moved"
    BY <1>1 DEF Removed
  <2>2. \A g \in Handlers \ {h} : work'[g] = work[g]
    BY FileStepFrame DEF OthersWait
  <2>. QED
    BY <2>1, <2>2, CopyStandsStep DEF CopiesStand
<1>4. CopyStands(h) /\ work[h].file \in Files
  BY <1>1 DEF Removed, LInv, CopiesStand, TInv, WorkersOK, WorkOK
<1>5. d # src
  BY <1>4 DEF CopyStands, Crosses, Dst
<1>6. d \in RootPlaces => RootsApart
  <2>1. Busy(h) /\ work[h].cur \in jobs[work[h].job].frames
    BY <1>1 DEF Removed, Busy, TInv, WorkersOK, WorkOK
  <2>2. src \in RootPlaces
    BY <2>1, DstPlace
  <2>3. d[1] = work[h].dir
    BY DEF Dst
  <2>4. \A p \in RootPlaces : p[1] \in RootDirs
    BY DEF RootPlaces
  <2>. HIDE DEF d
  <2>. QED
    BY <1>4, <2>2, <2>3, <2>4 DEF CopyStands, Crosses, RootsApart
<1>7. Survivors'
  <2>1. astray \subseteq astray' /\ device' = device
    BY FileStepFrame
  <2>. SUFFICES ASSUME NEW f \in Files, Unlike(f), NEW p \in DOMAIN disk, disk[p] = f
                PROVE  (\E q \in DOMAIN disk' : disk'[q] = f) \/ (RootsApart' /\ f \in astray')
    BY <2>1 DEF Survivors, Unlike, LInv, RootsApart
  <2>2. CASE p = src
    <3>1. Home[f][2] = Home[work[h].file][2]
      BY <1>4, <2>2 DEF LInv, NamesKept, CopyStands
    <3>2. work[h].file = f
      BY <1>4, <3>1 DEF Unlike
    <3>3. CASE Holds(d, f)
      BY <1>1, <1>5, <3>3 DEF Removed, Holds
    <3>4. CASE d \in RootPlaces /\ f \in astray
      BY <1>6, <2>1, <3>4 DEF RootsApart
    <3>. QED
      BY <1>4, <3>2, <3>3, <3>4 DEF CopyStands
  <2>3. CASE p # src
    BY <1>1, <2>3 DEF Removed
  <2>. QED
    BY <2>2, <2>3
<1>. QED
  BY <1>2, <1>3, <1>7

(* The invariant of part B holds throughout.                                *)
LEMMA LInvAlways == Spec => []LInv
<1>1. TInv /\ LInv /\ [Next]_vars => LInv'
  <2>. SUFFICES ASSUME TInv, LInv, [Next]_vars PROVE LInv'
    OBVIOUS
  <2>1. AloneOK'
    BY AloneStep DEF LInv
  <2>2. CASE ~ \E h \in Handlers : ChangesDisk(h)
    <3>1. UNCHANGED <<disk, device>> /\ (SweepReconciles \/ astray \subseteq astray')
          /\ \A h \in Handlers : work'[h].at = "copied" => work'[h] = work[h]
      BY <2>2, SameDisk
    <3>2. NamesKept'
      BY <3>1 DEF LInv, NamesKept
    <3>3. CASE astray \subseteq astray'
      <4>1. Survivors'
        BY <3>1, <3>3 DEF LInv, Survivors, Unlike, RootsApart
      <4>2. CopiesStand'
        BY <3>1, <3>3 DEF LInv, CopiesStand, CopyStands, Unlike, Holds, Dst, Crosses
      <4>. QED
        BY <2>1, <3>2, <4>1, <4>2 DEF LInv
    <3>4. CASE SweepReconciles /\ ~ (astray \subseteq astray')
      <4>1. astray' = astray \ {disk[p] : p \in DOMAIN disk} /\ sweep.on /\ sweep.alone /\ work' = work
        BY <3>4 DEF SweepReconciles, HistoryUnchanged
      <4>2. Survivors'
        BY <3>1, <4>1 DEF LInv, Survivors, Unlike, RootsApart
      <4>3. CopiesStand'
        BY <4>1 DEF LInv, AloneOK, Busy, CopiesStand
      <4>. QED
        BY <2>1, <3>2, <4>2, <4>3 DEF LInv
    <3>. QED
      BY <3>1, <3>3, <3>4
  <2>. QED
    BY <2>1, <2>2, LossRenames, LossCopies, LossRemoves DEF LInv, ChangesDisk
<1>. QED
  BY <1>1, InitLInv, TInvAlways, PTL DEF Spec

(* README.md:91-92 as far as it is true: whatever jobs, failures and kills  *)
(* meet, on one device or more, a file whose name no other file has is      *)
(* never destroyed, unless it is copied from one root to another on a       *)
(* different device, and a job took the copy before the original went.      *)
THEOREM OnlyNamesakesDestroy == Spec => []LossNeedsNamesake
<1>1. LInv => LossNeedsNamesake
  BY DEF LInv, Survivors, Unlike, LossNeedsNamesake
<1>. QED
  BY <1>1, LInvAlways, PTL

-----------------------------------------------------------------------------
(***************************************************************************)
(* C. What was trashed stays where the ledger says.                        *)
(***************************************************************************)

(* A directory of the trash is that of its job. *)
OwnDirs == \A j \in DOMAIN jobs : jobs[j].dir \in TrashDirs => jobs[j].dir = TrashDir(j)

(* A job has a row once. *)
OneRefPerRow == \A j \in DOMAIN jobs : \A r, s \in jobs[j].frames : r.row = s.row => r = s

(* The only frame of job j with name n is row k. *)
Sole(j, k, n) == \A r \in jobs[j].frames : r.src[2] = n => r.row = k

(* An item is of a frame of its job. *)
Ledger ==
    \A j \in DOMAIN jobs : \A it \in jobs[j].items :
        \E r \in jobs[j].frames : it.row = r.row /\ it.dst = <<jobs[j].dir, r.src[2]>>

(* What is still to do has no item, and is not in hand. *)
Undone ==
    \A h \in Handlers : Busy(h) =>
        /\ \A r \in work[h].todo : \A it \in jobs[work[h].job].items : it.row # r.row
        /\ work[h].at # "next" => work[h].cur \notin work[h].todo

(* What is on its way to the trash is there already. *)
TrashedInHand ==
    \A h \in Handlers :
        /\ work[h].at \in {"copied", "moved", "record"}
        /\ work[h].at = "record" => work[h].status = "ok"
        /\ work[h].dir \in TrashDirs
        /\ Sole(work[h].job, work[h].cur.row, work[h].cur.src[2])
        => Holds(Dst(h, work[h].cur), work[h].file)

(* The inductive invariant of part C. *)
XInv == OwnDirs /\ OneRefPerRow /\ Ledger /\ Undone /\ TrashedInHand /\ TrashedStaysFound

(* No move names a directory of the trash. *)
NoMoveIntoTrash == OtherDirs \cap TrashDirs = {}

(* Nothing takes away or replaces what is at a place of the trash, but the  *)
(* job of that directory by a frame that it has still to do.                *)
LEMMA TrashStays ==
  ASSUME TInv, [Next]_vars, NEW q, q[1] \in TrashDirs, q \in DOMAIN disk,
         \A h \in Handlers : \A r \in work[h].todo : work[h].at = "next" => Dst(h, r) # q
  PROVE  q \in DOMAIN disk' /\ disk'[q] = disk[q]
<1>1. \A p \in RootPlaces : p # q
  BY FileActionAssumption DEF RootPlaces
<1>2. ASSUME NEW h \in Handlers, Renames(h) PROVE q \in DOMAIN disk' /\ disk'[q] = disk[q]
  <2>1. PICK r \in work[h].todo : Renamed(h, r)
    BY <1>2, RenamesEffect
  <2>2. Busy(h) /\ r \in jobs[work[h].job].frames
    BY <2>1 DEF Renamed, Busy, TInv, WorkersOK, WorkOK
  <2>3. r.src # q /\ Dst(h, r) # q
    BY <1>1, <2>1, <2>2, DstPlace DEF Renamed
  <2>. QED
    BY <2>1, <2>3 DEF Renamed
<1>3. ASSUME NEW h \in Handlers, CopiesAcross(h) \/ LeavesCopy(h)
      PROVE  q \in DOMAIN disk' /\ disk'[q] = disk[q]
  BY <1>3, CopiesEffect, LeavesEffect DEF Copied, CopyLeft, CopyMade
<1>4. ASSUME NEW h \in Handlers, Removes(h) PROVE q \in DOMAIN disk' /\ disk'[q] = disk[q]
  <2>1. Removed(h)
    BY <1>4, RemovesEffect
  <2>2. Busy(h) /\ work[h].cur \in jobs[work[h].job].frames
    BY <2>1 DEF Removed, Busy, TInv, WorkersOK, WorkOK
  <2>3. work[h].cur.src # q
    BY <1>1, <2>2, DstPlace
  <2>. QED
    BY <2>1, <2>3 DEF Removed
<1>5. CASE ~ \E h \in Handlers : ChangesDisk(h)
  BY <1>5, SameDisk
<1>. QED
  BY <1>2, <1>3, <1>4, <1>5 DEF ChangesDisk

(* Directories of two jobs of the trash differ.                             *)
LEMMA TrashOfOneJob ==
  ASSUME TInv, XInv, NEW h \in Handlers, Busy(h), NEW j \in DOMAIN jobs,
         jobs[j].dir \in TrashDirs, work[h].dir = jobs[j].dir
  PROVE  work[h].job = j
<1>1. work[h].job \in DOMAIN jobs /\ work[h].dir = jobs[work[h].job].dir
  BY DEF TInv, WorkersOK, WorkOK
<1>2. TrashDir(work[h].job) = TrashDir(j)
  BY <1>1 DEF XInv, OwnDirs
<1>. QED
  BY <1>2 DEF TrashDir

(* A job keeps its directory and its frames. *)
SameJobs == \A j \in DOMAIN jobs : j \in DOMAIN jobs' /\ jobs'[j].dir = jobs[j].dir
                                   /\ jobs'[j].frames = jobs[j].frames

(* No step changes either.                                                  *)
LEMMA JobsKept ==
  ASSUME TInv, [Next]_vars
  PROVE  SameJobs
<1>1. ASSUME NEW h \in Handlers, Handler(h) PROVE SameJobs
  <2>1. CASE Submit(h)
    BY <2>1 DEF Submit, TInv, SameJobs
  <2>2. CASE Records(h) \/ Finishes(h)
    <3>1. \A j \in DOMAIN jobs : jobs[j] \in Job
      BY DEF TInv
    <3>2. work[h].job \in DOMAIN jobs
      BY <2>2 DEF Records, Finishes, TInv, WorkersOK, WorkOK, Busy
    <3>3. CASE Records(h)
      BY <3>1, <3>2, <3>3 DEF Records, Job, SameJobs
    <3>4. CASE Finishes(h)
      BY <3>1, <3>2, <3>4 DEF Finishes, Job, SameJobs
    <3>. QED
      BY <2>2, <3>3, <3>4
  <2>. QED
    BY <1>1, <2>1, <2>2 DEF Handler, Renames, CopiesAcross, Removes, Fails, IoFails, LeavesCopy,
         WritesBack, WriteBackRefused, RecordRefused, StatementFails, Abandon, SameJobs
<1>. QED
  BY <1>1 DEF Next, Crash, SweepStarts, SweepVisits, SweepReconciles, vars, SameJobs

(* What a trash job has moved stays where it is.                            *)
LEMMA TrashedStays ==
  ASSUME TInv, XInv, [Next]_vars, NEW j \in DOMAIN jobs, jobs[j].dir \in TrashDirs,
         NEW r \in jobs[j].frames, Sole(j, r.row, r.src[2]),
         NEW f, Holds(<<jobs[j].dir, r.src[2]>>, f),
         \A h \in Handlers : Busy(h) /\ work[h].job = j => work[h].at # "next" \/ r \notin work[h].todo
  PROVE  LET q == <<jobs[j].dir, r.src[2]>> IN q \in DOMAIN disk' /\ disk'[q] = f
<1>. DEFINE q == <<jobs[j].dir, r.src[2]>>
<1>1. ASSUME NEW h \in Handlers, NEW s \in work[h].todo, work[h].at = "next", Dst(h, s) = q
      PROVE  FALSE
  <2>1. Busy(h) /\ s \in jobs[work[h].job].frames
    BY <1>1 DEF Busy, TInv, WorkersOK, WorkOK
  <2>2. work[h].dir = jobs[j].dir /\ s.src[2] = r.src[2]
    BY <1>1 DEF Dst
  <2>3. work[h].job = j
    BY <2>1, <2>2, TrashOfOneJob
  <2>4. s.row = r.row
    BY <2>1, <2>2, <2>3 DEF Sole
  <2>5. s = r
    BY <2>1, <2>3, <2>4 DEF XInv, OneRefPerRow
  <2>. QED
    BY <1>1, <2>1, <2>3, <2>5
<1>2. q[1] \in TrashDirs /\ q \in DOMAIN disk /\ disk[q] = f
  BY DEF Holds
<1>. HIDE DEF q
<1>3. q \in DOMAIN disk' /\ disk'[q] = disk[q]
  BY <1>1, <1>2, TrashStays
<1>. QED
  BY <1>2, <1>3 DEF q

(* What an item says was trashed stays there through any step.              *)
LEMMA ItemStays ==
  ASSUME TInv, XInv, [Next]_vars, NEW j \in DOMAIN jobs, NEW it \in jobs[j].items,
         it.dst[1] \in TrashDirs, Sole(j, it.row, it.dst[2]), NEW f \in it.file
  PROVE  it.dst \in DOMAIN disk' /\ disk'[it.dst] = f
<1>1. Holds(it.dst, f)
  BY DEF XInv, TrashedStaysFound, Sole
<1>2. PICK r \in jobs[j].frames : it.row = r.row /\ it.dst = <<jobs[j].dir, r.src[2]>>
  BY DEF XInv, Ledger
<1>3. \A h \in Handlers : Busy(h) /\ work[h].job = j => r \notin work[h].todo
  BY <1>2 DEF XInv, Undone
<1>4. jobs[j].dir \in TrashDirs /\ Sole(j, r.row, r.src[2]) /\ Holds(<<jobs[j].dir, r.src[2]>>, f)
  BY <1>1, <1>2
<1>. QED
  BY <1>2, <1>3, <1>4, TrashedStays

(* h has the sole frame of its name in hand, for a place of the trash. *)
Trashing(h) ==
    /\ work[h].at \in {"copied", "moved", "record"}
    /\ work[h].at = "record" => work[h].status = "ok"
    /\ work[h].dir \in TrashDirs
    /\ Sole(work[h].job, work[h].cur.row, work[h].cur.src[2])

(* What a handler has in hand for the trash stays there through any step.   *)
LEMMA HandStays ==
  ASSUME TInv, XInv, [Next]_vars, NEW h \in Handlers, Trashing(h)
  PROVE  LET d == Dst(h, work[h].cur) IN d \in DOMAIN disk' /\ disk'[d] = work[h].file
<1>. DEFINE j == work[h].job
            r == work[h].cur
            f == work[h].file
<1>1. /\ Busy(h) /\ j \in DOMAIN jobs /\ r \in jobs[j].frames /\ work[h].dir = jobs[j].dir
      /\ work[h].at # "next"
  BY DEF Trashing, Busy, TInv, WorkersOK, WorkOK
<1>2. Holds(Dst(h, r), f)
  BY DEF XInv, TrashedInHand, Trashing
<1>3. Dst(h, r) = <<jobs[j].dir, r.src[2]>>
  BY <1>1 DEF Dst
<1>4. jobs[j].dir \in TrashDirs /\ Sole(j, r.row, r.src[2])
  BY <1>1 DEF Trashing
<1>5. \A g \in Handlers : Busy(g) /\ work[g].job = j => g = h
  BY <1>1 DEF TInv, WorkersOK
<1>. HIDE DEF j, r, f
<1>6. Holds(<<jobs[j].dir, r.src[2]>>, f)
  BY <1>2, <1>3
<1>7. \A g \in Handlers : Busy(g) /\ work[g].job = j => work[g].at # "next" \/ r \notin work[g].todo
  BY <1>1, <1>5
<1>. QED
  BY <1>1, <1>3, <1>4, <1>6, <1>7, TrashedStays DEF r, f

(* Nothing is trashed at first.                                             *)
LEMMA InitXInv == Init => XInv
BY DEF Init, XInv, OwnDirs, OneRefPerRow, Ledger, Undone, TrashedInHand, TrashedStaysFound, Busy, Idle

(* Steps that add no job and no item.                                       *)
LEMMA SameItems ==
  ASSUME TInv, XInv, [Next]_vars, DOMAIN jobs' = DOMAIN jobs,
         \A j \in DOMAIN jobs : jobs'[j].items = jobs[j].items
  PROVE  OwnDirs' /\ OneRefPerRow' /\ Ledger' /\ TrashedStaysFound'
<1>1. SameJobs
  BY JobsKept
<1>2. OwnDirs' /\ OneRefPerRow' /\ Ledger'
  BY <1>1 DEF SameJobs, XInv, OwnDirs, OneRefPerRow, Ledger
<1>3. TrashedStaysFound'
  <2>. SUFFICES ASSUME NEW j \in DOMAIN jobs', NEW it \in jobs'[j].items,
                       it.dst[1] \in TrashDirs,
                       \A r \in jobs'[j].frames : r.src[2] = it.dst[2] => r.row = it.row,
                       NEW f \in it.file
                PROVE  Holds(it.dst, f)'
    BY DEF TrashedStaysFound
  <2>1. Sole(j, it.row, it.dst[2])
    BY <1>1 DEF SameJobs, Sole
  <2>2. it.dst \in DOMAIN disk' /\ disk'[it.dst] = f
    BY <2>1, ItemStays
  <2>. QED
    BY <2>2 DEF Holds
<1>. QED
  BY <1>2, <1>3

(* A handler that has the same in hand still has it.                        *)
LEMMA SameHand ==
  ASSUME TInv, XInv, [Next]_vars, NEW h \in Handlers, Trashing(h),
         work'[h].dir = work[h].dir, work'[h].cur = work[h].cur, work'[h].file = work[h].file
  PROVE  Holds(Dst(h, work[h].cur), work[h].file)'
<1>1. Dst(h, work[h].cur)' = Dst(h, work[h].cur)
  BY DEF Dst
<1>. QED
  BY <1>1, HandStays DEF Holds

(* Trashing of h is what it was, as its job keeps its frames.               *)
LEMMA SameTrashing ==
  ASSUME TInv, [Next]_vars, NEW h \in Handlers, Trashing(h)', Busy(h),
         work'[h].job = work[h].job, work'[h].dir = work[h].dir, work'[h].cur = work[h].cur,
         work[h].at \in {"copied", "moved", "record"},
         work[h].at = "record" => work[h].status = "ok"
  PROVE  Trashing(h)
<1>1. work[h].job \in DOMAIN jobs
  BY DEF TInv, WorkersOK, WorkOK
<1>2. jobs'[work[h].job].frames = jobs[work[h].job].frames
  BY <1>1, JobsKept DEF SameJobs
<1>. QED
  BY <1>2 DEF Trashing, Sole

(* The handlers that a step leaves alone.                                   *)
LEMMA WaitingHand ==
  ASSUME TInv, XInv, [Next]_vars, NEW h \in Handlers, work'[h] = work[h], Trashing(h)'
  PROVE  Holds(Dst(h, work[h].cur), work[h].file)'
<1>1. Busy(h) /\ work[h].at \in {"copied", "moved", "record"}
      /\ (work[h].at = "record" => work[h].status = "ok")
  BY DEF Trashing, Busy
<1>2. Trashing(h)
  BY <1>1, SameTrashing
<1>. QED
  BY <1>2, SameHand

(* Submit and trash.                                                        *)
LEMMA TrashSubmit ==
  ASSUME NoMoveIntoTrash, TInv, XInv, NEW h \in Handlers, Submit(h)
  PROVE  XInv'
<1>0. [Next]_vars
  BY DEF Next, Handler
<1>. DEFINE j == Len(jobs) + 1
<1>1. PICK op \in {"move", "trash"}, F \in SUBSET DOMAIN rows :
        \E dir \in IF op = "move" THEN RootDirs \cup OtherDirs ELSE {TrashRoot} :
          LET refs == {[row |-> k, src |-> rows[k].path] : k \in F}
          IN  /\ jobs' = Append(jobs, [status |-> "running", dir |-> Dest(op, dir, j),
                                       frames |-> refs, items |-> {}])
              /\ work' = [work EXCEPT ![h] =
                            [at |-> "next", job |-> j, dir |-> Dest(op, dir, j), todo |-> refs]]
  BY DEF Submit
<1>2. PICK dir \in IF op = "move" THEN RootDirs \cup OtherDirs ELSE {TrashRoot} :
          LET refs == {[row |-> k, src |-> rows[k].path] : k \in F}
          IN  /\ jobs' = Append(jobs, [status |-> "running", dir |-> Dest(op, dir, j),
                                       frames |-> refs, items |-> {}])
              /\ work' = [work EXCEPT ![h] =
                            [at |-> "next", job |-> j, dir |-> Dest(op, dir, j), todo |-> refs]]
  BY <1>1
<1>. DEFINE refs == {[row |-> k, src |-> rows[k].path] : k \in F}
            d == Dest(op, dir, j)
<1>3. d \in TrashDirs => d = TrashDir(j)
  BY FileActionAssumption DEF Dest, NoMoveIntoTrash
<1>4. \A r, s \in refs : r.row = s.row => r = s
  OBVIOUS
<1>5. jobs' = Append(jobs, [status |-> "running", dir |-> d, frames |-> refs, items |-> {}])
      /\ work' = [work EXCEPT ![h] = [at |-> "next", job |-> j, dir |-> d, todo |-> refs]]
  BY <1>2
<1>. HIDE DEF j, refs, d
<1>6. /\ DOMAIN jobs' = DOMAIN jobs \cup {j} /\ j \notin DOMAIN jobs
      /\ jobs'[j] = [status |-> "running", dir |-> d, frames |-> refs, items |-> {}]
      /\ \A i \in DOMAIN jobs : jobs'[i] = jobs[i]
  BY <1>5 DEF TInv, j
<1>7. /\ work'[h] = [at |-> "next", job |-> j, dir |-> d, todo |-> refs]
      /\ \A g \in Handlers \ {h} : work'[g] = work[g]
  BY <1>5 DEF TInv, WorkersOK
<1>8. OwnDirs' /\ OneRefPerRow' /\ Ledger'
  BY <1>3, <1>4, <1>6 DEF XInv, OwnDirs, OneRefPerRow, Ledger
<1>9. Undone'
  BY <1>6, <1>7 DEF XInv, Undone, Busy, TInv, WorkersOK, WorkOK
<1>10. TrashedInHand'
  <2>1. \A g \in Handlers : Trashing(g)' => Holds(Dst(g, work[g].cur), work[g].file)'
    BY <1>0, <1>7, WaitingHand DEF Trashing
  <2>. QED
    BY <2>1 DEF TrashedInHand, Trashing
<1>11. TrashedStaysFound'
  <2>. SUFFICES ASSUME NEW i \in DOMAIN jobs', NEW it \in jobs'[i].items,
                       it.dst[1] \in TrashDirs,
                       \A r \in jobs'[i].frames : r.src[2] = it.dst[2] => r.row = it.row,
                       NEW f \in it.file
                PROVE  Holds(it.dst, f)'
    BY DEF TrashedStaysFound
  <2>1. i \in DOMAIN jobs /\ it \in jobs[i].items
    BY <1>6
  <2>2. Sole(i, it.row, it.dst[2])
    BY <1>6, <2>1 DEF Sole
  <2>3. it.dst \in DOMAIN disk' /\ disk'[it.dst] = f
    BY <1>0, <2>1, <2>2, ItemStays
  <2>. QED
    BY <2>3 DEF Holds
<1>. QED
  BY <1>8, <1>9, <1>10, <1>11 DEF XInv

(* The steps of the file system and trash.                                  *)
LEMMA TrashFile ==
  ASSUME TInv, XInv, NEW h \in Handlers, Renames(h) \/ CopiesAcross(h) \/ Removes(h)
  PROVE  XInv'
<1>0. [Next]_vars
  BY DEF Next, Handler
<1>1. OthersWait(h) /\ jobs' = jobs
  BY FileStepFrame DEF ChangesDisk
<1>2. OwnDirs' /\ OneRefPerRow' /\ Ledger' /\ TrashedStaysFound'
  BY <1>0, <1>1, SameItems
<1>3. ASSUME NEW r \in work[h].todo, Renamed(h, r) \/ Copied(h, r)
      PROVE  /\ work'[h].job = work[h].job /\ work'[h].cur = r /\ work'[h].todo = work[h].todo \ {r}
             /\ Busy(h)
             /\ Holds(Dst(h, work[h].cur), work[h].file)'
  <2>1. /\ work'[h].job = work[h].job /\ work'[h].cur = r /\ work'[h].todo = work[h].todo \ {r}
        /\ Busy(h) /\ work'[h].file = disk[r.src] /\ work'[h].dir = work[h].dir
        /\ Dst(h, r) \in DOMAIN disk' /\ disk'[Dst(h, r)] = disk[r.src]
    BY <1>3 DEF Renamed, Copied, CopyMade, Busy
  <2>2. Dst(h, work[h].cur)' = Dst(h, r)
    BY <2>1 DEF Dst
  <2>. QED
    BY <2>1, <2>2 DEF Holds
<1>4. ASSUME Removed(h)
      PROVE  /\ work'[h].job = work[h].job /\ work'[h].cur = work[h].cur /\ work'[h].todo = work[h].todo
             /\ Busy(h) /\ work[h].at = "copied"
             /\ work'[h].dir = work[h].dir /\ work'[h].file = work[h].file
  BY <1>4 DEF Removed, Busy
<1>5. \/ \E r \in work[h].todo : Renamed(h, r) \/ Copied(h, r)
      \/ Removed(h)
  BY RenamesEffect, CopiesEffect, RemovesEffect
<1>6. Undone'
  <2>1. /\ work'[h].job = work[h].job /\ Busy(h) /\ work'[h].todo \subseteq work[h].todo
        /\ work'[h].cur \notin work'[h].todo
    BY <1>3, <1>4, <1>5 DEF XInv, Undone
  <2>. QED
    BY <1>1, <2>1 DEF OthersWait, XInv, Undone, Busy
<1>7. TrashedInHand'
  <2>1. Trashing(h)' => Holds(Dst(h, work[h].cur), work[h].file)'
    <3>1. CASE \E r \in work[h].todo : Renamed(h, r) \/ Copied(h, r)
      BY <1>3, <3>1
    <3>2. CASE Removed(h)
      BY <1>0, <1>4, <3>2, SameTrashing, SameHand
    <3>. QED
      BY <1>5, <3>1, <3>2
  <2>2. \A g \in Handlers : Trashing(g)' => Holds(Dst(g, work[g].cur), work[g].file)'
    BY <1>0, <1>1, <2>1, WaitingHand DEF OthersWait
  <2>. QED
    BY <2>2 DEF TrashedInHand, Trashing
<1>. QED
  BY <1>2, <1>6, <1>7 DEF XInv

(* An item is written of what is in hand.                                   *)
LEMMA TrashRecords ==
  ASSUME TInv, XInv, NEW h \in Handlers, Records(h)
  PROVE  XInv'
<1>0. [Next]_vars
  BY DEF Next, Handler
<1>. DEFINE j == work[h].job
            r == work[h].cur
<1>1. work[h].at = "record" /\ Busy(h) /\ j \in DOMAIN jobs /\ r \in jobs[j].frames
      /\ work[h].dir = jobs[j].dir /\ work[h].todo \subseteq jobs[j].frames /\ jobs[j] \in Job
  BY DEF Records, Busy, TInv, WorkersOK, WorkOK
<1>2. /\ DOMAIN jobs' = DOMAIN jobs
      /\ jobs'[j].items = jobs[j].items \cup {Item(h)}
      /\ \A i \in DOMAIN jobs \ {j} : jobs'[i] = jobs[i]
  BY <1>1 DEF Records, Job
<1>3. SameJobs
  BY <1>0, JobsKept
<1>4. /\ work'[h] = [at |-> "next", job |-> work[h].job, dir |-> work[h].dir, todo |-> work[h].todo]
      /\ \A g \in Handlers \ {h} : work'[g] = work[g]
  BY DEF Records, TInv, WorkersOK
<1>5. Item(h).row = r.row /\ Item(h).dst = Dst(h, r) /\ Dst(h, r) = <<jobs[j].dir, r.src[2]>>
      /\ (Item(h).file # {} => work[h].status = "ok" /\ Item(h).file = {work[h].file})
  BY <1>1 DEF Item, Dst
<1>. HIDE DEF j, r
<1>6. OwnDirs' /\ OneRefPerRow'
  BY <1>2, <1>3 DEF SameJobs, XInv, OwnDirs, OneRefPerRow
<1>7. Ledger'
  BY <1>1, <1>2, <1>3, <1>5 DEF SameJobs, XInv, Ledger
<1>8. Undone'
  <2>1. \A s \in work[h].todo : s.row # r.row
    BY <1>1 DEF XInv, Undone, OneRefPerRow, j, r
  <2>2. \A s \in work'[h].todo : \A it \in jobs'[work'[h].job].items : it.row # s.row
    BY <1>1, <1>2, <1>4, <1>5, <2>1 DEF XInv, Undone, j
  <2>3. \A g \in Handlers \ {h} : Busy(g) => work[g].job \in DOMAIN jobs \ {j}
    BY <1>1 DEF TInv, WorkersOK, WorkOK, j
  <2>. QED
    BY <1>2, <1>4, <2>2, <2>3 DEF XInv, Undone, Busy
<1>9. TrashedInHand'
  <2>1. \A g \in Handlers : Trashing(g)' => Holds(Dst(g, work[g].cur), work[g].file)'
    BY <1>0, <1>4, WaitingHand DEF Trashing
  <2>. QED
    BY <2>1 DEF TrashedInHand, Trashing
<1>10. TrashedStaysFound'
  <2>. SUFFICES ASSUME NEW i \in DOMAIN jobs', NEW it \in jobs'[i].items,
                       it.dst[1] \in TrashDirs,
                       \A s \in jobs'[i].frames : s.src[2] = it.dst[2] => s.row = it.row,
                       NEW f \in it.file
                PROVE  it.dst \in DOMAIN disk' /\ disk'[it.dst] = f
    BY DEF TrashedStaysFound, Holds
  <2>1. i \in DOMAIN jobs /\ Sole(i, it.row, it.dst[2])
    BY <1>2, <1>3 DEF SameJobs, Sole
  <2>2. CASE it \in jobs[i].items
    BY <1>0, <2>1, <2>2, ItemStays
  <2>3. CASE it \notin jobs[i].items
    <3>1. i = j /\ it = Item(h)
      BY <1>2, <2>1, <2>3
    <3>2. work[h].status = "ok" /\ f = work[h].file /\ it.dst = Dst(h, r) /\ it.row = r.row
      BY <1>5, <3>1
    <3>3. work[h].dir \in TrashDirs /\ it.dst[2] = r.src[2]
      BY <1>1, <1>5, <3>2
    <3>4. Trashing(h)
      BY <1>1, <2>1, <3>1, <3>2, <3>3 DEF Trashing, j, r
    <3>. QED
      BY <1>0, <3>2, <3>4, HandStays DEF r
  <2>. QED
    BY <2>2, <2>3
<1>. QED
  BY <1>6, <1>7, <1>8, <1>9, <1>10 DEF XInv

(* The other steps of a handler.                                            *)
LEMMA TrashOthers ==
  ASSUME TInv, XInv, NEW h \in Handlers,
         \/ Fails(h) \/ IoFails(h) \/ LeavesCopy(h) \/ WritesBack(h) \/ Finishes(h)
         \/ WriteBackRefused(h) \/ RecordRefused(h) \/ StatementFails(h)
  PROVE  XInv'
<1>0. [Next]_vars
  BY DEF Next, Handler
<1>1. DOMAIN jobs' = DOMAIN jobs /\ \A j \in DOMAIN jobs : jobs'[j].items = jobs[j].items
  <2>1. CASE Finishes(h)
    <3>1. \A j \in DOMAIN jobs : jobs[j] \in Job
      BY DEF TInv
    <3>2. \E s : jobs' = [jobs EXCEPT ![work[h].job].status = s]
      BY <2>1 DEF Finishes
    <3>. QED
      BY <3>1, <3>2 DEF Job
  <2>2. CASE ~Finishes(h)
    BY <2>2 DEF Fails, IoFails, LeavesCopy, WritesBack, WriteBackRefused, RecordRefused,
         StatementFails, Abandon
  <2>. QED
    BY <2>1, <2>2
<1>2. OwnDirs' /\ OneRefPerRow' /\ Ledger' /\ TrashedStaysFound'
  BY <1>0, <1>1, SameItems
<1>3. \A g \in Handlers \ {h} : work'[g] = work[g]
  BY DEF Fails, IoFails, LeavesCopy, WritesBack, Finishes, WriteBackRefused, RecordRefused,
         StatementFails, Abandon, TInv, WorkersOK
<1>4. \/ work'[h] = Idle
      \/ /\ Busy(h) /\ work'[h].at = "record" /\ work'[h].job = work[h].job
         /\ work'[h].dir = work[h].dir
         /\ \/ /\ work'[h].status = "failed"
               /\ \/ work[h].at = "next" /\ work'[h].cur \in work[h].todo
                     /\ work'[h].todo = work[h].todo \ {work'[h].cur}
                  \/ work[h].at = "copied" /\ work'[h].cur = work[h].cur
                     /\ work'[h].todo = work[h].todo
            \/ /\ work[h].at = "moved" /\ work'[h].cur = work[h].cur /\ work'[h].file = work[h].file
               /\ work'[h].todo = work[h].todo
  <2>1. CASE Fails(h)
    BY <2>1 DEF Fails, Busy, TInv, WorkersOK
  <2>2. CASE IoFails(h)
    BY <2>2 DEF IoFails, Busy, TInv, WorkersOK
  <2>5. CASE LeavesCopy(h)
    <3>1. \E r \in work[h].todo : CopyLeft(h, r)
      BY <2>5, LeavesEffect
    <3>. QED
      BY <3>1 DEF CopyLeft, CopyMade, Busy
  <2>3. CASE WritesBack(h)
    BY <2>3 DEF WritesBack, Busy, TInv, WorkersOK
  <2>4. CASE Finishes(h) \/ WriteBackRefused(h) \/ RecordRefused(h) \/ StatementFails(h)
    BY <2>4 DEF Finishes, WriteBackRefused, RecordRefused, StatementFails, Abandon, TInv, WorkersOK
  <2>. QED
    BY <2>1, <2>2, <2>3, <2>4, <2>5
<1>5. Undone'
  <2>1. Busy(h)' => /\ Busy(h) /\ work'[h].job = work[h].job /\ work[h].job \in DOMAIN jobs
                    /\ work'[h].todo \subseteq work[h].todo
                    /\ work'[h].cur \notin work'[h].todo
    BY <1>4 DEF Busy, Idle, XInv, Undone, TInv, WorkersOK, WorkOK
  <2>2. \A g \in Handlers : Busy(g) => work[g].job \in DOMAIN jobs
    BY DEF TInv, WorkersOK, WorkOK
  <2>. QED
    BY <1>1, <1>3, <2>1, <2>2 DEF XInv, Undone, Busy
<1>6. TrashedInHand'
  <2>1. Trashing(h)' => Holds(Dst(h, work[h].cur), work[h].file)'
    <3>. SUFFICES ASSUME Trashing(h)' PROVE Holds(Dst(h, work[h].cur), work[h].file)'
      OBVIOUS
    <3>1. /\ Busy(h) /\ work'[h].job = work[h].job /\ work'[h].dir = work[h].dir
          /\ work[h].at = "moved" /\ work'[h].cur = work[h].cur /\ work'[h].file = work[h].file
      BY <1>4 DEF Trashing, Idle
    <3>. QED
      BY <1>0, <3>1, SameTrashing, SameHand
  <2>2. \A g \in Handlers : Trashing(g)' => Holds(Dst(g, work[g].cur), work[g].file)'
    BY <1>0, <1>3, <2>1, WaitingHand
  <2>. QED
    BY <2>2 DEF TrashedInHand, Trashing
<1>. QED
  BY <1>2, <1>5, <1>6 DEF XInv

(* Sweeps and the end of the daemon leave the trash alone.                  *)
LEMMA TrashRest ==
  ASSUME TInv, XInv, Crash \/ SweepStarts \/ SweepVisits \/ SweepReconciles \/ UNCHANGED vars
  PROVE  XInv'
<1>0. [Next]_vars
  BY DEF Next
<1>1. jobs' = jobs /\ \A h \in Handlers : work'[h] = work[h] \/ work'[h] = Idle
  BY DEF Crash, SweepStarts, SweepVisits, SweepReconciles, vars, TInv, WorkersOK
<1>2. OwnDirs' /\ OneRefPerRow' /\ Ledger' /\ TrashedStaysFound'
  BY <1>0, <1>1, SameItems
<1>3. Undone'
  BY <1>1 DEF XInv, Undone, Busy, Idle
<1>4. TrashedInHand'
  <2>1. \A g \in Handlers : Trashing(g)' => Holds(Dst(g, work[g].cur), work[g].file)'
    BY <1>0, <1>1, WaitingHand DEF Trashing, Idle
  <2>. QED
    BY <2>1 DEF TrashedInHand, Trashing
<1>. QED
  BY <1>2, <1>3, <1>4 DEF XInv

(* The invariant of part C holds throughout.                                *)
LEMMA XInvAlways ==
  ASSUME NoMoveIntoTrash
  PROVE  Spec => []XInv
<1>1. TInv /\ XInv /\ [Next]_vars => XInv'
  BY TrashSubmit, TrashFile, TrashRecords, TrashOthers, TrashRest DEF Next, Handler
<1>. QED
  BY <1>1, InitXInv, TInvAlways, PTL DEF Spec

(* What the ledger says was trashed is there, for any jobs, failures, kills *)
(* and sweeps, as long as no move is made into a directory of the trash:    *)
(* no later job has that directory, and within the job only a namesake      *)
(* takes the place.                                                         *)
THEOREM TrashIsKept ==
  ASSUME NoMoveIntoTrash
  PROVE  Spec => []TrashedStaysFound
BY XInvAlways, PTL DEF XInv

-----------------------------------------------------------------------------
(***************************************************************************)
(* D. The index is true from the write-back on.                            *)
(***************************************************************************)

(* The row of what h carries is that of the file; once the original is     *)
(* gone, the file is not where the row says but where it will say.         *)
RowIsTheFiles(h) ==
    LET k == work[h].cur.row  f == work[h].file IN
    /\ k \in DOMAIN rows /\ rows[k].file = f
    /\ work[h].at = "moved" /\ Holds(rows[k].path, f) => rows[k].path = Dst(h, work[h].cur)

(* What is carried into the root is there; other rows are left to the sweep. *)
RowCarried(h) ==
    work[h].cur.row \notin unsettled =>
        /\ RowIsTheFiles(h)
        /\ Dst(h, work[h].cur) \in RootPlaces => Holds(Dst(h, work[h].cur), work[h].file)

(* Likewise the file, and the file that the row has. *)
FileCarried(h) ==
    /\ work[h].file \notin astray => RowIsTheFiles(h)
    /\ work[h].cur.row \in DOMAIN rows => rows[work[h].cur.row].file \in astray \cup {work[h].file}

(* No other handler carries the same row, unless both leave it to the sweep. *)
SoleCarrier(h) ==
    \A g \in Carried \ {h} : work[g].cur.row = work[h].cur.row =>
        work[h].cur.row \in unsettled /\ work[h].file \in astray

(* What holds of everything that is carried. *)
HandsOK == ~mixed => \A h \in Carried : RowCarried(h) /\ FileCarried(h) /\ SoleCarrier(h)

(* A sweep that no job met has seen exactly what is at the places walked.  *)
WalkOK ==
    sweep.on /\ sweep.alone =>
        /\ \A n \in 1..sweep.walked : WalkOrder[n] \in DOMAIN disk =>
             \E k \in RowsAt(WalkOrder[n]) : k \in seen
        /\ \A k \in DOMAIN rows : k \in seen =>
             rows[k].status = "ok" /\ Holds(rows[k].path, rows[k].file)

(* A sweep that met a job is known as such. *)
MetOK == sweep.on /\ ~mixed => sweep.alone

(* The inductive invariant of part D. *)
IInv == HandsOK /\ WalkOK /\ MetOK /\ IndexIsTrue

(* The start: every row says where its file is.                             *)
LEMMA InitIInv == Init => IInv
<1>. SUFFICES ASSUME Init PROVE IInv
  OBVIOUS
<1>2. HandsOK /\ WalkOK /\ MetOK
  BY DEF Init, HandsOK, WalkOK, MetOK, Carried, Idle, Off
<1>3. IndexIsTrue
  <2>1. DOMAIN rows = Files
        /\ \A k \in Files : rows[k].path = Home[k] /\ rows[k].status = "ok" /\ rows[k].file = k
    BY DEF Init
  <2>2. \A k \in DOMAIN rows : (rows[k].status = "ok") <=> Holds(rows[k].path, rows[k].file)
    BY <2>1, InitDisk DEF Holds
  <2>3. \A p \in DOMAIN disk : \E k \in RowsAt(p) : rows[k].status = "ok" /\ rows[k].file = disk[p]
    BY <2>1, InitDisk DEF RowsAt
  <2>. QED
    BY <2>2, <2>3 DEF IndexIsTrue
<1>. QED
  BY <1>2, <1>3 DEF IInv

(* Where the places that change are known to LeftToSweep and hold nothing   *)
(* afterwards but file f at d: what others carry and the other rows stay    *)
(* true of the disk, and so does all if what h carries and row k do.        *)
LEMMA TakeStep ==
  ASSUME TInv, IInv, ~mixed, NEW h \in Handlers, NEW k, NEW f, NEW d, NEW src,
         NEW places, NEW left, LeftToSweep(h, k, src, f, places, left),
         \A q \in RootPlaces \ places : /\ q \in DOMAIN disk' <=> q \in DOMAIN disk
                                        /\ q \in DOMAIN disk => disk'[q] = disk[q],
         \A q \in RootPlaces \cap places : q \in DOMAIN disk' => q = d /\ disk'[q] = f,
         h \in Carried => Dst(h, work[h].cur) = d /\ work[h].file = f,
         h \notin Moved, OthersWait(h), IndexUnchanged,
         h \in Carried' => /\ Dst(h, work[h].cur)' = d /\ work'[h].cur.row = k /\ work'[h].file = f
                           /\ RowCarried(h)' /\ FileCarried(h)',
         h \notin Carried' => (d \in RootPlaces => f \in astray'),
         k \in DOMAIN rows \ (unsettled' \cup InHand') =>
             ((rows'[k].status = "ok") <=> Holds(rows[k].path, rows[k].file)')
  PROVE  HandsOK' /\ IndexIsTrue'
<1>1. /\ unsettled \subseteq unsettled' /\ astray \subseteq astray'
      /\ \A p \in places : Claims(p) \ {k} \subseteq unsettled'
      /\ ~Own(h, k, src, f) => /\ k \in unsettled' /\ f \in astray'
                               /\ k \in DOMAIN rows => rows[k].file \in astray'
  BY DEF LeftToSweep
<1>2. rows' = rows
  BY DEF IndexUnchanged
<1>3. \A g \in Carried \ {h} : g \in Handlers /\ work'[g] = work[g] /\ Dst(g, work[g].cur)' = Dst(g, work[g].cur)
  BY DEF Carried, OthersWait, Dst
<1>4. \A l \in DOMAIN rows : rows[l].path \in RootPlaces
  BY DEF TInv, RowsOK
<1>5. InHand \subseteq InHand'
  BY DEF InHand, Moved, OthersWait
<1>6. ASSUME NEW g \in Carried \ {h}
      PROVE  /\ RowCarried(g)' /\ FileCarried(g)'
             /\ work[g].cur.row = k => k \in unsettled' /\ f \in astray' /\ work[g].file \in astray'
  <2>. DEFINE kg == work[g].cur.row
              fg == work[g].file
              dg == Dst(g, work[g].cur)
              moved == work[g].at = "moved"
  <2>1. RowCarried(g) /\ FileCarried(g)
    BY DEF IInv, HandsOK
  <2>2. (kg = k \/ fg = f) => ~Own(h, k, src, f)
    BY DEF Own
  <2>3. \A p \in places : dg = p \/ (kg \in DOMAIN rows /\ rows[kg].path = p) => kg \in Claims(p)
    BY DEF Claims, RowsAt
  <2>4. /\ work'[g].cur.row = kg /\ work'[g].file = fg /\ Dst(g, work[g].cur)' = dg
        /\ (work'[g].at = "moved" <=> moved)
    BY <1>3
  <2>5. kg \notin unsettled => /\ kg \in DOMAIN rows /\ rows[kg].file = fg
                               /\ moved /\ Holds(rows[kg].path, fg) => rows[kg].path = dg
                               /\ dg \in RootPlaces => Holds(dg, fg)
    BY <2>1 DEF RowCarried, RowIsTheFiles
  <2>6. /\ fg \notin astray => /\ kg \in DOMAIN rows /\ rows[kg].file = fg
                               /\ moved /\ Holds(rows[kg].path, fg) => rows[kg].path = dg
        /\ kg \in DOMAIN rows => rows[kg].file \in astray \cup {fg}
    BY <2>1 DEF FileCarried, RowIsTheFiles
  <2>. HIDE DEF kg, fg, dg, moved
  <2>7. kg \notin unsettled' => dg \notin places /\ (kg \in DOMAIN rows => rows[kg].path \notin places)
    BY <1>1, <2>2, <2>3
  <2>8. ASSUME kg \notin unsettled'
        PROVE  /\ kg \in DOMAIN rows' /\ rows'[kg].file = fg
               /\ moved /\ rows'[kg].path \in DOMAIN disk' /\ disk'[rows'[kg].path] = fg
                    => rows'[kg].path = dg
               /\ dg \in RootPlaces => dg \in DOMAIN disk' /\ disk'[dg] = fg
    BY <1>1, <1>2, <1>4, <2>5, <2>7, <2>8 DEF Holds
  <2>9. ASSUME fg \notin astray'
        PROVE  /\ kg \in DOMAIN rows' /\ rows'[kg].file = fg
               /\ moved /\ rows'[kg].path \in DOMAIN disk' /\ disk'[rows'[kg].path] = fg
                    => rows'[kg].path = dg
    <3>1. kg \in DOMAIN rows /\ rows[kg].file = fg /\ fg # f
          /\ (moved /\ Holds(rows[kg].path, fg) => rows[kg].path = dg)
      BY <1>1, <2>2, <2>6, <2>9
    <3>2. rows[kg].path \in RootPlaces
      BY <1>4, <3>1
    <3>3. rows[kg].path \in DOMAIN disk' /\ disk'[rows[kg].path] = fg => Holds(rows[kg].path, fg)
      BY <3>1, <3>2 DEF Holds
    <3>. QED
      BY <1>2, <3>1, <3>3
  <2>10. kg \in DOMAIN rows' => rows'[kg].file \in astray' \cup {fg}
    BY <1>1, <1>2, <2>6
  <2>11. kg = k => k \in unsettled' /\ f \in astray' /\ fg \in astray'
    BY <1>1, <2>2, <2>6
  <2>12. RowCarried(g)'
    BY <2>4, <2>8 DEF RowCarried, RowIsTheFiles, Holds
  <2>13. FileCarried(g)'
    BY <2>4, <2>9, <2>10 DEF FileCarried, RowIsTheFiles, Holds
  <2>. QED
    BY <2>11, <2>12, <2>13 DEF kg, fg
<1>7. ASSUME NEW l \in DOMAIN rows \ (unsettled' \cup InHand' \cup {k})
      PROVE  (rows'[l].status = "ok") <=> Holds(rows[l].path, rows[l].file)'
  <2>1. (rows[l].status = "ok") <=> Holds(rows[l].path, rows[l].file)
    BY <1>1, <1>5 DEF IInv, IndexIsTrue
  <2>2. rows[l].path \notin places
    BY <1>1 DEF Claims, RowsAt
  <2>. QED
    BY <1>2, <1>4, <2>1, <2>2 DEF Holds
<1>8. ASSUME NEW q \in DOMAIN disk' \cap RootPlaces, ~(q = d /\ disk'[q] = f), disk'[q] \notin astray'
      PROVE  \/ \E g \in Carried \ {h} : q = Dst(g, work[g].cur) /\ disk'[q] = work[g].file
             \/ \E l \in RowsAt(q)' : rows'[l].status = "ok" /\ rows'[l].file = disk'[q]
  <2>1. q \in DOMAIN disk /\ disk'[q] = disk[q] /\ disk[q] \notin astray
    BY <1>1, <1>8
  <2>2. \/ \E g \in Carried : q = Dst(g, work[g].cur) /\ disk[q] = work[g].file
        \/ \E l \in RowsAt(q) : rows[l].status = "ok" /\ rows[l].file = disk[q]
    BY <2>1 DEF IInv, IndexIsTrue
  <2>. QED
    BY <1>2, <1>8, <2>1, <2>2 DEF RowsAt
<1>9. Carried' \ {h} = Carried \ {h}
  BY DEF Carried, OthersWait
<1>10. \A g \in Carried \ {h} : SoleCarrier(g)
  BY DEF IInv, HandsOK
<1>11. ASSUME NEW g \in Carried' PROVE SoleCarrier(g)'
  <2>. SUFFICES ASSUME NEW o \in Carried' \ {g}, work'[o].cur.row = work'[g].cur.row
                PROVE  work'[g].cur.row \in unsettled' /\ work'[g].file \in astray'
    BY DEF SoleCarrier
  <2>1. CASE g = h
    BY <1>3, <1>6, <1>9, <2>1
  <2>2. CASE g # h /\ o = h
    BY <1>3, <1>6, <1>9, <2>2
  <2>3. CASE g # h /\ o # h
    BY <1>1, <1>3, <1>9, <1>10, <2>3 DEF SoleCarrier
  <2>. QED
    BY <2>1, <2>2, <2>3
<1>12. HandsOK'
  <2>1. \A g \in Carried' : RowCarried(g)' /\ FileCarried(g)'
    BY <1>6, <1>9
  <2>. QED
    BY <1>11, <2>1 DEF HandsOK
<1>13. \A l \in DOMAIN rows' \ (unsettled' \cup InHand') :
        (rows'[l].status = "ok") <=> Holds(rows[l].path, rows[l].file)'
  BY <1>2, <1>7
<1>14. ASSUME NEW q \in DOMAIN disk' \cap RootPlaces
       PROVE  \/ disk'[q] \in astray'
              \/ \E g \in Carried' : q = Dst(g, work[g].cur)' /\ disk'[q] = work'[g].file
              \/ \E l \in RowsAt(q)' : rows'[l].status = "ok" /\ rows'[l].file = disk'[q]
  <2>1. CASE q = d /\ disk'[q] = f
    BY <2>1
  <2>2. ASSUME NEW g \in Carried \ {h}, q = Dst(g, work[g].cur), disk'[q] = work[g].file
        PROVE  \E g1 \in Carried' : q = Dst(g1, work[g1].cur)' /\ disk'[q] = work'[g1].file
    BY <1>3, <1>9, <2>2
  <2>. QED
    BY <1>8, <2>1, <2>2
<1>15. IndexIsTrue'
  BY <1>13, <1>14 DEF IndexIsTrue
<1>. QED
  BY <1>12, <1>15

(* A busy handler: no sweep is on that no job met.                          *)
LEMMA BusyMeets ==
  ASSUME LInv, IInv, NEW h \in Handlers, Busy(h), sweep' = sweep
  PROVE  /\ ~(sweep.on /\ sweep.alone) /\ WalkOK'
         /\ mixed' = mixed => MetOK'
         /\ ~mixed => ~sweep.on
BY DEF LInv, AloneOK, IInv, WalkOK, MetOK

(* What all the steps of the file system share.                             *)
LEMMA IndexFileFrame ==
  ASSUME TInv, LInv, IInv, NEW h \in Handlers, ChangesDisk(h)
  PROVE  /\ OthersWait(h) /\ IndexUnchanged /\ rows' = rows /\ mixed' = mixed
         /\ WalkOK' /\ MetOK'
         /\ mixed => HandsOK' /\ IndexIsTrue'
         /\ h \notin Moved
<1>1. OthersWait(h) /\ IndexUnchanged /\ rows' = rows /\ mixed' = mixed /\ sweep' = sweep /\ Busy(h)
  BY FileStepFrame DEF SweepUnchanged, IndexUnchanged
<1>2. WalkOK' /\ MetOK'
  BY <1>1, BusyMeets
<1>3. mixed => HandsOK' /\ IndexIsTrue'
  BY <1>1 DEF HandsOK, IndexIsTrue
<1>4. h \notin Moved
  BY DEF ChangesDisk, Renames, CopiesAcross, Removes, LeavesCopy, Moved
<1>. QED
  BY <1>1, <1>2, <1>3, <1>4

(* A frame of h's job is in the root.                                       *)
LEMMA FrameInRoot ==
  ASSUME TInv, NEW h \in Handlers, work[h].at = "next", NEW r \in work[h].todo
  PROVE  r.src \in RootPlaces
<1>1. Busy(h) /\ r \in jobs[work[h].job].frames
  BY DEF Busy, TInv, WorkersOK, WorkOK
<1>. QED
  BY <1>1, DstPlace

(* LeftToSweep: a row or file that is not left is the frame's own.          *)
LEMMA NotLeft ==
  ASSUME NEW h, NEW k, NEW src, NEW f, NEW places, NEW left,
         LeftToSweep(h, k, src, f, places, left)
  PROVE  /\ k \notin unsettled' => Own(h, k, src, f)
         /\ f \notin astray' => Own(h, k, src, f)
         /\ k \in DOMAIN rows => rows[k].file \in astray' \cup {f}
         /\ unsettled \subseteq unsettled' /\ astray \subseteq astray' /\ left \subseteq astray'
BY DEF LeftToSweep, Own

(* Steps of the file system.                                                *)
LEMMA IndexRenames ==
  ASSUME TInv, LInv, IInv, NEW h \in Handlers, Renames(h)
  PROVE  IInv'
<1>1. PICK r \in work[h].todo :
        Renamed(h, r) /\ LeftToSweep(h, r.row, r.src, disk[r.src], {r.src, Dst(h, r)}, {})
  BY RenamesEffect
<1>. DEFINE d == Dst(h, r)
            f == disk[r.src]
            k == r.row
            src == r.src
<1>2. /\ OthersWait(h) /\ IndexUnchanged /\ rows' = rows /\ mixed' = mixed /\ WalkOK' /\ MetOK'
      /\ mixed => HandsOK' /\ IndexIsTrue'
      /\ h \notin Moved
  BY IndexFileFrame DEF ChangesDisk
<1>3. CASE ~mixed
  <2>1. /\ work[h].at = "next" /\ work'[h].at = "moved" /\ work'[h].cur.row = k
        /\ work'[h].file = f /\ work'[h].dir = work[h].dir /\ work'[h].cur = r
    BY <1>1 DEF Renamed
  <2>2. Dst(h, work[h].cur)' = d /\ h \notin Carried /\ h \in Carried' /\ k \in InHand'
    BY <2>1 DEF Dst, Carried, InHand, Moved
  <2>3. d \in DOMAIN disk' /\ disk'[d] = f
        /\ (\A q \in RootPlaces \ {src, d} : /\ q \in DOMAIN disk' <=> q \in DOMAIN disk
                                             /\ q \in DOMAIN disk => disk'[q] = disk[q])
        /\ (\A q \in RootPlaces \cap {src, d} : q \in DOMAIN disk' => q = d /\ disk'[q] = f)
        /\ (src \in DOMAIN disk' => src = d)
    BY <1>1 DEF Renamed
  <2>4. LeftToSweep(h, k, src, f, {src, d}, {})
    BY <1>1
  <2>. HIDE DEF d, f, k, src
  <2>5. /\ k \notin unsettled' => Own(h, k, src, f)
        /\ f \notin astray' => Own(h, k, src, f)
        /\ k \in DOMAIN rows => rows[k].file \in astray' \cup {f}
    BY <2>4, NotLeft
  <2>6. Own(h, k, src, f) => k \in DOMAIN rows /\ rows[k].path = src /\ rows[k].file = f
    BY DEF Own
  <2>7. RowCarried(h)' /\ FileCarried(h)'
    BY <1>2, <2>1, <2>2, <2>3, <2>5, <2>6 DEF RowCarried, FileCarried, RowIsTheFiles, Holds
  <2>8. HandsOK' /\ IndexIsTrue'
    BY <1>2, <1>3, <2>1, <2>2, <2>3, <2>4, <2>7, TakeStep
  <2>. QED
    BY <1>2, <2>8 DEF IInv
<1>. QED
  BY <1>2, <1>3 DEF IInv

(* A copy fills a place; who gives up after it leaves it to the sweep.      *)
LEMMA IndexCopies ==
  ASSUME TInv, LInv, IInv, NEW h \in Handlers, CopiesAcross(h) \/ LeavesCopy(h)
  PROVE  IInv'
<1>0. PICK r \in work[h].todo : \E left :
        /\ CopyMade(h, r) /\ LeftToSweep(h, r.row, r.src, disk[r.src], {Dst(h, r)}, left)
        /\ Copied(h, r) \/ (CopyLeft(h, r) /\ left = Stray(h, r, disk[r.src]))
  BY CopiesEffect, LeavesEffect DEF Copied, CopyLeft
<1>1. PICK left :
        /\ CopyMade(h, r) /\ LeftToSweep(h, r.row, r.src, disk[r.src], {Dst(h, r)}, left)
        /\ Copied(h, r) \/ (CopyLeft(h, r) /\ left = Stray(h, r, disk[r.src]))
  BY <1>0
<1>. DEFINE d == Dst(h, r)
            f == disk[r.src]
            k == r.row
            src == r.src
<1>2. /\ OthersWait(h) /\ IndexUnchanged /\ rows' = rows /\ mixed' = mixed /\ WalkOK' /\ MetOK'
      /\ mixed => HandsOK' /\ IndexIsTrue'
      /\ h \notin Moved
  BY IndexFileFrame DEF ChangesDisk
<1>3. CASE ~mixed
  <2>1. work[h].at = "next" /\ h \notin Carried
    BY <1>1 DEF CopyMade, Carried
  <2>2. d \in DOMAIN disk' /\ disk'[d] = f /\ src \in DOMAIN disk /\ d \notin DOMAIN disk
        /\ (\A q \in RootPlaces \ {d} : /\ q \in DOMAIN disk' <=> q \in DOMAIN disk
                                        /\ q \in DOMAIN disk => disk'[q] = disk[q])
        /\ (\A q \in RootPlaces \cap {d} : q \in DOMAIN disk' => q = d /\ disk'[q] = f)
    BY <1>1 DEF CopyMade
  <2>3. LeftToSweep(h, k, src, f, {d}, left)
    BY <1>1
  <2>4. \/ /\ work'[h].at = "copied" /\ work'[h].cur.row = k /\ work'[h].file = f
           /\ Dst(h, work[h].cur)' = d
        \/ h \notin Carried' /\ (d \in RootPlaces => f \in left)
    <3>1. CASE Copied(h, r)
      <4>1. work'[h].at = "copied" /\ work'[h].cur = r /\ work'[h].file = f /\ work'[h].dir = work[h].dir
        BY <3>1 DEF Copied
      <4>. QED
        BY <4>1 DEF Dst
    <3>2. CASE CopyLeft(h, r) /\ left = Stray(h, r, disk[r.src])
      BY <3>2 DEF CopyLeft, Carried, Stray
    <3>. QED
      BY <1>1, <3>1, <3>2
  <2>5. src \in RootPlaces
    BY <2>1, FrameInRoot
  <2>6. InHand \subseteq InHand'
    BY <1>2 DEF InHand, Moved, OthersWait
  <2>. HIDE DEF d, f, k, src
  <2>7. /\ k \notin unsettled' => Own(h, k, src, f)
        /\ f \notin astray' => Own(h, k, src, f)
        /\ k \in DOMAIN rows => rows[k].file \in astray' \cup {f}
        /\ unsettled \subseteq unsettled' /\ left \subseteq astray'
    BY <2>3, NotLeft
  <2>8. Own(h, k, src, f) => k \in DOMAIN rows /\ rows[k].path = src /\ rows[k].file = f
    BY DEF Own
  <2>9. h \in Carried' => /\ Dst(h, work[h].cur)' = d /\ work'[h].cur.row = k /\ work'[h].file = f
                          /\ work'[h].at = "copied"
    BY <2>4
  <2>10. h \in Carried' => RowCarried(h)' /\ FileCarried(h)'
    BY <1>2, <2>2, <2>7, <2>8, <2>9 DEF RowCarried, FileCarried, RowIsTheFiles, Holds
  <2>11. h \notin Carried' => (d \in RootPlaces => f \in astray')
    BY <2>4, <2>7 DEF Carried
  <2>12. ASSUME k \in DOMAIN rows \ (unsettled' \cup InHand')
         PROVE  (rows'[k].status = "ok") <=> Holds(rows[k].path, rows[k].file)'
    <3>1. (rows[k].status = "ok") <=> Holds(rows[k].path, rows[k].file)
      BY <1>3, <2>6, <2>7, <2>12 DEF IInv, IndexIsTrue
    <3>2. rows[k].path = src /\ src # d
      BY <2>2, <2>7, <2>8, <2>12
    <3>. QED
      BY <1>2, <2>2, <2>5, <3>1, <3>2 DEF Holds
  <2>13. HandsOK' /\ IndexIsTrue'
    BY <1>2, <1>3, <2>1, <2>2, <2>3, <2>9, <2>10, <2>11, <2>12, TakeStep
  <2>. QED
    BY <1>2, <2>13 DEF IInv
<1>. QED
  BY <1>2, <1>3 DEF IInv

(* The removal of the original takes the file from where the row says.      *)
LEMMA IndexRemoves ==
  ASSUME TInv, LInv, IInv, NEW h \in Handlers, Removes(h)
  PROVE  IInv'
<1>. DEFINE src == work[h].cur.src
            k == work[h].cur.row
            f == work[h].file
            d == Dst(h, work[h].cur)
<1>1. Removed(h) /\ LeftToSweep(h, k, src, f, {src}, {})
  BY RemovesEffect
<1>2. /\ OthersWait(h) /\ IndexUnchanged /\ rows' = rows /\ mixed' = mixed /\ WalkOK' /\ MetOK'
      /\ mixed => HandsOK' /\ IndexIsTrue'
      /\ h \notin Moved
  BY IndexFileFrame DEF ChangesDisk
<1>3. CASE ~mixed
  <2>1. /\ work[h].at = "copied" /\ work'[h].at = "moved" /\ work'[h].cur.row = k
        /\ work'[h].file = f /\ work'[h].dir = work[h].dir /\ work'[h].cur = work[h].cur
    BY <1>1 DEF Removed
  <2>2. Dst(h, work[h].cur)' = d /\ h \in Carried /\ h \in Carried' /\ k \in InHand'
    BY <2>1 DEF Dst, Carried, InHand, Moved
  <2>3. d # src
    <3>1. Crosses(h, work[h].cur)
      BY <2>1 DEF LInv, CopiesStand, CopyStands
    <3>. QED
      BY <3>1 DEF Crosses, Dst
  <2>4. (\A q \in RootPlaces \ {src} : /\ q \in DOMAIN disk' <=> q \in DOMAIN disk
                                       /\ q \in DOMAIN disk => disk'[q] = disk[q])
        /\ src \notin DOMAIN disk'
    BY <1>1 DEF Removed
  <2>5. /\ k \notin unsettled => (d \in RootPlaces => Holds(d, f))
    BY <1>3, <2>2 DEF IInv, HandsOK, RowCarried
  <2>. HIDE DEF d, f, src, k
  <2>6. /\ k \notin unsettled' => Own(h, k, src, f)
        /\ f \notin astray' => Own(h, k, src, f)
        /\ k \in DOMAIN rows => rows[k].file \in astray' \cup {f}
        /\ unsettled \subseteq unsettled'
    BY <1>1, NotLeft
  <2>7. Own(h, k, src, f) => k \in DOMAIN rows /\ rows[k].path = src /\ rows[k].file = f
    BY DEF Own
  <2>8. k \notin unsettled' => (d \in RootPlaces => d \in DOMAIN disk' /\ disk'[d] = f)
    BY <2>3, <2>4, <2>5, <2>6 DEF Holds
  <2>9. RowCarried(h)' /\ FileCarried(h)'
    BY <1>2, <2>1, <2>2, <2>4, <2>6, <2>7, <2>8 DEF RowCarried, FileCarried, RowIsTheFiles, Holds
  <2>10. Dst(h, work[h].cur) = d /\ work[h].file = f
    BY DEF d, f
  <2>11. HandsOK' /\ IndexIsTrue'
    BY <1>1, <1>2, <1>3, <2>1, <2>2, <2>4, <2>9, <2>10, TakeStep
  <2>. QED
    BY <1>2, <2>11 DEF IInv
<1>. QED
  BY <1>2, <1>3 DEF IInv

(* Where handlers drop what they carry, or nothing of it changes.           *)
LEMMA HandsLoosen ==
  ASSUME IInv, rows' = rows, disk' = disk, ~mixed' => ~mixed,
         unsettled \subseteq unsettled', astray \subseteq astray',
         Carried' \subseteq Carried, \A h \in Carried' : work'[h] = work[h],
         \A h \in Carried \ Carried' :
           /\ h \in Moved => work[h].cur.row \in unsettled'
           /\ Dst(h, work[h].cur) \in RootPlaces => work[h].file \in astray'
  PROVE  HandsOK' /\ IndexIsTrue'
<1>1. \A h \in Carried' : Dst(h, work[h].cur)' = Dst(h, work[h].cur)
  BY DEF Dst
<1>2. HandsOK'
  <2>. SUFFICES ASSUME ~mixed, NEW h \in Carried' PROVE RowCarried(h)' /\ FileCarried(h)' /\ SoleCarrier(h)'
    BY DEF HandsOK
  <2>1. RowCarried(h) /\ FileCarried(h) /\ SoleCarrier(h)
    BY DEF IInv, HandsOK
  <2>2. Dst(h, work[h].cur)' = Dst(h, work[h].cur) /\ work'[h] = work[h]
    BY <1>1
  <2>3. RowIsTheFiles(h)' <=> RowIsTheFiles(h)
    BY <2>2 DEF RowIsTheFiles, Holds
  <2>4. RowCarried(h)' /\ FileCarried(h)'
    BY <2>1, <2>2, <2>3 DEF RowCarried, FileCarried, Holds
  <2>5. SoleCarrier(h)'
    BY <2>1, <2>2 DEF SoleCarrier
  <2>. QED
    BY <2>4, <2>5
<1>3. IndexIsTrue'
  <2>. SUFFICES ASSUME ~mixed PROVE IndexIsTrue'
    BY DEF IndexIsTrue
  <2>1. unsettled \cup InHand \subseteq unsettled' \cup InHand'
    BY DEF InHand, Moved, Carried
  <2>2. \A k \in DOMAIN rows' \ (unsettled' \cup InHand') :
            (rows'[k].status = "ok") <=> Holds(rows[k].path, rows[k].file)'
    BY <2>1 DEF IInv, IndexIsTrue, Holds
  <2>3. ASSUME NEW p \in DOMAIN disk' \cap RootPlaces
        PROVE  \/ disk'[p] \in astray'
               \/ \E h \in Carried' : p = Dst(h, work[h].cur)' /\ disk'[p] = work'[h].file
               \/ \E k \in RowsAt(p)' : rows'[k].status = "ok" /\ rows'[k].file = disk'[p]
    <3>1. \/ disk[p] \in astray
          \/ \E h \in Carried : p = Dst(h, work[h].cur) /\ disk[p] = work[h].file
          \/ \E k \in RowsAt(p) : rows[k].status = "ok" /\ rows[k].file = disk[p]
      BY DEF IInv, IndexIsTrue
    <3>2. ASSUME NEW h \in Carried, p = Dst(h, work[h].cur), disk[p] = work[h].file
          PROVE  \/ disk'[p] \in astray'
                 \/ \E g \in Carried' : p = Dst(g, work[g].cur)' /\ disk'[p] = work'[g].file
      BY <1>1, <3>2
    <3>. QED
      BY <3>1, <3>2 DEF RowsAt
  <2>. QED
    BY <2>2, <2>3 DEF IndexIsTrue
<1>. QED
  BY <1>2, <1>3

(* The write-back makes the row of what was moved true.                     *)
LEMMA IndexWritesBack ==
  ASSUME TInv, LInv, IInv, NEW h \in Handlers, WritesBack(h)
  PROVE  IInv'
<1>. DEFINE k == work[h].cur.row
            f == work[h].file
            d == Dst(h, work[h].cur)
<1>1. /\ h \in Moved /\ Busy(h) /\ disk' = disk /\ sweep' = sweep /\ mixed' = mixed
      /\ unsettled' = unsettled /\ astray' = astray
      /\ work'[h].at = "record" /\ OthersWait(h)
  BY DEF WritesBack, Moved, Busy, SweepUnchanged, HistoryUnchanged, TInv, WorkersOK, OthersWait
<1>2. \/ k \notin DOMAIN rows /\ rows' = rows
      \/ k \in DOMAIN rows /\ d \in RootPlaces /\ rows' = Reanchors(k, d)
      \/ k \in DOMAIN rows /\ d \notin RootPlaces /\ rows' = Leaves(k)
  BY DEF WritesBack
<1>3. /\ DOMAIN rows' = DOMAIN rows
      /\ \A l \in DOMAIN rows : rows'[l].file = rows[l].file
      /\ \A l \in DOMAIN rows \ {k} : rows'[l] = rows[l]
      /\ k \in DOMAIN rows /\ d \in RootPlaces => rows'[k].path = d /\ rows'[k].status = "ok"
      /\ k \in DOMAIN rows /\ d \notin RootPlaces =>
           rows'[k].path = rows[k].path /\ rows'[k].status = "missing"
  <2>1. CASE k \notin DOMAIN rows /\ rows' = rows
    BY <2>1
  <2>2. CASE k \in DOMAIN rows /\ d \in RootPlaces /\ rows' = Reanchors(k, d)
    <3>1. rows[k] \in Row
      BY <2>2 DEF TInv, RowsOK
    <3>2. rows' = [rows EXCEPT ![k] = [rows[k] EXCEPT !.path = d, !.status = "ok"]]
      BY <2>2, <3>1 DEF Reanchors
    <3>3. rows'[k] = [path |-> d, status |-> "ok", file |-> rows[k].file]
      BY <2>2, <3>1, <3>2 DEF Row
    <3>. HIDE DEF k, d
    <3>. QED
      BY <2>2, <3>2, <3>3
  <2>3. CASE k \in DOMAIN rows /\ d \notin RootPlaces /\ rows' = Leaves(k)
    <3>1. rows[k] \in Row
      BY <2>3 DEF TInv, RowsOK
    <3>2. rows' = [rows EXCEPT ![k].status = "missing"]
      BY <2>3 DEF Leaves
    <3>3. rows'[k] = [path |-> rows[k].path, status |-> "missing", file |-> rows[k].file]
      BY <2>3, <3>1, <3>2 DEF Row
    <3>. HIDE DEF k, d
    <3>. QED
      BY <2>3, <3>2, <3>3
  <2>. QED
    BY <1>2, <2>1, <2>2, <2>3
<1>4. /\ Moved' = Moved \ {h} /\ Carried' = Carried \ {h} /\ h \in Carried
      /\ \A g \in Carried' : work'[g] = work[g] /\ Dst(g, work[g].cur)' = Dst(g, work[g].cur)
  BY <1>1 DEF Moved, Carried, OthersWait, Dst
<1>6. WalkOK' /\ MetOK'
  BY <1>1, BusyMeets
<1>7. CASE mixed
  BY <1>1, <1>6, <1>7 DEF IInv, HandsOK, IndexIsTrue
<1>8. CASE ~mixed
  <2>1. ASSUME NEW g \in Carried' PROVE RowCarried(g)' /\ FileCarried(g)' /\ SoleCarrier(g)'
    <3>1. RowCarried(g) /\ FileCarried(g) /\ SoleCarrier(g) /\ h \in Carried \ {g}
      BY <1>4, <1>8, <2>1 DEF IInv, HandsOK
    <3>2. work'[g] = work[g] /\ Dst(g, work[g].cur)' = Dst(g, work[g].cur)
      BY <1>4, <2>1
    <3>3. work[g].cur.row = k => k \in unsettled /\ work[g].file \in astray
      BY <3>1 DEF SoleCarrier
    <3>4. work[g].cur.row # k => (RowIsTheFiles(g)' <=> RowIsTheFiles(g))
      BY <1>1, <1>3, <3>2 DEF RowIsTheFiles, Holds
    <3>5. RowCarried(g)'
      BY <1>1, <3>1, <3>2, <3>3, <3>4 DEF RowCarried, Holds
    <3>6. FileCarried(g)'
      BY <1>1, <1>3, <3>1, <3>2, <3>3, <3>4 DEF FileCarried
    <3>7. SoleCarrier(g)'
      BY <1>1, <1>4, <3>1, <3>2 DEF SoleCarrier
    <3>. QED
      BY <3>5, <3>6, <3>7
  <2>3. HandsOK'
    BY <2>1 DEF HandsOK
  <2>4. InHand \subseteq InHand' \cup {k}
    BY <1>4 DEF InHand, Moved, Carried
  <2>5. /\ k \notin unsettled => /\ k \in DOMAIN rows /\ rows[k].file = f
                                 /\ Holds(rows[k].path, f) => rows[k].path = d
                                 /\ d \in RootPlaces => Holds(d, f)
        /\ f \notin astray => /\ k \in DOMAIN rows /\ rows[k].file = f
                              /\ Holds(rows[k].path, f) => rows[k].path = d
        /\ k \in DOMAIN rows => rows[k].file \in astray \cup {f}
    BY <1>1, <1>4, <1>8 DEF IInv, HandsOK, RowCarried, FileCarried, RowIsTheFiles, Moved
  <2>. HIDE DEF k, f, d
  <2>6. ASSUME NEW l \in DOMAIN rows' \ (unsettled' \cup InHand')
        PROVE  (rows'[l].status = "ok") <=> Holds(rows'[l].path, rows'[l].file)
    <3>1. CASE l # k
      <4>1. l \in DOMAIN rows \ (unsettled \cup InHand) /\ rows'[l] = rows[l]
        BY <1>1, <1>3, <2>4, <2>6, <3>1
      <4>. QED
        BY <1>8, <4>1 DEF IInv, IndexIsTrue
    <3>2. CASE l = k
      <4>1. k \notin unsettled /\ k \in DOMAIN rows
        BY <1>1, <1>3, <2>6, <3>2
      <4>2. rows[k].path \in RootPlaces /\ rows'[k].file = f
        BY <1>3, <2>5, <4>1 DEF TInv, RowsOK
      <4>3. CASE d \in RootPlaces
        BY <1>3, <2>5, <3>2, <4>1, <4>2, <4>3
      <4>4. CASE d \notin RootPlaces
        BY <1>3, <2>5, <3>2, <4>1, <4>2, <4>4
      <4>. QED
        BY <4>3, <4>4
    <3>. QED
      BY <3>1, <3>2
  <2>7. ASSUME NEW q \in DOMAIN disk \cap RootPlaces, disk[q] \notin astray
        PROVE  \/ \E g \in Carried' : q = Dst(g, work[g].cur) /\ disk[q] = work[g].file
               \/ \E l \in DOMAIN rows' : /\ rows'[l].path = q /\ rows'[l].status = "ok"
                                          /\ rows'[l].file = disk[q]
    <3>1. CASE q = d /\ disk[q] = f
      <4>1. k \in DOMAIN rows /\ rows[k].file = f /\ d \in RootPlaces
        BY <2>5, <2>7, <3>1
      <4>. QED
        BY <1>3, <3>1, <4>1
    <3>2. ASSUME NEW g \in Carried, q = Dst(g, work[g].cur), disk[q] = work[g].file, ~(q = d /\ disk[q] = f)
          PROVE  g \in Carried'
      BY <1>4, <3>2 DEF d, f
    <3>3. ASSUME NEW l \in RowsAt(q), rows[l].status = "ok", rows[l].file = disk[q]
          PROVE  \E m \in DOMAIN rows' : /\ rows'[m].path = q /\ rows'[m].status = "ok"
                                          /\ rows'[m].file = disk[q]
      <4>1. l \in DOMAIN rows /\ rows[l].path = q
        BY DEF RowsAt
      <4>2. CASE l # k
        BY <1>3, <3>3, <4>1, <4>2
      <4>3. CASE l = k
        <5>1. disk[q] = f
          BY <2>5, <2>7, <3>3, <4>1, <4>3
        <5>2. Holds(rows[k].path, f) /\ f \notin astray
          BY <2>7, <4>1, <4>3, <5>1 DEF Holds
        <5>3. q = d
          BY <2>5, <4>1, <4>3, <5>2
        <5>. QED
          BY <1>3, <3>3, <4>1, <4>3, <5>3
      <4>. QED
        BY <4>2, <4>3
    <3>4. \/ \E g \in Carried : q = Dst(g, work[g].cur) /\ disk[q] = work[g].file
          \/ \E l \in RowsAt(q) : rows[l].status = "ok" /\ rows[l].file = disk[q]
      BY <1>8, <2>7 DEF IInv, IndexIsTrue
    <3>. QED
      BY <3>1, <3>2, <3>3, <3>4
  <2>8. IndexIsTrue'
    <3>1. ASSUME NEW q \in DOMAIN disk' \cap RootPlaces
          PROVE  \/ disk'[q] \in astray'
                 \/ \E g \in Carried' : q = Dst(g, work[g].cur)' /\ disk'[q] = work'[g].file
                 \/ \E l \in RowsAt(q)' : rows'[l].status = "ok" /\ rows'[l].file = disk'[q]
      BY <1>1, <1>4, <2>7 DEF RowsAt
    <3>2. \A l \in DOMAIN rows' \ (unsettled' \cup InHand') :
            (rows'[l].status = "ok") <=> Holds(rows[l].path, rows[l].file)'
      BY <1>1, <2>6 DEF Holds
    <3>. QED
      BY <3>1, <3>2 DEF IndexIsTrue
  <2>. QED
    BY <1>6, <2>3, <2>8 DEF IInv
<1>. QED
  BY <1>7, <1>8

(* Requests, ledger and failures.                                           *)
LEMMA IndexOthers ==
  ASSUME TInv, LInv, IInv, NEW h \in Handlers,
         \/ Submit(h) \/ Fails(h) \/ IoFails(h) \/ Records(h) \/ Finishes(h)
         \/ WriteBackRefused(h) \/ RecordRefused(h) \/ StatementFails(h)
  PROVE  IInv'
<1>. DEFINE Left == /\ h \in Moved => work[h].cur.row \in unsettled'
                    /\ Dst(h, work[h].cur) \in RootPlaces => work[h].file \in astray'
<1>1. /\ disk' = disk /\ rows' = rows /\ OthersWait(h)
      /\ unsettled \subseteq unsettled' /\ astray \subseteq astray'
      /\ work'[h].at \notin {"copied", "moved"}
      /\ h \in Carried => Left
  <2>1. CASE Submit(h)
    BY <2>1 DEF Submit, IndexUnchanged, HistoryUnchanged, OthersWait, TInv, WorkersOK, Carried, Busy
  <2>2. CASE Fails(h)
    BY <2>2 DEF Fails, IndexUnchanged, HistoryUnchanged, OthersWait, TInv, WorkersOK, Carried
  <2>3. CASE IoFails(h)
    <3>1. /\ disk' = disk /\ rows' = rows /\ OthersWait(h)
          /\ unsettled \subseteq unsettled' /\ astray \subseteq astray'
          /\ work'[h].at \notin {"copied", "moved"} /\ h \notin Moved
      BY <2>3 DEF IoFails, IndexUnchanged, HistoryUnchanged, OthersWait, TInv, WorkersOK, Moved
    <3>2. h \in Carried => (Dst(h, work[h].cur) \in RootPlaces => work[h].file \in astray')
      BY <2>3 DEF IoFails, Carried, Stray
    <3>. QED
      BY <3>1, <3>2
  <2>4. CASE Records(h) \/ Finishes(h)
    BY <2>4 DEF Records, Finishes, IndexUnchanged, HistoryUnchanged, OthersWait, TInv, WorkersOK, Carried, Idle
  <2>5. CASE WriteBackRefused(h) \/ RecordRefused(h) \/ StatementFails(h)
    <3>1. Abandon(h)
      BY <2>5 DEF WriteBackRefused, RecordRefused, StatementFails
    <3>2. h \in Carried => Left
      BY <3>1 DEF Abandon
    <3>. QED
      BY <3>1, <3>2 DEF Abandon, IndexUnchanged, OthersWait, TInv, WorkersOK, Idle
  <2>. QED
    BY <2>1, <2>2, <2>3, <2>4, <2>5
<1>2. /\ Carried' = Carried \ {h} /\ (\A g \in Carried' : work'[g] = work[g])
      /\ \A g \in Carried \ Carried' : g = h
  BY <1>1 DEF Carried, OthersWait
<1>4. CASE Submit(h)
  <2>1. WalkOK'
    <3>1. CASE sweep.on
      <4>1. PICK w \in 0..Len(WalkOrder), a \in BOOLEAN : \E n :
              sweep = [on |-> TRUE, walked |-> w, alone |-> a, prior |-> n]
        BY <3>1 DEF TInv, SweepOK
      <4>2. sweep' = [sweep EXCEPT !.alone = FALSE]
        BY <1>4, <3>1 DEF Submit
      <4>3. ~sweep'.alone
        BY <4>1, <4>2
      <4>. QED
        BY <4>3 DEF WalkOK
    <3>2. CASE ~sweep.on
      <4>1. sweep' = sweep
        BY <1>4, <3>2 DEF Submit
      <4>. QED
        BY <3>2, <4>1 DEF WalkOK
    <3>. QED
      BY <3>1, <3>2
  <2>2. MetOK'
    BY <1>4 DEF Submit, MetOK
  <2>3. ~mixed' => ~mixed
    BY <1>4, Zenon DEF Submit
  <2>4. HandsOK' /\ IndexIsTrue'
    BY <1>1, <1>2, <2>3, HandsLoosen
  <2>. QED
    BY <2>1, <2>2, <2>4 DEF IInv
<1>5. CASE ~Submit(h)
  <2>1. sweep' = sweep /\ mixed' = mixed /\ Busy(h)
    BY <1>5 DEF Fails, IoFails, Records, Finishes, WriteBackRefused, RecordRefused, StatementFails,
       Abandon, SweepUnchanged, Busy
  <2>2. WalkOK' /\ MetOK'
    BY <2>1, BusyMeets
  <2>3. HandsOK' /\ IndexIsTrue'
    BY <1>1, <1>2, <2>1, HandsLoosen
  <2>. QED
    BY <2>2, <2>3 DEF IInv
<1>. QED
  BY <1>4, <1>5

(* A kill leaves what was in hand to the next sweep.                        *)
LEMMA IndexCrash ==
  ASSUME TInv, IInv, Crash
  PROVE  IInv'
<1>1. /\ disk' = disk /\ rows' = rows /\ mixed' = mixed /\ sweep' = Off
      /\ unsettled' = unsettled \cup InHand /\ astray' = astray \cup {work[h].file : h \in Carried}
      /\ Carried' = {}
  BY DEF Crash, Carried, Idle
<1>2. WalkOK' /\ MetOK'
  BY <1>1 DEF WalkOK, MetOK, Off
<1>3. \A h \in Carried : (h \in Moved => work[h].cur.row \in unsettled') /\ work[h].file \in astray'
  BY <1>1 DEF InHand
<1>4. HandsOK' /\ IndexIsTrue'
  BY <1>1, <1>3, HandsLoosen
<1>. QED
  BY <1>2, <1>4 DEF IInv

(* A sweep starts, alone or with jobs about.                                *)
LEMMA IndexSweepStarts ==
  ASSUME TInv, IInv, SweepStarts
  PROVE  IInv'
<1>. DEFINE alone == \A h \in Handlers : ~Busy(h)
            prior == Cardinality({k \in DOMAIN rows : rows[k].status = "ok"})
<1>1. /\ disk' = disk /\ rows' = rows /\ work' = work /\ unsettled' = unsettled /\ astray' = astray
      /\ sweep' = [on |-> TRUE, walked |-> 0, alone |-> alone, prior |-> prior]
      /\ mixed' = (mixed \/ ~alone) /\ seen' = {}
  BY DEF SweepStarts, HistoryUnchanged
<1>2. sweep'.alone <=> alone
  BY <1>1
<1>3. sweep'.walked = 0
  BY <1>1
<1>4. WalkOK' /\ MetOK'
  <2>1. 1..sweep'.walked = {}
    BY <1>3
  <2>2. WalkOK'
    BY <1>1, <2>1 DEF WalkOK
  <2>3. MetOK'
    BY <1>1, <1>2 DEF MetOK
  <2>. QED
    BY <2>2, <2>3
<1>. HIDE DEF alone, prior
<1>5. CASE mixed'
  BY <1>4, <1>5 DEF IInv, HandsOK, IndexIsTrue
<1>6. CASE ~mixed'
  <2>1. ~mixed
    BY <1>1, <1>6
  <2>2. Carried' = Carried
    BY <1>1 DEF Carried
  <2>3. HandsOK' /\ IndexIsTrue'
    BY <1>1, <2>1, <2>2, HandsLoosen
  <2>. QED
    BY <1>4, <2>3 DEF IInv
<1>. QED
  BY <1>5, <1>6

(* What the visit of a place leaves in the table.                           *)
LEMMA IndexEffect ==
  ASSUME TInv, NEW p \in RootPlaces, NEW f \in Files, Index(p, f)
  PROVE  \E k : /\ DOMAIN rows' = DOMAIN rows \cup {k} /\ seen' = seen \cup {k}
                /\ rows'[k].path = p /\ rows'[k].status = "ok" /\ rows'[k].file = f
                /\ \A l \in DOMAIN rows \ {k} : rows'[l] = rows[l]
                /\ k \in DOMAIN rows => rows[k].path = p
<1>1. CASE RowsAt(p) # {}
  <2>1. PICK k \in RowsAt(p) :
            /\ rows' = [rows EXCEPT ![k].status = "ok", ![k].file = f]
            /\ seen' = seen \cup {k}
    BY <1>1 DEF Index
  <2>2. k \in DOMAIN rows /\ rows[k] \in Row /\ rows[k].path = p
    BY DEF RowsAt, TInv, RowsOK
  <2>3. rows' = [rows EXCEPT ![k] = [rows[k] EXCEPT !.status = "ok", !.file = f]]
    BY <2>1, <2>2
  <2>4. rows'[k] = [path |-> rows[k].path, status |-> "ok", file |-> f]
    BY <2>2, <2>3 DEF Row
  <2>5. DOMAIN rows' = DOMAIN rows \cup {k} /\ \A l \in DOMAIN rows \ {k} : rows'[l] = rows[l]
    BY <2>2, <2>3
  <2>6. rows'[k].path = p /\ rows'[k].status = "ok" /\ rows'[k].file = f
    BY <2>2, <2>4
  <2>7. seen' = seen \cup {k} /\ (k \in DOMAIN rows => rows[k].path = p)
    BY <2>1, <2>2
  <2>. QED
    BY <2>5, <2>6, <2>7, Zenon
<1>2. CASE RowsAt(p) = {}
  <2>. DEFINE r == [path |-> p, status |-> "ok", file |-> f]
  <2>1. rows' = With(rows, nextId, r) /\ seen' = seen \cup {nextId}
    BY <1>2 DEF Index
  <2>2. DOMAIN rows' = DOMAIN rows \cup {nextId} /\ nextId \notin DOMAIN rows
        /\ rows'[nextId] = r /\ \A l \in DOMAIN rows : rows'[l] = rows[l]
    BY <2>1 DEF With, TInv, RowsOK
  <2>. QED
    BY <2>1, <2>2
<1>. QED
  BY <1>1, <1>2

(* A place is visited: the row of what is there becomes true, and no other  *)
(* row changes.                                                             *)
LEMMA IndexSweepVisits ==
  ASSUME TInv, LInv, IInv, SweepVisits
  PROVE  IInv'
<1>. DEFINE n == sweep.walked + 1
            p == WalkOrder[sweep.walked + 1]
<1>1. /\ disk' = disk /\ work' = work /\ mixed' = mixed /\ sweep.on
      /\ unsettled' = unsettled /\ astray' = astray
  BY DEF SweepVisits, HistoryUnchanged
<1>2. /\ sweep.walked \in Nat /\ n \in 1..Len(WalkOrder)
      /\ sweep'.on = TRUE /\ sweep'.walked = n /\ (sweep'.alone <=> sweep.alone)
  <2>1. PICK w \in 0..Len(WalkOrder), a \in BOOLEAN : \E m :
            sweep = [on |-> TRUE, walked |-> w, alone |-> a, prior |-> m]
    BY <1>1 DEF TInv, SweepOK
  <2>2. PICK m : sweep = [on |-> TRUE, walked |-> w, alone |-> a, prior |-> m]
    BY <2>1
  <2>3. sweep' = [on |-> TRUE, walked |-> w + 1, alone |-> a, prior |-> m]
    BY <2>2 DEF SweepVisits
  <2>. QED
    BY <2>2, <2>3, FileActionAssumption DEF SweepVisits
<1>3. p \in RootPlaces
  BY <1>2, FileActionAssumption
<1>4. MetOK'
  BY <1>1, <1>2 DEF IInv, MetOK
<1>5. CASE ~sweep.alone
  <2>1. mixed' /\ WalkOK'
    BY <1>1, <1>2, <1>5 DEF IInv, MetOK, WalkOK
  <2>. QED
    BY <1>4, <2>1 DEF IInv, HandsOK, IndexIsTrue
<1>6. CASE sweep.alone
  <2>1. Carried' = {} /\ Carried = {}
    BY <1>1, <1>6 DEF LInv, AloneOK, Carried, Busy
  <2>2. HandsOK' /\ InHand = {} /\ InHand' = {}
    BY <2>1 DEF HandsOK, InHand, Moved, Carried
  <2>3. /\ \A m \in 1..sweep.walked : WalkOrder[m] \in DOMAIN disk =>
             \E k \in DOMAIN rows : rows[k].path = WalkOrder[m] /\ k \in seen
        /\ \A k \in DOMAIN rows : k \in seen =>
             rows[k].status = "ok" /\ rows[k].path \in DOMAIN disk /\ disk[rows[k].path] = rows[k].file
    BY <1>1, <1>6 DEF IInv, WalkOK, RowsAt, Holds
  <2>4. ~mixed => /\ \A k \in DOMAIN rows \ unsettled : (rows[k].status = "ok") <=>
                       (rows[k].path \in DOMAIN disk /\ disk[rows[k].path] = rows[k].file)
                  /\ \A q \in DOMAIN disk \cap RootPlaces : disk[q] \in astray \/
                       \E k \in DOMAIN rows : /\ rows[k].path = q /\ rows[k].status = "ok"
                                              /\ rows[k].file = disk[q]
    BY <2>1, <2>2 DEF IInv, IndexIsTrue, RowsAt, Holds
  <2>5. \A m \in 1..n : m \in 1..sweep.walked \/ m = n
    BY <1>2
  <2>6. CASE p \notin DOMAIN disk
    <3>1. rows' = rows /\ seen' = seen
      BY <2>6 DEF SweepVisits, IndexUnchanged
    <3>2. WalkOK'
      BY <1>1, <1>2, <2>1, <2>3, <2>5, <2>6, <3>1 DEF WalkOK, RowsAt, Holds
    <3>3. IndexIsTrue'
      BY <1>1, <2>2, <2>4, <3>1 DEF IndexIsTrue, RowsAt, Holds
    <3>. QED
      BY <1>4, <2>2, <3>2, <3>3 DEF IInv
  <2>7. CASE p \in DOMAIN disk
    <3>1. Index(p, disk[p]) /\ disk[p] \in Files
      BY <2>7 DEF SweepVisits, TInv, DiskOK
    <3>. HIDE DEF p
    <3>2. PICK k : /\ DOMAIN rows' = DOMAIN rows \cup {k} /\ seen' = seen \cup {k}
                   /\ rows'[k].path = p /\ rows'[k].status = "ok" /\ rows'[k].file = disk[p]
                   /\ \A l \in DOMAIN rows \ {k} : rows'[l] = rows[l]
                   /\ k \in DOMAIN rows => rows[k].path = p
      BY <1>3, <3>1, IndexEffect
    <3>. HIDE DEF n
    <3>3. \A l \in DOMAIN rows : l \in DOMAIN rows' /\ rows'[l].path = rows[l].path
      BY <3>2
    <3>4. \A m \in 1..n : WalkOrder[m] \in DOMAIN disk =>
             \E l \in DOMAIN rows' : rows'[l].path = WalkOrder[m] /\ l \in seen'
      <4>1. WalkOrder[n] = p
        BY DEF n, p
      <4>2. k \in DOMAIN rows' /\ k \in seen' /\ seen \subseteq seen'
        BY <3>2
      <4>. QED
        BY <2>3, <2>5, <3>2, <3>3, <4>1, <4>2
    <3>5. \A l \in DOMAIN rows' : l \in seen' =>
             rows'[l].status = "ok" /\ rows'[l].path \in DOMAIN disk /\ disk[rows'[l].path] = rows'[l].file
      BY <2>3, <2>7, <3>2
    <3>6. WalkOK'
      BY <1>1, <1>2, <2>1, <3>4, <3>5 DEF WalkOK, RowsAt, Holds
    <3>7. ~mixed => \A l \in DOMAIN rows' \ unsettled : (rows'[l].status = "ok") <=>
             (rows'[l].path \in DOMAIN disk /\ disk[rows'[l].path] = rows'[l].file)
      BY <2>4, <2>7, <3>2
    <3>8. ASSUME ~mixed, NEW q \in DOMAIN disk \cap RootPlaces, disk[q] \notin astray
          PROVE  \E l \in DOMAIN rows' : /\ rows'[l].path = q /\ rows'[l].status = "ok"
                                         /\ rows'[l].file = disk[q]
      <4>1. PICK l \in DOMAIN rows : /\ rows[l].path = q /\ rows[l].status = "ok"
                                     /\ rows[l].file = disk[q]
        BY <2>4, <3>8
      <4>. QED
        BY <3>2, <4>1
    <3>9. IndexIsTrue'
      BY <1>1, <2>2, <3>7, <3>8 DEF IndexIsTrue, RowsAt, Holds
    <3>. QED
      BY <1>4, <2>2, <3>6, <3>9 DEF IInv
  <2>. QED
    BY <2>6, <2>7
<1>. QED
  BY <1>5, <1>6

(* At the end of a walk that no job met: a row was seen and is true, or its *)
(* place is empty, and what is in the root has a row that was seen.         *)
LEMMA WalkDone ==
  ASSUME TInv, LInv, IInv, sweep.on, sweep.alone, sweep.walked = Len(WalkOrder)
  PROVE  /\ Carried = {}
         /\ \A k \in DOMAIN rows : k \in seen =>
              rows[k].status = "ok" /\ rows[k].path \in DOMAIN disk /\ disk[rows[k].path] = rows[k].file
         /\ \A k \in DOMAIN rows : k \notin seen => rows[k].path \notin DOMAIN disk
         /\ \A q \in DOMAIN disk \cap RootPlaces :
              \E k \in DOMAIN rows : k \in seen /\ rows[k].path = q
<1>1. Carried = {}
  BY DEF LInv, AloneOK, Carried, Busy
<1>2. \A k \in DOMAIN rows : k \in seen =>
        rows[k].status = "ok" /\ rows[k].path \in DOMAIN disk /\ disk[rows[k].path] = rows[k].file
  BY DEF IInv, WalkOK, Holds
<1>3. ASSUME NEW q \in DOMAIN disk \cap RootPlaces
      PROVE  \E k \in DOMAIN rows : k \in seen /\ rows[k].path = q
  <2>1. PICK m \in DOMAIN WalkOrder : WalkOrder[m] = q
    BY FileActionAssumption
  <2>2. m \in 1..sweep.walked
    BY FileActionAssumption
  <2>. QED
    BY <2>1, <2>2 DEF IInv, WalkOK, RowsAt
<1>4. \A k \in DOMAIN rows : k \notin seen => rows[k].path \notin DOMAIN disk
  BY <1>3 DEF TInv, RowsOK
<1>. QED
  BY <1>1, <1>2, <1>3, <1>4

(* The reconciliation of a sweep that no job met leaves every row true, and *)
(* a row for every file in the root; it forgives what was left to it.       *)
LEMMA IndexSweepReconciles ==
  ASSUME TInv, LInv, IInv, SweepReconciles
  PROVE  IInv'
<1>1. /\ disk' = disk /\ work' = work /\ sweep' = Off /\ sweep.on
      /\ sweep.walked = Len(WalkOrder)
  BY DEF SweepReconciles
<1>2. WalkOK' /\ MetOK'
  BY <1>1 DEF WalkOK, MetOK, Off
<1>3. CASE sweep.alone /\ ~Unhealthy
  <2>1. unsettled' = {}
    BY <1>3 DEF SweepReconciles
  <2>2. /\ Carried = {}
        /\ \A k \in DOMAIN rows : k \in seen =>
             rows[k].status = "ok" /\ rows[k].path \in DOMAIN disk /\ disk[rows[k].path] = rows[k].file
        /\ \A k \in DOMAIN rows : k \notin seen => rows[k].path \notin DOMAIN disk
        /\ \A q \in DOMAIN disk \cap RootPlaces :
             \E k \in DOMAIN rows : k \in seen /\ rows[k].path = q
    BY <1>1, <1>3, WalkDone
  <2>3. Carried' = {} /\ InHand' = {}
    BY <1>1, <2>2 DEF Carried, Moved, InHand
  <2>4. PICK target \in [Moving -> DOMAIN rows] :
           /\ \A v \in Moving : target[v] \in MoveTargets(v)
           /\ DOMAIN rows' = DOMAIN rows \ {target[v] : v \in Moving}
           /\ \A k \in DOMAIN rows' :
                /\ k \in Moving => rows'[k] = rows[target[k]]
                /\ k \in Vanished \ Moving => rows'[k] = [rows[k] EXCEPT !.status = "missing"]
                /\ k \notin Vanished => rows'[k] = rows[k]
    BY <1>3, ReconcileEffect
  <2>5. \A v \in Moving : target[v] \in DOMAIN rows /\ target[v] \in seen
    BY <2>4, TargetFacts DEF Moving, TInv, StampsOK
  <2>6. \A k \in Moving : k \in Vanished
    BY DEF Moving
  <2>7. \A k \in DOMAIN rows : k \in Vanished <=> (k \notin seen /\ rows[k].status # "missing")
    BY DEF Vanished
  <2>8. \A v \in Vanished : v \in DOMAIN rows
    BY DEF Vanished
  <2>9. ASSUME NEW k \in DOMAIN rows'
        PROVE  (rows'[k].status = "ok") <=>
                 (rows'[k].path \in DOMAIN disk /\ disk[rows'[k].path] = rows'[k].file)
    <3>0. k \in DOMAIN rows /\ rows[k] \in Row
      BY <2>4 DEF TInv, RowsOK
    <3>1. CASE k \in Moving
      <4>1. rows'[k] = rows[target[k]]
        BY <2>4, <3>1
      <4>2. target[k] \in DOMAIN rows /\ target[k] \in seen
        BY <2>5, <3>1
      <4>. QED
        BY <2>2, <4>1, <4>2
    <3>2. CASE k \in Vanished \ Moving
      <4>1. rows'[k] = [rows[k] EXCEPT !.status = "missing"]
        BY <2>4, <3>2
      <4>2. rows'[k].status = "missing" /\ rows'[k].path = rows[k].path
        BY <3>0, <4>1 DEF Row
      <4>. QED
        BY <2>2, <2>7, <3>0, <3>2, <4>2
    <3>3. CASE k \notin Vanished
      <4>1. rows'[k] = rows[k]
        BY <2>4, <3>3
      <4>. QED
        BY <2>2, <2>7, <3>0, <3>3, <4>1
    <3>. QED
      BY <3>1, <3>2, <3>3
  <2>10. ASSUME NEW q \in DOMAIN disk \cap RootPlaces
         PROVE  \E l \in DOMAIN rows' : /\ rows'[l].path = q /\ rows'[l].status = "ok"
                                        /\ rows'[l].file = disk[q]
    <3>1. PICK k \in DOMAIN rows : k \in seen /\ rows[k].path = q
      BY <2>2
    <3>2. rows[k].status = "ok" /\ rows[k].file = disk[q] /\ k \notin Vanished
      BY <2>2, <2>7, <3>1
    <3>3. CASE k \in DOMAIN rows'
      BY <2>4, <3>1, <3>2, <3>3
    <3>4. CASE k \notin DOMAIN rows'
      <4>1. PICK v \in Moving : k = target[v]
        BY <2>4, <3>4
      <4>2. v \in DOMAIN rows /\ v \notin seen
        BY <2>6, <2>7, <2>8
      <4>3. v \in DOMAIN rows'
        BY <2>4, <2>5, <4>2
      <4>. QED
        BY <2>4, <3>1, <3>2, <4>1, <4>3
    <3>. QED
      BY <3>3, <3>4
  <2>11. IndexIsTrue'
    BY <1>1, <2>1, <2>3, <2>9, <2>10 DEF IndexIsTrue, RowsAt, Holds
  <2>12. HandsOK'
    BY <2>3 DEF HandsOK
  <2>. QED
    BY <1>2, <2>11, <2>12 DEF IInv
<1>4. CASE ~(sweep.alone /\ ~Unhealthy)
  <2>1. mixed' = mixed /\ unsettled' = unsettled /\ astray' = astray
    BY <1>4 DEF SweepReconciles, HistoryUnchanged
  <2>2. CASE mixed
    BY <1>2, <2>1, <2>2 DEF IInv, HandsOK, IndexIsTrue
  <2>3. CASE ~mixed
    <3>1. rows' = rows
      BY <1>1, <1>4, <2>3 DEF SweepReconciles, IInv, MetOK
    <3>2. Carried' = Carried
      BY <1>1 DEF Carried
    <3>3. HandsOK' /\ IndexIsTrue'
      BY <1>1, <2>1, <3>1, <3>2, HandsLoosen
    <3>. QED
      BY <1>2, <3>3 DEF IInv
  <2>. QED
    BY <2>2, <2>3
<1>. QED
  BY <1>3, <1>4

(* Every step keeps the index true.                                         *)
LEMMA IndexStep ==
  ASSUME TInv, LInv, IInv, [Next]_vars
  PROVE  IInv'
<1>1. CASE UNCHANGED vars
  <2>1. Carried' = Carried
    BY <1>1 DEF vars, Carried
  <2>2. HandsOK' /\ IndexIsTrue'
    BY <1>1, <2>1, HandsLoosen DEF vars
  <2>3. WalkOK' /\ MetOK'
    BY <1>1 DEF vars, IInv, WalkOK, MetOK, RowsAt, Holds
  <2>. QED
    BY <2>2, <2>3 DEF IInv
<1>2. ASSUME NEW h \in Handlers, Handler(h) PROVE IInv'
  BY <1>2, IndexRenames, IndexCopies, IndexRemoves, IndexWritesBack, IndexOthers DEF Handler
<1>. QED
  BY <1>1, <1>2, IndexCrash, IndexSweepStarts, IndexSweepVisits, IndexSweepReconciles DEF Next

(* The invariant of part D holds throughout.                                *)
LEMMA IInvAlways == Spec => []IInv
BY InitIInv, IndexStep, TInvAlways, LInvAlways, PTL DEF Spec

(* ARCHITECTURE.md:658-659: whatever jobs, failures, kills and sweeps do to *)
(* one another, on one device or more, a row outside of what is in hand or  *)
(* was left to the next sweep is ok exactly if its file is where it says,   *)
(* and no other file in a root is without such a row.                       *)
THEOREM JobsKeepTheIndexTrue == Spec => []IndexIsTrue
<1>1. IInv => IndexIsTrue
  BY DEF IInv
<1>. QED
  BY <1>1, IInvAlways, PTL

=============================================================================
