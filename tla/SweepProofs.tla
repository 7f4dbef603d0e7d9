---------------------------- MODULE SweepProofs ----------------------------
(***************************************************************************)
(* Sweep, for any paths, headers, fingerprints and workers and for any     *)
(* bounds on sweeps, edits and failures.  What follows builds up, each     *)
(* part on the ones before it:                                             *)
(*                                                                         *)
(*   A  the type of the state and one row per path (TInv)                  *)
(*   B  what the statements do to the table, and the kinds of steps        *)
(*   C  only files that were away turn missing (AInv)                      *)
(*   D  sweeps keep the rows they found (NInv)                             *)
(*   E  the mount-failure guard holds in the loop (HInv)                   *)
(*   F  quiet sweeps: what the rows are compared with (KInv, QInv)         *)
(*   G  moves are fair and renames are followed (MInv)                     *)
(*   H  the index matches the disk (SInv, Described, Standing)             *)
(*                                                                         *)
(* From D on a database server in UTC is assumed, ~ZoneAhead: to the east  *)
(* of UTC an error row of the last hours counts as first seen by this      *)
(* sweep, may be taken for the target of a move, and is deleted.           *)
(***************************************************************************)
EXTENDS Sweep, FunctionTheorems, FiniteSetTheorems, TLAPS

-----------------------------------------------------------------------------
(***************************************************************************)
(* A. The type of the state: one row per path.                             *)
(***************************************************************************)

(* How far a path is: from the tree to its row.                             *)
Stages == {"tree", "queued", "stat", "read", "done"}
WorkItem == [at : Stages, stamp : Nat, content : Contents \cup {NoContent}]

(* files.path is UNIQUE.                                                    *)
OnePerPath == \A i, j \in DOMAIN rows : rows[i].path = rows[j].path => i = j

(* The table: ids below the next one, whole rows, one per path.             *)
RowsOK ==
    /\ DOMAIN rows \subseteq 1..(nextId - 1)
    /\ \A i \in DOMAIN rows : rows[i] \in Row
    /\ OnePerPath
    /\ nextId \in Nat \ {0}

(* The work on each path; every worker is done when the walk ends.          *)
WorkOK ==
    /\ work \in [Paths -> WorkItem]
    /\ \A p \in Paths : work[p].at = "read" => work[p].content \in Contents
    /\ phase # "walk" => \A p \in Paths : work[p].at = "done"

(* The plan is a record of these four.                                      *)
Restated == [vanished |-> plan.vanished, match |-> plan.match,
             target |-> plan.target, moving |-> plan.moving]

(* The place that is meant for the matched row v. *)
NewPath(v) == plan.target[plan.match[v]].path

(* A plan matches each vanished row with a new one of its own, and leaves   *)
(* the new row's place free while the row is moved there.                   *)
PlanOK ==
    /\ \A v \in DOMAIN plan.match : plan.match[v] \in DOMAIN plan.target
    /\ \A a \in DOMAIN plan.target : plan.target[a] \in Row
    /\ \A v, w \in DOMAIN plan.match : NewPath(v) = NewPath(w) => v = w
    /\ \A v \in plan.vanished \cap DOMAIN plan.match :
         \A i \in DOMAIN rows : rows[i].path = NewPath(v) => i = plan.match[v]
    /\ \A v \in plan.moving : /\ v \in plan.vanished \cap DOMAIN plan.match
                              /\ plan.match[v] \notin DOMAIN rows

(* The inductive invariant of part A.                                       *)
TInv ==
    /\ disk \in [Paths -> File \cup {NoFile}]
    /\ RowsOK
    /\ phase \in {"idle", "walk", "plan", "apply", "finish"}
    /\ baseline \in {"counted", "clock", "none"}
    /\ stop \in BOOLEAN /\ errored \in BOOLEAN
    /\ edits \in Nat
    /\ WorkOK
    /\ plan = Restated
    /\ phase = "apply" => PlanOK

-----------------------------------------------------------------------------
(* Upsert inserts a row for the path, or updates the one that is there:     *)
(* whatever it writes of the type, no two rows get one path.                *)
LEMMA UpsertRows ==
  ASSUME RowsOK, NEW p \in Paths, NEW new \in Row, new.path = p, NEW update,
         \A i \in DOMAIN rows : update[i] \in Row /\ update[i].path = rows[i].path,
         Upsert(p, new, update)
  PROVE  RowsOK'
<1>1. CASE RowsAt(p) = {}
  BY <1>1 DEF Upsert, RowsOK, RowsAt, OnePerPath
<1>2. CASE RowsAt(p) # {}
  BY <1>2 DEF Upsert, RowsOK, RowsAt, OnePerPath
<1>. QED
  BY <1>1, <1>2

(* store_file keeps the table well formed.                                  *)
LEMMA StoreRows ==
  ASSUME RowsOK, NEW p \in Paths, NEW stamp \in Nat, NEW content \in Contents,
         StoreFile(p, stamp, content)
  PROVE  RowsOK'
<1>. DEFINE new == [path |-> p, status |-> "ok", stamp |-> stamp, content |-> content,
                    seen |-> TRUE, fresh |-> TRUE, ahead |-> FALSE]
            update == [i \in DOMAIN rows |-> [rows[i] EXCEPT !.status = "ok", !.stamp = stamp,
                                                !.content = content, !.seen = TRUE]]
<1>1. new \in Row /\ new.path = p
  BY DEF Row, Stamps
<1>2. \A i \in DOMAIN rows : update[i] \in Row /\ update[i].path = rows[i].path
  BY DEF RowsOK, Row, Stamps
<1>3. Upsert(p, new, update)
  BY DEF StoreFile
<1>. HIDE DEF new, update
<1>. QED
  BY <1>1, <1>2, <1>3, UpsertRows

(* So does the error row of the catch block.                                *)
LEMMA ErrorRows ==
  ASSUME RowsOK, NEW p \in Paths, NEW stamp \in Nat, RecordError(p, stamp)
  PROVE  RowsOK'
<1>. DEFINE new == [path |-> p, status |-> "error", stamp |-> stamp, content |-> NoContent,
                    seen |-> TRUE, fresh |-> TRUE, ahead |-> ZoneAhead]
            update == [i \in DOMAIN rows |-> [rows[i] EXCEPT !.status = "error", !.seen = TRUE]]
<1>1. new \in Row /\ new.path = p
  BY SweepAssumption DEF Row, Stamps
<1>2. \A i \in DOMAIN rows : update[i] \in Row /\ update[i].path = rows[i].path
  BY DEF RowsOK, Row, Stamps
<1>3. Upsert(p, new, update)
  BY DEF RecordError
<1>. HIDE DEF new, update
<1>. QED
  BY <1>1, <1>2, <1>3, UpsertRows

(* What other programs do to the disk leaves files, and nothing else.       *)
LEMMA DiskStep ==
  ASSUME TInv, Disk
  PROVE  TInv'
<1>. USE DEF TInv, RowsOK, OnePerPath, WorkOK, Restated, PlanOK, NewPath, File, Stamps
<1>0. Cardinality(Paths) \in Nat
  BY SweepAssumption, FS_CardinalityType
<1>1. ASSUME NEW p \in Paths, NEW c \in Contents, NEW recent \in BOOLEAN, Write(p, c, recent)
      PROVE  TInv'
  BY <1>0, <1>1 DEF Write, Edit
<1>2. ASSUME NEW p \in Paths, NEW q \in Paths, Rename(p, q)
      PROVE  TInv'
  BY <1>2 DEF Rename, Edit
<1>3. ASSUME NEW p \in Paths, Delete(p)
      PROVE  TInv'
  BY <1>3 DEF Delete, Edit
<1>4. ASSUME NEW p \in Paths, Settle(p)
      PROVE  TInv'
  <2>1. disk[p] \in File
    BY <1>4 DEF Settle
  <2>2. [disk[p] EXCEPT !.recent = FALSE] \in File
    BY <2>1
  <2>3. disk' \in [Paths -> File \cup {NoFile}]
    BY <1>4, <2>2 DEF Settle
  <2>. HIDE DEF File
  <2>. QED
    BY <1>4, <2>3 DEF Settle
<1>5. CASE Outage
  BY <1>5 DEF Outage, Edit
<1>. HIDE DEF TInv, RowsOK, OnePerPath, WorkOK, Restated, PlanOK, NewPath, File, Stamps
<1>. QED
  BY <1>1, <1>2, <1>3, <1>4, <1>5 DEF Disk

(* An indexed path has an id of its own, and each id has a path. *)
LEMMA IndexedRows ==
  ASSUME NEW indexed \in SUBSET Paths, NEW idOf \in [indexed -> 1..Cardinality(indexed)],
         NEW c \in [indexed -> Contents \ Unreadable], Indexed(c, idOf)
  PROVE  /\ RowsOK
         /\ \A i \in DOMAIN rows :
              /\ rows[i].path \in indexed /\ idOf[rows[i].path] = i
              /\ rows[i].status = "ok" /\ rows[i].stamp = i /\ rows[i].content = c[rows[i].path]
              /\ rows[i].seen /\ ~rows[i].fresh /\ ~rows[i].ahead
         /\ \A p \in indexed : idOf[p] \in DOMAIN rows
         /\ nextId = Cardinality(indexed) + 1
<1>. DEFINE n == Cardinality(indexed)
<1>1. IsFiniteSet(indexed) /\ n \in Nat
  BY SweepAssumption, FS_Subset, FS_CardinalityType
<1>2. IsFiniteSet(1..n) /\ Cardinality(1..n) = n
  BY <1>1, FS_Interval
<1>3. idOf \in Injection(indexed, 1..n)
  <2>1. \A p, q \in indexed : idOf[p] = idOf[q] => p = q
    BY DEF Indexed
  <2>2. idOf \in [indexed -> 1..n]
    OBVIOUS
  <2>. HIDE DEF n
  <2>. QED
    BY <2>1, <2>2, Fun_IsInj
<1>4. idOf \in Surjection(indexed, 1..n)
  BY <1>1, <1>2, <1>3, FS_Injection
<1>5. \A i \in 1..n : \E p \in indexed : idOf[p] = i
  BY <1>4 DEF Surjection
<1>6. DOMAIN idOf = indexed
  OBVIOUS
<1>. DEFINE at(i) == CHOOSE q \in DOMAIN idOf : idOf[q] = i
<1>7. \A i \in 1..n : at(i) \in indexed /\ idOf[at(i)] = i
  BY <1>5, <1>6
<1>8. rows = [i \in 1..n |-> [path |-> at(i), status |-> "ok", stamp |-> i, content |-> c[at(i)],
                              seen |-> TRUE, fresh |-> FALSE, ahead |-> FALSE]]
      /\ nextId = n + 1
  BY <1>6 DEF Indexed
<1>. HIDE DEF at, n
<1>9. DOMAIN rows = 1..n
  BY <1>8
<1>10. ASSUME NEW i \in 1..n
       PROVE  /\ rows[i] \in Row
              /\ rows[i].path = at(i)
  BY <1>1, <1>7, <1>8 DEF Row, Stamps
<1>11. RowsOK
  BY <1>1, <1>7, <1>8, <1>9, <1>10 DEF RowsOK, OnePerPath
<1>12. \A i \in DOMAIN rows :
              /\ rows[i].path \in indexed /\ idOf[rows[i].path] = i
              /\ rows[i].status = "ok" /\ rows[i].stamp = i /\ rows[i].content = c[rows[i].path]
              /\ rows[i].seen /\ ~rows[i].fresh /\ ~rows[i].ahead
  BY <1>7, <1>8, <1>9
<1>13. \A p \in indexed : idOf[p] \in DOMAIN rows
  BY <1>9 DEF n
<1>. QED
  BY <1>8, <1>11, <1>12, <1>13 DEF n

(* Between two sweeps there is no work and no plan.                         *)
LEMMA RestTInv ==
  ASSUME AtRest, RowsOK, disk \in [Paths -> File \cup {NoFile}]
  PROVE  TInv
<1>1. WorkOK
  BY DEF AtRest, WorkOK, Step, WorkItem, Stages
<1>2. plan = Restated
  BY DEF AtRest, Restated, NoPlan
<1>. QED
  BY <1>1, <1>2 DEF AtRest, TInv

(* Both starts have a well-formed table and a program at rest.              *)
LEMMA InitTInv == Init \/ InitEdited => TInv
<1>1. ASSUME Init PROVE TInv
  <2>1. PICK indexed \in SUBSET Paths :
          \E idOf \in [indexed -> 1..Cardinality(indexed)], c \in [indexed -> Contents \ Unreadable] :
            /\ Indexed(c, idOf)
            /\ disk = [p \in Paths |-> IF p \in indexed THEN SettledFile(c[p], idOf[p]) ELSE NoFile]
    BY <1>1 DEF Init
  <2>2. PICK idOf \in [indexed -> 1..Cardinality(indexed)], c \in [indexed -> Contents \ Unreadable] :
            /\ Indexed(c, idOf)
            /\ disk = [p \in Paths |-> IF p \in indexed THEN SettledFile(c[p], idOf[p]) ELSE NoFile]
    BY <2>1
  <2>3. RowsOK
    BY <2>2, IndexedRows
  <2>4. \A p \in indexed : SettledFile(c[p], idOf[p]) \in File
    BY SweepAssumption, FS_Subset, FS_CardinalityType DEF SettledFile, File, Stamps
  <2>5. disk \in [Paths -> File \cup {NoFile}]
    BY <2>2, <2>4
  <2>. QED
    BY <1>1, <2>3, <2>5, RestTInv DEF Init
<1>2. ASSUME InitEdited PROVE TInv
  <2>1. PICK indexed \in SUBSET Paths :
          \E idOf \in [indexed -> 1..Cardinality(indexed)], c \in [indexed -> Contents \ Unreadable] :
            /\ Indexed(c, idOf)
            /\ \E kept \in SUBSET indexed : \E now \in [Paths \ kept -> Contents \cup {NoFile}] :
                 disk = [p \in Paths |->
                           IF p \in kept THEN SettledFile(c[p], idOf[p])
                           ELSE IF now[p] = NoFile THEN NoFile ELSE SettledFile(now[p], 0)]
    BY <1>2 DEF InitEdited
  <2>2. PICK idOf \in [indexed -> 1..Cardinality(indexed)], c \in [indexed -> Contents \ Unreadable] :
            /\ Indexed(c, idOf)
            /\ \E kept \in SUBSET indexed : \E now \in [Paths \ kept -> Contents \cup {NoFile}] :
                 disk = [p \in Paths |->
                           IF p \in kept THEN SettledFile(c[p], idOf[p])
                           ELSE IF now[p] = NoFile THEN NoFile ELSE SettledFile(now[p], 0)]
    BY <2>1
  <2>3. RowsOK
    BY <2>2, IndexedRows
  <2>4. PICK kept \in SUBSET indexed : \E now \in [Paths \ kept -> Contents \cup {NoFile}] :
                 disk = [p \in Paths |->
                           IF p \in kept THEN SettledFile(c[p], idOf[p])
                           ELSE IF now[p] = NoFile THEN NoFile ELSE SettledFile(now[p], 0)]
    BY <2>2
  <2>5. PICK now \in [Paths \ kept -> Contents \cup {NoFile}] :
                 disk = [p \in Paths |->
                           IF p \in kept THEN SettledFile(c[p], idOf[p])
                           ELSE IF now[p] = NoFile THEN NoFile ELSE SettledFile(now[p], 0)]
    BY <2>4
  <2>6. \A p \in kept : SettledFile(c[p], idOf[p]) \in File
    BY SweepAssumption, FS_Subset, FS_CardinalityType DEF SettledFile, File, Stamps
  <2>7. \A p \in Paths \ kept : now[p] # NoFile => SettledFile(now[p], 0) \in File
    BY DEF SettledFile, File, Stamps
  <2>8. disk \in [Paths -> File \cup {NoFile}]
    BY <2>5, <2>6, <2>7
  <2>. QED
    BY <1>2, <2>3, <2>8, RestTInv DEF InitEdited
<1>. QED
  BY <1>1, <1>2

(* The start of a sweep clears marks, the work and the plan.                *)
LEMMA StartTInv ==
  ASSUME TInv, NEW base \in {"counted", "clock", "none"}, StartSweep(base)
  PROVE  TInv'
<1>. USE DEF TInv
<1>1. RowsOK'
  <2>1. DOMAIN rows' = DOMAIN rows /\ nextId' = nextId
    BY DEF StartSweep
  <2>2. ASSUME NEW i \in DOMAIN rows
        PROVE  rows'[i] \in Row /\ rows'[i].path = rows[i].path
    BY DEF StartSweep, RowsOK, Row
  <2>. QED
    BY <2>1, <2>2 DEF RowsOK, OnePerPath
<1>2. WorkOK'
  BY DEF StartSweep, WorkOK, Step, WorkItem, Stages
<1>3. plan' = Restated'
  BY DEF StartSweep, Restated, NoPlan
<1>. QED
  BY <1>1, <1>2, <1>3 DEF StartSweep

(* A path is queued or dealt with: its work item is an empty one.           *)
LEMMA AdvanceWork ==
  ASSUME WorkOK, NEW p \in Paths, NEW stage \in Stages \ {"read"}, Advance(p, stage),
         phase = "walk", phase' = "walk"
  PROVE  WorkOK'
BY DEF WorkOK, Advance, Step, WorkItem

(* For a step of the walk or of a worker, what is left to see is the table  *)
(* and the work.                                                            *)
LEMMA WalkTInv ==
  ASSUME TInv, WorkOK', RowsOK', WalkUnchanged, phase = "walk", errored' \in BOOLEAN
  PROVE  TInv'
<1>. USE DEF TInv
<1>1. plan' = Restated' /\ phase' = "walk" /\ edits' = edits /\ disk' = disk /\ stop' = stop
      /\ baseline' = baseline
  BY DEF WalkUnchanged, Restated
<1>. QED
  BY <1>1

(* An untouched table stays well formed.                                    *)
LEMMA RowsSame ==
  ASSUME RowsOK, UNCHANGED <<rows, nextId>>
  PROVE  RowsOK'
BY DEF RowsOK, OnePerPath

(* A path is only under way while the tree is walked. *)
LEMMA UnderWay ==
  ASSUME TInv, NEW p \in Paths, work[p].at # "done"
  PROVE  phase = "walk"
BY DEF TInv, WorkOK

(* The directory walk only hands out paths.                                 *)
LEMMA WalkerStep ==
  ASSUME TInv, Walker \/ WalkCut
  PROVE  TInv'
<1>. USE DEF TInv
<1>1. ASSUME NEW p \in Paths, WalkVisit(p)
      PROVE  TInv'
  <2>1. WorkOK'
    BY <1>1, AdvanceWork DEF WalkVisit, Stages, WalkUnchanged
  <2>. QED
    BY <1>1, <2>1, RowsSame, WalkTInv DEF WalkVisit
<1>2. ASSUME EndOfTree, phase = "walk"
      PROVE  TInv'
  <2>1. WorkOK'
    BY <1>2 DEF EndOfTree, WorkOK, WalkUnchanged, Step, WorkItem, Stages
  <2>. QED
    BY <1>2, <2>1, RowsSame, WalkTInv DEF EndOfTree
<1>. QED
  BY <1>1, <1>2 DEF Walker, WalkStops, WalkCut

(* Each worker step leaves a well-formed table and work item.               *)
LEMMA WorkerStep ==
  ASSUME TInv, NEW p \in Paths, Worker(p) \/ WorkerStoreFails(p) \/ WorkerLosesItem(p)
  PROVE  TInv'
<1>. USE DEF TInv
<1>1. phase = "walk"
  BY UnderWay DEF Worker, WorkerStat, WorkerTouches, WorkerReads, WorkerCannotRead, WorkerStores,
                  WorkerStoreFails, WorkerLosesItem, NeedsReading, InFlight, At
<1>2. phase' = "walk"
  BY <1>1 DEF Worker, WorkerStat, WorkerTouches, WorkerReads, WorkerCannotRead, WorkerStores,
                  WorkerStoreFails, WorkerLosesItem, WalkUnchanged
<1>3. work[p].stamp \in Nat /\ work[p] \in WorkItem
  BY DEF WorkOK, WorkItem
<1>4. Advance(p, "done") => WorkOK'
  BY <1>1, <1>2, AdvanceWork DEF Stages
<1>5. CASE WorkerStat(p)
  <2>1. CASE Advance(p, "done")
    BY <1>1, <1>4, <1>5, <2>1, RowsSame, WalkTInv DEF WorkerStat
  <2>2. CASE /\ disk[p] # NoFile
             /\ work' = [work EXCEPT ![p].at = "stat", ![p].stamp = disk[p].stamp]
    <3>1. disk[p].stamp \in Nat
      BY <2>2 DEF File, Stamps
    <3>2. WorkOK'
      BY <1>1, <1>2, <1>3, <2>2, <3>1 DEF WorkOK, WorkItem, Stages
    <3>. QED
      BY <1>1, <1>5, <3>2, RowsSame, WalkTInv DEF WorkerStat
  <2>. QED
    BY <1>5, <2>1, <2>2 DEF WorkerStat
<1>6. CASE WorkerTouches(p)
  <2>1. PICK i \in RowsAt(p) : Touch(i)
    BY <1>6 DEF WorkerTouches
  <2>2. [rows[i] EXCEPT !.seen = TRUE, !.status = "ok"] \in Row
    BY <2>1 DEF RowsAt, RowsOK, Row
  <2>3. RowsOK'
    BY <1>6, <2>1, <2>2 DEF WorkerTouches, RowsOK, OnePerPath, Touch, RowsAt, Row
  <2>. QED
    BY <1>1, <1>4, <1>6, <2>3, WalkTInv DEF WorkerTouches
<1>7. CASE WorkerReads(p)
  <2>1. disk[p].content \in Contents
    BY <1>7 DEF WorkerReads, Readable, File
  <2>2. WorkOK'
    BY <1>1, <1>2, <1>3, <1>7, <2>1 DEF WorkerReads, WorkOK, WorkItem, Stages
  <2>. QED
    BY <1>1, <1>7, <2>2, RowsSame, WalkTInv DEF WorkerReads
<1>8. CASE WorkerCannotRead(p)
  BY <1>1, <1>3, <1>4, <1>8, ErrorRows, WalkTInv DEF WorkerCannotRead
<1>9. CASE WorkerStores(p)
  <2>1. work[p].content \in Contents
    BY <1>9 DEF WorkerStores, At, WorkOK
  <2>. QED
    BY <1>1, <1>3, <1>4, <1>9, <2>1, StoreRows, WalkTInv DEF WorkerStores
<1>10. CASE WorkerStoreFails(p)
  BY <1>1, <1>3, <1>4, <1>10, ErrorRows, WalkTInv DEF WorkerStoreFails
<1>11. CASE WorkerLosesItem(p)
  BY <1>1, <1>3, <1>4, <1>11, RowsSame, WalkTInv DEF WorkerLosesItem
<1>. QED
  BY <1>5, <1>6, <1>7, <1>8, <1>9, <1>10, <1>11 DEF Worker

(* What a vanished row is matched with is fresh, of the same fingerprint,   *)
(* and matched with no other row.                                           *)
LEMMA MatchFacts ==
  ASSUME ReconcilePlans
  PROVE  /\ plan'.vanished = Vanished
         /\ plan'.moving = {}
         /\ plan'.target = [a \in Appeared |-> rows[a]]
         /\ DOMAIN plan'.match = {v \in Vanished : MoveTargets(v) # {}}
         /\ \A v \in DOMAIN plan'.match : plan'.match[v] \in MoveTargets(v)
         /\ \A v, w \in DOMAIN plan'.match : plan'.match[v] = plan'.match[w] => v = w
<1>. DEFINE moved == {v \in Vanished : MoveTargets(v) # {}}
<1>1. plan' = [vanished |-> Vanished,
               match    |-> [v \in moved |-> CHOOSE a \in MoveTargets(v) : TRUE],
               target   |-> [a \in Appeared |-> rows[a]],
               moving   |-> {}]
  BY DEF ReconcilePlans
<1>2. \A v \in moved : (CHOOSE a \in MoveTargets(v) : TRUE) \in MoveTargets(v)
  OBVIOUS
<1>3. \A v \in DOMAIN plan'.match : plan'.match[v] \in MoveTargets(v)
  BY <1>1, <1>2
<1>4. ASSUME NEW v \in moved, NEW w \in moved, plan'.match[v] = plan'.match[w]
      PROVE  v = w
  <2>1. plan'.match[v] \in MoveTargets(v) /\ plan'.match[v] \in MoveTargets(w)
    BY <1>1, <1>3, <1>4
  <2>2. SameKey(v, w)
    BY <2>1 DEF MoveTargets, SameKey
  <2>. QED
    BY <2>1, <2>2 DEF MoveTargets
<1>. QED
  BY <1>1, <1>3, <1>4

(* The lists reconcile_root fills: targets are rows, no two matched rows    *)
(* are meant for one path, and only the matched row of this sweep stands    *)
(* there.                                                                   *)
LEMMA PlansTInv ==
  ASSUME TInv, ReconcilePlans
  PROVE  TInv'
<1>. USE DEF TInv
<1>1. /\ RowsOK' /\ rows' = rows
  BY RowsSame DEF ReconcilePlans, ReconcileUnchanged
<1>2. WorkOK'
  BY DEF ReconcilePlans, ReconcileUnchanged, WorkOK
<1>3. plan' = Restated'
  BY DEF ReconcilePlans, Restated
<1>4. \A v \in DOMAIN plan'.match : plan'.match[v] \in Appeared
  BY MatchFacts DEF MoveTargets
<1>5. \A a \in Appeared : rows[a] \in Row /\ a \in DOMAIN rows
  BY DEF Appeared, RowsOK
<1>6. PlanOK'
  BY <1>1, <1>4, <1>5, MatchFacts DEF PlanOK, NewPath, RowsOK, OnePerPath
<1>. QED
  BY <1>1, <1>2, <1>3, <1>6 DEF ReconcilePlans, ReconcileUnchanged

(* One pass of its loop: the re-anchored row takes a path that no row has   *)
(* any more.                                                                *)
LEMMA ApplyTInv ==
  ASSUME TInv, NEW v \in plan.vanished, MarkMissing(v) \/ MoveDeletes(v) \/ MoveReanchors(v)
  PROVE  TInv'
<1>. USE DEF TInv
<1>1. PlanOK /\ phase = "apply" /\ phase' = "apply"
  BY DEF MarkMissing, MoveDeletes, MoveReanchors
<1>2. WorkOK'
  BY <1>1 DEF MarkMissing, MoveDeletes, MoveReanchors, ReconcileUnchanged, WorkOK
<1>3. plan' = Restated'
  BY DEF MarkMissing, MoveDeletes, MoveReanchors, Restated
<1>4. CASE MarkMissing(v)
  <2>1. DOMAIN rows' = DOMAIN rows /\ nextId' = nextId
    BY <1>4 DEF MarkMissing, ReconcileUnchanged
  <2>2. ASSUME NEW i \in DOMAIN rows
        PROVE  rows'[i] \in Row /\ rows'[i].path = rows[i].path
    BY <1>4 DEF MarkMissing, RowsOK, Row
  <2>3. RowsOK'
    BY <2>1, <2>2 DEF RowsOK, OnePerPath
  <2>4. /\ plan'.match = plan.match /\ plan'.target = plan.target
        /\ plan'.moving = {} /\ plan'.vanished = plan.vanished \ {v}
    BY <1>4 DEF MarkMissing, Restated
  <2>5. PlanOK'
    BY <1>1, <2>1, <2>2, <2>4 DEF PlanOK, NewPath
  <2>. QED
    BY <1>1, <1>2, <1>3, <1>4, <2>3, <2>5 DEF MarkMissing, ReconcileUnchanged
<1>5. CASE MoveDeletes(v)
  <2>1. /\ DOMAIN rows' = DOMAIN rows \ {plan.match[v]} /\ nextId' = nextId
        /\ \A i \in DOMAIN rows' : rows'[i] = rows[i]
    BY <1>5 DEF MoveDeletes, ReconcileUnchanged
  <2>2. RowsOK'
    BY <2>1 DEF RowsOK, OnePerPath
  <2>3. /\ plan'.match = plan.match /\ plan'.target = plan.target
        /\ plan'.moving = {v} /\ plan'.vanished = plan.vanished
        /\ v \in DOMAIN plan.match
    BY <1>5 DEF MoveDeletes, Restated
  <2>4. PlanOK'
    BY <1>1, <2>1, <2>3 DEF PlanOK, NewPath
  <2>. QED
    BY <1>1, <1>2, <1>3, <1>5, <2>2, <2>4 DEF MoveDeletes, ReconcileUnchanged
<1>6. CASE MoveReanchors(v)
  <2>. DEFINE A == plan.target[plan.match[v]]
  <2>1. A \in Row /\ v \in DOMAIN plan.match /\ v \in plan.vanished /\ plan.match[v] \notin DOMAIN rows
    BY <1>1, <1>6 DEF MoveReanchors, PlanOK
  <2>2. /\ DOMAIN rows' = DOMAIN rows /\ nextId' = nextId
        /\ \A i \in DOMAIN rows \ {v} : rows'[i] = rows[i]
    BY <1>6 DEF MoveReanchors, ReconcileUnchanged
  <2>3. ASSUME v \in DOMAIN rows PROVE rows'[v] \in Row /\ rows'[v].path = A.path
    <3>1. rows[v] \in Row
      BY <2>3 DEF RowsOK
    <3>2. rows'[v] = [rows[v] EXCEPT !.path = A.path, !.stamp = A.stamp, !.status = A.status, !.seen = TRUE]
      BY <1>6, <2>3 DEF MoveReanchors
    <3>. QED
      BY <2>1, <3>1, <3>2 DEF Row
  <2>4. \A i \in DOMAIN rows : rows[i].path # A.path
    BY <1>1, <2>1 DEF PlanOK, NewPath
  <2>5. RowsOK'
    BY <2>2, <2>3, <2>4 DEF RowsOK, OnePerPath
  <2>6. /\ plan'.match = plan.match /\ plan'.target = plan.target
        /\ plan'.moving = {} /\ plan'.vanished = plan.vanished \ {v}
    BY <1>6 DEF MoveReanchors, Restated
  <2>7. NewPath(v) = A.path
    BY DEF NewPath
  <2>. HIDE DEF A
  <2>8. PlanOK'
    BY <1>1, <2>1, <2>2, <2>3, <2>6, <2>7 DEF PlanOK, NewPath
  <2>. QED
    BY <1>1, <1>2, <1>3, <1>6, <2>5, <2>8 DEF MoveReanchors, ReconcileUnchanged
<1>. QED
  BY <1>4, <1>5, <1>6

(* prune-missing only removes rows.                                         *)
LEMMA PruneTInv ==
  ASSUME TInv, NEW ids, PruneMissing(ids)
  PROVE  TInv'
<1>. USE DEF TInv
<1>1. /\ DOMAIN rows' = DOMAIN rows \ ids /\ \A i \in DOMAIN rows' : rows'[i] = rows[i]
      /\ nextId' = nextId /\ phase' = phase /\ plan' = plan /\ work' = work
  BY DEF PruneMissing
<1>2. RowsOK'
  BY <1>1 DEF RowsOK, OnePerPath
<1>3. WorkOK' /\ plan' = Restated'
  BY <1>1 DEF WorkOK, Restated
<1>4. PlanOK => PlanOK'
  BY <1>1 DEF PlanOK, NewPath
<1>. QED
  BY <1>1, <1>2, <1>3, <1>4 DEF PruneMissing

(* Steps that change neither table nor plan, or drop the plan. *)
LEMMA OtherTInv ==
  ASSUME TInv,
         \/ EndWalk \/ ReconcileRefused \/ ReconcileDone \/ Finish
         \/ RootUnreadable \/ ReconcileFails \/ FinishUnreported \/ RequestStop \/ Crash
  PROVE  TInv'
<1>. USE DEF TInv
<1>1. RowsOK' /\ rows' = rows /\ nextId' = nextId
  BY RowsSame DEF EndWalk, ReconcileRefused, ReconcileDone, Finish, RootUnreadable, ReconcileFails,
                  FinishUnreported, RequestStop, Crash, ReconcileUnchanged
<1>2. CASE EndWalk \/ ReconcileRefused \/ Finish \/ FinishUnreported \/ RequestStop
  <2>1. WorkOK'
    BY <1>2 DEF EndWalk, ReconcileRefused, Finish, FinishUnreported, RequestStop, ReconcileUnchanged,
                WorkOK, At
  <2>2. plan' = plan /\ plan' = Restated'
    BY <1>2 DEF EndWalk, ReconcileRefused, Finish, FinishUnreported, RequestStop, ReconcileUnchanged,
                Restated
  <2>3. phase' = "apply" => phase = "apply"
    BY <1>2 DEF EndWalk, ReconcileRefused, Finish, FinishUnreported, RequestStop
  <2>4. PlanOK => PlanOK'
    BY <1>1, <2>2 DEF PlanOK, NewPath
  <2>. QED
    BY <1>1, <1>2, <2>1, <2>2, <2>3, <2>4
       DEF EndWalk, ReconcileRefused, Finish, FinishUnreported, RequestStop, ReconcileUnchanged
<1>3. CASE ReconcileDone \/ ReconcileFails \/ Crash \/ RootUnreadable
  <2>1. phase' \in {"finish", "idle"}
    BY <1>3 DEF ReconcileDone, ReconcileFails, Crash, RootUnreadable
  <2>2. WorkOK'
    BY <1>3 DEF ReconcileDone, ReconcileFails, Crash, RootUnreadable, ReconcileUnchanged,
                WorkOK, Step, WorkItem, Stages
  <2>3. plan' = Restated'
    BY <1>3 DEF ReconcileDone, ReconcileFails, Crash, RootUnreadable, Restated, NoPlan
  <2>. QED
    BY <1>1, <1>3, <2>1, <2>2, <2>3
       DEF ReconcileDone, ReconcileFails, Crash, RootUnreadable, ReconcileUnchanged
<1>. QED
  BY <1>2, <1>3

(* Nothing happens.                                                         *)
LEMMA StutterTInv ==
  ASSUME TInv, UNCHANGED vars
  PROVE  TInv'
BY DEF TInv, RowsOK, OnePerPath, WorkOK, Restated, PlanOK, NewPath, vars

(* The type invariant is inductive.                                         *)
LEMMA NextTInv ==
  ASSUME TInv, [Next]_vars
  PROVE  TInv'
<1>1. CASE Disk
  BY <1>1, DiskStep
<1>2. CASE \E base \in {"counted", "clock", "none"} : StartSweep(base)
  BY <1>2, StartTInv
<1>3. CASE Sweeper
  BY <1>3, WalkerStep, WorkerStep, PlansTInv, ApplyTInv, OtherTInv DEF Sweeper, Reconciler
<1>4. CASE Failure
  BY <1>4, WalkerStep, WorkerStep, OtherTInv DEF Failure
<1>5. CASE \E ids \in SUBSET WithStatus("missing") : PruneMissing(ids)
  BY <1>5, PruneTInv
<1>6. CASE UNCHANGED vars
  BY <1>6, StutterTInv
<1>. QED
  BY <1>1, <1>2, <1>3, <1>4, <1>5, <1>6 DEF Next

(* It contains the type of the state.                                       *)
LEMMA TInvTypes == TInv => TypeOK
BY DEF TInv, RowsOK, OnePerPath, TypeOK

(* It holds from both starts.                                               *)
LEMMA TInvAlways ==
  /\ Spec => []TInv
  /\ EditedSpec => []TInv
<1>1. TInv /\ [Next]_vars => TInv'
  BY NextTInv
<1>2. Init => TInv
  BY InitTInv
<1>3. InitEdited => TInv
  BY InitTInv
<1>. QED
  BY <1>1, <1>2, <1>3, PTL DEF Spec, EditedSpec

(* Whatever is edited, fails or crashes, and whatever the size of the pool  *)
(* and of the root: the state is well formed and no two rows claim one      *)
(* path, although workers insert (store_file, the catch block) while        *)
(* reconcile_root deletes and re-anchors rows by statements of their own.   *)
THEOREM SweepTypes == Spec => []TypeOK
<1>1. TInv => TypeOK
  BY TInvTypes
<1>. QED
  BY <1>1, TInvAlways, PTL

-----------------------------------------------------------------------------
(***************************************************************************)
(* B. What store_file leaves in the table, and the kinds of steps.         *)
(***************************************************************************)

(* What store_file leaves in the table: the other rows, and at its path one *)
(* row with what it wrote.                                                  *)
LEMMA StoreEffect ==
  ASSUME RowsOK, NEW p \in Paths, NEW stamp, NEW content, StoreFile(p, stamp, content)
  PROVE  /\ DOMAIN rows \subseteq DOMAIN rows'
         /\ \A i \in DOMAIN rows' \ DOMAIN rows : i = nextId /\ nextId' = nextId + 1 /\ RowsAt(p) = {}
                                                  /\ rows'[i].fresh /\ ~rows'[i].ahead
         /\ nextId' \in {nextId, nextId + 1}
         /\ \A i \in DOMAIN rows : rows[i].path # p => rows'[i] = rows[i]
         /\ \A i \in DOMAIN rows : rows[i].path = p =>
               rows'[i].fresh = rows[i].fresh /\ rows'[i].ahead = rows[i].ahead
         /\ \A i \in DOMAIN rows' : (i \in DOMAIN rows /\ rows[i].path # p)
               \/ (/\ rows'[i].path = p /\ rows'[i].status = "ok" /\ rows'[i].stamp = stamp
                   /\ rows'[i].content = content /\ rows'[i].seen)
         /\ \E i \in DOMAIN rows' : rows'[i].path = p
<1>1. CASE RowsAt(p) = {}
  BY <1>1 DEF StoreFile, Upsert, RowsOK, RowsAt
<1>2. CASE RowsAt(p) # {}
  <2>1. DOMAIN rows' = DOMAIN rows /\ nextId' = nextId
    BY <1>2 DEF StoreFile, Upsert
  <2>2. \A i \in DOMAIN rows : rows[i].path # p => rows'[i] = rows[i]
    BY <1>2 DEF StoreFile, Upsert, RowsAt
  <2>3. ASSUME NEW i \in DOMAIN rows, rows[i].path = p
        PROVE  /\ rows'[i].path = p /\ rows'[i].status = "ok" /\ rows'[i].stamp = stamp
               /\ rows'[i].content = content /\ rows'[i].seen
               /\ rows'[i].fresh = rows[i].fresh /\ rows'[i].ahead = rows[i].ahead
    <3>1. rows'[i] = [rows[i] EXCEPT !.status = "ok", !.stamp = stamp, !.content = content,
                                     !.seen = TRUE]
      BY <1>2, <2>3 DEF StoreFile, Upsert, RowsAt
    <3>2. rows[i] \in Row
      BY DEF RowsOK
    <3>. QED
      BY <2>3, <3>1, <3>2 DEF Row
  <2>. QED
    BY <1>2, <2>1, <2>2, <2>3 DEF RowsAt, RowsOK
<1>. QED
  BY <1>1, <1>2

(* What the catch block leaves there: an update keeps size, mtime and       *)
(* frames.                                                                  *)
LEMMA ErrorEffect ==
  ASSUME RowsOK, NEW p \in Paths, NEW stamp, RecordError(p, stamp)
  PROVE  /\ DOMAIN rows \subseteq DOMAIN rows'
         /\ \A i \in DOMAIN rows' \ DOMAIN rows : i = nextId /\ nextId' = nextId + 1 /\ RowsAt(p) = {}
                                                  /\ rows'[i].fresh /\ rows'[i].ahead = ZoneAhead
                                                  /\ rows'[i].content = NoContent
                                                  /\ rows'[i].stamp = stamp
         /\ nextId' \in {nextId, nextId + 1}
         /\ \A i \in DOMAIN rows : rows[i].path # p => rows'[i] = rows[i]
         /\ \A i \in DOMAIN rows : rows[i].path = p =>
               /\ rows'[i].fresh = rows[i].fresh /\ rows'[i].ahead = rows[i].ahead
               /\ rows'[i].stamp = rows[i].stamp /\ rows'[i].content = rows[i].content
         /\ \A i \in DOMAIN rows' : (i \in DOMAIN rows /\ rows[i].path # p)
               \/ (rows'[i].path = p /\ rows'[i].status = "error" /\ rows'[i].seen)
         /\ \E i \in DOMAIN rows' : rows'[i].path = p
<1>1. CASE RowsAt(p) = {}
  BY <1>1 DEF RecordError, Upsert, RowsOK, RowsAt
<1>2. CASE RowsAt(p) # {}
  <2>1. DOMAIN rows' = DOMAIN rows /\ nextId' = nextId
    BY <1>2 DEF RecordError, Upsert
  <2>2. \A i \in DOMAIN rows : rows[i].path # p => rows'[i] = rows[i]
    BY <1>2 DEF RecordError, Upsert, RowsAt
  <2>3. ASSUME NEW i \in DOMAIN rows, rows[i].path = p
        PROVE  /\ rows'[i].path = p /\ rows'[i].status = "error" /\ rows'[i].seen
               /\ rows'[i].fresh = rows[i].fresh /\ rows'[i].ahead = rows[i].ahead
               /\ rows'[i].stamp = rows[i].stamp /\ rows'[i].content = rows[i].content
    <3>1. rows'[i] = [rows[i] EXCEPT !.status = "error", !.seen = TRUE]
      BY <1>2, <2>3 DEF RecordError, Upsert, RowsAt
    <3>2. rows[i] \in Row
      BY DEF RowsOK
    <3>. QED
      BY <2>3, <3>1, <3>2 DEF Row
  <2>. QED
    BY <1>2, <2>1, <2>2, <2>3 DEF RowsAt, RowsOK
<1>. QED
  BY <1>1, <1>2

(* A known, unchanged file is only marked.                                  *)
LEMMA TouchEffect ==
  ASSUME RowsOK, NEW p \in Paths, WorkerTouches(p)
  PROVE  \E i \in DOMAIN rows :
           /\ rows[i].path = p /\ rows[i].status = "ok" /\ rows[i].stamp = work[p].stamp
           /\ DOMAIN rows' = DOMAIN rows
           /\ \A j \in DOMAIN rows \ {i} : rows'[j] = rows[j]
           /\ rows'[i].path = rows[i].path /\ rows'[i].status = "ok" /\ rows'[i].stamp = rows[i].stamp
           /\ rows'[i].content = rows[i].content /\ rows'[i].seen
           /\ rows'[i].fresh = rows[i].fresh /\ rows'[i].ahead = rows[i].ahead
<1>1. PICK i \in RowsAt(p) : Unchanged(i, p) /\ Touch(i)
  BY DEF WorkerTouches
<1>. QED
  BY <1>1 DEF RowsAt, Unchanged, Touch, RowsOK, Row

(* The second statement of a move: the old row takes the new one's place.   *)
LEMMA ReanchorEffect ==
  ASSUME TInv, NEW v \in plan.vanished, MoveReanchors(v)
  PROVE  /\ phase = "apply" /\ v \in DOMAIN plan.match /\ plan.match[v] \notin DOMAIN rows
         /\ v \in plan.moving
         /\ DOMAIN rows' = DOMAIN rows
         /\ \A i \in DOMAIN rows \ {v} : rows'[i] = rows[i]
         /\ v \in DOMAIN rows =>
              /\ rows'[v].path = NewPath(v)
              /\ rows'[v].stamp = plan.target[plan.match[v]].stamp
              /\ rows'[v].status = plan.target[plan.match[v]].status
              /\ rows'[v].seen /\ rows'[v].content = rows[v].content
              /\ rows'[v].fresh = rows[v].fresh /\ rows'[v].ahead = rows[v].ahead
         /\ plan'.match = plan.match /\ plan'.target = plan.target
         /\ plan'.moving = {} /\ plan'.vanished = plan.vanished \ {v}
<1>1. PlanOK /\ phase = "apply"
  BY DEF TInv, MoveReanchors
<1>2. v \in DOMAIN plan.match /\ plan.match[v] \notin DOMAIN rows
  BY <1>1 DEF MoveReanchors, PlanOK
<1>3. /\ plan'.match = plan.match /\ plan'.target = plan.target
      /\ plan'.moving = {} /\ plan'.vanished = plan.vanished \ {v}
  BY DEF MoveReanchors, TInv, Restated
<1>4. v \in plan.moving
  BY DEF MoveReanchors
<1>5. DOMAIN rows' = DOMAIN rows /\ \A i \in DOMAIN rows \ {v} : rows'[i] = rows[i]
  BY DEF MoveReanchors
<1>6. ASSUME v \in DOMAIN rows
      PROVE  /\ rows'[v].path = NewPath(v)
             /\ rows'[v].stamp = plan.target[plan.match[v]].stamp
             /\ rows'[v].status = plan.target[plan.match[v]].status
             /\ rows'[v].seen /\ rows'[v].content = rows[v].content
             /\ rows'[v].fresh = rows[v].fresh /\ rows'[v].ahead = rows[v].ahead
  <2>1. rows[v] \in Row
    BY <1>6 DEF TInv, RowsOK
  <2>2. rows'[v] = [rows[v] EXCEPT !.path = plan.target[plan.match[v]].path,
                                   !.stamp = plan.target[plan.match[v]].stamp,
                                   !.status = plan.target[plan.match[v]].status, !.seen = TRUE]
    BY <1>6 DEF MoveReanchors
  <2>. QED
    BY <2>1, <2>2 DEF Row, NewPath
<1>. QED
  BY <1>1, <1>2, <1>3, <1>4, <1>5, <1>6

(* An unmatched vanished row turns missing.                                 *)
LEMMA MarkEffect ==
  ASSUME TInv, NEW v \in plan.vanished, MarkMissing(v)
  PROVE  /\ phase = "apply" /\ v \notin DOMAIN plan.match /\ plan.moving = {}
         /\ DOMAIN rows' = DOMAIN rows
         /\ \A i \in DOMAIN rows \ {v} : rows'[i] = rows[i]
         /\ v \in DOMAIN rows =>
              /\ rows'[v].path = rows[v].path /\ rows'[v].status = "missing"
              /\ rows'[v].stamp = rows[v].stamp /\ rows'[v].content = rows[v].content
              /\ rows'[v].seen = rows[v].seen /\ rows'[v].fresh = rows[v].fresh
              /\ rows'[v].ahead = rows[v].ahead
         /\ plan'.match = plan.match /\ plan'.target = plan.target
         /\ plan'.moving = {} /\ plan'.vanished = plan.vanished \ {v}
BY DEF MarkMissing, TInv, RowsOK, Row, Restated

(* The first statement of a move.                                           *)
LEMMA DeleteEffect ==
  ASSUME TInv, NEW v \in plan.vanished, MoveDeletes(v)
  PROVE  /\ phase = "apply" /\ v \in DOMAIN plan.match /\ plan.moving = {}
         /\ DOMAIN rows' = DOMAIN rows \ {plan.match[v]}
         /\ \A i \in DOMAIN rows' : rows'[i] = rows[i]
         /\ plan'.match = plan.match /\ plan'.target = plan.target
         /\ plan'.moving = {v} /\ plan'.vanished = plan.vanished
BY DEF MoveDeletes, TInv, Restated

(* A new sweep has seen nothing, and takes note of what it found.           *)
LEMMA StartEffect ==
  ASSUME TInv, NEW base, StartSweep(base)
  PROVE  /\ DOMAIN rows' = DOMAIN rows /\ before' = rows'
         /\ \A i \in DOMAIN rows :
              /\ rows'[i].path = rows[i].path /\ rows'[i].status = rows[i].status
              /\ rows'[i].stamp = rows[i].stamp /\ rows'[i].content = rows[i].content
              /\ rows'[i].seen = FALSE /\ rows'[i].fresh = rows[i].ahead
              /\ rows'[i].ahead = rows[i].ahead
BY DEF StartSweep, TInv, RowsOK, Row

(* The steps of a worker that write the table.                              *)
WorkerWrites(p) == WorkerTouches(p) \/ WorkerCannotRead(p) \/ WorkerStores(p) \/ WorkerStoreFails(p)

(* What all the statements of a worker have in common.                      *)
LEMMA WriteEffect ==
  ASSUME TInv, NEW p \in Paths, WorkerWrites(p)
  PROVE  /\ DOMAIN rows \subseteq DOMAIN rows' /\ nextId' \in {nextId, nextId + 1}
         /\ \A i \in DOMAIN rows' \ DOMAIN rows :
              /\ i = nextId /\ nextId' = nextId + 1 /\ RowsAt(p) = {}
              /\ rows'[i].fresh /\ (~ZoneAhead => ~rows'[i].ahead)
         /\ \A i \in DOMAIN rows : rows[i].path # p => rows'[i] = rows[i]
         /\ \A i \in DOMAIN rows : rows[i].path = p =>
               rows'[i].fresh = rows[i].fresh /\ rows'[i].ahead = rows[i].ahead
         /\ \A i \in DOMAIN rows' : (i \in DOMAIN rows /\ rows[i].path # p)
               \/ (rows'[i].path = p /\ rows'[i].status # "missing" /\ rows'[i].seen)
         /\ \E i \in DOMAIN rows' : rows'[i].path = p /\ rows'[i].seen
<1>1. RowsOK
  BY DEF TInv
<1>2. CASE WorkerTouches(p)
  <2>1. nextId' = nextId
    BY <1>2 DEF WorkerTouches
  <2>. QED
    BY <1>1, <1>2, <2>1, TouchEffect DEF RowsOK, OnePerPath
<1>3. CASE WorkerStores(p)
  <2>1. StoreFile(p, work[p].stamp, work[p].content)
    BY <1>3 DEF WorkerStores
  <2>. QED
    BY <1>1, <2>1, StoreEffect
<1>4. CASE WorkerCannotRead(p) \/ WorkerStoreFails(p)
  <2>1. RecordError(p, work[p].stamp)
    BY <1>4 DEF WorkerCannotRead, WorkerStoreFails
  <2>. QED
    BY <1>1, <2>1, ErrorEffect
<1>. QED
  BY <1>2, <1>3, <1>4 DEF WorkerWrites

(* Steps that leave the table and the plan alone, or drop the plan. *)
Still ==
    /\ UNCHANGED <<rows, nextId, before>>
    /\ \/ UNCHANGED <<phase, plan>>
       \/ phase' \in {"idle", "finish"}
       \/ phase = "walk" /\ phase' = "plan" /\ UNCHANGED plan

(* The steps of the reconciliation's loop.                                  *)
Applies(v) == MarkMissing(v) \/ MoveDeletes(v) \/ MoveReanchors(v)

(* The kinds of steps, by what they do to the table and the plan.           *)
LEMMA Kinds ==
  ASSUME [Next]_vars
  PROVE  \/ Still
         \/ \E base \in {"counted", "clock", "none"} : StartSweep(base)
         \/ \E p \in Paths : WorkerWrites(p)
         \/ ReconcilePlans
         \/ \E v \in plan.vanished : Applies(v)
         \/ \E ids \in SUBSET WithStatus("missing") : PruneMissing(ids)
<1>1. ASSUME Disk PROVE Still
  BY <1>1 DEF Disk, Write, Rename, Delete, Settle, Outage, Edit, Still
<1>2. ASSUME Walker \/ WalkCut PROVE Still
  BY <1>2 DEF Walker, WalkVisit, WalkStops, WalkCut, EndOfTree, WalkUnchanged, Still
<1>3. ASSUME NEW p \in Paths, WorkerStat(p) \/ WorkerReads(p) \/ WorkerLosesItem(p) PROVE Still
  BY <1>3 DEF WorkerStat, WorkerReads, WorkerLosesItem, WalkUnchanged, Still
<1>4. ASSUME EndWalk \/ ReconcileRefused \/ ReconcileDone \/ Finish PROVE Still
  BY <1>4 DEF EndWalk, ReconcileRefused, ReconcileDone, Finish, ReconcileUnchanged, Still
<1>5. ASSUME RootUnreadable \/ ReconcileFails \/ FinishUnreported \/ RequestStop \/ Crash PROVE Still
  BY <1>5 DEF RootUnreadable, ReconcileFails, FinishUnreported, RequestStop, Crash,
              ReconcileUnchanged, Still
<1>6. ASSUME UNCHANGED vars PROVE Still
  BY <1>6 DEF vars, Still
<1>. QED
  BY <1>1, <1>2, <1>3, <1>4, <1>5, <1>6
     DEF Next, Sweeper, Worker, Reconciler, Failure, WorkerWrites, Applies

-----------------------------------------------------------------------------
(***************************************************************************)
(* C. Only files that were away turn missing.                              *)
(***************************************************************************)

(* A path without a file is known to have been away.                        *)
Away == \A p \in Paths : disk[p] = NoFile => p \in gone

(* Once a path is dealt with, its rows are stamped, unless the path was     *)
(* away or passed over.                                                     *)
Examined ==
    phase \in {"walk", "plan", "apply"} =>
        \A p \in Paths : work[p].at = "done" =>
            \/ p \in gone \cup skipped
            \/ \A i \in DOMAIN rows : rows[i].path = p => rows[i].seen

(* The loop works on rows that the sweep did not see.                       *)
Unseen == phase = "apply" => \A v \in plan.vanished : v \in DOMAIN rows => ~rows[v].seen

(* The inductive invariant of part C.                                       *)
AInv == Away /\ gone \subseteq Paths /\ Examined /\ Unseen

(* At rest nothing is examined or planned.                                  *)
LEMMA InitAInv == Init \/ InitEdited => AInv
BY DEF Init, InitEdited, AtRest, AInv, Away, Examined, Unseen

(* Whoever takes a file away also notes that it was away.                   *)
LEMMA AwayStep ==
  ASSUME TInv, AInv, [Next]_vars
  PROVE  Away' /\ gone' \subseteq Paths
<1>. USE DEF AInv, Away, TInv
<1>1. CASE Disk
  <2>1. ASSUME NEW p \in Paths, NEW c \in Contents, NEW recent \in BOOLEAN, Write(p, c, recent)
        PROVE  Away' /\ gone' \subseteq Paths
    <3>1. Cardinality(Paths) \in Nat
      BY SweepAssumption, FS_CardinalityType
    <3>. DEFINE new == [content |-> c, recent |-> recent, stamp |-> Cardinality(Paths) + edits + 1]
    <3>2. new # NoFile
      BY <3>1, SweepAssumption
    <3>3. disk' = [disk EXCEPT ![p] = new] /\ gone' = gone
      BY <2>1 DEF Write
    <3>. HIDE DEF new
    <3>. QED
      BY <3>2, <3>3
  <2>2. ASSUME NEW p \in Paths, NEW q \in Paths, Rename(p, q)
        PROVE  Away' /\ gone' \subseteq Paths
    BY <2>2 DEF Rename
  <2>3. ASSUME NEW p \in Paths, Delete(p)
        PROVE  Away' /\ gone' \subseteq Paths
    BY <2>3 DEF Delete
  <2>4. ASSUME NEW p \in Paths, Settle(p)
        PROVE  Away' /\ gone' \subseteq Paths
    <3>1. disk[p] \in File
      BY <2>4 DEF Settle
    <3>2. [disk[p] EXCEPT !.recent = FALSE] # NoFile
      BY <3>1, SweepAssumption DEF File, Stamps
    <3>. QED
      BY <2>4, <3>2 DEF Settle
  <2>5. CASE Outage
    BY <2>5 DEF Outage
  <2>. QED
    BY <1>1, <2>1, <2>2, <2>3, <2>4, <2>5 DEF Disk
<1>2. CASE \E base \in {"counted", "clock", "none"} : StartSweep(base)
  BY <1>2 DEF StartSweep
<1>3. ASSUME UNCHANGED <<disk, gone>>
      PROVE  Away' /\ gone' \subseteq Paths
  BY <1>3
<1>4. CASE Sweeper
  <2>1. Walker => UNCHANGED <<disk, gone>>
    BY DEF Walker, WalkVisit, WalkStops, EndOfTree, WalkUnchanged
  <2>2. \A p \in Paths : Worker(p) => UNCHANGED <<disk, gone>>
    BY DEF Worker, WorkerStat, WorkerTouches, WorkerReads, WorkerCannotRead, WorkerStores, WalkUnchanged
  <2>3. EndWalk \/ Finish => UNCHANGED <<disk, gone>>
    BY DEF EndWalk, Finish
  <2>4. Reconciler => UNCHANGED <<disk, gone>>
    BY DEF Reconciler, ReconcileRefused, ReconcilePlans, ReconcileDone, MarkMissing, MoveDeletes,
           MoveReanchors, ReconcileUnchanged
  <2>. QED
    BY <1>3, <1>4, <2>1, <2>2, <2>3, <2>4 DEF Sweeper
<1>5. CASE Failure
  <2>1. UNCHANGED <<disk, gone>>
    BY <1>5 DEF Failure, RootUnreadable, WalkCut, EndOfTree, ReconcileFails, ReconcileUnchanged,
                FinishUnreported, RequestStop, Crash, WorkerStoreFails, WorkerLosesItem, WalkUnchanged
  <2>. QED
    BY <1>3, <2>1
<1>6. CASE \E ids \in SUBSET WithStatus("missing") : PruneMissing(ids)
  BY <1>6 DEF PruneMissing
<1>7. CASE UNCHANGED vars
  BY <1>7 DEF vars
<1>. QED
  BY <1>1, <1>2, <1>4, <1>5, <1>6, <1>7 DEF Next

(* A worker that writes has the row of its path seen.                       *)
LEMMA WorkerExamines ==
  ASSUME TInv, NEW p \in Paths, WorkerWrites(p)
  PROVE  /\ phase = "walk" /\ phase' = "walk" /\ UNCHANGED <<gone, plan>> /\ skipped \subseteq skipped'
         /\ \A q \in Paths \ {p} : work'[q] = work[q]
         /\ \A i \in DOMAIN rows' : \/ i \in DOMAIN rows /\ rows'[i] = rows[i] /\ rows[i].path # p
                                    \/ rows'[i].path = p /\ rows'[i].seen
<1>1. phase = "walk"
  BY UnderWay DEF WorkerWrites, WorkerTouches, WorkerCannotRead, WorkerStores, WorkerStoreFails,
                  NeedsReading, At
<1>2. /\ phase' = "walk" /\ UNCHANGED <<gone, plan>> /\ skipped \subseteq skipped'
      /\ work' = [work EXCEPT ![p] = Step("done")]
  BY <1>1 DEF WorkerWrites, WorkerTouches, WorkerCannotRead, WorkerStores, WorkerStoreFails,
              WalkUnchanged, Advance
<1>3. RowsOK
  BY DEF TInv
<1>4. ASSUME NEW i \in DOMAIN rows'
      PROVE  \/ i \in DOMAIN rows /\ rows'[i] = rows[i] /\ rows[i].path # p
             \/ rows'[i].path = p /\ rows'[i].seen
  <2>1. CASE WorkerTouches(p)
    BY <1>3, <2>1, TouchEffect DEF RowsOK, OnePerPath
  <2>2. CASE WorkerStores(p)
    BY <1>3, <2>2, StoreEffect DEF WorkerStores
  <2>3. CASE WorkerCannotRead(p) \/ WorkerStoreFails(p)
    BY <1>3, <2>3, ErrorEffect DEF WorkerCannotRead, WorkerStoreFails
  <2>. QED
    BY <2>1, <2>2, <2>3 DEF WorkerWrites
<1>. QED
  BY <1>1, <1>2, <1>4 DEF TInv, WorkOK

(* A path leaves the work only with its row seen, unless it was away or is  *)
(* noted as passed over.                                                    *)
LEMMA ExaminedStep ==
  ASSUME TInv, AInv, [Next]_vars
  PROVE  Examined'
<1>. USE DEF AInv
<1>1. CASE Disk
  <2>1. UNCHANGED <<rows, work, phase, skipped>>
    BY <1>1 DEF Disk, Write, Rename, Delete, Settle, Outage, Edit
  <2>2. gone \subseteq gone'
    BY <1>1 DEF Disk, Write, Rename, Delete, Settle, Outage, Edit, TInv
  <2>. QED
    BY <2>1, <2>2 DEF Examined
<1>2. CASE \E base \in {"counted", "clock", "none"} : StartSweep(base)
  <2>1. work' = [p \in Paths |-> Step("tree")]
    BY <1>2 DEF StartSweep
  <2>2. \A p \in Paths : work'[p].at = "tree"
    BY <2>1 DEF Step
  <2>. QED
    BY <2>2 DEF Examined
<1>3. ASSUME NEW p \in Paths, WalkVisit(p)
      PROVE  Examined'
  <2>1. /\ UNCHANGED <<rows, gone, skipped, phase>> /\ phase = "walk"
        /\ work' = [work EXCEPT ![p] = Step(IF disk[p] = NoFile THEN "done" ELSE "queued")]
    BY <1>3 DEF WalkVisit, WalkUnchanged, Advance
  <2>2. work \in [Paths -> WorkItem]
    BY DEF TInv, WorkOK
  <2>. QED
    BY <2>1, <2>2 DEF Examined, Away, Step
<1>4. ASSUME EndOfTree, phase = "walk"
      PROVE  Examined'
  <2>1. /\ UNCHANGED <<rows, gone, phase>> /\ skipped' = skipped \cup At("tree")
        /\ work' = [p \in Paths |-> IF p \in At("tree") THEN Step("done") ELSE work[p]]
    BY <1>4 DEF EndOfTree, WalkUnchanged
  <2>. QED
    BY <1>4, <2>1 DEF Examined, Step
<1>5. ASSUME NEW p \in Paths, WorkerStat(p) \/ WorkerReads(p) \/ WorkerLosesItem(p)
      PROVE  Examined'
  <2>0. phase = "walk"
    BY <1>5, UnderWay DEF WorkerStat, WorkerReads, WorkerLosesItem, NeedsReading, InFlight, At
  <2>1. UNCHANGED <<rows, gone, phase>> /\ skipped \subseteq skipped'
    BY <1>5 DEF WorkerStat, WorkerReads, WorkerLosesItem, WalkUnchanged
  <2>2. work \in [Paths -> WorkItem]
    BY DEF TInv, WorkOK
  <2>3. \A q \in Paths \ {p} : work'[q] = work[q]
    BY <1>5, <2>2 DEF WorkerStat, WorkerReads, WorkerLosesItem, Advance
  <2>4. work'[p].at = "done" => p \in gone \cup skipped'
    BY <1>5, <2>2 DEF WorkerStat, WorkerReads, WorkerLosesItem, Advance, Away, WorkItem
  <2>. QED
    BY <2>0, <2>1, <2>3, <2>4 DEF Examined
<1>6. ASSUME NEW p \in Paths, WorkerWrites(p)
      PROVE  Examined'
  BY <1>6, WorkerExamines DEF Examined
<1>7. CASE EndWalk \/ RequestStop \/ UNCHANGED vars
  BY <1>7 DEF EndWalk, RequestStop, vars, Examined
<1>8. CASE ReconcilePlans
  BY <1>8 DEF ReconcilePlans, ReconcileUnchanged, Examined
<1>9. ASSUME NEW v \in plan.vanished, Applies(v)
      PROVE  Examined'
  <2>1. UNCHANGED <<work, gone, skipped>>
    BY <1>9 DEF Applies, MarkMissing, MoveDeletes, MoveReanchors, ReconcileUnchanged
  <2>2. phase = "apply"
    BY <1>9 DEF Applies, MarkMissing, MoveDeletes, MoveReanchors
  <2>3. \A i \in DOMAIN rows' : \/ i \in DOMAIN rows /\ rows'[i].path = rows[i].path
                                   /\ rows'[i].seen = rows[i].seen
                                \/ rows'[i].seen
    BY <1>9, MarkEffect, DeleteEffect, ReanchorEffect DEF Applies
  <2>. QED
    BY <2>1, <2>2, <2>3 DEF Examined
<1>10. CASE \E ids \in SUBSET WithStatus("missing") : PruneMissing(ids)
  BY <1>10 DEF PruneMissing, Examined
<1>11. CASE \/ ReconcileRefused \/ ReconcileDone \/ Finish
            \/ RootUnreadable \/ ReconcileFails \/ FinishUnreported \/ Crash
  BY <1>11 DEF ReconcileRefused, ReconcileDone, Finish, RootUnreadable, ReconcileFails,
               FinishUnreported, Crash, Examined
<1>. QED
  BY <1>1, <1>2, <1>3, <1>4, <1>5, <1>6, <1>7, <1>8, <1>9, <1>10, <1>11
     DEF Next, Sweeper, Walker, WalkStops, WalkCut, Worker, Reconciler, Failure, WorkerWrites, Applies

(* The loop works on rows this sweep did not see.                           *)
LEMMA UnseenStep ==
  ASSUME TInv, AInv, [Next]_vars
  PROVE  Unseen'
<1>. USE DEF AInv
<1>1. CASE Still
  BY <1>1 DEF Still, Unseen
<1>2. CASE \E base \in {"counted", "clock", "none"} : StartSweep(base)
  BY <1>2 DEF StartSweep, Unseen
<1>3. CASE \E p \in Paths : WorkerWrites(p)
  BY <1>3, WorkerExamines DEF Unseen
<1>4. CASE ReconcilePlans
  BY <1>4, MatchFacts DEF ReconcilePlans, Unseen, Vanished
<1>5. ASSUME NEW v \in plan.vanished, Applies(v)
      PROVE  Unseen'
  <2>1. CASE MarkMissing(v)
    BY <2>1, MarkEffect DEF Unseen
  <2>2. CASE MoveDeletes(v)
    BY <2>2, DeleteEffect DEF Unseen
  <2>3. CASE MoveReanchors(v)
    <3>1. plan'.vanished = plan.vanished \ {v} /\ phase = "apply"
          /\ DOMAIN rows' = DOMAIN rows /\ \A i \in DOMAIN rows \ {v} : rows'[i] = rows[i]
      BY <2>3, ReanchorEffect
    <3>. QED
      BY <3>1 DEF Unseen
  <2>. QED
    BY <1>5, <2>1, <2>2, <2>3 DEF Applies
<1>6. CASE \E ids \in SUBSET WithStatus("missing") : PruneMissing(ids)
  BY <1>6 DEF PruneMissing, Unseen
<1>7. \/ Still
      \/ \E base \in {"counted", "clock", "none"} : StartSweep(base)
      \/ \E p \in Paths : WorkerWrites(p)
      \/ ReconcilePlans
      \/ \E v \in plan.vanished : Applies(v)
      \/ \E ids \in SUBSET WithStatus("missing") : PruneMissing(ids)
  BY Kinds
<1>. QED
  BY <1>1, <1>2, <1>3, <1>4, <1>5, <1>6, <1>7

(* A row turns missing only in the loop, hence unseen.                      *)
LEMMA MissingStep ==
  ASSUME TInv, AInv, [Next]_vars
  PROVE  \A i \in DOMAIN rows : TurnsMissing(i) => rows[i].path \in gone \cup skipped
<1>. SUFFICES ASSUME NEW i \in DOMAIN rows, i \in DOMAIN rows', rows[i].status # "missing",
                     rows'[i].status = "missing"
              PROVE  rows[i].path \in gone \cup skipped
  BY DEF TurnsMissing
<1>1. ASSUME NEW v \in plan.vanished, Applies(v)
      PROVE  rows[i].path \in gone \cup skipped
  <2>1. phase = "apply" /\ i = v
    BY <1>1, MarkEffect, DeleteEffect, ReanchorEffect DEF Applies
  <2>2. ~rows[i].seen
    BY <2>1 DEF AInv, Unseen
  <2>3. rows[i].path \in Paths /\ work[rows[i].path].at = "done"
    BY <2>1 DEF TInv, RowsOK, Row, WorkOK
  <2>. QED
    BY <2>1, <2>2, <2>3 DEF AInv, Examined
<1>2. CASE Still
  BY <1>2 DEF Still
<1>3. ASSUME NEW base \in {"counted", "clock", "none"}, StartSweep(base)
      PROVE  FALSE
  BY <1>3, StartEffect
<1>4. ASSUME NEW p \in Paths, WorkerWrites(p)
      PROVE  FALSE
  <2>1. RowsOK
    BY DEF TInv
  <2>2. CASE WorkerTouches(p)
    BY <2>1, <2>2, TouchEffect
  <2>3. CASE WorkerStores(p)
    BY <2>1, <2>3, StoreEffect DEF WorkerStores
  <2>4. CASE WorkerCannotRead(p) \/ WorkerStoreFails(p)
    BY <2>1, <2>4, ErrorEffect DEF WorkerCannotRead, WorkerStoreFails
  <2>. QED
    BY <1>4, <2>2, <2>3, <2>4 DEF WorkerWrites
<1>5. CASE ReconcilePlans
  BY <1>5 DEF ReconcilePlans
<1>6. CASE \E ids \in SUBSET WithStatus("missing") : PruneMissing(ids)
  BY <1>6 DEF PruneMissing
<1>. QED
  BY <1>1, <1>2, <1>3, <1>4, <1>5, <1>6, Kinds

(* The two notes hold from both starts.                                     *)
LEMMA AInvAlways ==
  /\ Spec => []AInv
  /\ EditedSpec => []AInv
<1>1. TInv /\ AInv /\ [Next]_vars => AInv'
  BY AwayStep, ExaminedStep, UnseenStep DEF AInv
<1>2. Init => AInv
  BY InitAInv
<1>3. InitEdited => AInv
  BY InitAInv
<1>. QED
  BY <1>1, <1>2, <1>3, TInvAlways, PTL DEF Spec, EditedSpec

(* reconcile_root marks a row missing only if its file was away at some     *)
(* time during the sweep or the sweep passed its path over, whatever edits, *)
(* failures, stops and crashes come in between.                             *)
THEOREM OnlyAwayTurnsMissing == Spec => MissingWasAwayOrSkipped
<1>1. TInv /\ AInv /\ [Next]_vars
      => [\A i \in DOMAIN rows : TurnsMissing(i) => rows[i].path \in gone \cup skipped]_vars
  BY MissingStep
<1>. QED
  BY <1>1, TInvAlways, AInvAlways, PTL DEF Spec, MissingWasAwayOrSkipped

-----------------------------------------------------------------------------
(***************************************************************************)
(* D. Sweeps keep the rows they found.                                     *)
(***************************************************************************)

(* With the database server on UTC, what a sweep counts as first seen by    *)
(* itself is what it inserted.                                              *)
New ==
    /\ DOMAIN before \subseteq 1..(nextId - 1)
    /\ \A i \in DOMAIN rows :
         /\ ~rows[i].ahead
         /\ rows[i].fresh => i \notin DOMAIN before /\ rows[i].seen
         /\ rows[i].seen => rows[i].status # "missing"

(* The loop deletes rows of this sweep only, and what waits is there.       *)
Loop ==
    phase = "apply" =>
        /\ \A v \in DOMAIN plan.match : plan.match[v] \notin DOMAIN before \cup plan.vanished
        /\ \A a \in DOMAIN plan.target : plan.target[a].status # "missing"
        /\ \A v \in plan.vanished : v \in DOMAIN rows /\ rows[v].status # "missing" /\ ~rows[v].seen

(* The inductive invariant of part D.                                       *)
NInv == New /\ Loop

(* At the start no row is new.                                              *)
LEMMA InitNInv == Init \/ InitEdited => NInv
<1>1. ASSUME NEW indexed \in SUBSET Paths, NEW idOf \in [indexed -> 1..Cardinality(indexed)],
             NEW c \in [indexed -> Contents \ Unreadable], Indexed(c, idOf), AtRest
      PROVE  NInv
  BY <1>1, IndexedRows DEF RowsOK, AtRest, NInv, New, Loop
<1>. QED
  BY <1>1 DEF Init, InitEdited

(* Only inserted rows are new, and a row seen is not missing.               *)
LEMMA NewStep ==
  ASSUME ~ZoneAhead, TInv, NInv, [Next]_vars
  PROVE  New'
<1>. USE DEF NInv
<1>0. RowsOK
  BY DEF TInv
<1>1. CASE Still
  BY <1>1 DEF Still, New
<1>2. ASSUME NEW base \in {"counted", "clock", "none"}, StartSweep(base)
      PROVE  New'
  <2>1. nextId' = nextId
    BY <1>2 DEF StartSweep
  <2>. QED
    BY <1>0, <1>2, <2>1, StartEffect DEF New, RowsOK
<1>3. ASSUME NEW p \in Paths, WorkerWrites(p)
      PROVE  New'
  <2>1. before' = before
    BY <1>3 DEF WorkerWrites, WorkerTouches, WorkerCannotRead, WorkerStores, WorkerStoreFails,
                WalkUnchanged
  <2>2. /\ nextId' \in {nextId, nextId + 1} /\ nextId \in Nat /\ nextId \notin DOMAIN before
        /\ DOMAIN before' \subseteq 1..(nextId' - 1)
    BY <1>0, <1>3, <2>1, WriteEffect DEF New, RowsOK
  <2>3. ASSUME NEW i \in DOMAIN rows'
        PROVE  /\ ~rows'[i].ahead
               /\ rows'[i].fresh => i \notin DOMAIN before /\ rows'[i].seen
               /\ rows'[i].seen => rows'[i].status # "missing"
    <3>1. CASE i \in DOMAIN rows /\ rows[i].path # p
      BY <1>3, <3>1, WriteEffect DEF New
    <3>2. CASE i \in DOMAIN rows /\ rows[i].path = p
      BY <1>3, <3>2, WriteEffect DEF New
    <3>3. CASE i \notin DOMAIN rows
      BY <1>3, <2>2, <3>3, WriteEffect
    <3>. QED
      BY <3>1, <3>2, <3>3
  <2>. QED
    BY <2>1, <2>2, <2>3 DEF New
<1>4. CASE ReconcilePlans
  BY <1>4 DEF ReconcilePlans, ReconcileUnchanged, New
<1>5. ASSUME NEW v \in plan.vanished, Applies(v)
      PROVE  New'
  <2>1. UNCHANGED <<before, nextId>>
    BY <1>5 DEF Applies, MarkMissing, MoveDeletes, MoveReanchors, ReconcileUnchanged
  <2>2. PlanOK
    BY <1>5 DEF TInv, Applies, MarkMissing, MoveDeletes, MoveReanchors
  <2>3. CASE MarkMissing(v)
    BY <2>1, <2>3, MarkEffect DEF New, Loop
  <2>4. CASE MoveDeletes(v)
    <3>1. /\ plan'.match = plan.match /\ plan'.target = plan.target /\ plan'.vanished = plan.vanished
          /\ DOMAIN rows' = DOMAIN rows \ {plan.match[v]} /\ v \in DOMAIN plan.match
          /\ \A i \in DOMAIN rows' : rows'[i] = rows[i]
          /\ phase = "apply"
      BY <2>4, DeleteEffect
    <3>. QED
      BY <2>1, <3>1 DEF New
  <2>5. CASE MoveReanchors(v)
    BY <2>1, <2>2, <2>5, ReanchorEffect DEF New, Loop, PlanOK
  <2>. QED
    BY <1>5, <2>3, <2>4, <2>5 DEF Applies
<1>6. CASE \E ids \in SUBSET WithStatus("missing") : PruneMissing(ids)
  BY <1>6 DEF PruneMissing, New
<1>. QED
  BY <1>1, <1>2, <1>3, <1>4, <1>5, <1>6, Kinds

(* What the loop deletes is new, and what it works on is still there:       *)
(* prune-missing cannot take it, for it is not missing.                     *)
LEMMA LoopStep ==
  ASSUME ~ZoneAhead, TInv, NInv, [Next]_vars
  PROVE  Loop'
<1>. USE DEF NInv
<1>1. CASE Still
  BY <1>1 DEF Still, Loop
<1>2. CASE \E base \in {"counted", "clock", "none"} : StartSweep(base)
  BY <1>2 DEF StartSweep, Loop
<1>3. CASE \E p \in Paths : WorkerWrites(p)
  BY <1>3, WorkerExamines DEF Loop
<1>4. CASE ReconcilePlans
  <2>1. UNCHANGED <<rows, before>>
    BY <1>4 DEF ReconcilePlans, ReconcileUnchanged
  <2>2. \A v \in DOMAIN plan'.match : plan'.match[v] \in Appeared
    BY <1>4, MatchFacts DEF MoveTargets
  <2>3. \A a \in Appeared : a \in DOMAIN rows /\ a \notin DOMAIN before /\ rows[a].seen
                           /\ rows[a].status # "missing"
    BY DEF Appeared, New
  <2>. QED
    BY <1>4, <2>1, <2>2, <2>3, MatchFacts DEF Loop, Vanished
<1>5. ASSUME NEW v \in plan.vanished, Applies(v)
      PROVE  Loop'
  <2>1. before' = before
    BY <1>5 DEF Applies, MarkMissing, MoveDeletes, MoveReanchors, ReconcileUnchanged
  <2>3. CASE MarkMissing(v)
    BY <2>1, <2>3, MarkEffect DEF Loop
  <2>4. CASE MoveDeletes(v)
    <3>1. /\ plan'.match = plan.match /\ plan'.target = plan.target /\ plan'.vanished = plan.vanished
          /\ DOMAIN rows' = DOMAIN rows \ {plan.match[v]} /\ v \in DOMAIN plan.match
          /\ \A i \in DOMAIN rows' : rows'[i] = rows[i]
          /\ phase = "apply"
      BY <2>4, DeleteEffect
    <3>. QED
      BY <2>1, <3>1 DEF Loop
  <2>5. CASE MoveReanchors(v)
    BY <2>1, <2>5, ReanchorEffect DEF Loop
  <2>. QED
    BY <1>5, <2>3, <2>4, <2>5 DEF Applies
<1>6. CASE \E ids \in SUBSET WithStatus("missing") : PruneMissing(ids)
  BY <1>6 DEF PruneMissing, Loop, WithStatus
<1>. QED
  BY <1>1, <1>2, <1>3, <1>4, <1>5, <1>6, Kinds

(* Both hold from both starts if the database server is on UTC.             *)
LEMMA NInvAlways ==
  ASSUME ~ZoneAhead
  PROVE  /\ Spec => []NInv
         /\ EditedSpec => []NInv
<1>1. TInv /\ NInv /\ [Next]_vars => NInv'
  BY NewStep, LoopStep DEF NInv
<1>2. Init => NInv
  BY InitNInv
<1>3. InitEdited => NInv
  BY InitNInv
<1>. QED
  BY <1>1, <1>2, <1>3, TInvAlways, PTL DEF Spec, EditedSpec

(* Only the loop and prune-missing delete rows.                             *)
LEMMA SurviveStep ==
  ASSUME TInv, NInv, [Next]_vars
  PROVE  \A i \in DOMAIN rows \ DOMAIN rows' : rows[i].status = "missing" \/ i \notin DOMAIN before
<1>0. RowsOK
  BY DEF TInv
<1>1. CASE Still
  BY <1>1 DEF Still
<1>2. ASSUME NEW base \in {"counted", "clock", "none"}, StartSweep(base)
      PROVE  DOMAIN rows \subseteq DOMAIN rows'
  BY <1>2, StartEffect
<1>3. ASSUME NEW p \in Paths, WorkerWrites(p)
      PROVE  DOMAIN rows \subseteq DOMAIN rows'
  BY <1>0, <1>3, TouchEffect, StoreEffect, ErrorEffect
     DEF WorkerWrites, WorkerCannotRead, WorkerStores, WorkerStoreFails
<1>4. CASE ReconcilePlans
  BY <1>4 DEF ReconcilePlans
<1>5. ASSUME NEW v \in plan.vanished, Applies(v)
      PROVE  \A i \in DOMAIN rows \ DOMAIN rows' : i \notin DOMAIN before
  <2>1. CASE MarkMissing(v) \/ MoveReanchors(v)
    BY <2>1, MarkEffect, ReanchorEffect
  <2>2. CASE MoveDeletes(v)
    <3>1. DOMAIN rows' = DOMAIN rows \ {plan.match[v]} /\ v \in DOMAIN plan.match /\ phase = "apply"
      BY <2>2, DeleteEffect
    <3>. QED
      BY <3>1 DEF NInv, Loop
  <2>. QED
    BY <1>5, <2>1, <2>2 DEF Applies
<1>6. CASE \E ids \in SUBSET WithStatus("missing") : PruneMissing(ids)
  BY <1>6 DEF PruneMissing, WithStatus
<1>. QED
  BY <1>1, <1>2, <1>3, <1>4, <1>5, <1>6, Kinds

(* With the database server on UTC, a row that existed when the sweep       *)
(* began, and every tag and collection that refers to its frames, is only   *)
(* ever deleted by prune-missing.                                           *)
THEOREM SweepsKeepOldRows ==
  ASSUME ~ZoneAhead
  PROVE  Spec => OldRowsSurvive
<1>1. TInv /\ NInv /\ [Next]_vars
      => [\A i \in DOMAIN rows \ DOMAIN rows' : rows[i].status = "missing" \/ i \notin DOMAIN before]_vars
  BY SurviveStep
<1>. QED
  BY <1>1, TInvAlways, NInvAlways, PTL DEF Spec, OldRowsSurvive

-----------------------------------------------------------------------------
(***************************************************************************)
(* E. The mount-failure guard holds in the loop.                           *)
(***************************************************************************)

(* priorOk is what the sweep found, and while the loop marks rows enough of *)
(* the root was seen; the row that is being moved is as good as seen.       *)
Counted ==
    /\ baseline = "counted" => priorOk = Cardinality(OkBefore)
    /\ priorOk \in Nat
    /\ IsFiniteSet(DOMAIN before)

(* The rows seen, with the one that is between the two statements of a      *)
(* move.                                                                    *)
SeenOrMoving == Cardinality(SeenNow) + (IF plan.moving = {} THEN 0 ELSE 1)

(* What the mount-failure guard found still holds.                          *)
Healthy ==
    phase = "apply" =>
        \/ priorOk = 0
        \/ SeenOrMoving >= 1 /\ 2 * SeenOrMoving + 1 >= priorOk

(* The inductive invariant of part E.                                       *)
HInv == Counted /\ Healthy

(* The table is finite, and so is any set of its rows.                      *)
LEMMA RowsFinite ==
  ASSUME RowsOK
  PROVE  /\ IsFiniteSet(DOMAIN rows)
         /\ \A S \in SUBSET DOMAIN rows : IsFiniteSet(S) /\ Cardinality(S) \in Nat
<1>1. IsFiniteSet(1..(nextId - 1))
  BY FS_Interval DEF RowsOK
<1>2. IsFiniteSet(DOMAIN rows)
  BY <1>1, FS_Subset DEF RowsOK
<1>. QED
  BY <1>2, FS_Subset, FS_CardinalityType

(* Nothing is counted yet.                                                  *)
LEMMA InitHInv == Init \/ InitEdited => HInv
<1>1. ASSUME Init \/ InitEdited PROVE RowsOK
  BY <1>1, InitTInv DEF TInv
<1>2. ASSUME Init \/ InitEdited PROVE AtRest
  BY <1>2 DEF Init, InitEdited
<1>3. ASSUME Init \/ InitEdited PROVE baseline = "none" /\ priorOk = 0 /\ before = rows /\ phase = "idle"
  BY <1>2, <1>3 DEF AtRest
<1>4. ASSUME Init \/ InitEdited PROVE IsFiniteSet(DOMAIN rows)
  BY <1>1, <1>4, RowsFinite
<1>. QED
  BY <1>3, <1>4 DEF HInv, Counted, Healthy

(* Only the start of a sweep counts.                                        *)
LEMMA PriorKept ==
  ASSUME [Next]_vars
  PROVE  \/ UNCHANGED <<baseline, priorOk, before>>
         \/ \E base \in {"counted", "clock", "none"} : StartSweep(base)
<1>. DEFINE Kept == UNCHANGED <<baseline, priorOk, before>>
<1>1. CASE Disk
  BY <1>1 DEF Disk, Write, Rename, Delete, Settle, Outage, Edit
<1>2. CASE Sweeper
  <2>1. Walker => Kept
    BY DEF Walker, WalkVisit, WalkStops, EndOfTree, WalkUnchanged
  <2>2. \A p \in Paths : Worker(p) => Kept
    BY DEF Worker, WorkerStat, WorkerTouches, WorkerReads, WorkerCannotRead, WorkerStores, WalkUnchanged
  <2>3. EndWalk \/ Finish => Kept
    BY DEF EndWalk, Finish
  <2>4. Reconciler => Kept
    BY DEF Reconciler, ReconcileRefused, ReconcilePlans, ReconcileDone, MarkMissing, MoveDeletes,
           MoveReanchors, ReconcileUnchanged
  <2>. QED
    BY <1>2, <2>1, <2>2, <2>3, <2>4 DEF Sweeper
<1>3. CASE Failure
  BY <1>3 DEF Failure, RootUnreadable, WalkCut, EndOfTree, ReconcileFails, ReconcileUnchanged,
              FinishUnreported, RequestStop, Crash, WorkerStoreFails, WorkerLosesItem, WalkUnchanged
<1>4. CASE (\E ids \in SUBSET WithStatus("missing") : PruneMissing(ids)) \/ UNCHANGED vars
  BY <1>4 DEF PruneMissing, vars
<1>. QED
  BY <1>1, <1>2, <1>3, <1>4 DEF Next

(* prior_ok_count is the number of rows that were ok when the sweep began.  *)
LEMMA CountedStep ==
  ASSUME TInv, HInv, [Next]_vars
  PROVE  Counted'
<1>. USE DEF HInv
<1>1. ASSUME NEW base \in {"counted", "clock", "none"}, StartSweep(base)
      PROVE  Counted'
  <2>1. OkBefore' = WithStatus("ok")
    BY <1>1, StartEffect DEF OkBefore, WithStatus
  <2>2. Cardinality(WithStatus("ok")) \in Nat /\ IsFiniteSet(DOMAIN before')
    BY <1>1, RowsFinite, StartEffect DEF TInv, WithStatus
  <2>3. /\ baseline' = base
        /\ priorOk' = IF base = "counted" THEN Cardinality(WithStatus("ok")) ELSE 0
    BY <1>1 DEF StartSweep
  <2>. QED
    BY <2>1, <2>2, <2>3 DEF Counted
<1>2. CASE UNCHANGED <<baseline, priorOk, before>>
  BY <1>2 DEF Counted, OkBefore
<1>. QED
  BY <1>1, <1>2, PriorKept

(* What passed the healthy-sweep guard stays as healthy while the loop      *)
(* runs: a deleted row is made good by the one that takes its place.        *)
LEMMA HealthyStep ==
  ASSUME TInv, AInv, NInv, HInv, [Next]_vars
  PROVE  Healthy'
<1>. USE DEF HInv
<1>0. IsFiniteSet(SeenNow) /\ Cardinality(SeenNow) \in Nat /\ priorOk \in Nat
  BY RowsFinite DEF TInv, SeenNow, Counted
<1>1. CASE \E base \in {"counted", "clock", "none"} : StartSweep(base)
  BY <1>1 DEF StartSweep, Healthy
<1>. SUFFICES ASSUME priorOk' = priorOk, phase' = "apply"
              PROVE  Healthy'
  BY <1>1, PriorKept DEF Healthy
<1>2. CASE Still
  <2>1. UNCHANGED <<rows, plan, phase>>
    BY <1>2 DEF Still
  <2>. QED
    BY <2>1 DEF Healthy, SeenOrMoving, SeenNow
<1>3. CASE \E p \in Paths : WorkerWrites(p)
  BY <1>3, WorkerExamines
<1>4. CASE ReconcilePlans
  <2>1. SeenNow' = SeenNow /\ plan'.moving = {}
    BY <1>4, MatchFacts DEF ReconcilePlans, SeenNow
  <2>2. SeenOrMoving' = Cardinality(SeenNow)
    BY <1>0, <2>1 DEF SeenOrMoving
  <2>3. priorOk = 0 \/ (SeenNow # {} /\ ~(Cardinality(SeenNow) < priorOk \div 2))
    BY <1>0, <1>4 DEF ReconcilePlans, Unhealthy
  <2>4. SeenNow # {} => Cardinality(SeenNow) >= 1
    BY <1>0, FS_EmptySet
  <2>. QED
    BY <1>0, <2>2, <2>3, <2>4 DEF Healthy
<1>5. ASSUME NEW v \in plan.vanished, Applies(v)
      PROVE  Healthy'
  <2>0. phase = "apply"
    BY <1>5 DEF Applies, MarkMissing, MoveDeletes, MoveReanchors
  <2>1. v \in DOMAIN rows /\ v \notin SeenNow
    BY <2>0 DEF NInv, Loop, SeenNow
  <2>2. SeenOrMoving \in Nat
    BY <1>0 DEF SeenOrMoving
  <2>3. CASE MarkMissing(v)
    <3>1. SeenNow' = SeenNow /\ plan.moving = {} /\ plan'.moving = {}
      BY <2>1, <2>3, MarkEffect DEF SeenNow
    <3>. QED
      BY <2>0, <3>1 DEF Healthy, SeenOrMoving
  <2>4. CASE MoveDeletes(v)
    <3>1. /\ DOMAIN rows' = DOMAIN rows \ {plan.match[v]} /\ \A i \in DOMAIN rows' : rows'[i] = rows[i]
          /\ plan.moving = {} /\ plan'.moving = {v}
      BY <2>4, DeleteEffect
    <3>2. SeenNow' = SeenNow \ {plan.match[v]}
      BY <3>1 DEF SeenNow
    <3>3. Cardinality(SeenNow') \in {Cardinality(SeenNow), Cardinality(SeenNow) - 1}
      BY <1>0, <3>2, FS_RemoveElement
    <3>4. SeenOrMoving = Cardinality(SeenNow) /\ SeenOrMoving' = Cardinality(SeenNow') + 1
      BY <1>0, <3>1 DEF SeenOrMoving
    <3>5. SeenOrMoving' >= SeenOrMoving /\ SeenOrMoving' \in Nat
      BY <1>0, <3>3, <3>4
    <3>6. priorOk = 0 \/ (SeenOrMoving >= 1 /\ 2 * SeenOrMoving + 1 >= priorOk)
      BY <2>0 DEF Healthy
    <3>7. priorOk = 0 \/ (SeenOrMoving' >= 1 /\ 2 * SeenOrMoving' + 1 >= priorOk)
      <4>1. \A m, n, k \in Nat : n >= m /\ m >= 1 /\ 2 * m + 1 >= k => n >= 1 /\ 2 * n + 1 >= k
        OBVIOUS
      <4>. QED
        BY <1>0, <2>2, <3>5, <3>6, <4>1
    <3>. QED
      BY <3>7 DEF Healthy
  <2>5. CASE MoveReanchors(v)
    <3>1. /\ DOMAIN rows' = DOMAIN rows /\ \A i \in DOMAIN rows \ {v} : rows'[i] = rows[i]
          /\ rows'[v].seen /\ v \in plan.moving /\ plan'.moving = {}
      BY <2>1, <2>5, ReanchorEffect
    <3>2. SeenNow' = SeenNow \cup {v}
      BY <2>1, <3>1 DEF SeenNow
    <3>3. Cardinality(SeenNow') = Cardinality(SeenNow) + 1
      BY <1>0, <2>1, <3>2, FS_AddElement
    <3>4. SeenOrMoving = Cardinality(SeenNow) + 1 /\ SeenOrMoving' = Cardinality(SeenNow')
      BY <1>0, <3>1, <3>3 DEF SeenOrMoving
    <3>. QED
      BY <1>0, <2>0, <2>2, <3>3, <3>4 DEF Healthy
  <2>. QED
    BY <1>5, <2>3, <2>4, <2>5 DEF Applies
<1>6. CASE \E ids \in SUBSET WithStatus("missing") : PruneMissing(ids)
  <2>1. UNCHANGED <<plan, phase>>
    BY <1>6 DEF PruneMissing
  <2>2. SeenNow' = SeenNow
    BY <1>6 DEF PruneMissing, SeenNow, NInv, New, WithStatus
  <2>. QED
    BY <2>1, <2>2 DEF Healthy, SeenOrMoving
<1>. QED
  BY <1>1, <1>2, <1>3, <1>4, <1>5, <1>6, Kinds

(* Both hold from both starts if the database server is on UTC.             *)
LEMMA HInvAlways ==
  ASSUME ~ZoneAhead
  PROVE  /\ Spec => []HInv
         /\ EditedSpec => []HInv
<1>1. TInv /\ AInv /\ NInv /\ HInv /\ [Next]_vars => HInv'
  BY CountedStep, HealthyStep DEF HInv
<1>2. Init => HInv
  BY InitHInv
<1>3. InitEdited => HInv
  BY InitHInv
<1>. QED
  BY <1>1, <1>2, <1>3, TInvAlways, AInvAlways, NInvAlways, PTL DEF Spec, EditedSpec

(* A row turns missing only in the loop, when no row is being moved.        *)
LEMMA MarkingStep ==
  ASSUME TInv, NInv, HInv, [Next]_vars, MarksMissing, baseline = "counted"
  PROVE  OkBefore = {} \/ SawEnough
<1>1. PICK i \in DOMAIN rows : /\ i \in DOMAIN rows' /\ rows[i].status # "missing"
                               /\ rows'[i].status = "missing"
  BY DEF MarksMissing, TurnsMissing
<1>2. ASSUME NEW v \in plan.vanished, Applies(v)
      PROVE  phase = "apply" /\ plan.moving = {}
  <2>0. phase = "apply" /\ PlanOK
    BY <1>2 DEF Applies, MarkMissing, MoveDeletes, MoveReanchors, TInv
  <2>1. CASE MarkMissing(v) \/ MoveDeletes(v)
    BY <2>0, <2>1, MarkEffect, DeleteEffect
  <2>2. CASE MoveReanchors(v)
    <3>1. i = v /\ v \in DOMAIN plan.match
      BY <1>1, <2>2, ReanchorEffect
    <3>2. rows'[i].status = plan.target[plan.match[v]].status
      BY <1>1, <2>2, <3>1, ReanchorEffect
    <3>. QED
      BY <1>1, <2>0, <3>1, <3>2 DEF PlanOK, NInv, Loop
  <2>. QED
    BY <1>2, <2>1, <2>2 DEF Applies
<1>3. ASSUME Still PROVE FALSE
  BY <1>1, <1>3 DEF Still
<1>4. ASSUME NEW base \in {"counted", "clock", "none"}, StartSweep(base)
      PROVE  FALSE
  BY <1>1, <1>4, StartEffect
<1>5. ASSUME NEW p \in Paths, WorkerWrites(p)
      PROVE  FALSE
  BY <1>1, <1>5, WriteEffect
<1>6. ASSUME ReconcilePlans PROVE FALSE
  BY <1>1, <1>6 DEF ReconcilePlans
<1>7. ASSUME NEW ids \in SUBSET WithStatus("missing"), PruneMissing(ids)
      PROVE  FALSE
  BY <1>1, <1>7 DEF PruneMissing
<1>8. phase = "apply" /\ plan.moving = {}
  BY <1>1, <1>2, <1>3, <1>4, <1>5, <1>6, <1>7, Kinds
<1>9. IsFiniteSet(SeenNow) /\ Cardinality(SeenNow) \in Nat
  BY RowsFinite DEF TInv, SeenNow
<1>10. SeenOrMoving = Cardinality(SeenNow)
  BY <1>8, <1>9 DEF SeenOrMoving
<1>11. IsFiniteSet(OkBefore) /\ priorOk = Cardinality(OkBefore)
  BY FS_Subset DEF HInv, Counted, OkBefore
<1>12. CASE priorOk = 0
  BY <1>11, <1>12, FS_EmptySet
<1>13. CASE Cardinality(SeenNow) >= 1 /\ 2 * Cardinality(SeenNow) + 1 >= priorOk
  <2>1. SeenNow # {}
    BY <1>13, FS_EmptySet
  <2>2. \A c, n \in Nat : 2 * c + 1 >= n => c >= n \div 2
    OBVIOUS
  <2>3. Cardinality(SeenNow) >= priorOk \div 2
    BY <1>9, <1>11, <1>13, <2>2, FS_CardinalityType
  <2>. QED
    BY <1>11, <2>1, <2>3 DEF SawEnough
<1>. QED
  BY <1>8, <1>10, <1>12, <1>13 DEF HInv, Healthy

(* With the database server on UTC, a sweep that counted the files present  *)
(* marks none missing if it then saw no indexed file, or fewer than half of *)
(* that count rounded down, however the statements of the loop change the   *)
(* counts: an empty mount point cannot empty the index.  Of an odd count    *)
(* the smaller half is enough, as in the code.                              *)
THEOREM MountGuardHolds ==
  ASSUME ~ZoneAhead
  PROVE  /\ Spec => CountedOutageMarksNothing
         /\ EditedSpec => CountedOutageMarksNothing
<1>1. TInv /\ NInv /\ HInv /\ [Next]_vars
      => [MarksMissing /\ baseline = "counted" => OkBefore = {} \/ SawEnough]_vars
  BY MarkingStep
<1>. QED
  BY <1>1, TInvAlways, NInvAlways, HInvAlways, PTL DEF Spec, EditedSpec, CountedOutageMarksNothing

-----------------------------------------------------------------------------
(***************************************************************************)
(* F. Quiet sweeps: what the rows are compared with.                       *)
(***************************************************************************)

(* What a sweep is judged by: the rows it found, and how far it is. *)
Known ==
    /\ \A i \in DOMAIN before :
         before[i] \in Row /\ (before[i].status = "ok" => before[i].content # NoContent)
    /\ \A i \in DOMAIN rows : rows[i].status = "ok" => rows[i].content # NoContent
    /\ outcome = "running" <=> phase \in {"walk", "plan", "apply"}
    /\ outcome = "complete" => phase \in {"finish", "idle"}

(* The two rows of a planned move have one fingerprint. *)
Matched ==
    phase = "apply" =>
        /\ \A v, w \in plan.moving : v = w
        /\ \A v \in plan.vanished \cap DOMAIN plan.match :
            LET A == plan.target[plan.match[v]] IN
            /\ A.content # NoContent /\ rows[v].content # NoContent
            /\ KeyOf[rows[v].content] = KeyOf[A.content]
            /\ plan.match[v] \in DOMAIN rows => rows[plan.match[v]].path = A.path

(* Until it reconciles, a sweep leaves alone every row it has not seen. *)
Untouched ==
    phase \in {"walk", "plan"} =>
        /\ \A i \in DOMAIN rows :
             /\ ~rows[i].seen => i \in DOMAIN before /\ rows[i] = before[i]
             /\ i \in DOMAIN before => rows[i].path = before[i].path
             /\ i \notin DOMAIN before => rows[i].fresh
        /\ \A i \in DOMAIN before : before[i].status # "missing" => i \in DOMAIN rows

(* The inductive invariant of every sweep in part F.                        *)
KInv == Known /\ Matched /\ Untouched

(* While nobody edits the disk, what a worker holds is what is there. *)
Fetched ==
    quiet => \A p \in Paths : work[p].at \in {"queued", "stat", "read"} =>
        /\ disk[p] # NoFile
        /\ work[p].at # "queued" => work[p].stamp = disk[p].stamp
        /\ work[p].at = "read" => /\ work[p].content = disk[p].content
                                  /\ disk[p].content \notin Unreadable

(* What a row of this sweep says of the file at its path. *)
Told(r) ==
    /\ disk[r.path] # NoFile
    /\ r.fresh /\ r.content # NoContent => r.content = disk[r.path].content
    /\ r.path \notin skipped /\ work[r.path].at = "done" =>
         /\ ~errored => r.status = "ok"
         /\ r.fresh /\ disk[r.path].content \notin Unreadable
              => r.status = "ok" /\ r.content = disk[r.path].content

(* What the rows of this sweep say while it walks, and that no file it      *)
(* dealt with is without a row.                                             *)
Stored ==
    quiet /\ phase \in {"walk", "plan"} =>
        /\ \A i \in DOMAIN rows : rows[i].seen => Told(rows[i])
        /\ \A p \in Paths \ skipped : work[p].at = "done" /\ disk[p] # NoFile
             => \E i \in RowsAt(p) : rows[i].seen

(* The inductive invariant of quiet sweeps while they walk.                 *)
QInv == Fetched /\ Stored

(* The sweeps that MovesAreFair and RenamesAreFollowed are about.           *)
Judged == quiet /\ outcome \in {"running", "complete"}

(* The move of row i to path t is not a guess. *)
Fair(i, t) ==
    LET k == KeyOf[before[i].content] IN
    /\ \A j \in DOMAIN before \ {i} :
          HasKey(j, k) /\ before[j].status # "missing" => disk[before[j].path] # NoFile
    /\ \A q \in OnDiskWithKey(k) \ skipped :
          \/ q = t
          \/ disk[q].content \in Unreadable
          \/ \E j \in DOMAIN before : before[j].path = q

(* Rows moved so far and rows to be moved.                                  *)
FairMoves ==
    Judged =>
        /\ \A i \in DOMAIN rows \cap DOMAIN before :
             rows[i].path # before[i].path => Fair(i, rows[i].path)
        /\ phase = "apply" => \A v \in DOMAIN plan.match :
             v \in DOMAIN before /\ Fair(v, NewPath(v))

(* The row is at the path the file was renamed to.                          *)
Arrived(i, q) ==
    /\ i \in DOMAIN rows /\ rows[i].path = q /\ rows[i].status = "ok"
    /\ phase = "apply" => i \notin plan.vanished

(* The row is planned to be moved there.                                    *)
OnItsWay(i, q) ==
    /\ phase = "apply"
    /\ i \in plan.vanished \cap DOMAIN plan.match
    /\ NewPath(i) = q
    /\ plan.target[plan.match[i]].status = "ok"

(* Each file renamed since the last sweep is followed.                      *)
Followed ==
    Judged /\ phase \notin {"walk", "plan"} =>
        \A i \in DOMAIN before, q \in Paths : RenamedTo(i, q) => Arrived(i, q) \/ OnItsWay(i, q)

(* The inductive invariant of part G.                                       *)
MInv == FairMoves /\ Followed

-----------------------------------------------------------------------------
(* The starts judge nothing.                                                *)
LEMMA InitKInv ==
  ASSUME Init \/ InitEdited
  PROVE  KInv /\ QInv /\ MInv
<1>1. RowsOK /\ AtRest
  BY InitTInv DEF TInv, Init, InitEdited
<1>2. \A i \in DOMAIN rows : rows[i].content # NoContent
  <2>1. ASSUME NEW indexed \in SUBSET Paths, NEW idOf \in [indexed -> 1..Cardinality(indexed)],
               NEW c \in [indexed -> Contents \ Unreadable], Indexed(c, idOf)
        PROVE  \A i \in DOMAIN rows : rows[i].content # NoContent
    BY <2>1, IndexedRows, SweepAssumption
  <2>. QED
    BY <2>1 DEF Init, InitEdited
<1>3. /\ before = rows /\ phase = "idle" /\ outcome = "none"
      /\ \A p \in Paths : work[p].at = "done"
  BY <1>1 DEF AtRest, Step
<1>4. Known
  BY <1>1, <1>2, <1>3 DEF Known, RowsOK
<1>5. Matched /\ Untouched /\ Fetched /\ Stored
  BY <1>3 DEF Matched, Untouched, Fetched, Stored
<1>6. FairMoves /\ Followed
  BY <1>3 DEF FairMoves, Followed, Judged
<1>. QED
  BY <1>4, <1>5, <1>6 DEF KInv, QInv, MInv

(* A sweep is running from its walk to the end of its reconciliation, and   *)
(* complete only after it.                                                  *)
LEMMA OutcomeStep ==
  ASSUME TInv, Known, [Next]_vars
  PROVE  /\ (outcome = "running" <=> phase \in {"walk", "plan", "apply"})'
         /\ (outcome = "complete" => phase \in {"finish", "idle"})'
<1>. USE DEF Known
<1>. DEFINE Goal == /\ (outcome = "running" <=> phase \in {"walk", "plan", "apply"})'
                    /\ (outcome = "complete" => phase \in {"finish", "idle"})'
<1>1. ASSUME UNCHANGED <<outcome, phase>> PROVE Goal
  BY <1>1
<1>2. CASE Disk
  BY <1>1, <1>2 DEF Disk, Write, Rename, Delete, Settle, Outage, Edit
<1>3. CASE \E base \in {"counted", "clock", "none"} : StartSweep(base)
  BY <1>3 DEF StartSweep
<1>4. CASE Sweeper
  <2>1. Walker => Goal
    BY <1>1 DEF Walker, WalkVisit, WalkStops, EndOfTree, WalkUnchanged
  <2>2. \A p \in Paths : Worker(p) => Goal
    BY <1>1 DEF Worker, WorkerStat, WorkerTouches, WorkerReads, WorkerCannotRead, WorkerStores,
                WalkUnchanged
  <2>3. EndWalk => Goal
    BY DEF EndWalk
  <2>4. Finish => Goal
    BY DEF Finish
  <2>5. Reconciler => Goal
    BY DEF Reconciler, ReconcileRefused, ReconcilePlans, ReconcileDone, MarkMissing, MoveDeletes,
           MoveReanchors
  <2>. QED
    BY <1>4, <2>1, <2>2, <2>3, <2>4, <2>5 DEF Sweeper
<1>5. CASE Failure
  <2>1. RootUnreadable \/ ReconcileFails \/ FinishUnreported \/ Crash => Goal
    BY DEF RootUnreadable, ReconcileFails, FinishUnreported, Crash
  <2>2. WalkCut \/ RequestStop \/ (\E p \in Paths : WorkerStoreFails(p) \/ WorkerLosesItem(p)) => Goal
    BY <1>1 DEF WalkCut, EndOfTree, RequestStop, WorkerStoreFails, WorkerLosesItem, WalkUnchanged
  <2>. QED
    BY <1>5, <2>1, <2>2 DEF Failure
<1>6. CASE (\E ids \in SUBSET WithStatus("missing") : PruneMissing(ids)) \/ UNCHANGED vars
  BY <1>1, <1>6 DEF PruneMissing, vars
<1>. QED
  BY <1>2, <1>3, <1>4, <1>5, <1>6 DEF Next

(* What a worker writes of a path, and what it leaves of it.                *)
LEMMA WriteFrames ==
  ASSUME TInv, NEW p \in Paths, WorkerWrites(p), NEW i \in DOMAIN rows', rows'[i].path = p
  PROVE  \/ /\ WorkerTouches(p) /\ i \in DOMAIN rows
            /\ rows[i].status = "ok" /\ rows[i].stamp = work[p].stamp /\ rows[i].path = p
            /\ rows'[i].status = "ok" /\ rows'[i].stamp = rows[i].stamp
            /\ rows'[i].content = rows[i].content
         \/ /\ WorkerStores(p) /\ work[p].at = "read"
            /\ rows'[i].status = "ok" /\ rows'[i].stamp = work[p].stamp
            /\ rows'[i].content = work[p].content /\ work[p].content \in Contents
         \/ /\ WorkerCannotRead(p) \/ WorkerStoreFails(p)
            /\ rows'[i].status = "error"
            /\ \/ i \in DOMAIN rows /\ rows[i].path = p /\ rows'[i].stamp = rows[i].stamp
                                    /\ rows'[i].content = rows[i].content
               \/ i \notin DOMAIN rows /\ rows'[i].content = NoContent /\ rows'[i].stamp = work[p].stamp
<1>1. RowsOK
  BY DEF TInv
<1>2. CASE WorkerTouches(p)
  BY <1>1, <1>2, TouchEffect DEF RowsOK, OnePerPath
<1>3. CASE WorkerStores(p)
  <2>1. StoreFile(p, work[p].stamp, work[p].content) /\ work[p].at = "read"
    BY <1>3 DEF WorkerStores, At
  <2>2. work[p].content \in Contents
    BY <2>1 DEF TInv, WorkOK
  <2>3. i \in DOMAIN rows => rows[i].path = p
    BY <1>1, <2>1, StoreEffect
  <2>. QED
    BY <1>1, <1>3, <2>1, <2>2, <2>3, StoreEffect
<1>4. CASE WorkerCannotRead(p) \/ WorkerStoreFails(p)
  <2>1. RecordError(p, work[p].stamp)
    BY <1>4 DEF WorkerCannotRead, WorkerStoreFails
  <2>2. i \in DOMAIN rows => rows[i].path = p
    BY <1>1, <2>1, ErrorEffect
  <2>. QED
    BY <1>1, <1>4, <2>1, <2>2, ErrorEffect
<1>. QED
  BY <1>2, <1>3, <1>4 DEF WorkerWrites

(* A row that is ok has frames: no statement makes an error row ok without  *)
(* storing the header.                                                      *)
LEMMA KnownStep ==
  ASSUME TInv, KInv, [Next]_vars
  PROVE  Known'
<1>. USE DEF KInv
<1>. DEFINE BeforeOK == \A i \in DOMAIN before :
                          before[i] \in Row /\ (before[i].status = "ok" => before[i].content # NoContent)
            RowsFull == \A i \in DOMAIN rows : rows[i].status = "ok" => rows[i].content # NoContent
<1>1. CASE \E base \in {"counted", "clock", "none"} : StartSweep(base)
  <2>1. RowsFull' /\ before' = rows'
    BY <1>1, StartEffect DEF Known
  <2>2. BeforeOK'
    BY <1>1, <2>1, NextTInv DEF TInv, RowsOK
  <2>. QED
    BY <2>1, <2>2, OutcomeStep DEF Known
<1>2. CASE UNCHANGED before
  <2>1. BeforeOK'
    BY <1>2 DEF Known
  <2>2. RowsFull'
    <3>1. CASE Still \/ ReconcilePlans
      BY <3>1 DEF Still, ReconcilePlans, Known
    <3>2. ASSUME NEW p \in Paths, WorkerWrites(p)
          PROVE  RowsFull'
      <4>1. ASSUME NEW i \in DOMAIN rows', rows'[i].status = "ok"
            PROVE  rows'[i].content # NoContent
        <5>1. CASE i \in DOMAIN rows /\ rows[i].path # p
          BY <3>2, <4>1, <5>1, WriteEffect DEF Known
        <5>2. CASE rows'[i].path = p
          BY <3>2, <4>1, <5>2, WriteFrames, SweepAssumption DEF Known
        <5>. QED
          BY <3>2, <5>1, <5>2, WriteEffect
      <4>. QED
        BY <4>1
    <3>3. ASSUME NEW v \in plan.vanished, Applies(v)
          PROVE  RowsFull'
      <4>1. CASE MarkMissing(v)
        BY <4>1, MarkEffect DEF Known
      <4>2. CASE MoveDeletes(v)
        <5>1. DOMAIN rows' \subseteq DOMAIN rows /\ \A i \in DOMAIN rows' : rows'[i] = rows[i]
          BY <4>2, DeleteEffect
        <5>. QED
          BY <5>1 DEF Known
      <4>3. CASE MoveReanchors(v)
        BY <4>3, ReanchorEffect DEF Known, Matched
      <4>. QED
        BY <3>3, <4>1, <4>2, <4>3 DEF Applies
    <3>4. CASE \E ids \in SUBSET WithStatus("missing") : PruneMissing(ids)
      BY <3>4 DEF PruneMissing, Known
    <3>5. CASE \E base \in {"counted", "clock", "none"} : StartSweep(base)
      BY <3>5, StartEffect DEF Known
    <3>. QED
      BY <3>1, <3>2, <3>3, <3>4, <3>5, Kinds
  <2>. QED
    BY <2>1, <2>2, OutcomeStep DEF Known
<1>. QED
  BY <1>1, <1>2, PriorKept

(* While the loop runs, the rows of a move keep their fingerprint.          *)
LEMMA MatchedStep ==
  ASSUME TInv, NInv, KInv, [Next]_vars
  PROVE  Matched'
<1>. USE DEF KInv
<1>1. CASE Still
  BY <1>1 DEF Still, Matched
<1>2. CASE \E base \in {"counted", "clock", "none"} : StartSweep(base)
  BY <1>2 DEF StartSweep, Matched
<1>3. CASE \E p \in Paths : WorkerWrites(p)
  BY <1>3, WorkerExamines DEF Matched
<1>4. CASE ReconcilePlans
  <2>1. rows' = rows
    BY <1>4 DEF ReconcilePlans
  <2>2. \A v \in DOMAIN plan'.match : plan'.match[v] \in Appeared /\ SameKey(v, plan'.match[v])
    BY <1>4, MatchFacts DEF MoveTargets
  <2>3. \A v \in DOMAIN plan'.match : plan'.target[plan'.match[v]] = rows[plan'.match[v]]
    BY <1>4, <2>2, MatchFacts
  <2>4. plan'.moving = {}
    BY <1>4, MatchFacts
  <2>. QED
    BY <2>1, <2>2, <2>3, <2>4 DEF Matched, SameKey
<1>5. ASSUME NEW v \in plan.vanished, Applies(v)
      PROVE  Matched'
  <2>0. phase = "apply" /\ PlanOK
    BY <1>5 DEF Applies, MarkMissing, MoveDeletes, MoveReanchors, TInv
  <2>1. /\ plan'.match = plan.match /\ plan'.target = plan.target
        /\ plan'.vanished \subseteq plan.vanished /\ plan'.moving \subseteq {v}
    BY <1>5, MarkEffect, DeleteEffect, ReanchorEffect DEF Applies
  <2>2. /\ \A w \in plan.vanished : w \in DOMAIN rows /\ w \in DOMAIN rows' /\ rows'[w].content = rows[w].content
        /\ \A i \in DOMAIN rows' : i \in DOMAIN rows /\ (i # v => rows'[i] = rows[i])
    <3>1. CASE MarkMissing(v) \/ MoveReanchors(v)
      BY <2>0, <3>1, MarkEffect, ReanchorEffect DEF NInv, Loop
    <3>2. CASE MoveDeletes(v)
      <4>1. /\ v \in DOMAIN plan.match /\ DOMAIN rows' = DOMAIN rows \ {plan.match[v]}
            /\ \A i \in DOMAIN rows' : rows'[i] = rows[i]
        BY <3>2, DeleteEffect
      <4>. QED
        BY <2>0, <4>1 DEF NInv, Loop
    <3>. QED
      BY <1>5, <3>1, <3>2 DEF Applies
  <2>3. \A w \in DOMAIN plan.match : plan.match[w] # v
    BY <2>0 DEF NInv, Loop
  <2>4. \A w \in plan.vanished \cap DOMAIN plan.match :
            LET A == plan.target[plan.match[w]] IN
            /\ A.content # NoContent /\ rows[w].content # NoContent
            /\ KeyOf[rows[w].content] = KeyOf[A.content]
            /\ plan.match[w] \in DOMAIN rows => rows[plan.match[w]].path = A.path
    BY <2>0 DEF Matched
  <2>5. ASSUME NEW w \in plan'.vanished \cap DOMAIN plan'.match
        PROVE  LET A == plan'.target[plan'.match[w]] IN
            /\ A.content # NoContent /\ rows'[w].content # NoContent
            /\ KeyOf[rows'[w].content] = KeyOf[A.content]
            /\ plan'.match[w] \in DOMAIN rows' => rows'[plan'.match[w]].path = A.path
    BY <2>1, <2>2, <2>3, <2>4
  <2>. QED
    BY <2>1, <2>5 DEF Matched
<1>6. CASE \E ids \in SUBSET WithStatus("missing") : PruneMissing(ids)
  <2>1. /\ phase' = phase /\ plan' = plan /\ DOMAIN rows' \subseteq DOMAIN rows
        /\ \A i \in DOMAIN rows' : rows'[i] = rows[i]
    BY <1>6 DEF PruneMissing
  <2>2. phase = "apply" => \A v \in plan.vanished : v \in DOMAIN rows' /\ rows'[v] = rows[v]
    BY <1>6 DEF PruneMissing, WithStatus, NInv, Loop
  <2>. QED
    BY <2>1, <2>2 DEF Matched
<1>. QED
  BY <1>1, <1>2, <1>3, <1>4, <1>5, <1>6, Kinds

(* Until it reconciles, a sweep changes only rows it sees.                  *)
LEMMA UntouchedStep ==
  ASSUME TInv, NInv, KInv, [Next]_vars
  PROVE  Untouched'
<1>. USE DEF KInv
<1>1. CASE \E base \in {"counted", "clock", "none"} : StartSweep(base)
  BY <1>1, StartEffect DEF Untouched
<1>. SUFFICES ASSUME before' = before, phase' \in {"walk", "plan"}
              PROVE  Untouched'
  BY <1>1, PriorKept DEF Untouched
<1>2. CASE Still
  BY <1>2 DEF Still, Untouched
<1>3. ASSUME NEW p \in Paths, WorkerWrites(p)
      PROVE  Untouched'
  <2>1. phase = "walk"
    BY <1>3, WorkerExamines
  <2>2. ASSUME NEW i \in DOMAIN rows'
        PROVE  /\ ~rows'[i].seen => i \in DOMAIN before /\ rows'[i] = before[i]
               /\ i \in DOMAIN before => rows'[i].path = before[i].path
               /\ i \notin DOMAIN before => rows'[i].fresh
    <3>1. CASE i \in DOMAIN rows /\ rows[i].path # p
      BY <1>3, <2>1, <3>1, WriteEffect DEF Untouched
    <3>2. CASE i \in DOMAIN rows /\ rows[i].path = p
      BY <1>3, <2>1, <3>2, WriteEffect DEF Untouched
    <3>3. CASE i \notin DOMAIN rows
      <4>1. i = nextId /\ rows'[i].fresh /\ rows'[i].seen
        BY <1>3, <3>3, WriteEffect
      <4>2. i \notin DOMAIN before
        BY <4>1 DEF NInv, New, TInv, RowsOK
      <4>. QED
        BY <4>1, <4>2
    <3>. QED
      BY <3>1, <3>2, <3>3
  <2>3. DOMAIN rows \subseteq DOMAIN rows'
    BY <1>3, WriteEffect
  <2>. QED
    BY <2>1, <2>2, <2>3 DEF Untouched
<1>4. CASE ReconcilePlans
  BY <1>4 DEF ReconcilePlans
<1>5. CASE \E v \in plan.vanished : Applies(v)
  BY <1>5 DEF Applies, MarkMissing, MoveDeletes, MoveReanchors, ReconcileUnchanged
<1>6. CASE \E ids \in SUBSET WithStatus("missing") : PruneMissing(ids)
  <2>1. PICK ids \in SUBSET WithStatus("missing") : PruneMissing(ids)
    BY <1>6
  <2>2. /\ phase' = phase /\ DOMAIN rows' = DOMAIN rows \ ids
        /\ \A i \in DOMAIN rows' : rows'[i] = rows[i]
    BY <2>1 DEF PruneMissing
  <2>3. \A i \in ids : i \in DOMAIN rows /\ ~rows[i].seen /\ rows[i].status = "missing"
    BY <2>1 DEF WithStatus, NInv, New
  <2>. QED
    BY <2>2, <2>3 DEF Untouched
<1>. QED
  BY <1>1, <1>2, <1>3, <1>4, <1>5, <1>6, Kinds

(* All three hold from both starts if the database server is on UTC.        *)
LEMMA KInvAlways ==
  ASSUME ~ZoneAhead
  PROVE  /\ Spec => []KInv
         /\ EditedSpec => []KInv
<1>1. TInv /\ NInv /\ KInv /\ [Next]_vars => KInv'
  BY KnownStep, MatchedStep, UntouchedStep DEF KInv
<1>2. Init => KInv
  BY InitKInv
<1>3. InitEdited => KInv
  BY InitKInv
<1>. QED
  BY <1>1, <1>2, <1>3, TInvAlways, NInvAlways, PTL DEF Spec, EditedSpec

-----------------------------------------------------------------------------
(* What can happen while a quiet sweep walks. *)
Calm ==
    /\ UNCHANGED <<disk, rows, work, skipped, errored, swapped>>
    /\ phase \in {"walk", "plan"}

(* The maintenance deletes missing rows.                                    *)
Prunes == \E ids \in SUBSET WithStatus("missing") : PruneMissing(ids)

(* What can happen while a quiet sweep walks.                               *)
LEMMA WalkCases ==
  ASSUME TInv, [Next]_vars, quiet', phase' \in {"walk", "plan"}
  PROVE  \/ \E base \in {"counted", "clock", "none"} : StartSweep(base)
         \/ /\ quiet /\ phase \in {"walk", "plan"} /\ disk' = disk
            /\ \/ phase = "walk" /\ phase' = "walk" /\ \E p \in Paths : WalkVisit(p)
               \/ phase = "walk" /\ phase' = "walk" /\ EndOfTree
               \/ /\ phase = "walk" /\ phase' = "walk"
                  /\ \E p \in Paths : WorkerStat(p) \/ WorkerReads(p) \/ WorkerLosesItem(p) \/ WorkerWrites(p)
               \/ Calm
               \/ Prunes
<1>1. CASE Disk
  BY <1>1 DEF Disk, Write, Rename, Delete, Settle, Outage, Edit
<1>2. ASSUME NEW p \in Paths, Worker(p) \/ WorkerStoreFails(p) \/ WorkerLosesItem(p)
      PROVE  /\ phase = "walk" /\ phase' = "walk" /\ quiet /\ disk' = disk
             /\ WorkerStat(p) \/ WorkerReads(p) \/ WorkerLosesItem(p) \/ WorkerWrites(p)
  <2>1. phase = "walk"
    BY <1>2, UnderWay DEF Worker, WorkerStat, WorkerTouches, WorkerReads, WorkerCannotRead, WorkerStores,
                  WorkerStoreFails, WorkerLosesItem, NeedsReading, InFlight, At
  <2>. QED
    BY <1>2, <2>1 DEF Worker, WorkerStat, WorkerTouches, WorkerReads, WorkerCannotRead, WorkerStores,
                  WorkerStoreFails, WorkerLosesItem, WorkerWrites, WalkUnchanged
<1>3. CASE Walker \/ WalkCut
  <2>1. CASE \E p \in Paths : WalkVisit(p)
    BY <2>1 DEF WalkVisit, WalkUnchanged
  <2>2. CASE WalkStops \/ WalkCut
    <3>1. EndOfTree /\ phase = "walk" /\ phase' = "walk" /\ quiet /\ disk' = disk
      BY <2>2 DEF WalkStops, WalkCut, EndOfTree, WalkUnchanged
    <3>. QED
      BY <3>1
  <2>. QED
    BY <1>3, <2>1, <2>2 DEF Walker
<1>4. CASE EndWalk \/ RequestStop \/ UNCHANGED vars
  BY <1>4 DEF EndWalk, RequestStop, vars, Calm
<1>5. CASE Reconciler \/ Finish \/ RootUnreadable \/ ReconcileFails \/ FinishUnreported \/ Crash
  <2>1. CASE \E v \in plan.vanished : MarkMissing(v) \/ MoveDeletes(v) \/ MoveReanchors(v)
    BY <2>1 DEF MarkMissing, MoveDeletes, MoveReanchors, ReconcileUnchanged
  <2>. QED
    BY <1>5, <2>1 DEF Reconciler, ReconcileRefused, ReconcilePlans, ReconcileDone, Finish, RootUnreadable,
                ReconcileFails, FinishUnreported, Crash
<1>6. CASE Prunes
  BY <1>6 DEF Prunes, PruneMissing
<1>. QED
  BY <1>1, <1>2, <1>3, <1>4, <1>5, <1>6 DEF Next, Sweeper, Failure, Prunes

(* A worker changes the work of its own path only.                          *)
LEMMA OwnWork ==
  ASSUME TInv, NEW p \in Paths,
         WorkerStat(p) \/ WorkerReads(p) \/ WorkerLosesItem(p) \/ WorkerWrites(p)
  PROVE  /\ \A q \in Paths \ {p} : work'[q] = work[q]
         /\ skipped \subseteq skipped' /\ skipped' \subseteq skipped \cup {p}
         /\ errored => errored'
         /\ work'[p].at = "done" \/ work'[p].at = "stat" \/ work'[p].at = "read"
         /\ work'[p].at = "stat" => WorkerStat(p) /\ disk[p] # NoFile /\ work'[p].stamp = disk[p].stamp
         /\ work'[p].at = "read" => WorkerReads(p) /\ work'[p].stamp = work[p].stamp
                                                   /\ work'[p].content = disk[p].content
<1>1. work \in [Paths -> WorkItem] /\ errored \in BOOLEAN
  BY DEF TInv, WorkOK
<1>2. CASE WorkerStat(p)
  BY <1>1, <1>2 DEF WorkerStat, Advance, Step, WorkItem
<1>3. CASE WorkerReads(p)
  BY <1>1, <1>3 DEF WorkerReads, WorkItem
<1>4. CASE WorkerLosesItem(p) \/ WorkerWrites(p)
  BY <1>1, <1>4 DEF WorkerLosesItem, WorkerWrites, WorkerTouches, WorkerCannotRead, WorkerStores,
                    WorkerStoreFails, Advance, Step
<1>. QED
  BY <1>2, <1>3, <1>4

(* While nobody edits the disk, what a worker holds is what is there.       *)
LEMMA FetchedStep ==
  ASSUME TInv, QInv, [Next]_vars
  PROVE  Fetched'
<1>. USE DEF QInv
<1>1. TInv'
  BY NextTInv
<1>2. ASSUME NEW p \in Paths, work'[p].at # "done"
      PROVE  phase' = "walk"
  BY <1>1, <1>2 DEF TInv, WorkOK
<1>. SUFFICES ASSUME quiet', phase' = "walk"
              PROVE  Fetched'
  BY <1>2 DEF Fetched
<1>3. ASSUME NEW base \in {"counted", "clock", "none"}, StartSweep(base)
      PROVE  Fetched'
  <2>1. work' = [p \in Paths |-> Step("tree")]
    BY <1>3 DEF StartSweep
  <2>2. \A p \in Paths : work'[p].at = "tree"
    BY <2>1 DEF Step
  <2>. QED
    BY <2>2 DEF Fetched
<1>4. ASSUME NEW p \in Paths, WalkVisit(p), quiet, disk' = disk
      PROVE  Fetched'
  <2>1. work' = [work EXCEPT ![p] = Step(IF disk[p] = NoFile THEN "done" ELSE "queued")]
    BY <1>4 DEF WalkVisit, Advance
  <2>2. \A q \in Paths \ {p} : work'[q] = work[q]
    BY <2>1 DEF TInv, WorkOK
  <2>3. work'[p].at \in {"queued", "stat", "read"} => work'[p].at = "queued" /\ disk[p] # NoFile
    BY <2>1 DEF TInv, WorkOK, Step
  <2>. QED
    BY <1>4, <2>2, <2>3 DEF Fetched
<1>5. ASSUME EndOfTree, quiet, disk' = disk
      PROVE  Fetched'
  <2>1. \A q \in Paths : work'[q] = work[q] \/ work'[q].at = "done"
    BY <1>5 DEF EndOfTree, Step
  <2>. QED
    BY <1>5, <2>1 DEF Fetched
<1>6. ASSUME NEW p \in Paths, quiet, disk' = disk,
             WorkerStat(p) \/ WorkerReads(p) \/ WorkerLosesItem(p) \/ WorkerWrites(p)
      PROVE  Fetched'
  <2>1. WorkerReads(p) => work[p].at = "stat" /\ Readable(p)
    BY DEF WorkerReads, NeedsReading, At
  <2>2. /\ work'[p].at \in {"queued", "stat", "read"} => disk[p] # NoFile /\ work'[p].stamp = disk[p].stamp
        /\ work'[p].at = "read" => work'[p].content = disk[p].content /\ disk[p].content \notin Unreadable
    BY <1>6, <2>1, OwnWork DEF Fetched, Readable
  <2>. QED
    BY <1>6, <2>2, OwnWork DEF Fetched
<1>7. ASSUME Calm \/ Prunes, quiet, disk' = disk
      PROVE  Fetched'
  BY <1>7 DEF Calm, Prunes, PruneMissing, Fetched
<1>. QED
  BY <1>3, <1>4, <1>5, <1>6, <1>7, WalkCases

(* And what it stores is what is there.                                     *)
LEMMA StoredStep ==
  ASSUME TInv, NInv, KInv, QInv, [Next]_vars
  PROVE  Stored'
<1>. USE DEF QInv
<1>0. RowsOK /\ RowsOK' /\ errored \in BOOLEAN
  BY NextTInv DEF TInv
<1>. SUFFICES ASSUME quiet', phase' \in {"walk", "plan"}
              PROVE  Stored'
  BY DEF Stored
<1>3. ASSUME NEW base \in {"counted", "clock", "none"}, StartSweep(base)
      PROVE  Stored'
  <2>1. work' = [p \in Paths |-> Step("tree")]
    BY <1>3 DEF StartSweep
  <2>2. \A p \in Paths : work'[p].at = "tree"
    BY <2>1 DEF Step
  <2>3. \A i \in DOMAIN rows' : ~rows'[i].seen
    BY <1>3, StartEffect
  <2>. QED
    BY <2>2, <2>3 DEF Stored
<1>. DEFINE AllTold == \A i \in DOMAIN rows : rows[i].seen => Told(rows[i])
            AllSeen == \A p \in Paths \ skipped : work[p].at = "done" /\ disk[p] # NoFile
                         => \E i \in RowsAt(p) : rows[i].seen
<1>4. ASSUME quiet, phase = "walk", disk' = disk, UNCHANGED rows, errored => errored', skipped \subseteq skipped',
             \A q \in Paths : work'[q].at = "done" =>
                \/ work[q].at = "done"
                \/ q \in skipped'
                \/ disk[q] = NoFile
      PROVE  Stored'
  <2>0. AllTold /\ AllSeen
    BY <1>4 DEF Stored
  <2>1. ASSUME NEW i \in DOMAIN rows, rows[i].seen
        PROVE  Told(rows[i])'
    <3>1. Told(rows[i]) /\ rows[i].path \in Paths
      BY <1>0, <2>0, <2>1 DEF RowsOK, Row
    <3>. QED
      BY <1>4, <3>1 DEF Told
  <2>2. \A p \in Paths \ skipped' : work'[p].at = "done" /\ disk'[p] # NoFile
                         => \E i \in RowsAt(p)' : rows'[i].seen
    BY <1>4, <2>0 DEF RowsAt
  <2>. HIDE DEF AllTold, AllSeen
  <2>. QED
    BY <1>4, <2>1, <2>2 DEF Stored
<1>5. ASSUME NEW p \in Paths, WalkVisit(p), phase = "walk", quiet, disk' = disk
      PROVE  Stored'
  <2>1. /\ work' = [work EXCEPT ![p] = Step(IF disk[p] = NoFile THEN "done" ELSE "queued")]
        /\ UNCHANGED <<rows, errored, skipped>>
    BY <1>5 DEF WalkVisit, Advance
  <2>2. \A q \in Paths : work'[q].at = "done" => work[q].at = "done" \/ disk[q] = NoFile
    BY <2>1 DEF TInv, WorkOK, Step
  <2>. QED
    BY <1>4, <1>5, <2>1, <2>2
<1>6. ASSUME EndOfTree, phase = "walk", quiet, disk' = disk
      PROVE  Stored'
  <2>1. \A q \in Paths : work'[q].at = "done" => work[q].at = "done" \/ q \in skipped'
    BY <1>6 DEF EndOfTree
  <2>2. UNCHANGED <<rows, errored>> /\ skipped \subseteq skipped'
    BY <1>6 DEF EndOfTree
  <2>. QED
    BY <1>4, <1>6, <2>1, <2>2
<1>7. ASSUME NEW p \in Paths, WorkerStat(p) \/ WorkerReads(p) \/ WorkerLosesItem(p),
             phase = "walk", quiet, disk' = disk
      PROVE  Stored'
  <2>1. rows' = rows
    BY <1>7 DEF WorkerStat, WorkerReads, WorkerLosesItem
  <2>2. work'[p].at = "done" => p \in skipped' \/ disk[p] = NoFile
    BY <1>7 DEF WorkerStat, WorkerReads, WorkerLosesItem, TInv, WorkOK, WorkItem
  <2>. QED
    BY <1>4, <1>7, <2>1, <2>2, OwnWork
<1>8. ASSUME NEW p \in Paths, WorkerWrites(p), phase = "walk", quiet, disk' = disk
      PROVE  Stored'
  <2>0. AllTold /\ AllSeen
    BY <1>8 DEF Stored
  <2>1. work'[p].at = "done" /\ work[p].at \in {"stat", "read"}
    BY <1>8 DEF WorkerWrites, WorkerTouches, WorkerCannotRead, WorkerStores, WorkerStoreFails,
                NeedsReading, At, Advance, Step, TInv, WorkOK
  <2>2. disk[p] # NoFile
    BY <1>8, <2>1 DEF Fetched
  <2>3. ASSUME NEW i \in DOMAIN rows', rows'[i].seen, i \in DOMAIN rows, rows[i].path # p
        PROVE  Told(rows[i])'
    <3>1. rows'[i] = rows[i] /\ rows[i].path \in Paths
      BY <1>0, <1>8, <2>3, WriteEffect DEF RowsOK, Row
    <3>2. Told(rows[i])
      BY <2>0, <2>3, <3>1
    <3>3. work'[rows[i].path] = work[rows[i].path]
      BY <1>8, <2>3, <3>1, OwnWork
    <3>4. skipped \subseteq skipped' /\ (errored => errored')
      BY <1>8, OwnWork
    <3>. QED
      BY <1>8, <3>1, <3>2, <3>3, <3>4 DEF Told
  <2>4. ASSUME NEW i \in DOMAIN rows', rows'[i].path = p
        PROVE  Told(rows[i])'
    <3>1. CASE /\ WorkerTouches(p) /\ i \in DOMAIN rows
               /\ rows[i].status = "ok" /\ rows[i].stamp = work[p].stamp /\ rows[i].path = p
               /\ rows'[i].status = "ok" /\ rows'[i].stamp = rows[i].stamp
               /\ rows'[i].content = rows[i].content
      <4>1. rows'[i].fresh = rows[i].fresh
        BY <1>8, <3>1, WriteEffect
      <4>2. rows[i].content # NoContent
        BY <3>1 DEF KInv, Known
      <4>3. rows[i].fresh => rows[i].content = disk[p].content
        BY <2>0, <3>1, <4>2 DEF Told, NInv, New
      <4>. QED
        BY <1>8, <2>2, <2>4, <3>1, <4>1, <4>3 DEF Told
    <3>2. CASE /\ WorkerStores(p) /\ work[p].at = "read"
               /\ rows'[i].status = "ok" /\ rows'[i].stamp = work[p].stamp
               /\ rows'[i].content = work[p].content /\ work[p].content \in Contents
      BY <1>8, <2>2, <2>4, <3>2 DEF Told, Fetched
    <3>3. CASE /\ WorkerCannotRead(p) \/ WorkerStoreFails(p)
               /\ rows'[i].status = "error"
               /\ \/ i \in DOMAIN rows /\ rows[i].path = p /\ rows'[i].stamp = rows[i].stamp
                                       /\ rows'[i].content = rows[i].content
                  \/ i \notin DOMAIN rows /\ rows'[i].content = NoContent /\ rows'[i].stamp = work[p].stamp
      <4>1. i \in DOMAIN rows /\ rows[i].path = p => rows'[i].fresh = rows[i].fresh
        BY <1>8, WriteEffect
      <4>2. i \in DOMAIN rows /\ rows[i].path = p /\ rows[i].fresh /\ rows[i].content # NoContent
              => rows[i].content = disk[p].content
        BY <2>0 DEF Told, NInv, New
      <4>3. errored'
        BY <3>3 DEF WorkerCannotRead, WorkerStoreFails
      <4>4. p \in skipped' \/ disk[p].content \in Unreadable
        BY <2>2, <3>3 DEF WorkerCannotRead, WorkerStoreFails, Readable
      <4>. QED
        BY <1>8, <2>2, <2>4, <3>3, <4>1, <4>2, <4>3, <4>4 DEF Told
    <3>. QED
      BY <1>8, <2>4, <3>1, <3>2, <3>3, WriteFrames
  <2>5. \A i \in DOMAIN rows' : rows'[i].seen => Told(rows[i])'
    BY <1>8, <2>3, <2>4, WriteEffect
  <2>6. ASSUME NEW q \in Paths \ skipped', work'[q].at = "done", disk'[q] # NoFile
        PROVE  \E i \in DOMAIN rows' : rows'[i].path = q /\ rows'[i].seen
    <3>1. CASE q = p
      BY <1>8, <3>1, WriteEffect
    <3>2. CASE q # p
      <4>1. work[q].at = "done" /\ q \notin skipped
        BY <1>8, <2>6, <3>2, OwnWork
      <4>2. PICK i \in DOMAIN rows : rows[i].path = q /\ rows[i].seen
        BY <1>8, <2>0, <2>6, <4>1 DEF RowsAt
      <4>. QED
        BY <1>8, <3>2, <4>2, WriteEffect
    <3>. QED
      BY <3>1, <3>2
  <2>. HIDE DEF AllTold, AllSeen
  <2>. QED
    BY <2>5, <2>6 DEF Stored, RowsAt
<1>9. ASSUME Calm, quiet, disk' = disk
      PROVE  Stored'
  BY <1>9 DEF Calm, Stored, Told, RowsAt
<1>10. ASSUME Prunes, quiet, disk' = disk
       PROVE  Stored'
  <2>1. PICK ids \in SUBSET WithStatus("missing") : PruneMissing(ids)
    BY <1>10 DEF Prunes
  <2>2. /\ UNCHANGED <<phase, work, skipped, errored>> /\ DOMAIN rows' = DOMAIN rows \ ids
        /\ \A i \in DOMAIN rows' : rows'[i] = rows[i]
    BY <2>1 DEF PruneMissing
  <2>3. \A i \in ids : ~rows[i].seen
    BY <2>1 DEF WithStatus, NInv, New
  <2>4. AllTold /\ AllSeen
    BY <1>10, <2>2 DEF Stored
  <2>5. \A i \in DOMAIN rows' : rows'[i].seen => Told(rows[i])'
    BY <1>10, <2>2, <2>4 DEF Told
  <2>6. \A p \in Paths \ skipped' : work'[p].at = "done" /\ disk'[p] # NoFile
                         => \E i \in RowsAt(p)' : rows'[i].seen
    BY <1>10, <2>2, <2>3, <2>4 DEF RowsAt
  <2>. HIDE DEF AllTold, AllSeen
  <2>. QED
    BY <2>5, <2>6 DEF Stored
<1>. HIDE DEF AllTold, AllSeen
<1>. QED
  BY <1>3, <1>5, <1>6, <1>7, <1>8, <1>9, <1>10, WalkCases

(* Both hold from both starts if the database server is on UTC.             *)
LEMMA QInvAlways ==
  ASSUME ~ZoneAhead
  PROVE  /\ Spec => []QInv
         /\ EditedSpec => []QInv
<1>1. TInv /\ NInv /\ KInv /\ QInv /\ [Next]_vars => QInv'
  BY FetchedStep, StoredStep DEF QInv
<1>2. Init => QInv
  BY InitKInv
<1>3. InitEdited => QInv
  BY InitKInv
<1>. QED
  BY <1>1, <1>2, <1>3, TInvAlways, NInvAlways, KInvAlways, PTL DEF Spec, EditedSpec

-----------------------------------------------------------------------------
(***************************************************************************)
(* G. Moves are fair, and renames are followed.                            *)
(***************************************************************************)

(* A vanished row is as the sweep found it.                                 *)
LEMMA VanishedRows ==
  ASSUME TInv, KInv, phase = "plan"
  PROVE  \A v \in Vanished : v \in DOMAIN before /\ rows[v] = before[v] /\ before[v].status # "missing"
BY DEF KInv, Untouched, Vanished

(* A row whose file is gone has vanished.                                   *)
LEMMA OldRowWithoutFile ==
  ASSUME TInv, KInv, QInv, phase = "plan", quiet,
         NEW i \in DOMAIN before, before[i].status # "missing", disk[before[i].path] = NoFile
  PROVE  i \in Vanished
<1>1. i \in DOMAIN rows /\ rows[i].path = before[i].path
  BY DEF KInv, Untouched
<1>2. ~rows[i].seen
  BY <1>1 DEF QInv, Stored, Told
<1>3. rows[i] = before[i]
  BY <1>1, <1>2 DEF KInv, Untouched
<1>. QED
  BY <1>1, <1>2, <1>3 DEF Vanished

(* A new path that was examined has a row of this sweep with its header.    *)
LEMMA NewPathRow ==
  ASSUME TInv, KInv, QInv, phase = "plan", quiet,
         NEW q \in Paths \ skipped, disk[q] # NoFile, disk[q].content \notin Unreadable,
         \A j \in DOMAIN before : before[j].path # q
  PROVE  \E a \in Appeared : /\ rows[a].path = q /\ rows[a].status = "ok"
                             /\ rows[a].content = disk[q].content /\ rows[a].content # NoContent
<1>1. work[q].at = "done"
  BY DEF TInv, WorkOK
<1>2. PICK a \in DOMAIN rows : rows[a].path = q /\ rows[a].seen
  BY <1>1 DEF QInv, Stored, RowsAt
<1>3. a \notin DOMAIN before
  BY <1>2 DEF KInv, Untouched
<1>4. rows[a].fresh
  BY <1>2, <1>3 DEF KInv, Untouched
<1>5. Told(rows[a])
  BY <1>2 DEF QInv, Stored
<1>6. rows[a].status = "ok" /\ rows[a].content = disk[q].content
  BY <1>1, <1>2, <1>4, <1>5 DEF Told
<1>7. rows[a].content # NoContent
  BY <1>6 DEF KInv, Known
<1>. QED
  BY <1>2, <1>4, <1>6, <1>7 DEF Appeared

(* A planned move is no guess: another row that lost its file, or another   *)
(* new path with the fingerprint, would have been seen and would have       *)
(* stopped it.                                                              *)
LEMMA PlanFair ==
  ASSUME TInv, NInv, KInv, QInv, ReconcilePlans, quiet, NEW v \in DOMAIN plan'.match
  PROVE  v \in DOMAIN before /\ Fair(v, rows[plan'.match[v]].path)
<1>. DEFINE a == plan'.match[v]
            k == KeyOf[before[v].content]
<1>0. phase = "plan"
  BY DEF ReconcilePlans
<1>1. v \in Vanished /\ a \in MoveTargets(v)
  BY MatchFacts
<1>2. v \in DOMAIN before /\ rows[v] = before[v]
  BY <1>0, <1>1, VanishedRows
<1>3. a \in Appeared /\ SameKey(v, a)
  BY <1>1 DEF MoveTargets
<1>4. ASSUME NEW j \in DOMAIN before \ {v}, HasKey(j, k), before[j].status # "missing",
             disk[before[j].path] = NoFile
      PROVE  FALSE
  <2>1. j \in Vanished
    BY <1>0, <1>4, OldRowWithoutFile
  <2>2. rows[j] = before[j]
    BY <1>0, <2>1, VanishedRows
  <2>3. SameKey(v, j)
    BY <1>2, <1>3, <1>4, <2>2 DEF SameKey, HasKey
  <2>. QED
    BY <1>1, <1>4, <2>1, <2>3 DEF MoveTargets
<1>5. ASSUME NEW q \in OnDiskWithKey(k) \ skipped, disk[q].content \notin Unreadable,
             \A j \in DOMAIN before : before[j].path # q
      PROVE  q = rows[a].path
  <2>1. q \in Paths /\ disk[q] # NoFile /\ KeyOf[disk[q].content] = k
    BY <1>5 DEF OnDiskWithKey
  <2>2. PICK b \in Appeared : rows[b].path = q /\ rows[b].content = disk[q].content
                              /\ rows[b].content # NoContent
    BY <1>0, <1>5, <2>1, NewPathRow
  <2>3. SameKey(v, b)
    BY <1>2, <1>3, <2>1, <2>2 DEF SameKey
  <2>4. b = a
    BY <1>1, <2>2, <2>3 DEF MoveTargets
  <2>. QED
    BY <2>2, <2>4
<1>. HIDE DEF a
<1>6. Fair(v, rows[a].path)
  BY <1>4, <1>5 DEF Fair
<1>. QED
  BY <1>2, <1>6 DEF a

(* A rename that can be told is planned.                                    *)
LEMMA PlanFollows ==
  ASSUME TInv, NInv, KInv, QInv, ReconcilePlans, quiet,
         NEW i \in DOMAIN before, NEW q \in Paths, RenamedTo(i, q)
  PROVE  /\ i \in plan'.vanished \cap DOMAIN plan'.match
         /\ plan'.target[plan'.match[i]] = rows[plan'.match[i]]
         /\ rows[plan'.match[i]].path = q /\ rows[plan'.match[i]].status = "ok"
<1>. DEFINE k == KeyOf[before[i].content]
<1>0. phase = "plan" /\ RowsOK
  BY DEF ReconcilePlans, TInv
<1>1. /\ before[i].status = "ok" /\ disk[before[i].path] = NoFile
      /\ \A j \in DOMAIN before : before[j].path # q
      /\ \A j \in DOMAIN before : HasKey(j, k) => j = i
      /\ OnDiskWithKey(k) = {q} /\ disk[q].content \notin Unreadable /\ q \notin skipped
  BY DEF RenamedTo
<1>2. i \in Vanished
  BY <1>0, <1>1, OldRowWithoutFile
<1>3. rows[i] = before[i] /\ rows[i].content # NoContent
  BY <1>0, <1>1, <1>2, VanishedRows DEF KInv, Known
<1>4. disk[q] # NoFile /\ KeyOf[disk[q].content] = k
  BY <1>1 DEF OnDiskWithKey
<1>5. PICK b \in Appeared : /\ rows[b].path = q /\ rows[b].status = "ok"
                            /\ rows[b].content = disk[q].content /\ rows[b].content # NoContent
  BY <1>0, <1>1, <1>4, NewPathRow
<1>6. SameKey(i, b)
  BY <1>3, <1>4, <1>5 DEF SameKey
<1>7. ASSUME NEW c \in Appeared, SameKey(i, c)
      PROVE  c = b
  <2>1. c \in DOMAIN rows /\ rows[c].fresh /\ rows[c].seen /\ rows[c].path \in Paths
    BY <1>0 DEF Appeared, NInv, New, RowsOK, Row
  <2>2. Told(rows[c])
    BY <1>0, <2>1 DEF QInv, Stored
  <2>3. disk[rows[c].path] # NoFile /\ rows[c].content = disk[rows[c].path].content
    BY <1>7, <2>1, <2>2 DEF Told, SameKey
  <2>4. rows[c].path \in OnDiskWithKey(k)
    BY <1>3, <1>7, <2>1, <2>3 DEF OnDiskWithKey, SameKey
  <2>. QED
    BY <1>0, <1>1, <1>5, <2>1, <2>4 DEF RowsOK, OnePerPath, Appeared
<1>8. ASSUME NEW w \in Vanished, SameKey(i, w)
      PROVE  w = i
  <2>1. w \in DOMAIN before /\ rows[w] = before[w]
    BY <1>0, VanishedRows
  <2>2. HasKey(w, k)
    BY <1>3, <1>8, <2>1 DEF HasKey, SameKey
  <2>. QED
    BY <1>1, <2>1, <2>2
<1>9. MoveTargets(i) = {b}
  BY <1>5, <1>6, <1>7, <1>8 DEF MoveTargets
<1>10. i \in DOMAIN plan'.match /\ plan'.match[i] = b
  BY <1>2, <1>9, MatchFacts
<1>. QED
  BY <1>2, <1>5, <1>10, MatchFacts

(* The disk is the same but for how recent its files are.                   *)
SameFiles ==
    \A p \in Paths : /\ disk'[p] = NoFile <=> disk[p] = NoFile
                     /\ disk'[p].content = disk[p].content /\ disk'[p].stamp = disk[p].stamp

(* Nothing changes but that a sweep ends.                                   *)
Rests ==
    /\ UNCHANGED <<rows, plan, outcome>>
    /\ phase' = phase \/ (phase = "finish" /\ phase' = "idle")

(* What can happen from when a quiet sweep reconciles to the next one.      *)
LEMMA LateCases ==
  ASSUME TInv, KInv, [Next]_vars, Judged', phase' \notin {"walk", "plan"}
  PROVE  /\ Judged /\ UNCHANGED <<before, skipped, errored, swapped>> /\ SameFiles
         /\ \/ ReconcilePlans
            \/ phase \notin {"walk", "plan"} /\ \E v \in plan.vanished : Applies(v)
            \/ phase \notin {"walk", "plan"} /\ ReconcileDone
            \/ phase \notin {"walk", "plan"} /\ Prunes
            \/ phase \notin {"walk", "plan"} /\ Rests
<1>. USE DEF Judged
<1>0. outcome = "running" <=> phase \in {"walk", "plan", "apply"}
  BY DEF KInv, Known
<1>1. UNCHANGED disk => SameFiles
  BY DEF SameFiles
<1>2. CASE Disk
  <2>1. CASE \E p \in Paths : Settle(p)
    <3>1. PICK p \in Paths : Settle(p)
      BY <2>1
    <3>2. disk[p] \in File /\ disk' = [disk EXCEPT ![p].recent = FALSE]
      BY <3>1 DEF Settle, TInv
    <3>3. disk'[p] # NoFile
      <4>1. [disk[p] EXCEPT !.recent = FALSE] \in File
        BY <3>2 DEF File
      <4>. QED
        BY <3>2, <4>1, SweepAssumption DEF TInv, File, Stamps
    <3>4. disk'[p].content = disk[p].content /\ disk'[p].stamp = disk[p].stamp
      BY <3>2 DEF TInv, File
    <3>5. SameFiles
      BY <3>1, <3>2, <3>3, <3>4 DEF SameFiles, Settle, TInv
    <3>. QED
      BY <3>1, <3>5 DEF Settle, Rests
  <2>2. CASE ~\E p \in Paths : Settle(p)
    BY <1>2, <2>2 DEF Disk, Write, Rename, Delete, Outage, Edit
  <2>. QED
    BY <2>1, <2>2
<1>3. CASE \E base \in {"counted", "clock", "none"} : StartSweep(base)
  BY <1>3 DEF StartSweep
<1>4. CASE Walker \/ WalkCut
  BY <1>4 DEF Walker, WalkVisit, WalkStops, WalkCut, EndOfTree, WalkUnchanged
<1>5. ASSUME NEW p \in Paths, Worker(p) \/ WorkerStoreFails(p) \/ WorkerLosesItem(p)
      PROVE  FALSE
  <2>1. phase = "walk"
    BY <1>5, UnderWay DEF Worker, WorkerStat, WorkerTouches, WorkerReads, WorkerCannotRead, WorkerStores,
                  WorkerStoreFails, WorkerLosesItem, NeedsReading, InFlight, At
  <2>. QED
    BY <1>5, <2>1 DEF Worker, WorkerStat, WorkerTouches, WorkerReads, WorkerCannotRead, WorkerStores,
                  WorkerStoreFails, WorkerLosesItem, WalkUnchanged
<1>6. CASE EndWalk
  BY <1>0, <1>6 DEF EndWalk
<1>7. CASE ReconcilePlans
  BY <1>0, <1>1, <1>7 DEF ReconcilePlans, ReconcileUnchanged
<1>8. CASE \E v \in plan.vanished : MarkMissing(v) \/ MoveDeletes(v) \/ MoveReanchors(v)
  <2>1. PICK v \in plan.vanished : Applies(v)
    BY <1>8 DEF Applies
  <2>2. /\ phase = "apply" /\ UNCHANGED <<quiet, disk, before, skipped, errored, swapped, outcome>>
    BY <2>1 DEF Applies, MarkMissing, MoveDeletes, MoveReanchors, ReconcileUnchanged
  <2>. QED
    BY <1>1, <2>1, <2>2
<1>9. CASE ReconcileDone
  BY <1>0, <1>1, <1>9 DEF ReconcileDone, ReconcileUnchanged
<1>10. CASE ReconcileRefused \/ ReconcileFails \/ RootUnreadable \/ FinishUnreported \/ Crash
  BY <1>10 DEF ReconcileRefused, ReconcileFails, RootUnreadable, FinishUnreported, Crash
<1>11. CASE Finish \/ RequestStop \/ UNCHANGED vars
  BY <1>1, <1>11 DEF Finish, RequestStop, vars, Rests
<1>12. CASE Prunes
  BY <1>1, <1>12 DEF Prunes, PruneMissing
<1>. QED
  BY <1>2, <1>3, <1>4, <1>5, <1>6, <1>7, <1>8, <1>9, <1>10, <1>11, <1>12
     DEF Next, Sweeper, Reconciler, Failure, Prunes

(* Later steps of a quiet sweep change nothing a move is judged by.         *)
LEMMA FairStays ==
  ASSUME UNCHANGED <<before, skipped>>, SameFiles, \A j \in DOMAIN before : before[j].path \in Paths,
         NEW i, NEW t, Fair(i, t)
  PROVE  Fair(i, t)'
BY DEF Fair, HasKey, OnDiskWithKey, SameFiles

(* Nor what a rename is told by.                                            *)
LEMMA RenamedBefore ==
  ASSUME UNCHANGED <<before, skipped>>, SameFiles, \A j \in DOMAIN before : before[j].path \in Paths,
         NEW i \in DOMAIN before, NEW q \in Paths, RenamedTo(i, q)'
  PROVE  RenamedTo(i, q)
<1>1. OnDiskWithKey(KeyOf[before[i].content])' = OnDiskWithKey(KeyOf[before[i].content])
  BY DEF OnDiskWithKey, SameFiles
<1>. QED
  BY <1>1 DEF RenamedTo, HasKey, SameFiles

(* A row changes its path only by a planned move.                           *)
LEMMA FairMovesStep ==
  ASSUME TInv, NInv, KInv, QInv, MInv, [Next]_vars
  PROVE  FairMoves'
<1>. USE DEF MInv
<1>1. CASE phase' \in {"walk", "plan"}
  <2>1. Untouched'
    BY UntouchedStep
  <2>. QED
    BY <1>1, <2>1 DEF FairMoves, Untouched
<1>. SUFFICES ASSUME Judged', phase' \notin {"walk", "plan"}
              PROVE  FairMoves'
  BY <1>1 DEF FairMoves
<1>2. /\ Judged /\ UNCHANGED <<before, skipped>> /\ SameFiles
      /\ \A j \in DOMAIN before : before[j].path \in Paths
  BY LateCases DEF KInv, Known, Row
<1>3. \A i, t : Fair(i, t) => Fair(i, t)'
  BY <1>2, FairStays
<1>4. /\ \A i \in DOMAIN rows \cap DOMAIN before : rows[i].path # before[i].path => Fair(i, rows[i].path)
      /\ phase = "apply" => \A v \in DOMAIN plan.match : v \in DOMAIN before /\ Fair(v, NewPath(v))
  BY <1>2 DEF FairMoves
<1>5. CASE ReconcilePlans
  <2>1. phase = "plan" /\ rows' = rows /\ quiet
    BY <1>2, <1>5 DEF ReconcilePlans, Judged
  <2>2. \A i \in DOMAIN rows \cap DOMAIN before : rows[i].path = before[i].path
    BY <2>1 DEF KInv, Untouched
  <2>3. ASSUME NEW v \in DOMAIN plan'.match
        PROVE  v \in DOMAIN before /\ Fair(v, NewPath(v))'
    <3>1. plan'.target[plan'.match[v]] = rows[plan'.match[v]]
      BY <1>5, MatchFacts DEF MoveTargets
    <3>2. NewPath(v)' = rows[plan'.match[v]].path
      BY <3>1 DEF NewPath
    <3>. QED
      BY <1>3, <1>5, <2>1, <3>2, PlanFair
  <2>. QED
    BY <1>2, <2>1, <2>2, <2>3 DEF FairMoves
<1>6. ASSUME NEW v \in plan.vanished, Applies(v)
      PROVE  FairMoves'
  <2>1. phase = "apply" /\ plan'.match = plan.match /\ plan'.target = plan.target
    BY <1>6, MarkEffect, DeleteEffect, ReanchorEffect DEF Applies
  <2>2. \A w \in DOMAIN plan'.match : w \in DOMAIN before' /\ Fair(w, NewPath(w))'
    BY <1>2, <1>3, <1>4, <2>1 DEF NewPath
  <2>3. ASSUME NEW i \in DOMAIN rows' \cap DOMAIN before, rows'[i].path # before[i].path
        PROVE  Fair(i, rows[i].path)'
    <3>1. CASE i \in DOMAIN rows /\ rows'[i].path = rows[i].path
      BY <1>3, <1>4, <2>3, <3>1
    <3>2. CASE i \in DOMAIN plan.match /\ rows'[i].path = NewPath(i)
      BY <1>3, <1>4, <2>1, <3>2
    <3>3. \/ i \in DOMAIN rows /\ rows'[i].path = rows[i].path
          \/ i \in DOMAIN plan.match /\ rows'[i].path = NewPath(i)
      <4>1. CASE MarkMissing(v)
        BY <2>3, <4>1, MarkEffect
      <4>2. CASE MoveDeletes(v)
        <5>1. DOMAIN rows' \subseteq DOMAIN rows /\ \A j \in DOMAIN rows' : rows'[j] = rows[j]
          BY <4>2, DeleteEffect
        <5>. QED
          BY <2>3, <5>1
      <4>3. CASE MoveReanchors(v)
        BY <2>3, <4>3, ReanchorEffect
      <4>. QED
        BY <1>6, <4>1, <4>2, <4>3 DEF Applies
    <3>. QED
      BY <3>1, <3>2, <3>3
  <2>. QED
    BY <1>2, <2>2, <2>3 DEF FairMoves
<1>7. CASE ReconcileDone
  BY <1>2, <1>3, <1>4, <1>7 DEF ReconcileDone, FairMoves
<1>8. CASE Prunes
  BY <1>2, <1>3, <1>4, <1>8 DEF Prunes, PruneMissing, FairMoves, NewPath
<1>9. CASE Rests
  BY <1>2, <1>3, <1>4, <1>9 DEF Rests, FairMoves, NewPath
<1>. QED
  BY <1>5, <1>6, <1>7, <1>8, <1>9, LateCases

(* A planned rename is carried out: nothing overtakes the row on its way.   *)
LEMMA FollowedStep ==
  ASSUME TInv, NInv, KInv, QInv, MInv, [Next]_vars
  PROVE  Followed'
<1>. USE DEF MInv
<1>. SUFFICES ASSUME Judged', phase' \notin {"walk", "plan"},
                     NEW i \in DOMAIN before', NEW q \in Paths, RenamedTo(i, q)'
              PROVE  Arrived(i, q)' \/ OnItsWay(i, q)'
  BY DEF Followed
<1>1. /\ Judged /\ UNCHANGED <<before, skipped>> /\ SameFiles /\ i \in DOMAIN before
      /\ \A j \in DOMAIN before : before[j].path \in Paths
  BY LateCases DEF KInv, Known, Row
<1>2. RenamedTo(i, q)
  BY <1>1, RenamedBefore
<1>3. CASE ReconcilePlans
  <2>1. quiet /\ phase' = "apply"
    BY <1>1, <1>3 DEF ReconcilePlans, Judged
  <2>2. /\ i \in plan'.vanished \cap DOMAIN plan'.match
        /\ plan'.target[plan'.match[i]].path = q /\ plan'.target[plan'.match[i]].status = "ok"
    BY <1>1, <1>2, <1>3, <2>1, PlanFollows
  <2>. QED
    BY <2>1, <2>2 DEF OnItsWay, NewPath
<1>4. ASSUME phase \notin {"walk", "plan"}
      PROVE  Arrived(i, q) \/ OnItsWay(i, q)
  BY <1>1, <1>2, <1>4 DEF Followed
<1>5. ASSUME NEW v \in plan.vanished, Applies(v), phase \notin {"walk", "plan"}
      PROVE  Arrived(i, q)' \/ OnItsWay(i, q)'
  <2>1. phase = "apply" /\ phase' = "apply" /\ plan'.match = plan.match /\ plan'.target = plan.target
    BY <1>5, MarkEffect, DeleteEffect, ReanchorEffect
       DEF Applies, MarkMissing, MoveDeletes, MoveReanchors, ReconcileUnchanged
  <2>2. CASE MarkMissing(v)
    <3>1. Arrived(i, q) => Arrived(i, q)'
      BY <2>1, <2>2, MarkEffect DEF Arrived
    <3>2. OnItsWay(i, q) => OnItsWay(i, q)'
      BY <2>1, <2>2, MarkEffect DEF OnItsWay, NewPath
    <3>. QED
      BY <1>4, <1>5, <3>1, <3>2
  <2>3. CASE MoveDeletes(v)
    <3>1. /\ plan'.vanished = plan.vanished /\ DOMAIN rows' = DOMAIN rows \ {plan.match[v]}
          /\ \A j \in DOMAIN rows' : rows'[j] = rows[j]
          /\ v \in DOMAIN plan.match
      BY <2>3, DeleteEffect
    <3>2. plan.match[v] # i
      BY <1>1, <2>1, <3>1 DEF NInv, Loop
    <3>3. Arrived(i, q) => Arrived(i, q)'
      BY <2>1, <3>1, <3>2 DEF Arrived
    <3>4. OnItsWay(i, q) => OnItsWay(i, q)'
      BY <2>1, <3>1 DEF OnItsWay, NewPath
    <3>. QED
      BY <1>4, <1>5, <3>3, <3>4
  <2>4. CASE MoveReanchors(v)
    <3>1. Arrived(i, q) => Arrived(i, q)'
      BY <2>1, <2>4, ReanchorEffect DEF Arrived
    <3>2. OnItsWay(i, q) /\ i # v => OnItsWay(i, q)'
      BY <2>1, <2>4, ReanchorEffect DEF OnItsWay, NewPath
    <3>3. OnItsWay(i, q) /\ i = v => Arrived(i, q)'
      <4>1. v \in DOMAIN rows
        BY <2>1 DEF NInv, Loop
      <4>. QED
        BY <2>1, <2>4, <4>1, ReanchorEffect DEF OnItsWay, Arrived
    <3>. QED
      BY <1>4, <1>5, <3>1, <3>2, <3>3
  <2>. QED
    BY <1>5, <2>2, <2>3, <2>4 DEF Applies
<1>6. ASSUME ReconcileDone, phase \notin {"walk", "plan"}
      PROVE  Arrived(i, q)'
  BY <1>4, <1>6 DEF ReconcileDone, Arrived, OnItsWay
<1>7. ASSUME Prunes, phase \notin {"walk", "plan"}
      PROVE  Arrived(i, q)' \/ OnItsWay(i, q)'
  BY <1>4, <1>7 DEF Prunes, PruneMissing, WithStatus, Arrived, OnItsWay, NewPath
<1>8. ASSUME Rests, phase \notin {"walk", "plan"}
      PROVE  Arrived(i, q)' \/ OnItsWay(i, q)'
  BY <1>4, <1>8 DEF Rests, Arrived, OnItsWay, NewPath
<1>. QED
  BY <1>3, <1>5, <1>6, <1>7, <1>8, LateCases

(* Both hold from both starts if the database server is on UTC.             *)
LEMMA MInvAlways ==
  ASSUME ~ZoneAhead
  PROVE  /\ Spec => []MInv
         /\ EditedSpec => []MInv
<1>1. TInv /\ NInv /\ KInv /\ QInv /\ MInv /\ [Next]_vars => MInv'
  BY FairMovesStep, FollowedStep DEF MInv
<1>2. Init => MInv
  BY InitKInv
<1>3. InitEdited => MInv
  BY InitKInv
<1>. QED
  BY <1>1, <1>2, <1>3, TInvAlways, NInvAlways, KInvAlways, QInvAlways, PTL DEF Spec, EditedSpec

(* With the database server on UTC, a quiet and complete sweep moves a row  *)
(* only if the fingerprint leaves no other choice among the rows that lost  *)
(* their file and the new paths it examined, so tags never end up on        *)
(* another exposure.                                                        *)
THEOREM MovesAreFair ==
  ASSUME ~ZoneAhead
  PROVE  /\ Spec => []NoMoveIsGuessed
         /\ EditedSpec => []NoMoveIsGuessed
<1>1. MInv => NoMoveIsGuessed
  BY DEF MInv, FairMoves, Judged, NoMoveIsGuessed, AfterQuietSweep, MovedBy, Fair
<1>. QED
  BY <1>1, MInvAlways, PTL

(* With the database server on UTC, a quiet and complete sweep follows      *)
(* every rename that its fingerprint tells: the old row, with its frame     *)
(* ids, tags and collections, stands at the new path.                       *)
THEOREM RenamesAreFollowed ==
  ASSUME ~ZoneAhead
  PROVE  /\ Spec => []RenameKeepsRow
         /\ EditedSpec => []RenameKeepsRow
<1>1. MInv => RenameKeepsRow
  BY DEF MInv, Followed, Judged, RenameKeepsRow, AfterQuietSweep, Arrived, OnItsWay
<1>. QED
  BY <1>1, MInvAlways, PTL

-----------------------------------------------------------------------------
(***************************************************************************)
(* H. The index matches the disk.                                          *)
(***************************************************************************)

(* The last stamp given: each edit gives a new one.                         *)
Latest == Cardinality(Paths) + edits

(* A row that is trusted has the fingerprint of the file with its stamp.    *)
TrueRow(files, odd, r) ==
    r.status = "ok" =>
        \A q \in Paths :
            files[q] # NoFile /\ files[q].stamp = r.stamp /\ <<r.path, r.stamp>> \notin odd =>
                files[q].content \notin Unreadable /\ KeyOf[files[q].content] = KeyOf[r.content]

(* What a worker read is the file with its stamp.                           *)
TrueItem(files, odd, p, w) ==
    w.at = "read" =>
        /\ w.content \notin Unreadable
        /\ \A q \in Paths :
             files[q] # NoFile /\ files[q].stamp = w.stamp /\ <<p, w.stamp>> \notin odd =>
                files[q].content = w.content

(* No two files have one stamp.                                             *)
OneStamp ==
    /\ \A p \in Paths : disk[p] # NoFile => disk[p].stamp <= Latest
    /\ \A p, q \in Paths : disk[p] # NoFile /\ disk[q] # NoFile /\ disk[p].stamp = disk[q].stamp => p = q

(* Each row is true of the disk.                                            *)
TrueRows == \A i \in DOMAIN rows : rows[i].stamp <= Latest /\ TrueRow(disk, swapped, rows[i])

(* Each item of work is true of the disk.                                   *)
TrueItems == \A p \in Paths : work[p].stamp <= Latest /\ TrueItem(disk, swapped, p, work[p])

(* Each target of a move is true of the disk.                               *)
TrueTargets ==
    phase = "apply" => \A a \in DOMAIN plan.target :
        plan.target[a].stamp <= Latest /\ TrueRow(disk, swapped, plan.target[a])

(* The inductive invariant of every sweep in part H.                        *)
SInv == OneStamp /\ TrueRows /\ TrueItems /\ TrueTargets

(* The row says what the file at p is.                                      *)
DescribedBy(r, p) ==
    IF disk[p].content \in Unreadable
    THEN r.status = "error"
    ELSE /\ r.status = "ok" /\ r.content # NoContent /\ r.stamp = disk[p].stamp
         /\ KeyOf[r.content] = KeyOf[disk[p].content]

(* The row can stay: it says what the file is, unless the file was put      *)
(* back.                                                                    *)
Good(r, p) ==
    /\ ~errored => r.status = "ok"
    /\ ~PutBack(p) => DescribedBy(r, p)

(* While a quiet sweep walks, the rows it is done with say what the files   *)
(* are.                                                                     *)
Described ==
    quiet /\ phase \in {"walk", "plan"} =>
        \A i \in DOMAIN rows :
            rows[i].seen /\ work[rows[i].path].at = "done" /\ rows[i].path \notin skipped
            /\ ~PutBack(rows[i].path) => DescribedBy(rows[i], rows[i].path)

(* The file at q has its row.                                               *)
Stands(q) ==
    \E i \in DOMAIN rows : /\ rows[i].path = q /\ rows[i].status # "missing" /\ Good(rows[i], q)
                           /\ phase = "apply" => i \notin plan.vanished

(* The row of the file at q is being moved there.                           *)
Coming(q) == phase = "apply" /\ \E v \in plan.moving : NewPath(v) = q

(* From the plan on, each file has its row and each row without a file is   *)
(* missing or about to be marked.                                           *)
Standing ==
    quiet /\ (phase = "apply" \/ outcome = "complete") =>
        /\ \A q \in Paths \ skipped : disk[q] # NoFile => Stands(q) \/ Coming(q)
        /\ \A i \in DOMAIN rows : disk[rows[i].path] = NoFile =>
             \/ rows[i].status = "missing"
             \/ phase = "apply" /\ i \in plan.vanished
        /\ phase = "apply" => \A v \in DOMAIN plan.match :
             /\ disk[NewPath(v)] # NoFile
             /\ NewPath(v) \notin skipped => Good(plan.target[plan.match[v]], NewPath(v))

-----------------------------------------------------------------------------
(* Stamps are bounded by the last one given.                                *)
LEMMA LatestNat ==
  ASSUME TInv
  PROVE  Latest \in Nat
BY SweepAssumption, FS_CardinalityType DEF Latest, TInv

(* A fresh index is true of the disk it was made from.                      *)
LEMMA InitSInv ==
  ASSUME Init
  PROVE  SInv /\ Described /\ Standing /\ OkRootCountsDisk
<1>1. PICK indexed \in SUBSET Paths :
        \E idOf \in [indexed -> 1..Cardinality(indexed)], c \in [indexed -> Contents \ Unreadable] :
          /\ Indexed(c, idOf)
          /\ disk = [p \in Paths |-> IF p \in indexed THEN SettledFile(c[p], idOf[p]) ELSE NoFile]
  BY DEF Init
<1>2. PICK idOf \in [indexed -> 1..Cardinality(indexed)], c \in [indexed -> Contents \ Unreadable] :
          /\ Indexed(c, idOf)
          /\ disk = [p \in Paths |-> IF p \in indexed THEN SettledFile(c[p], idOf[p]) ELSE NoFile]
  BY <1>1
<1>3. /\ Cardinality(indexed) \in Nat /\ Latest \in Nat /\ Cardinality(indexed) <= Latest
  BY SweepAssumption, FS_Subset, FS_CardinalityType DEF Init, AtRest, Latest
<1>4. \A p \in Paths : disk[p] # NoFile => /\ p \in indexed /\ disk[p].stamp = idOf[p] /\ disk[p].content = c[p]
  BY <1>2 DEF SettledFile
<1>5. \A p, q \in indexed : idOf[p] = idOf[q] => p = q
  BY <1>2 DEF Indexed
<1>6. \A i \in DOMAIN rows : /\ rows[i].path \in indexed /\ idOf[rows[i].path] = i
                             /\ rows[i].stamp = i /\ rows[i].content = c[rows[i].path]
  BY <1>2, IndexedRows
<1>7. OneStamp
  BY <1>3, <1>4, <1>5 DEF OneStamp
<1>8. TrueRows
  <2>1. ASSUME NEW i \in DOMAIN rows
        PROVE  rows[i].stamp <= Latest /\ TrueRow(disk, swapped, rows[i])
    <3>1. rows[i].stamp <= Latest
      BY <1>3, <1>6
    <3>2. ASSUME NEW q \in Paths, disk[q] # NoFile, disk[q].stamp = rows[i].stamp
          PROVE  disk[q].content = rows[i].content /\ disk[q].content \notin Unreadable
      BY <1>4, <1>5, <1>6, <3>2
    <3>. QED
      BY <3>1, <3>2 DEF TrueRow
  <2>. QED
    BY <2>1 DEF TrueRows
<1>9. phase = "idle" /\ outcome = "none" /\ work = [p \in Paths |-> Step("done")]
  BY DEF Init, AtRest
<1>10. TrueItems
  BY <1>3, <1>9 DEF TrueItems, TrueItem, Step
<1>. QED
  BY <1>7, <1>8, <1>9, <1>10 DEF SInv, TrueTargets, Described, Standing, OkRootCountsDisk, AfterQuietSweep

(* What is on the disk was there before the step, wherever it was, or is    *)
(* written by it.                                                           *)
FilesKept ==
    \A q \in Paths : disk'[q] # NoFile =>
        \/ disk'[q].stamp = Latest + 1
        \/ \E p \in Paths : /\ disk[p] # NoFile
                            /\ disk'[q].stamp = disk[p].stamp /\ disk'[q].content = disk[p].content

(* An edit gives a new stamp or moves a file along with its stamp, so a row *)
(* stays true of the file with its stamp.                                   *)
LEMMA TrueRowStays ==
  ASSUME FilesKept, swapped \subseteq swapped', Latest \in Nat,
         NEW r, r.stamp \in Nat, r.stamp <= Latest, TrueRow(disk, swapped, r)
  PROVE  TrueRow(disk', swapped', r)
<1>. SUFFICES ASSUME r.status = "ok", NEW q \in Paths, disk'[q] # NoFile, disk'[q].stamp = r.stamp,
                     <<r.path, r.stamp>> \notin swapped'
              PROVE  disk'[q].content \notin Unreadable /\ KeyOf[disk'[q].content] = KeyOf[r.content]
  BY DEF TrueRow
<1>1. PICK p \in Paths : /\ disk[p] # NoFile
                         /\ disk'[q].stamp = disk[p].stamp /\ disk'[q].content = disk[p].content
  BY DEF FilesKept
<1>. QED
  BY <1>1 DEF TrueRow

(* So does what a worker has read.                                          *)
LEMMA TrueItemStays ==
  ASSUME FilesKept, swapped \subseteq swapped', Latest \in Nat,
         NEW p \in Paths, NEW w, w.stamp \in Nat, w.stamp <= Latest, TrueItem(disk, swapped, p, w)
  PROVE  TrueItem(disk', swapped', p, w)
<1>1. CASE w.at # "read"
  BY <1>1 DEF TrueItem
<1>2. CASE w.at = "read"
  <2>1. ASSUME NEW q \in Paths, disk'[q] # NoFile, disk'[q].stamp = w.stamp, <<p, w.stamp>> \notin swapped'
        PROVE  disk'[q].content = w.content
    <3>1. PICK s \in Paths : /\ disk[s] # NoFile
                             /\ disk'[q].stamp = disk[s].stamp /\ disk'[q].content = disk[s].content
      BY <2>1 DEF FilesKept
    <3>. QED
      BY <1>2, <2>1, <3>1 DEF TrueItem
  <2>. QED
    BY <1>2, <2>1 DEF TrueItem
<1>. QED
  BY <1>1, <1>2

(* A read of another file than the one asked for is never forgotten.        *)
LEMMA SwappedGrows ==
  ASSUME [Next]_vars
  PROVE  /\ swapped \subseteq swapped'
         /\ swapped' = swapped \/ \E p \in Paths : WorkerReads(p)
<1>. DEFINE Kept == UNCHANGED swapped
<1>1. CASE Disk
  BY <1>1 DEF Disk, Write, Rename, Delete, Settle, Outage, Edit
<1>2. CASE Sweeper
  <2>1. Walker => Kept
    BY DEF Walker, WalkVisit, WalkStops, EndOfTree, WalkUnchanged
  <2>2. \A p \in Paths : WorkerStat(p) \/ WorkerTouches(p) \/ WorkerCannotRead(p) \/ WorkerStores(p) => Kept
    BY DEF WorkerStat, WorkerTouches, WorkerCannotRead, WorkerStores
  <2>3. \A p \in Paths : WorkerReads(p) => swapped \subseteq swapped'
    BY DEF WorkerReads
  <2>4. EndWalk \/ Finish => Kept
    BY DEF EndWalk, Finish
  <2>5. Reconciler => Kept
    BY DEF Reconciler, ReconcileRefused, ReconcilePlans, ReconcileDone, MarkMissing, MoveDeletes,
           MoveReanchors, ReconcileUnchanged
  <2>. QED
    BY <1>2, <2>1, <2>2, <2>3, <2>4, <2>5 DEF Sweeper, Worker
<1>3. CASE Failure
  BY <1>3 DEF Failure, RootUnreadable, WalkCut, EndOfTree, ReconcileFails, ReconcileUnchanged,
              FinishUnreported, RequestStop, Crash, WorkerStoreFails, WorkerLosesItem, WalkUnchanged
<1>4. CASE (\E ids \in SUBSET WithStatus("missing") : PruneMissing(ids)) \/ UNCHANGED vars
  BY <1>4 DEF PruneMissing, vars
<1>5. CASE \E base \in {"counted", "clock", "none"} : StartSweep(base)
  BY <1>5 DEF StartSweep
<1>. QED
  BY <1>1, <1>2, <1>3, <1>4, <1>5 DEF Next

(* The program never edits the disk.                                        *)
LEMMA DiskKept ==
  ASSUME [Next]_vars
  PROVE  Disk \/ UNCHANGED <<disk, edits>>
<1>. DEFINE Kept == UNCHANGED <<disk, edits>>
<1>1. CASE Sweeper
  <2>1. Walker => Kept
    BY DEF Walker, WalkVisit, WalkStops, EndOfTree, WalkUnchanged
  <2>2. \A p \in Paths : Worker(p) => Kept
    BY DEF Worker, WorkerStat, WorkerTouches, WorkerReads, WorkerCannotRead, WorkerStores, WalkUnchanged
  <2>3. EndWalk \/ Finish => Kept
    BY DEF EndWalk, Finish
  <2>4. Reconciler => Kept
    BY DEF Reconciler, ReconcileRefused, ReconcilePlans, ReconcileDone, MarkMissing, MoveDeletes,
           MoveReanchors, ReconcileUnchanged
  <2>. QED
    BY <1>1, <2>1, <2>2, <2>3, <2>4 DEF Sweeper
<1>2. CASE Failure
  BY <1>2 DEF Failure, RootUnreadable, WalkCut, EndOfTree, ReconcileFails, ReconcileUnchanged,
              FinishUnreported, RequestStop, Crash, WorkerStoreFails, WorkerLosesItem, WalkUnchanged
<1>3. CASE (\E ids \in SUBSET WithStatus("missing") : PruneMissing(ids)) \/ UNCHANGED vars
  BY <1>3 DEF PruneMissing, vars
<1>4. CASE \E base \in {"counted", "clock", "none"} : StartSweep(base)
  BY <1>4 DEF StartSweep
<1>. QED
  BY <1>1, <1>2, <1>3, <1>4 DEF Next

(* Each file has a stamp of its own, and a later write a later one.         *)
LEMMA OneStampStep ==
  ASSUME TInv, SInv, [Next]_vars
  PROVE  /\ OneStamp' /\ FilesKept /\ Latest' >= Latest /\ Latest' \in Nat
<1>. USE DEF SInv
<1>0. Latest \in Nat /\ edits \in Nat
  BY LatestNat DEF TInv
<1>1. CASE UNCHANGED <<disk, edits>>
  BY <1>0, <1>1 DEF OneStamp, FilesKept, Latest
<1>2. ASSUME Edit
      PROVE  Latest' = Latest + 1
  BY <1>0, <1>2, SweepAssumption, FS_CardinalityType DEF Edit, Latest
<1>. DEFINE Goal == OneStamp' /\ FilesKept /\ Latest' >= Latest /\ Latest' \in Nat
<1>3. ASSUME NEW p \in Paths, NEW c \in Contents, NEW recent \in BOOLEAN, Write(p, c, recent)
      PROVE  Goal
  <2>1. Latest' = Latest + 1
    BY <1>2, <1>3 DEF Write
  <2>2. /\ disk'[p].stamp = Latest + 1
        /\ \A q \in Paths \ {p} : disk'[q] = disk[q]
    BY <1>3 DEF Write, Latest, TInv
  <2>3. \A q \in Paths : disk[q] # NoFile => disk[q].stamp \in Nat /\ disk[q].stamp <= Latest
    BY DEF OneStamp, TInv, File, Stamps
  <2>4. OneStamp'
    BY <1>0, <2>1, <2>2, <2>3 DEF OneStamp
  <2>5. FilesKept
    BY <2>2 DEF FilesKept
  <2>. QED
    BY <1>0, <2>1, <2>4, <2>5
<1>4. ASSUME NEW p \in Paths, NEW q \in Paths, Rename(p, q)
      PROVE  Goal
  <2>1. Latest' = Latest + 1
    BY <1>2, <1>4 DEF Rename
  <2>2. /\ p # q /\ disk'[p] = NoFile /\ disk'[q] = disk[p] /\ disk[p] # NoFile
        /\ \A s \in Paths \ {p, q} : disk'[s] = disk[s]
    BY <1>4 DEF Rename, TInv
  <2>3. \A s \in Paths : disk[s] # NoFile => disk[s].stamp \in Nat /\ disk[s].stamp <= Latest
    BY DEF OneStamp, TInv, File, Stamps
  <2>4. OneStamp'
    BY <1>0, <2>1, <2>2, <2>3 DEF OneStamp
  <2>5. FilesKept
    BY <2>2 DEF FilesKept
  <2>. QED
    BY <1>0, <2>1, <2>4, <2>5
<1>5. ASSUME NEW p \in Paths, Delete(p)
      PROVE  Goal
  <2>1. Latest' = Latest + 1
    BY <1>2, <1>5 DEF Delete
  <2>2. disk'[p] = NoFile /\ \A s \in Paths \ {p} : disk'[s] = disk[s]
    BY <1>5 DEF Delete, TInv
  <2>3. \A s \in Paths : disk[s] # NoFile => disk[s].stamp \in Nat /\ disk[s].stamp <= Latest
    BY DEF OneStamp, TInv, File, Stamps
  <2>4. OneStamp'
    BY <1>0, <2>1, <2>2, <2>3 DEF OneStamp
  <2>5. FilesKept
    BY <2>2 DEF FilesKept
  <2>. QED
    BY <1>0, <2>1, <2>4, <2>5
<1>6. ASSUME NEW p \in Paths, Settle(p)
      PROVE  Goal
  <2>1. Latest' = Latest /\ disk[p] \in File /\ disk[p] # NoFile
    BY <1>6 DEF Settle, Latest, TInv
  <2>2. /\ disk'[p].stamp = disk[p].stamp /\ disk'[p].content = disk[p].content
        /\ \A s \in Paths \ {p} : disk'[s] = disk[s]
    BY <1>6, <2>1 DEF Settle, TInv, File
  <2>4. OneStamp'
    BY <1>0, <2>1, <2>2 DEF OneStamp
  <2>5. FilesKept
    BY <2>1, <2>2 DEF FilesKept
  <2>. QED
    BY <1>0, <2>1, <2>4, <2>5
<1>7. CASE Outage
  <2>1. Latest' = Latest + 1 /\ \A p \in Paths : disk'[p] = NoFile
    BY <1>2, <1>7 DEF Outage
  <2>. QED
    BY <1>0, <2>1 DEF OneStamp, FilesKept
<1>. QED
  BY <1>1, <1>3, <1>4, <1>5, <1>6, <1>7, DiskKept DEF Disk

(* A step makes nothing untrue that was true.                               *)
LEMMA TruthStays ==
  ASSUME TInv, SInv, [Next]_vars
  PROVE  /\ \A r : r.stamp \in Nat /\ r.stamp <= Latest /\ TrueRow(disk, swapped, r)
                => r.stamp <= Latest' /\ TrueRow(disk', swapped', r)
         /\ \A p \in Paths : \A w : w.stamp \in Nat /\ w.stamp <= Latest /\ TrueItem(disk, swapped, p, w)
                => w.stamp <= Latest' /\ TrueItem(disk', swapped', p, w)
<1>1. /\ FilesKept /\ Latest' >= Latest /\ Latest' \in Nat /\ Latest \in Nat
      /\ swapped \subseteq swapped'
  BY OneStampStep, SwappedGrows, LatestNat
<1>2. ASSUME NEW r, r.stamp \in Nat, r.stamp <= Latest, TrueRow(disk, swapped, r)
      PROVE  r.stamp <= Latest' /\ TrueRow(disk', swapped', r)
  <2>1. TrueRow(disk', swapped', r)
    BY <1>1, <1>2, TrueRowStays
  <2>. QED
    BY <1>1, <1>2, <2>1
<1>3. ASSUME NEW p \in Paths, NEW w, w.stamp \in Nat, w.stamp <= Latest, TrueItem(disk, swapped, p, w)
      PROVE  w.stamp <= Latest' /\ TrueItem(disk', swapped', p, w)
  <2>1. TrueItem(disk', swapped', p, w)
    BY <1>1, <1>3, TrueItemStays
  <2>. QED
    BY <1>1, <1>3, <2>1
<1>. QED
  BY <1>2, <1>3

(* A row that says the same is as true.                                     *)
LEMMA SameTruth ==
  ASSUME NEW files, NEW odd, NEW r, NEW s, s.status = r.status, s.path = r.path, s.stamp = r.stamp,
         r.status = "ok" => KeyOf[s.content] = KeyOf[r.content],
         TrueRow(files, odd, r)
  PROVE  TrueRow(files, odd, s)
BY DEF TrueRow

(* What is written to the table is true: a worker writes what it read under *)
(* the stamp it was read for, a move keeps the fingerprint, an error row    *)
(* says nothing.                                                            *)
LEMMA TrueRowsStep ==
  ASSUME TInv, KInv, SInv, [Next]_vars
  PROVE  TrueRows'
<1>. USE DEF SInv
<1>0. RowsOK /\ Latest \in Nat
  BY LatestNat DEF TInv
<1>1. ASSUME NEW i \in DOMAIN rows
      PROVE  rows[i].stamp \in Nat /\ rows[i].stamp <= Latest /\ TrueRow(disk, swapped, rows[i])
  BY <1>0, <1>1 DEF TrueRows, RowsOK, Row, Stamps
<1>2. ASSUME NEW i \in DOMAIN rows
      PROVE  rows[i].stamp <= Latest' /\ TrueRow(disk', swapped', rows[i])
  BY <1>1, TruthStays
<1>3. CASE Still \/ ReconcilePlans
  <2>1. rows' = rows
    BY <1>3 DEF Still, ReconcilePlans
  <2>. QED
    BY <1>2, <2>1 DEF TrueRows
<1>4. ASSUME NEW base \in {"counted", "clock", "none"}, StartSweep(base)
      PROVE  TrueRows'
  <2>1. ASSUME NEW i \in DOMAIN rows
        PROVE  rows'[i].stamp <= Latest' /\ TrueRow(disk', swapped', rows'[i])
    <3>1. /\ rows'[i].status = rows[i].status /\ rows'[i].path = rows[i].path
          /\ rows'[i].stamp = rows[i].stamp /\ rows'[i].content = rows[i].content
      BY <1>4, StartEffect
    <3>2. TrueRow(disk', swapped', rows'[i])
      BY <1>2, <3>1, SameTruth
    <3>. QED
      BY <1>2, <3>1, <3>2
  <2>2. DOMAIN rows' = DOMAIN rows
    BY <1>4, StartEffect
  <2>. QED
    BY <2>1, <2>2 DEF TrueRows
<1>5. ASSUME NEW p \in Paths, WorkerWrites(p)
      PROVE  TrueRows'
  <2>1. UNCHANGED <<disk, edits, swapped>>
    BY <1>5 DEF WorkerWrites, WorkerTouches, WorkerCannotRead, WorkerStores, WorkerStoreFails,
                WalkUnchanged
  <2>2. work[p].stamp <= Latest /\ TrueItem(disk, swapped, p, work[p])
    BY DEF TrueItems
  <2>3. Latest' = Latest
    BY <2>1 DEF Latest
  <2>4. ASSUME NEW i \in DOMAIN rows', rows'[i].path = p
        PROVE  rows'[i].stamp <= Latest' /\ TrueRow(disk', swapped', rows'[i])
    <3>1. CASE /\ WorkerTouches(p) /\ i \in DOMAIN rows
               /\ rows[i].status = "ok" /\ rows[i].stamp = work[p].stamp /\ rows[i].path = p
               /\ rows'[i].status = "ok" /\ rows'[i].stamp = rows[i].stamp
               /\ rows'[i].content = rows[i].content
      <4>1. TrueRow(disk', swapped', rows'[i])
        BY <1>2, <2>4, <3>1, SameTruth
      <4>. QED
        BY <1>2, <3>1, <4>1
    <3>2. CASE /\ WorkerStores(p) /\ work[p].at = "read"
               /\ rows'[i].status = "ok" /\ rows'[i].stamp = work[p].stamp
               /\ rows'[i].content = work[p].content /\ work[p].content \in Contents
      BY <2>1, <2>2, <2>3, <2>4, <3>2 DEF TrueRow, TrueItem
    <3>3. CASE /\ WorkerCannotRead(p) \/ WorkerStoreFails(p)
               /\ rows'[i].status = "error"
               /\ \/ i \in DOMAIN rows /\ rows[i].path = p /\ rows'[i].stamp = rows[i].stamp
                                       /\ rows'[i].content = rows[i].content
                  \/ i \notin DOMAIN rows /\ rows'[i].content = NoContent /\ rows'[i].stamp = work[p].stamp
      BY <1>2, <2>2, <2>3, <3>3 DEF TrueRow
    <3>. QED
      BY <1>5, <2>4, <3>1, <3>2, <3>3, WriteFrames
  <2>5. ASSUME NEW i \in DOMAIN rows', rows'[i].path # p
        PROVE  rows'[i].stamp <= Latest' /\ TrueRow(disk', swapped', rows'[i])
    <3>1. i \in DOMAIN rows /\ rows'[i] = rows[i]
      BY <1>5, <2>5, WriteEffect
    <3>. QED
      BY <1>2, <3>1
  <2>. QED
    BY <2>4, <2>5 DEF TrueRows
<1>6. ASSUME NEW v \in plan.vanished, Applies(v)
      PROVE  TrueRows'
  <2>1. CASE MarkMissing(v)
    <3>1. ASSUME NEW i \in DOMAIN rows
          PROVE  rows'[i].stamp <= Latest' /\ TrueRow(disk', swapped', rows'[i])
      <4>1. CASE i # v
        BY <1>2, <2>1, <4>1, MarkEffect
      <4>2. CASE i = v
        BY <1>2, <2>1, <4>2, MarkEffect DEF TrueRow
      <4>. QED
        BY <4>1, <4>2
    <3>2. DOMAIN rows' = DOMAIN rows
      BY <2>1, MarkEffect
    <3>. QED
      BY <3>1, <3>2 DEF TrueRows
  <2>2. CASE MoveDeletes(v)
    <3>1. DOMAIN rows' \subseteq DOMAIN rows /\ \A i \in DOMAIN rows' : rows'[i] = rows[i]
      BY <2>2, DeleteEffect
    <3>. QED
      BY <1>2, <3>1 DEF TrueRows
  <2>3. CASE MoveReanchors(v)
    <3>1. /\ phase = "apply" /\ v \in DOMAIN plan.match /\ DOMAIN rows' = DOMAIN rows
          /\ \A i \in DOMAIN rows \ {v} : rows'[i] = rows[i]
          /\ v \in DOMAIN rows =>
                /\ rows'[v].path = NewPath(v)
                /\ rows'[v].stamp = plan.target[plan.match[v]].stamp
                /\ rows'[v].status = plan.target[plan.match[v]].status
                /\ rows'[v].content = rows[v].content
      BY <2>3, ReanchorEffect
    <3>. DEFINE A == plan.target[plan.match[v]]
    <3>2. plan.match[v] \in DOMAIN plan.target /\ A \in Row
      BY <3>1 DEF TInv, PlanOK
    <3>3. A.stamp \in Nat /\ A.stamp <= Latest /\ TrueRow(disk, swapped, A)
      BY <3>1, <3>2 DEF TrueTargets, Row, Stamps
    <3>4. A.stamp <= Latest' /\ TrueRow(disk', swapped', A)
      BY <3>3, TruthStays
    <3>5. KeyOf[rows[v].content] = KeyOf[A.content]
      BY <3>1 DEF KInv, Matched
    <3>6. NewPath(v) = A.path
      BY DEF NewPath
    <3>. HIDE DEF A
    <3>7. v \in DOMAIN rows => rows'[v].stamp <= Latest' /\ TrueRow(disk', swapped', rows'[v])
      BY <3>1, <3>4, <3>5, <3>6, SameTruth DEF A
    <3>. QED
      BY <1>2, <3>1, <3>7 DEF TrueRows
  <2>. QED
    BY <1>6, <2>1, <2>2, <2>3 DEF Applies
<1>7. CASE \E ids \in SUBSET WithStatus("missing") : PruneMissing(ids)
  <2>1. DOMAIN rows' \subseteq DOMAIN rows /\ \A i \in DOMAIN rows' : rows'[i] = rows[i]
    BY <1>7 DEF PruneMissing
  <2>. QED
    BY <1>2, <2>1 DEF TrueRows
<1>. QED
  BY <1>3, <1>4, <1>5, <1>6, <1>7, Kinds

(* The loop's copies of the new rows stay true.                             *)
LEMMA TrueTargetsStep ==
  ASSUME TInv, KInv, SInv, [Next]_vars
  PROVE  TrueTargets'
<1>. USE DEF SInv
<1>1. ASSUME phase = "apply", NEW a \in DOMAIN plan.target
      PROVE  plan.target[a].stamp <= Latest' /\ TrueRow(disk', swapped', plan.target[a])
  <2>1. plan.target[a].stamp \in Nat
    BY <1>1 DEF TInv, PlanOK, Row, Stamps
  <2>. QED
    BY <1>1, <2>1, TruthStays DEF TrueTargets
<1>2. CASE Still
  BY <1>1, <1>2 DEF Still, TrueTargets
<1>3. CASE \E base \in {"counted", "clock", "none"} : StartSweep(base)
  BY <1>3 DEF StartSweep, TrueTargets
<1>4. CASE \E p \in Paths : WorkerWrites(p)
  BY <1>4, WorkerExamines DEF TrueTargets
<1>5. CASE ReconcilePlans
  <2>1. plan'.target = [a \in Appeared |-> rows[a]] /\ Appeared \subseteq DOMAIN rows /\ rows' = rows
    BY <1>5, MatchFacts DEF Appeared, ReconcilePlans
  <2>. QED
    BY <2>1, TrueRowsStep DEF TrueRows, TrueTargets
<1>6. ASSUME NEW v \in plan.vanished, Applies(v)
      PROVE  TrueTargets'
  <2>1. phase = "apply" /\ plan'.target = plan.target
    BY <1>6, MarkEffect, DeleteEffect, ReanchorEffect DEF Applies
  <2>. QED
    BY <1>1, <2>1 DEF TrueTargets
<1>7. CASE \E ids \in SUBSET WithStatus("missing") : PruneMissing(ids)
  BY <1>1, <1>7 DEF PruneMissing, TrueTargets
<1>. QED
  BY <1>2, <1>3, <1>4, <1>5, <1>6, <1>7, Kinds

(* How the work on a path goes on.                                          *)
LEMMA WorkKinds ==
  ASSUME TInv, [Next]_vars, NEW p \in Paths
  PROVE  \/ work'[p] = work[p]
         \/ work'[p].at # "read" /\ work'[p].stamp = 0
         \/ work'[p].at = "stat" /\ disk[p] # NoFile /\ work'[p].stamp = disk[p].stamp
         \/ WorkerReads(p) /\ work'[p].at = "read" /\ work'[p].stamp = work[p].stamp
                           /\ work'[p].content = disk[p].content
<1>. DEFINE Goal == \/ work'[p] = work[p]
                    \/ work'[p].at # "read" /\ work'[p].stamp = 0
                    \/ work'[p].at = "stat" /\ disk[p] # NoFile /\ work'[p].stamp = disk[p].stamp
                    \/ WorkerReads(p) /\ work'[p].at = "read" /\ work'[p].stamp = work[p].stamp
                                      /\ work'[p].content = disk[p].content
<1>0. work \in [Paths -> WorkItem]
  BY DEF TInv, WorkOK
<1>1. CASE UNCHANGED work
  BY <1>1
<1>2. CASE Disk
  BY <1>1, <1>2 DEF Disk, Write, Rename, Delete, Settle, Outage, Edit
<1>3. CASE \E base \in {"counted", "clock", "none"} : StartSweep(base)
  <2>1. work' = [q \in Paths |-> Step("tree")]
    BY <1>3 DEF StartSweep
  <2>. QED
    BY <2>1 DEF Step
<1>4. ASSUME NEW q \in Paths, NEW stage \in {"queued", "done"}, Advance(q, stage)
      PROVE  Goal
  BY <1>0, <1>4 DEF Advance, Step
<1>5. ASSUME EndOfTree
      PROVE  Goal
  BY <1>5 DEF EndOfTree, Step
<1>6. ASSUME NEW q \in Paths, WorkerStat(q)
      PROVE  Goal
  <2>1. CASE Advance(q, "done")
    BY <1>4, <2>1
  <2>2. CASE /\ disk[q] # NoFile
             /\ work' = [work EXCEPT ![q].at = "stat", ![q].stamp = disk[q].stamp]
    BY <1>0, <2>2 DEF WorkItem
  <2>. QED
    BY <1>6, <2>1, <2>2 DEF WorkerStat
<1>7. ASSUME NEW q \in Paths, WorkerReads(q)
      PROVE  Goal
  <2>1. work' = [work EXCEPT ![q].at = "read", ![q].content = disk[q].content]
    BY <1>7 DEF WorkerReads
  <2>. QED
    BY <1>0, <1>7, <2>1 DEF WorkItem
<1>8. ASSUME NEW q \in Paths, WorkerLosesItem(q) \/ WorkerWrites(q)
      PROVE  Goal
  BY <1>4, <1>8 DEF WorkerLosesItem, WorkerWrites, WorkerTouches, WorkerCannotRead, WorkerStores,
                    WorkerStoreFails
<1>9. CASE Walker \/ WalkCut
  BY <1>4, <1>5, <1>9 DEF Walker, WalkVisit, WalkStops, WalkCut
<1>10. CASE RootUnreadable \/ Crash
  <2>1. work' = [q \in Paths |-> Step("done")]
    BY <1>10 DEF RootUnreadable, Crash
  <2>. QED
    BY <2>1 DEF Step
<1>11. CASE EndWalk \/ Reconciler \/ Finish \/ ReconcileFails \/ FinishUnreported \/ RequestStop
  <2>1. UNCHANGED work
    BY <1>11 DEF EndWalk, Reconciler, ReconcileRefused, ReconcilePlans, ReconcileDone, MarkMissing,
           MoveDeletes, MoveReanchors, ReconcileFails, ReconcileUnchanged, Finish, FinishUnreported,
           RequestStop
  <2>. QED
    BY <1>1, <2>1
<1>12. CASE (\E ids \in SUBSET WithStatus("missing") : PruneMissing(ids)) \/ UNCHANGED vars
  BY <1>1, <1>12 DEF PruneMissing, vars
<1>. QED
  BY <1>2, <1>3, <1>6, <1>7, <1>8, <1>9, <1>10, <1>11, <1>12
     DEF Next, Sweeper, Worker, Failure, WorkerWrites

(* A worker that reads another file than it asked for is noted.             *)
LEMMA TrueItemsStep ==
  ASSUME TInv, SInv, [Next]_vars
  PROVE  TrueItems'
<1>. USE DEF SInv
<1>1. ASSUME NEW p \in Paths
      PROVE  work'[p].stamp <= Latest' /\ TrueItem(disk', swapped', p, work'[p])
  <2>1. work[p].stamp \in Nat /\ work[p].stamp <= Latest /\ TrueItem(disk, swapped, p, work[p])
    BY DEF TInv, WorkOK, WorkItem, TrueItems
  <2>2. Latest \in Nat /\ Latest' \in Nat /\ Latest' >= Latest
    BY LatestNat, OneStampStep
  <2>3. CASE work'[p] = work[p]
    BY <2>1, <2>3, TruthStays
  <2>4. CASE work'[p].at # "read" /\ work'[p].stamp = 0
    BY <2>2, <2>4 DEF TrueItem
  <2>5. CASE work'[p].at = "stat" /\ disk[p] # NoFile /\ work'[p].stamp = disk[p].stamp
    <3>1. disk[p].stamp <= Latest /\ disk[p].stamp \in Nat
      BY <2>5 DEF OneStamp, TInv, File, Stamps
    <3>. QED
      BY <2>2, <2>5, <3>1 DEF TrueItem
  <2>6. CASE WorkerReads(p) /\ work'[p].at = "read" /\ work'[p].stamp = work[p].stamp
                            /\ work'[p].content = disk[p].content
    <3>1. /\ disk[p] # NoFile /\ disk[p].content \notin Unreadable /\ disk' = disk
          /\ disk[p].stamp = work[p].stamp \/ <<p, work[p].stamp>> \in swapped'
      BY <2>6 DEF WorkerReads, Readable, WalkUnchanged
    <3>2. \A q \in Paths : disk[q] # NoFile /\ disk[q].stamp = disk[p].stamp => q = p
      BY <3>1 DEF OneStamp
    <3>3. TrueItem(disk', swapped', p, work'[p])
      BY <2>6, <3>1, <3>2 DEF TrueItem
    <3>. QED
      BY <2>1, <2>2, <2>6, <3>3
  <2>. QED
    BY <2>3, <2>4, <2>5, <2>6, WorkKinds
<1>. QED
  BY <1>1 DEF TrueItems

(* All four hold from the start with a clean index if the database server   *)
(* is on UTC.                                                               *)
LEMMA SInvAlways ==
  ASSUME ~ZoneAhead
  PROVE  Spec => []SInv
<1>1. TInv /\ KInv /\ SInv /\ [Next]_vars => SInv'
  BY OneStampStep, TrueRowsStep, TrueItemsStep, TrueTargetsStep DEF SInv
<1>2. Init => SInv
  BY InitSInv
<1>. QED
  BY <1>1, <1>2, TInvAlways, KInvAlways, PTL DEF Spec

(* In a quiet sweep an examined path is described by its row: the file was  *)
(* read now, or its stamp is that of a row that is true of it.              *)
LEMMA DescribedStep ==
  ASSUME TInv, NInv, KInv, QInv, SInv, Described, [Next]_vars
  PROVE  Described'
<1>0. RowsOK /\ swapped \subseteq swapped'
  BY SwappedGrows DEF TInv
<1>. SUFFICES ASSUME quiet', phase' \in {"walk", "plan"}
              PROVE  Described'
  BY DEF Described
<1>1. ASSUME NEW base \in {"counted", "clock", "none"}, StartSweep(base)
      PROVE  Described'
  BY <1>1, StartEffect DEF Described
<1>2. ASSUME quiet, phase \in {"walk", "plan"}
      PROVE  \A i \in DOMAIN rows :
               /\ rows[i].path \in Paths
               /\ rows[i].seen => disk[rows[i].path] # NoFile
               /\ (/\ rows[i].seen /\ work[rows[i].path].at = "done" /\ rows[i].path \notin skipped
                   /\ ~PutBack(rows[i].path)) => DescribedBy(rows[i], rows[i].path)
  BY <1>0, <1>2 DEF Described, QInv, Stored, Told, RowsOK, Row
<1>3. ASSUME quiet, phase \in {"walk", "plan"}, disk' = disk, skipped \subseteq skipped',
             DOMAIN rows' \subseteq DOMAIN rows, \A i \in DOMAIN rows' : rows'[i] = rows[i],
             \A q \in Paths : work'[q].at = "done" =>
                \/ work[q].at = "done"
                \/ q \in skipped'
                \/ disk[q] = NoFile
      PROVE  Described'
  <2>1. ASSUME NEW i \in DOMAIN rows', rows'[i].seen, work'[rows'[i].path].at = "done",
               rows'[i].path \notin skipped', ~PutBack(rows[i].path)'
        PROVE  DescribedBy(rows[i], rows[i].path)'
    <3>1. rows'[i] = rows[i] /\ i \in DOMAIN rows
      BY <1>3, <2>1
    <3>2. ~PutBack(rows[i].path)
      BY <1>0, <1>3, <2>1, <3>1 DEF PutBack
    <3>3. work[rows[i].path].at = "done" /\ rows[i].path \notin skipped
      BY <1>2, <1>3, <2>1, <3>1
    <3>4. DescribedBy(rows[i], rows[i].path)
      BY <1>2, <1>3, <2>1, <3>1, <3>2, <3>3
    <3>. QED
      BY <1>3, <3>1, <3>4 DEF DescribedBy
  <2>. QED
    BY <2>1 DEF Described
<1>4. ASSUME NEW p \in Paths, WalkVisit(p), quiet, phase \in {"walk", "plan"}, disk' = disk
      PROVE  Described'
  <2>1. /\ work' = [work EXCEPT ![p] = Step(IF disk[p] = NoFile THEN "done" ELSE "queued")]
        /\ UNCHANGED <<rows, skipped>>
    BY <1>4 DEF WalkVisit, Advance
  <2>2. \A q \in Paths : work'[q].at = "done" => work[q].at = "done" \/ disk[q] = NoFile
    BY <2>1 DEF TInv, WorkOK, Step
  <2>. QED
    BY <1>3, <1>4, <2>1, <2>2
<1>5. ASSUME EndOfTree, quiet, phase \in {"walk", "plan"}, disk' = disk
      PROVE  Described'
  <2>1. \A q \in Paths : work'[q].at = "done" => work[q].at = "done" \/ q \in skipped'
    BY <1>5 DEF EndOfTree
  <2>2. UNCHANGED rows /\ skipped \subseteq skipped'
    BY <1>5 DEF EndOfTree
  <2>. QED
    BY <1>3, <1>5, <2>1, <2>2
<1>6. ASSUME NEW p \in Paths, WorkerStat(p) \/ WorkerReads(p) \/ WorkerLosesItem(p),
             quiet, phase \in {"walk", "plan"}, disk' = disk
      PROVE  Described'
  <2>1. rows' = rows
    BY <1>6 DEF WorkerStat, WorkerReads, WorkerLosesItem
  <2>2. work'[p].at = "done" => p \in skipped' \/ disk[p] = NoFile
    BY <1>6 DEF WorkerStat, WorkerReads, WorkerLosesItem, TInv, WorkOK, WorkItem
  <2>3. skipped \subseteq skipped' /\ \A q \in Paths \ {p} : work'[q] = work[q]
    BY <1>6, OwnWork
  <2>. QED
    BY <1>3, <1>6, <2>1, <2>2, <2>3
<1>7. ASSUME NEW p \in Paths, WorkerWrites(p), quiet, phase \in {"walk", "plan"}, disk' = disk
      PROVE  Described'
  <2>1. work[p].at \in {"stat", "read"} /\ swapped' = swapped
    BY <1>7 DEF WorkerWrites, WorkerTouches, WorkerCannotRead, WorkerStores, WorkerStoreFails,
                NeedsReading, At
  <2>2. /\ disk[p] # NoFile /\ work[p].stamp = disk[p].stamp
        /\ work[p].at = "read" => work[p].content = disk[p].content /\ disk[p].content \notin Unreadable
    BY <1>7, <2>1 DEF QInv, Fetched
  <2>3. ASSUME NEW i \in DOMAIN rows', rows'[i].path # p, rows'[i].seen, work'[rows'[i].path].at = "done",
               rows'[i].path \notin skipped', ~PutBack(rows[i].path)'
        PROVE  DescribedBy(rows[i], rows[i].path)'
    <3>1. i \in DOMAIN rows /\ rows'[i] = rows[i]
      BY <1>7, <2>3, WriteEffect
    <3>2. work'[rows[i].path] = work[rows[i].path] /\ rows[i].path \notin skipped
      BY <1>2, <1>7, <2>3, <3>1, OwnWork
    <3>3. ~PutBack(rows[i].path)
      BY <1>7, <2>1, <2>3, <3>1 DEF PutBack
    <3>4. DescribedBy(rows[i], rows[i].path)
      BY <1>2, <1>7, <2>3, <3>1, <3>2, <3>3
    <3>. QED
      BY <1>7, <3>1, <3>4 DEF DescribedBy
  <2>4. ASSUME NEW i \in DOMAIN rows', rows'[i].path = p, p \notin skipped', ~PutBack(p)'
        PROVE  DescribedBy(rows[i], p)'
    <3>0. <<p, disk[p].stamp>> \notin swapped
      BY <1>7, <2>1, <2>2, <2>4 DEF PutBack
    <3>1. CASE /\ WorkerTouches(p) /\ i \in DOMAIN rows
               /\ rows[i].status = "ok" /\ rows[i].stamp = work[p].stamp /\ rows[i].path = p
               /\ rows'[i].status = "ok" /\ rows'[i].stamp = rows[i].stamp
               /\ rows'[i].content = rows[i].content
      <4>1. TrueRow(disk, swapped, rows[i])
        BY <3>1 DEF SInv, TrueRows
      <4>2. disk[p].content \notin Unreadable /\ KeyOf[disk[p].content] = KeyOf[rows[i].content]
        BY <2>2, <3>0, <3>1, <4>1 DEF TrueRow
      <4>3. rows[i].content # NoContent
        BY <3>1 DEF KInv, Known
      <4>. QED
        BY <1>7, <2>2, <3>1, <4>2, <4>3 DEF DescribedBy
    <3>2. CASE /\ WorkerStores(p) /\ work[p].at = "read"
               /\ rows'[i].status = "ok" /\ rows'[i].stamp = work[p].stamp
               /\ rows'[i].content = work[p].content /\ work[p].content \in Contents
      BY <1>7, <2>2, <3>2, SweepAssumption DEF DescribedBy
    <3>3. CASE /\ WorkerCannotRead(p) \/ WorkerStoreFails(p)
               /\ rows'[i].status = "error"
      <4>1. disk[p].content \in Unreadable
        BY <2>2, <2>4, <3>3 DEF WorkerCannotRead, WorkerStoreFails, Readable
      <4>. QED
        BY <1>7, <3>3, <4>1 DEF DescribedBy
    <3>. QED
      BY <1>7, <2>4, <3>1, <3>2, <3>3, WriteFrames
  <2>. QED
    BY <2>3, <2>4 DEF Described
<1>8. ASSUME Calm \/ Prunes, quiet, phase \in {"walk", "plan"}, disk' = disk
      PROVE  Described'
  <2>1. /\ UNCHANGED <<work, skipped>> /\ DOMAIN rows' \subseteq DOMAIN rows
        /\ \A i \in DOMAIN rows' : rows'[i] = rows[i]
    BY <1>8 DEF Calm, Prunes, PruneMissing
  <2>. QED
    BY <1>3, <1>8, <2>1
<1>. QED
  BY <1>1, <1>4, <1>5, <1>6, <1>7, <1>8, WalkCases

(* It holds from the start with a clean index.                              *)
LEMMA DescribedAlways ==
  ASSUME ~ZoneAhead
  PROVE  Spec => []Described
<1>1. TInv /\ NInv /\ KInv /\ QInv /\ SInv /\ Described /\ [Next]_vars => Described'
  BY DescribedStep
<1>2. Init => Described
  BY InitSInv
<1>. QED
  BY <1>1, <1>2, TInvAlways, NInvAlways, KInvAlways, QInvAlways, SInvAlways, PTL DEF Spec

(* The steps of a quiet sweep after its walk leave the files as they are.   *)
LEMMA GoodStays ==
  ASSUME UNCHANGED <<errored, swapped>>, SameFiles, NEW q \in Paths, NEW r, Good(r, q)
  PROVE  /\ errored' = errored
         /\ ~PutBack(q)' => ~PutBack(q)
         /\ DescribedBy(r, q) => DescribedBy(r, q)'
         /\ Good(r, q)'
BY DEF SameFiles, Good, PutBack, DescribedBy

(* What the walk has settled when reconcile_root fills its lists.           *)
LEMMA PlansStanding ==
  ASSUME TInv, NInv, KInv, QInv, Described, ReconcilePlans, quiet, SameFiles,
         UNCHANGED <<skipped, errored, swapped>>
  PROVE  Standing'
<1>0. /\ phase = "plan" /\ phase' = "apply" /\ rows' = rows /\ RowsOK /\ plan'.vanished = Vanished
      /\ plan'.moving = {} /\ plan'.target = [a \in Appeared |-> rows[a]]
  BY MatchFacts DEF ReconcilePlans, TInv
<1>1. ASSUME NEW i \in DOMAIN rows, rows[i].seen
      PROVE  /\ rows[i].path \in Paths /\ disk[rows[i].path] # NoFile
             /\ rows[i].status # "missing" /\ i \notin Vanished
             /\ rows[i].path \notin skipped => Good(rows[i], rows[i].path)
  <2>1. Told(rows[i]) /\ rows[i].path \in Paths /\ work[rows[i].path].at = "done"
    BY <1>0, <1>1 DEF QInv, Stored, RowsOK, Row, TInv, WorkOK
  <2>2. ~PutBack(rows[i].path) /\ rows[i].path \notin skipped => DescribedBy(rows[i], rows[i].path)
    BY <1>0, <1>1, <2>1 DEF Described
  <2>. QED
    BY <1>1, <2>1, <2>2 DEF Told, Good, NInv, New, Vanished
<1>2. ASSUME NEW q \in Paths \ skipped, disk[q] # NoFile
      PROVE  \E i \in DOMAIN rows : rows[i].path = q /\ rows[i].seen
  BY <1>0, <1>2 DEF QInv, Stored, RowsAt, TInv, WorkOK
<1>3. ASSUME NEW i \in DOMAIN rows, disk[rows[i].path] = NoFile
      PROVE  rows[i].status = "missing" \/ i \in Vanished
  BY <1>1, <1>3 DEF Vanished
<1>4. ASSUME NEW v \in DOMAIN plan'.match
      PROVE  /\ NewPath(v)' \in Paths
             /\ disk'[NewPath(v)'] # NoFile
             /\ NewPath(v)' \notin skipped' => Good(plan.target[plan.match[v]], NewPath(v))'
  <2>1. plan'.match[v] \in Appeared
    BY MatchFacts DEF MoveTargets
  <2>2. PICK a \in Appeared : plan'.match[v] = a
    BY <2>1
  <2>3. plan'.target[a] = rows[a] /\ NewPath(v)' = rows[a].path /\ a \in DOMAIN rows /\ rows[a].seen
    BY <1>0, <2>2 DEF NewPath, Appeared, NInv, New
  <2>4. /\ disk[rows[a].path] # NoFile /\ rows[a].path \in Paths
        /\ rows[a].path \notin skipped => Good(rows[a], rows[a].path)
    BY <1>1, <2>3
  <2>5. rows[a].path \notin skipped => Good(rows[a], rows[a].path)'
    BY <1>0, <2>3, <2>4 DEF SameFiles, Good, PutBack, DescribedBy
  <2>. QED
    BY <1>0, <2>2, <2>3, <2>4, <2>5 DEF SameFiles, Good, PutBack, DescribedBy
<1>5. ASSUME NEW q \in Paths \ skipped', disk'[q] # NoFile
      PROVE  \E i \in DOMAIN rows' : /\ rows'[i].path = q /\ rows'[i].status # "missing"
                                     /\ i \notin plan'.vanished /\ Good(rows[i], q)'
  <2>1. PICK i \in DOMAIN rows : rows[i].path = q /\ rows[i].seen
    BY <1>2, <1>5 DEF SameFiles
  <2>2. Good(rows[i], q) /\ rows[i].status # "missing" /\ i \notin Vanished
    BY <1>1, <1>5, <2>1
  <2>3. Good(rows[i], q)'
    BY <1>0, <2>1, <2>2 DEF SameFiles, Good, PutBack, DescribedBy
  <2>. QED
    BY <1>0, <2>1, <2>2, <2>3
<1>6. ASSUME NEW i \in DOMAIN rows', disk'[rows'[i].path] = NoFile
      PROVE  rows'[i].status = "missing" \/ i \in plan'.vanished
  BY <1>0, <1>3, <1>6 DEF SameFiles, RowsOK, Row
<1>7. \A q \in Paths \ skipped' : disk'[q] # NoFile => Stands(q)'
  BY <1>5 DEF Stands
<1>. QED
  BY <1>0, <1>4, <1>6, <1>7 DEF Standing

(* The loop keeps it: while a row is away from its path, the one that will  *)
(* stand there is on its way.                                               *)
LEMMA StandingStep ==
  ASSUME TInv, NInv, KInv, QInv, Described, Standing, [Next]_vars
  PROVE  Standing'
<1>0. Known' /\ RowsOK
  BY KnownStep DEF TInv
<1>. SUFFICES ASSUME quiet', phase' = "apply" \/ outcome' = "complete"
              PROVE  Standing'
  BY DEF Standing
<1>1. Judged' /\ phase' \notin {"walk", "plan"}
  BY <1>0 DEF Known, Judged
<1>2. Judged /\ UNCHANGED <<before, skipped, errored, swapped>> /\ SameFiles
  BY <1>1, LateCases
<1>3. CASE ReconcilePlans
  BY <1>2, <1>3, PlansStanding DEF Judged, ReconcilePlans, ReconcileUnchanged
<1>. SUFFICES ASSUME phase \notin {"walk", "plan"}
              PROVE  Standing'
  BY <1>1, <1>3, LateCases
<1>4. phase = "apply" \/ outcome = "complete"
  BY <1>2 DEF Judged, KInv, Known
<1>5. \A q \in Paths \ skipped : disk[q] # NoFile => Stands(q) \/ Coming(q)
  BY <1>2, <1>4 DEF Standing, Judged
<1>6. \A i \in DOMAIN rows : disk[rows[i].path] = NoFile =>
             \/ rows[i].status = "missing"
             \/ phase = "apply" /\ i \in plan.vanished
  BY <1>2, <1>4 DEF Standing, Judged
<1>7. phase = "apply" => \A v \in DOMAIN plan.match :
             /\ disk[NewPath(v)] # NoFile
             /\ NewPath(v) \notin skipped => Good(plan.target[plan.match[v]], NewPath(v))
  BY <1>2, <1>4 DEF Standing, Judged
<1>8. \A q \in Paths : (disk'[q] = NoFile <=> disk[q] = NoFile)
  BY <1>2 DEF SameFiles
<1>9. \A q \in Paths : \A r : Good(r, q) => Good(r, q)'
  BY <1>2, GoodStays
<1>10. phase = "apply" => \A v \in DOMAIN plan.match : NewPath(v) \in Paths
  BY DEF TInv, PlanOK, Row, NewPath
<1>11. ASSUME phase = "apply", plan'.match = plan.match, plan'.target = plan.target
       PROVE  \A v \in DOMAIN plan'.match :
             /\ (disk[NewPath(v)] # NoFile)'
             /\ (NewPath(v) \notin skipped => Good(plan.target[plan.match[v]], NewPath(v)))'
  BY <1>2, <1>7, <1>8, <1>9, <1>10, <1>11 DEF NewPath
<1>12. \A i \in DOMAIN rows : rows[i].path \in Paths
  BY <1>0 DEF RowsOK, Row
<1>13. ASSUME NEW v \in plan.vanished, MarkMissing(v)
       PROVE  Standing'
  <2>1. /\ phase = "apply" /\ plan.moving = {} /\ DOMAIN rows' = DOMAIN rows
        /\ \A i \in DOMAIN rows \ {v} : rows'[i] = rows[i]
        /\ v \in DOMAIN rows => rows'[v].status = "missing"
        /\ plan'.match = plan.match /\ plan'.target = plan.target
        /\ plan'.vanished = plan.vanished \ {v}
    BY <1>13, MarkEffect
  <2>0. phase' = "apply"
    BY <1>13 DEF MarkMissing, ReconcileUnchanged
  <2>2. ASSUME NEW q \in Paths \ skipped', disk'[q] # NoFile
        PROVE  \E i \in DOMAIN rows' : /\ rows'[i].path = q /\ rows'[i].status # "missing"
                                       /\ i \notin plan'.vanished /\ Good(rows[i], q)'
    <3>0. Stands(q) /\ q \in Paths
      BY <1>2, <1>5, <1>8, <2>1, <2>2 DEF Coming
    <3>1. PICK i \in DOMAIN rows : /\ rows[i].path = q /\ rows[i].status # "missing"
                                   /\ Good(rows[i], q) /\ i \notin plan.vanished
      BY <2>1, <3>0 DEF Stands
    <3>2. rows'[i] = rows[i] /\ i # v
      BY <1>13, <2>1, <3>1
    <3>3. Good(rows'[i], q)
      BY <3>1, <3>2
    <3>4. Good(rows[i], q)'
      BY <1>2, <3>3 DEF SameFiles, Good, PutBack, DescribedBy
    <3>. QED
      BY <2>1, <3>1, <3>2, <3>4
  <2>3. ASSUME NEW i \in DOMAIN rows', disk'[rows'[i].path] = NoFile
        PROVE  rows'[i].status = "missing" \/ i \in plan'.vanished
    BY <1>6, <1>8, <1>12, <2>1, <2>3
  <2>4. \A q \in Paths \ skipped' : disk'[q] # NoFile => Stands(q)'
    BY <2>2 DEF Stands
  <2>. QED
    BY <1>11, <2>0, <2>1, <2>3, <2>4 DEF Standing
<1>14. ASSUME NEW v \in plan.vanished, MoveDeletes(v)
       PROVE  Standing'
  <2>1. /\ phase = "apply" /\ plan.moving = {} /\ DOMAIN rows' = DOMAIN rows \ {plan.match[v]}
        /\ \A i \in DOMAIN rows' : rows'[i] = rows[i]
        /\ plan'.match = plan.match /\ plan'.target = plan.target
        /\ plan'.vanished = plan.vanished /\ plan'.moving = {v} /\ v \in DOMAIN plan.match
    BY <1>14, DeleteEffect
  <2>0. phase' = "apply"
    BY <1>14 DEF MoveDeletes, ReconcileUnchanged
  <2>2. ASSUME NEW q \in Paths \ skipped', disk'[q] # NoFile
        PROVE  \/ \E i \in DOMAIN rows' : /\ rows'[i].path = q /\ rows'[i].status # "missing"
                                          /\ i \notin plan'.vanished /\ Good(rows[i], q)'
               \/ NewPath(v)' = q
    <3>0. Stands(q) /\ q \in Paths
      BY <1>2, <1>5, <1>8, <2>1, <2>2 DEF Coming
    <3>1. PICK i \in DOMAIN rows : /\ rows[i].path = q /\ rows[i].status # "missing"
                                   /\ Good(rows[i], q) /\ i \notin plan.vanished
      BY <2>1, <3>0 DEF Stands
    <3>2. CASE i = plan.match[v]
      <4>1. rows[i].path = NewPath(v)
        BY <1>14, <2>1, <3>2 DEF KInv, Matched, NewPath
      <4>. QED
        BY <2>1, <3>1, <4>1 DEF NewPath
    <3>3. CASE i # plan.match[v]
      <4>1. i \in DOMAIN rows' /\ rows'[i] = rows[i]
        BY <2>1, <3>3
      <4>2. Good(rows'[i], q)
        BY <3>1, <4>1
      <4>3. Good(rows[i], q)'
        BY <1>2, <4>2 DEF SameFiles, Good, PutBack, DescribedBy
      <4>. QED
        BY <2>1, <3>1, <4>1, <4>3
    <3>. QED
      BY <3>2, <3>3
  <2>3. ASSUME NEW i \in DOMAIN rows', disk'[rows'[i].path] = NoFile
        PROVE  rows'[i].status = "missing" \/ i \in plan'.vanished
    BY <1>6, <1>8, <1>12, <2>1, <2>3
  <2>4. \A q \in Paths \ skipped' : disk'[q] # NoFile => Stands(q)' \/ Coming(q)'
    BY <2>0, <2>1, <2>2 DEF Stands, Coming
  <2>. QED
    BY <1>11, <2>0, <2>1, <2>3, <2>4 DEF Standing
<1>15. ASSUME NEW v \in plan.vanished, MoveReanchors(v)
       PROVE  Standing'
  <2>1. /\ phase = "apply" /\ v \in plan.moving /\ DOMAIN rows' = DOMAIN rows
        /\ \A i \in DOMAIN rows \ {v} : rows'[i] = rows[i]
        /\ v \in DOMAIN rows =>
             /\ rows'[v].path = NewPath(v)
             /\ rows'[v].stamp = plan.target[plan.match[v]].stamp
             /\ rows'[v].status = plan.target[plan.match[v]].status
             /\ rows'[v].content = rows[v].content
        /\ plan'.match = plan.match /\ plan'.target = plan.target
        /\ plan'.vanished = plan.vanished \ {v} /\ v \in DOMAIN plan.match
    BY <1>15, ReanchorEffect
  <2>0. phase' = "apply"
    BY <1>15 DEF MoveReanchors, ReconcileUnchanged
  <2>. DEFINE A == plan.target[plan.match[v]]
  <2>2. v \in DOMAIN rows /\ A.status # "missing" /\ \A w \in plan.moving : w = v
    BY <2>1 DEF NInv, Loop, KInv, Matched, TInv, PlanOK
  <2>3. rows[v].content # NoContent /\ KeyOf[rows[v].content] = KeyOf[A.content]
    BY <2>1 DEF KInv, Matched
  <2>4. disk[NewPath(v)] # NoFile /\ (NewPath(v) \notin skipped => Good(A, NewPath(v)))
    BY <1>7, <2>1
  <2>5. ASSUME NEW q \in Paths \ skipped', disk'[q] # NoFile
        PROVE  \E i \in DOMAIN rows' : /\ rows'[i].path = q /\ rows'[i].status # "missing"
                                       /\ i \notin plan'.vanished /\ Good(rows[i], q)'
    <3>1. CASE NewPath(v) = q
      <4>1. Good(A, q)
        BY <1>2, <2>4, <2>5, <3>1
      <4>2. Good(rows'[v], q)
        BY <2>1, <2>2, <2>3, <4>1 DEF Good, DescribedBy
      <4>3. Good(rows[v], q)'
        BY <1>2, <4>2 DEF SameFiles, Good, PutBack, DescribedBy
      <4>. QED
        BY <2>1, <2>2, <3>1, <4>3
    <3>2. CASE NewPath(v) # q
      <4>0. Stands(q) /\ q \in Paths
        BY <1>2, <1>5, <1>8, <2>2, <2>5, <3>2 DEF Coming
      <4>1. PICK i \in DOMAIN rows : /\ rows[i].path = q /\ rows[i].status # "missing"
                                     /\ Good(rows[i], q) /\ i \notin plan.vanished
        BY <2>1, <4>0 DEF Stands
      <4>2. rows'[i] = rows[i]
        BY <1>15, <2>1, <4>1
      <4>3. Good(rows'[i], q)
        BY <4>1, <4>2
      <4>4. Good(rows[i], q)'
        BY <1>2, <4>3 DEF SameFiles, Good, PutBack, DescribedBy
      <4>. QED
        BY <2>1, <4>1, <4>2, <4>4
    <3>. QED
      BY <3>1, <3>2
  <2>6. ASSUME NEW i \in DOMAIN rows', disk'[rows'[i].path] = NoFile
        PROVE  rows'[i].status = "missing" \/ i \in plan'.vanished
    <3>1. CASE i = v
      BY <1>8, <1>10, <2>1, <2>2, <2>4, <2>6, <3>1
    <3>2. CASE i # v
      BY <1>6, <1>8, <1>12, <2>1, <2>6, <3>2
    <3>. QED
      BY <3>1, <3>2
  <2>7. \A q \in Paths \ skipped' : disk'[q] # NoFile => Stands(q)'
    BY <2>5 DEF Stands
  <2>. QED
    BY <1>11, <2>0, <2>1, <2>6, <2>7 DEF Standing
<1>16. ASSUME NEW q \in Paths \ skipped', disk'[q] # NoFile, NEW i \in DOMAIN rows,
              Good(rows[i], q), rows'[i] = rows[i]
       PROVE  Good(rows[i], q)'
  BY <1>2, <1>16 DEF SameFiles, Good, PutBack, DescribedBy
<1>17. CASE ReconcileDone
  <2>1. /\ phase = "apply" /\ plan.vanished = {} /\ rows' = rows /\ phase' = "finish"
    BY <1>17 DEF ReconcileDone
  <2>2. plan.moving = {}
    BY <2>1 DEF TInv, PlanOK
  <2>3. ASSUME NEW q \in Paths \ skipped', disk'[q] # NoFile
        PROVE  Stands(q)'
    <3>1. Stands(q)
      BY <1>2, <1>5, <1>8, <2>2, <2>3 DEF Coming
    <3>2. PICK i \in DOMAIN rows : rows[i].path = q /\ rows[i].status # "missing" /\ Good(rows[i], q)
      BY <3>1 DEF Stands
    <3>3. Good(rows[i], q)'
      BY <1>16, <2>1, <2>3, <3>2
    <3>. QED
      BY <2>1, <3>2, <3>3 DEF Stands
  <2>. QED
    BY <1>6, <1>8, <1>12, <2>1, <2>3 DEF Standing
<1>18. CASE Prunes \/ Rests
  <2>1. ASSUME Prunes
        PROVE  /\ plan' = plan /\ phase' = phase /\ DOMAIN rows' \subseteq DOMAIN rows
               /\ \A i \in DOMAIN rows' : rows'[i] = rows[i]
               /\ \A i \in DOMAIN rows \ DOMAIN rows' : rows[i].status = "missing"
    <3>1. PICK ids \in SUBSET WithStatus("missing") : PruneMissing(ids)
      BY <2>1 DEF Prunes
    <3>. QED
      BY <3>1 DEF PruneMissing, WithStatus
  <2>2. /\ plan' = plan /\ (phase' = "apply" <=> phase = "apply") /\ DOMAIN rows' \subseteq DOMAIN rows
        /\ \A i \in DOMAIN rows' : rows'[i] = rows[i]
        /\ \A i \in DOMAIN rows \ DOMAIN rows' : rows[i].status = "missing"
    BY <1>18, <2>1 DEF Rests
  <2>3. ASSUME NEW q \in Paths \ skipped', disk'[q] # NoFile
        PROVE  Stands(q)' \/ Coming(q)'
    <3>1. CASE Coming(q)
      BY <2>2, <3>1 DEF Coming, NewPath
    <3>2. CASE Stands(q)
      <4>1. PICK i \in DOMAIN rows : /\ rows[i].path = q /\ rows[i].status # "missing" /\ Good(rows[i], q)
                                     /\ phase = "apply" => i \notin plan.vanished
        BY <3>2 DEF Stands
      <4>2. i \in DOMAIN rows' /\ rows'[i] = rows[i]
        BY <2>2, <4>1
      <4>3. Good(rows[i], q)'
        BY <1>16, <2>3, <4>1, <4>2
      <4>. QED
        BY <2>2, <4>1, <4>2, <4>3 DEF Stands
    <3>. QED
      BY <1>2, <1>5, <1>8, <2>3, <3>1, <3>2
  <2>4. ASSUME NEW i \in DOMAIN rows', disk'[rows'[i].path] = NoFile
        PROVE  rows'[i].status = "missing" \/ (phase' = "apply" /\ i \in plan'.vanished)
    BY <1>6, <1>8, <1>12, <2>2, <2>4
  <2>. QED
    BY <1>11, <2>2, <2>3, <2>4 DEF Standing
<1>. QED
  BY <1>1, <1>3, <1>13, <1>14, <1>15, <1>17, <1>18, LateCases DEF Applies

(* It holds from the start with a clean index.                              *)
LEMMA StandingAlways ==
  ASSUME ~ZoneAhead
  PROVE  Spec => []Standing
<1>1. TInv /\ NInv /\ KInv /\ QInv /\ Described /\ Standing /\ [Next]_vars => Standing'
  BY StandingStep
<1>2. Init => Standing
  BY InitSInv
<1>. QED
  BY <1>1, <1>2, TInvAlways, NInvAlways, KInvAlways, QInvAlways, DescribedAlways, PTL DEF Spec

(* With the database server on UTC, whatever edits, stops, failures and     *)
(* crashes came before: after a sweep that ran to its end over a disk       *)
(* nobody changed, every examined path has exactly its file in the index,   *)
(* read since its last write, unless the file is one in whose place an      *)
(* earlier sweep read another.                                              *)
THEOREM QuietSweepsMatchTheDisk ==
  ASSUME ~ZoneAhead
  PROVE  Spec => []IndexMatchesDisk
<1>1. TInv /\ Known /\ Standing => IndexMatchesDisk
  <2>. SUFFICES ASSUME TInv, Known, Standing, phase = "idle", outcome = "complete", quiet,
                       NEW p \in Paths \ skipped, ~PutBack(p)
                PROVE  IF disk[p] = NoFile THEN RowsAt(p) \subseteq WithStatus("missing")
                                           ELSE \E i \in RowsAt(p) : Describes(i, p)
    BY DEF IndexMatchesDisk, AfterQuietSweep
  <2>1. CASE disk[p] = NoFile
    BY <2>1 DEF Standing, RowsAt, WithStatus
  <2>2. CASE disk[p] # NoFile
    <3>1. Stands(p)
      BY <2>2 DEF Standing, Coming
    <3>2. PICK i \in DOMAIN rows : rows[i].path = p /\ Good(rows[i], p)
      BY <3>1 DEF Stands
    <3>3. Describes(i, p)
      BY <3>2 DEF Good, DescribedBy, Describes
    <3>. QED
      BY <2>2, <3>2, <3>3 DEF RowsAt
  <2>. QED
    BY <2>1, <2>2
<1>2. KInv => Known
  BY DEF KInv
<1>. QED
  BY <1>1, <1>2, TInvAlways, KInvAlways, StandingAlways, PTL

(* Only Finish ends a complete sweep, and nothing else writes the root.     *)
LEMMA RootKept ==
  ASSUME [Next]_vars, phase' = "idle", outcome' = "complete"
  PROVE  Finish \/ UNCHANGED <<root, phase>>
<1>. DEFINE Goal == Finish \/ UNCHANGED <<root, phase>>
<1>1. CASE Disk
  BY <1>1 DEF Disk, Write, Rename, Delete, Settle, Outage, Edit
<1>2. CASE Sweeper
  <2>1. Walker => Goal
    BY DEF Walker, WalkVisit, WalkStops, EndOfTree, WalkUnchanged
  <2>2. \A p \in Paths : Worker(p) => Goal
    BY DEF Worker, WorkerStat, WorkerTouches, WorkerReads, WorkerCannotRead, WorkerStores, WalkUnchanged
  <2>3. EndWalk => Goal
    BY DEF EndWalk
  <2>4. Reconciler => Goal
    BY DEF Reconciler, ReconcileRefused, ReconcilePlans, ReconcileDone, MarkMissing, MoveDeletes,
           MoveReanchors
  <2>. QED
    BY <1>2, <2>1, <2>2, <2>3, <2>4 DEF Sweeper
<1>3. CASE Failure
  BY <1>3 DEF Failure, RootUnreadable, WalkCut, EndOfTree, ReconcileFails,
              FinishUnreported, RequestStop, Crash, WorkerStoreFails, WorkerLosesItem, WalkUnchanged
<1>4. CASE (\E ids \in SUBSET WithStatus("missing") : PruneMissing(ids)) \/ UNCHANGED vars
  BY <1>4 DEF PruneMissing, vars
<1>5. CASE \E base \in {"counted", "clock", "none"} : StartSweep(base)
  BY <1>5 DEF StartSweep
<1>. QED
  BY <1>1, <1>2, <1>3, <1>4, <1>5 DEF Next

(* A quiet sweep without errors leaves one ok row for each file.            *)
LEMMA OkRowsAreFiles ==
  ASSUME TInv, Standing, quiet, outcome = "complete", phase # "apply", ~errored, skipped = {}
  PROVE  Cardinality(WithStatus("ok")) = Cardinality({p \in Paths : disk[p] # NoFile})
<1>. DEFINE Files == {p \in Paths : disk[p] # NoFile}
            Oks == WithStatus("ok")
            at == [i \in Oks |-> rows[i].path]
<1>1. RowsOK
  BY DEF TInv
<1>2. IsFiniteSet(Oks)
  BY <1>1, RowsFinite DEF WithStatus
<1>3. \A i \in Oks : i \in DOMAIN rows /\ rows[i].path \in Files
  BY <1>1 DEF WithStatus, Standing, RowsOK, Row
<1>4. \A i, j \in Oks : rows[i].path = rows[j].path => i = j
  BY <1>1, <1>3 DEF RowsOK, OnePerPath
<1>5. ASSUME NEW p \in Files
      PROVE  \E i \in Oks : rows[i].path = p
  <2>1. Stands(p)
    BY <1>5 DEF Standing, Coming
  <2>. QED
    BY <2>1 DEF Stands, Good, WithStatus
<1>. HIDE DEF Files, Oks
<1>6. at \in [Oks -> Files] /\ \A i \in Oks : at[i] = rows[i].path
  BY <1>3
<1>. HIDE DEF at
<1>7. \A i, j \in Oks : at[i] = at[j] => i = j
  BY <1>4, <1>6
<1>8. \A p \in Files : \E i \in Oks : at[i] = p
  BY <1>5, <1>6
<1>9. at \in Bijection(Oks, Files)
  BY <1>6, <1>7, <1>8, Fun_IsBij
<1>10. ExistsBijection(Oks, Files)
  BY <1>9 DEF ExistsBijection
<1>11. Cardinality(Files) = Cardinality(Oks)
  BY <1>2, <1>10, FS_Bijection
<1>. QED
  BY <1>11 DEF Files, Oks

(* Finish counts those rows, and no later step changes the files unnoticed. *)
LEMMA OkRootStep ==
  ASSUME TInv, KInv, Standing, OkRootCountsDisk, [Next]_vars
  PROVE  OkRootCountsDisk'
<1>. SUFFICES ASSUME phase' = "idle", outcome' = "complete", quiet', skipped' = {}, root'.status = "ok"
              PROVE  root'.count = Cardinality({p \in Paths : disk'[p] # NoFile})
  BY DEF OkRootCountsDisk, AfterQuietSweep
<1>1. /\ Judged /\ UNCHANGED skipped /\ SameFiles
  BY LateCases DEF Judged
<1>2. {p \in Paths : disk'[p] # NoFile} = {p \in Paths : disk[p] # NoFile}
  BY <1>1 DEF SameFiles
<1>3. CASE Finish
  <2>1. /\ phase = "finish" /\ outcome = "complete" /\ quiet
        /\ root' = [status |-> IF errored THEN "error" ELSE "ok", count |-> Cardinality(WithStatus("ok"))]
    BY <1>3 DEF Finish
  <2>2. ~errored
    BY <2>1
  <2>. QED
    BY <1>1, <1>2, <2>1, <2>2, OkRowsAreFiles
<1>4. CASE UNCHANGED <<root, phase>>
  <2>1. outcome = "complete" /\ quiet
    BY <1>1, <1>4 DEF Judged, KInv, Known
  <2>. QED
    BY <1>1, <1>2, <1>4, <2>1 DEF OkRootCountsDisk, AfterQuietSweep
<1>. QED
  BY <1>3, <1>4, RootKept

(* With the database server on UTC, a root shown as ok after a quiet and    *)
(* complete sweep that passed no path over counts the files that are there. *)
THEOREM OkRootsCountTheirFiles ==
  ASSUME ~ZoneAhead
  PROVE  Spec => []OkRootCountsDisk
<1>1. TInv /\ KInv /\ Standing /\ OkRootCountsDisk /\ [Next]_vars => OkRootCountsDisk'
  BY OkRootStep
<1>2. Init => OkRootCountsDisk
  BY InitSInv
<1>. QED
  BY <1>1, <1>2, TInvAlways, KInvAlways, StandingAlways, PTL DEF Spec

=============================================================================
