------------------------------- MODULE Sweep -------------------------------
(***************************************************************************)
(* One root of the archive and the sweep that indexes it                   *)
(* (scan_root and reconcile_root in src/scan/scanner.cpp, store_file in    *)
(* src/index/frame_store.cpp, prune-missing in src/api/http_server.cpp).   *)
(*                                                                         *)
(* The disk belongs to other programs: files are written, renamed and      *)
(* deleted at any moment, also between two steps of a sweep.  The index is *)
(* the files table; a row carries what its frames say of the file          *)
(* (content).  Two headers may share an identity fingerprint, KeyOf, which *)
(* covers seven cards only.                                                *)
(*                                                                         *)
(* Time enters in three places.  last_seen_utc and first_seen_utc are only *)
(* ever compared with the start of the current sweep, so a row keeps       *)
(* whether it was seen, and first seen, since then.  Size and mtime are    *)
(* compared for equality, so a file has a stamp, new at each write.  The   *)
(* settle gate asks whether a file was younger than settle_seconds when    *)
(* the workers started, a flag that a write may set and that time clears   *)
(* between sweeps.                                                         *)
(***************************************************************************)
EXTENDS Naturals, FiniteSets

CONSTANTS Paths,       \* the frame paths of the root, relative
          Contents,    \* headers a file can have
          Unreadable,  \* those read_header cannot parse
          Keys,        \* identity fingerprints
          KeyOf,       \* fingerprint of each header
          NoFile,      \* nothing on disk at a path
          NoContent,   \* a row without frames
          Workers,     \* size of the worker pool
          MaxSweeps,   \* bound: sweeps started
          MaxEdits,    \* bound: writes, renames and deletions on disk
          MaxTrouble,  \* bound: I/O and database failures
          ZoneAhead    \* the database server runs in a time zone east of UTC

ASSUME SweepAssumption ==
    /\ IsFiniteSet(Paths)
    /\ Unreadable \subseteq Contents
    /\ KeyOf \in [Contents -> Keys]
    /\ NoContent \notin Contents
    /\ NoFile \notin [content : Contents, stamp : Nat, recent : BOOLEAN]
    /\ Workers \in Nat \ {0}
    /\ MaxSweeps \in Nat /\ MaxEdits \in Nat /\ MaxTrouble \in Nat
    /\ ZoneAhead \in BOOLEAN

VARIABLES
    disk,      \* path -> file, or NoFile
    rows,      \* files: id -> row, for the ids present
    nextId,    \* AUTO_INCREMENT of files: an id is never used twice
    root,      \* the root's bookkeeping columns
    (* the sweep *)
    phase,     \* idle, walk, plan, apply or finish
    work,      \* path -> how far this sweep is with it
    stop,      \* ScanConfig::stop
    baseline,  \* what was read before the sweep: counted, only the clock, or none
    priorOk,   \* prior_ok_count
    errored,   \* the errored counter is not zero
    plan,      \* reconcile_root's lists and its place in the loop
    (* bounds *)
    sweeps, edits, trouble,
    (* history, for the properties *)
    before,    \* rows as the current or last sweep found them
    outcome,   \* how the last sweep ended
    quiet,     \* no disk edit since the current or last sweep began
    gone,      \* paths that had no file at some time since then
    skipped,   \* paths it did not examine: unreached, settling or lost
    swapped    \* path and stamp of a file in whose place another one was read

diskVars  == <<disk, edits>>
indexVars == <<rows, nextId, root>>
sweepVars == <<phase, work, stop, baseline, priorOk, errored, plan, sweeps>>
history   == <<before, outcome, quiet, gone, skipped, swapped>>
vars == <<disk, rows, nextId, root, phase, work, stop, baseline, priorOk, errored, plan,
          sweeps, edits, trouble, before, outcome, quiet, gone, skipped, swapped>>

Stamps == Nat
Ids    == Nat
File   == [content : Contents, stamp : Stamps, recent : BOOLEAN]
Row    == [path : Paths, status : {"ok", "error", "missing"}, stamp : Stamps,
           content : Contents \cup {NoContent}, seen : BOOLEAN, fresh : BOOLEAN,
           ahead : BOOLEAN]

(* Where the sweep is with a path; stamp and content hold from stat() and  *)
(* read_header() until the worker has dealt with the path.                 *)
Step(stage) == [at |-> stage, stamp |-> 0, content |-> NoContent]

NoPlan == [vanished |-> {}, match |-> <<>>, target |-> <<>>, moving |-> {}]

-----------------------------------------------------------------------------
(* The files table *)

RowsAt(p) == {i \in DOMAIN rows : rows[i].path = p}
WithStatus(s) == {i \in DOMAIN rows : rows[i].status = s}

(* Mutant: the id of the newest row is given out again. *)
UpsertReusesId(p, new, update) ==
    /\ rows' = IF RowsAt(p) = {}
               THEN [i \in DOMAIN rows \cup {nextId} |-> IF i = nextId THEN new ELSE rows[i]]
               ELSE [i \in DOMAIN rows |-> IF i \in RowsAt(p) THEN update[i] ELSE rows[i]]
    /\ UNCHANGED nextId

(* Insert a row, or update the one that holds the unique key. *)
Upsert(p, new, update) ==
    IF RowsAt(p) = {}
    THEN /\ rows' = [i \in DOMAIN rows \cup {nextId} |->
                        IF i = nextId THEN new ELSE rows[i]]
         /\ nextId' = nextId + 1
    ELSE /\ rows' = [i \in DOMAIN rows |->
                        IF i \in RowsAt(p) THEN update[i] ELSE rows[i]]
         /\ UNCHANGED nextId

(* Mutant: first_seen_utc is left out of the insert. *)
StoreFileUnborn(p, stamp, content) ==
    Upsert(p,
           [path |-> p, status |-> "ok", stamp |-> stamp, content |-> content,
            seen |-> TRUE, fresh |-> FALSE, ahead |-> FALSE],
           [i \in DOMAIN rows |-> [rows[i] EXCEPT !.status = "ok", !.stamp = stamp,
                                     !.content = content, !.seen = TRUE]])

(* store_file: files, frames and keywords in one transaction; the fields of *)
(* first_seen_utc survive an update.                                        *)
StoreFile(p, stamp, content) ==
    Upsert(p,
           [path |-> p, status |-> "ok", stamp |-> stamp, content |-> content,
            seen |-> TRUE, fresh |-> TRUE, ahead |-> FALSE],
           [i \in DOMAIN rows |-> [rows[i] EXCEPT !.status = "ok", !.stamp = stamp,
                                     !.content = content, !.seen = TRUE]])

(* The catch block's row: an update leaves size, mtime and frames alone.   *)
(* Its first_seen_utc is the column's default, the server's local time; to *)
(* the east of UTC that is ahead of the sweeps of the next hours.          *)
RecordError(p, stamp) ==
    Upsert(p,
           [path |-> p, status |-> "error", stamp |-> stamp, content |-> NoContent,
            seen |-> TRUE, fresh |-> TRUE, ahead |-> ZoneAhead],
           [i \in DOMAIN rows |-> [rows[i] EXCEPT !.status = "error", !.seen = TRUE]])

(* Mutant: last_seen_utc is not updated. *)
TouchUnseen(i) == rows' = [rows EXCEPT ![i].status = "ok"]

(* A known, unchanged file is only marked. *)
Touch(i) == rows' = [rows EXCEPT ![i].seen = TRUE, ![i].status = "ok"]

-----------------------------------------------------------------------------
(* The program between two sweeps *)
AtRest ==
    /\ phase = "idle"
    /\ work = [p \in Paths |-> Step("done")]
    /\ stop = FALSE
    /\ baseline = "none"
    /\ priorOk = 0
    /\ errored = FALSE
    /\ plan = NoPlan
    /\ sweeps = 0 /\ edits = 0 /\ trouble = 0
    /\ before = rows
    /\ outcome = "none"
    /\ quiet = TRUE
    /\ gone = {p \in Paths : disk[p] = NoFile}
    /\ skipped = {}
    /\ swapped = {}

(* The index of a clean sweep over the settled files c, where idOf says    *)
(* which path has which id.                                                *)
Indexed(c, idOf) ==
    /\ \A p, q \in DOMAIN idOf : idOf[p] = idOf[q] => p = q
    /\ rows = [i \in 1..Cardinality(DOMAIN idOf) |->
                 LET p == CHOOSE q \in DOMAIN idOf : idOf[q] = i
                 IN  [path |-> p, status |-> "ok", stamp |-> i, content |-> c[p],
                      seen |-> TRUE, fresh |-> FALSE, ahead |-> FALSE]]
    /\ nextId = Cardinality(DOMAIN idOf) + 1
    /\ root = [status |-> "ok", count |-> Cardinality(DOMAIN idOf)]

SettledFile(c, s) == [content |-> c, stamp |-> s, recent |-> FALSE]

(* Start: any index, and the disk it describes. *)
Init ==
    /\ \E indexed \in SUBSET Paths :
       \E idOf \in [indexed -> 1..Cardinality(indexed)],
          c \in [indexed -> Contents \ Unreadable] :
         /\ Indexed(c, idOf)
         /\ disk = [p \in Paths |-> IF p \in indexed THEN SettledFile(c[p], idOf[p]) ELSE NoFile]
    /\ AtRest

(* Start: any index, and any disk after that index was made; each path has *)
(* the file indexed there, another one, or none.                           *)
InitEdited ==
    /\ \E indexed \in SUBSET Paths :
       \E idOf \in [indexed -> 1..Cardinality(indexed)],
          c \in [indexed -> Contents \ Unreadable] :
         /\ Indexed(c, idOf)
         /\ \E kept \in SUBSET indexed : \E now \in [Paths \ kept -> Contents \cup {NoFile}] :
              disk = [p \in Paths |->
                        IF p \in kept THEN SettledFile(c[p], idOf[p])
                        ELSE IF now[p] = NoFile THEN NoFile ELSE SettledFile(now[p], 0)]
    /\ AtRest

-----------------------------------------------------------------------------
(* What other programs do to the disk *)

Edit ==
    /\ edits < MaxEdits
    /\ edits' = edits + 1
    /\ quiet' = FALSE
    /\ UNCHANGED <<rows, nextId, root, phase, work, stop, baseline, priorOk, errored, plan,
                   sweeps, trouble, before, outcome, skipped, swapped>>

(* A file is created or rewritten in place; a tool that keeps an old mtime *)
(* makes it look settled at once.                                          *)
Write(p, c, recent) ==
    /\ Edit
    /\ disk' = [disk EXCEPT ![p] = [content |-> c, recent |-> recent,
                                    stamp |-> Cardinality(Paths) + edits + 1]]
    /\ UNCHANGED gone

Rename(p, q) ==
    /\ p # q
    /\ disk[p] # NoFile
    /\ Edit
    /\ disk' = [disk EXCEPT ![q] = disk[p], ![p] = NoFile]
    /\ gone' = gone \cup {p}

Delete(p) ==
    /\ disk[p] # NoFile
    /\ Edit
    /\ disk' = [disk EXCEPT ![p] = NoFile]
    /\ gone' = gone \cup {p}

(* The volume goes away and leaves an empty mount point behind. *)
Outage ==
    /\ Edit
    /\ disk' = [p \in Paths |-> NoFile]
    /\ gone' = Paths

(* settle_seconds pass without another write.  A worker takes the time once, *)
(* when it starts, so what settles later stays unsettled for its sweep.      *)
Settle(p) ==
    /\ phase = "idle"
    /\ disk[p] # NoFile
    /\ disk[p].recent
    /\ disk' = [disk EXCEPT ![p].recent = FALSE]
    /\ UNCHANGED <<rows, nextId, root, phase, work, stop, baseline, priorOk, errored, plan, sweeps,
                   edits, trouble, before, outcome, quiet, gone, skipped, swapped>>

-----------------------------------------------------------------------------
(* scan_root: start and directory walk *)

(* scan_start and prior_ok_count are read before the workers start, in one *)
(* try block: without a clock the sweep still indexes but will not         *)
(* reconcile, and a count that fails alone stays 0.  A row whose           *)
(* first_seen_utc runs ahead still counts as first seen by this sweep.     *)
StartSweep(base) ==
    /\ phase = "idle"
    /\ sweeps < MaxSweeps
    /\ base = "counted" \/ trouble < MaxTrouble
    /\ sweeps' = sweeps + 1
    /\ trouble' = IF base = "counted" THEN trouble ELSE trouble + 1
    /\ baseline' = base
    /\ priorOk' = IF base = "counted" THEN Cardinality(WithStatus("ok")) ELSE 0
    /\ phase' = "walk"
    /\ work' = [p \in Paths |-> Step("tree")]
    /\ stop' = FALSE
    /\ errored' = FALSE
    /\ plan' = NoPlan
    /\ rows' = [i \in DOMAIN rows |-> [rows[i] EXCEPT !.seen = FALSE, !.fresh = rows[i].ahead]]
    /\ before' = rows'
    /\ outcome' = "running"
    /\ quiet' = TRUE
    /\ gone' = {p \in Paths : disk[p] = NoFile}
    /\ skipped' = {}
    /\ UNCHANGED <<disk, edits, nextId, root, swapped>>

At(stage) == {p \in Paths : work[p].at = stage}

Advance(p, stage) == work' = [work EXCEPT ![p] = Step(stage)]

WalkUnchanged == UNCHANGED <<disk, edits, root, phase, stop, baseline, priorOk, plan, sweeps,
                             before, outcome, quiet, gone>>

(* The walk reaches the directory entry of p and queues a file it finds. *)
WalkVisit(p) ==
    /\ phase = "walk"
    /\ ~stop
    /\ p \in At("tree")
    /\ Advance(p, IF disk[p] = NoFile THEN "done" ELSE "queued")
    /\ WalkUnchanged
    /\ UNCHANGED <<rows, nextId, trouble, errored, skipped, swapped>>

EndOfTree ==
    /\ work' = [p \in Paths |-> IF p \in At("tree") THEN Step("done") ELSE work[p]]
    /\ skipped' = skipped \cup At("tree")
    /\ WalkUnchanged
    /\ UNCHANGED <<rows, nextId, errored, swapped>>

(* The root directory itself cannot be opened: the workers are joined and  *)
(* scan_root throws before it reconciles or writes the pass back.          *)
RootUnreadable ==
    /\ phase = "walk"
    /\ At("tree") = Paths
    /\ trouble < MaxTrouble
    /\ trouble' = trouble + 1
    /\ phase' = "idle"
    /\ outcome' = "failed"
    /\ work' = [p \in Paths |-> Step("done")]
    /\ UNCHANGED <<disk, edits, rows, nextId, root, stop, baseline, priorOk, errored, plan,
                   sweeps, before, quiet, gone, skipped, swapped>>

(* if (stop_requested()) break; *)
WalkStops ==
    /\ phase = "walk"
    /\ stop
    /\ At("tree") # {}
    /\ EndOfTree
    /\ UNCHANGED trouble

(* increment(ec) fails on a directory: the iterator becomes the end        *)
(* iterator and the loop ends as if the tree were exhausted.               *)
WalkCut ==
    /\ phase = "walk"
    /\ At("tree") # {}
    /\ trouble < MaxTrouble
    /\ trouble' = trouble + 1
    /\ EndOfTree

-----------------------------------------------------------------------------
(* scan_root: the workers *)

InFlight == At("stat") \cup At("read")

(* pop(), the stop check, stat() and the settle gate. *)
WorkerStat(p) ==
    /\ p \in At("queued")
    /\ Cardinality(InFlight) < Workers
    /\ \/ /\ stop \/ disk[p] = NoFile
          /\ Advance(p, "done")
          /\ skipped' = IF stop THEN skipped \cup {p} ELSE skipped
       \/ /\ ~stop /\ disk[p] # NoFile
          /\ disk[p].recent
          /\ Advance(p, "done")
          /\ skipped' = skipped \cup {p}
       \/ /\ ~stop /\ disk[p] # NoFile
          /\ ~disk[p].recent
          /\ work' = [work EXCEPT ![p].at = "stat", ![p].stamp = disk[p].stamp]
          /\ UNCHANGED skipped
    /\ WalkUnchanged
    /\ UNCHANGED <<rows, nextId, trouble, errored, swapped>>

(* Mutant: an error row is trusted like any other. *)
UnchangedStamp(i, p) == rows[i].stamp = work[p].stamp

Unchanged(i, p) == rows[i].status = "ok" /\ rows[i].stamp = work[p].stamp

(* A known, cleanly indexed and unchanged file is only marked as seen. *)
WorkerTouches(p) ==
    /\ p \in At("stat")
    /\ \E i \in RowsAt(p) : Unchanged(i, p) /\ Touch(i)
    /\ Advance(p, "done")
    /\ WalkUnchanged
    /\ UNCHANGED <<nextId, trouble, errored, skipped, swapped>>

NeedsReading(p) == p \in At("stat") /\ \A i \in RowsAt(p) : ~Unchanged(i, p)

Readable(p) == disk[p] # NoFile /\ disk[p].content \notin Unreadable

(* read_header sees the file as it is now, not as it was at stat(). *)
WorkerReads(p) ==
    /\ NeedsReading(p)
    /\ Readable(p)
    /\ work' = [work EXCEPT ![p].at = "read", ![p].content = disk[p].content]
    /\ swapped' = IF disk[p].stamp = work[p].stamp THEN swapped
                ELSE swapped \cup {<<p, work[p].stamp>>}
    /\ WalkUnchanged
    /\ UNCHANGED <<rows, nextId, trouble, errored, skipped>>

WorkerCannotRead(p) ==
    /\ NeedsReading(p)
    /\ ~Readable(p)
    /\ RecordError(p, work[p].stamp)
    /\ errored' = TRUE
    /\ Advance(p, "done")
    /\ WalkUnchanged
    /\ UNCHANGED <<trouble, skipped, swapped>>

WorkerStores(p) ==
    /\ p \in At("read")
    /\ StoreFile(p, work[p].stamp, work[p].content)
    /\ Advance(p, "done")
    /\ WalkUnchanged
    /\ UNCHANGED <<trouble, errored, skipped, swapped>>

(* store_file gave up: the transaction is rolled back and an error row is  *)
(* written instead.                                                        *)
WorkerStoreFails(p) ==
    /\ p \in At("read")
    /\ trouble < MaxTrouble
    /\ trouble' = trouble + 1
    /\ RecordError(p, work[p].stamp)
    /\ errored' = TRUE
    /\ Advance(p, "done")
    /\ skipped' = skipped \cup {p}
    /\ WalkUnchanged
    /\ UNCHANGED swapped

(* The worker's connection is gone: the statement and the best-effort      *)
(* error row both fail, and nothing is written for p.                      *)
WorkerLosesItem(p) ==
    /\ p \in InFlight
    /\ trouble < MaxTrouble
    /\ trouble' = trouble + 1
    /\ errored' = TRUE
    /\ Advance(p, "done")
    /\ skipped' = skipped \cup {p}
    /\ WalkUnchanged
    /\ UNCHANGED <<rows, nextId, swapped>>

(* queue.close(), every worker joined, and the check before reconciling. *)
EndWalk ==
    /\ phase = "walk"
    /\ At("done") = Paths
    /\ LET reconcile == baseline # "none" /\ ~stop
       IN  /\ phase' = IF reconcile THEN "plan" ELSE "finish"
           /\ outcome' = IF reconcile THEN outcome ELSE "cancelled"
    /\ UNCHANGED <<disk, edits, rows, nextId, root, work, stop, baseline, priorOk, errored, plan,
                   sweeps, trouble, before, quiet, gone, skipped, swapped>>

-----------------------------------------------------------------------------
(* reconcile_root *)

ReconcileUnchanged == UNCHANGED <<disk, edits, nextId, work, stop, baseline, priorOk, errored,
                                  sweeps, before, quiet, gone, skipped, swapped>>

SeenNow == {i \in DOMAIN rows : rows[i].seen}

(* Mutant: only a sweep that saw nothing at all is refused. *)
UnhealthyIfEmpty == priorOk > 0 /\ SeenNow = {}

(* The healthy-sweep guard; prior_ok_count / 2 is an integer division. *)
Unhealthy ==
    /\ priorOk > 0
    /\ \/ SeenNow = {}
       \/ Cardinality(SeenNow) < priorOk \div 2

ReconcileRefused ==
    /\ phase = "plan"
    /\ Unhealthy
    /\ phase' = "finish"
    /\ outcome' = "refused"
    /\ ReconcileUnchanged
    /\ UNCHANGED <<rows, root, plan, trouble>>

Vanished == {i \in DOMAIN rows : rows[i].status # "missing" /\ ~rows[i].seen}
(* Mutant: last_seen_utc for first_seen_utc. *)
AppearedIfSeen == {i \in DOMAIN rows : rows[i].seen}

Appeared == {i \in DOMAIN rows : rows[i].fresh}

(* content_key: empty for a row without frames, which nothing matches. *)
SameKey(i, j) ==
    /\ rows[i].content # NoContent
    /\ rows[j].content # NoContent
    /\ KeyOf[rows[i].content] = KeyOf[rows[j].content]

(* Mutant: two vanished rows may claim one new path. *)
MoveTargetsFirstCome(v) ==
    {a \in Appeared : SameKey(v, a) /\ \A b \in Appeared : SameKey(v, b) => b = a}

(* A move is assumed only where the key is unique on both sides. *)
MoveTargets(v) ==
    {a \in Appeared :
        /\ SameKey(v, a)
        /\ \A b \in Appeared : SameKey(v, b) => b = a
        /\ \A w \in Vanished : SameKey(v, w) => w = v}

ReconcilePlans ==
    /\ phase = "plan"
    /\ ~Unhealthy
    /\ LET moved == {v \in Vanished : MoveTargets(v) # {}}
       IN  plan' = [vanished |-> Vanished,
                    match    |-> [v \in moved |-> CHOOSE a \in MoveTargets(v) : TRUE],
                    target   |-> [a \in Appeared |-> rows[a]],
                    moving   |-> {}]
    /\ phase' = "apply"
    /\ ReconcileUnchanged
    /\ UNCHANGED <<rows, root, outcome, trouble>>

(* One pass of the loop for a vanished row without a match. *)
MarkMissing(v) ==
    /\ phase = "apply"
    /\ plan.moving = {}
    /\ v \in plan.vanished
    /\ v \notin DOMAIN plan.match
    /\ rows' = [i \in DOMAIN rows |->
                  IF i = v THEN [rows[i] EXCEPT !.status = "missing"] ELSE rows[i]]
    /\ plan' = [plan EXCEPT !.vanished = @ \ {v}]
    /\ ReconcileUnchanged
    /\ UNCHANGED <<root, phase, outcome, trouble>>

(* A matched row: first the row of this sweep is deleted, then, as a       *)
(* second statement of its own, the old row takes its place.               *)
MoveDeletes(v) ==
    /\ phase = "apply"
    /\ plan.moving = {}
    /\ v \in plan.vanished \cap DOMAIN plan.match
    /\ rows' = [i \in DOMAIN rows \ {plan.match[v]} |-> rows[i]]
    /\ plan' = [plan EXCEPT !.moving = {v}]
    /\ ReconcileUnchanged
    /\ UNCHANGED <<root, phase, outcome, trouble>>

MoveReanchors(v) ==
    /\ phase = "apply"
    /\ v \in plan.moving
    /\ LET A == plan.target[plan.match[v]]
       IN  rows' = [i \in DOMAIN rows |->
                      IF i = v THEN [rows[i] EXCEPT !.path = A.path, !.stamp = A.stamp,
                                                    !.status = A.status, !.seen = TRUE]
                               ELSE rows[i]]
    /\ plan' = [plan EXCEPT !.vanished = @ \ {v}, !.moving = {}]
    /\ ReconcileUnchanged
    /\ UNCHANGED <<root, phase, outcome, trouble>>

ReconcileDone ==
    /\ phase = "apply"
    /\ plan.vanished = {}
    /\ phase' = "finish"
    /\ outcome' = "complete"
    /\ plan' = NoPlan
    /\ ReconcileUnchanged
    /\ UNCHANGED <<rows, root, trouble>>

(* A statement fails: the exception leaves reconcile_root where it is and  *)
(* scan_root logs it and goes on.                                          *)
ReconcileFails ==
    /\ phase \in {"plan", "apply"}
    /\ trouble < MaxTrouble
    /\ trouble' = trouble + 1
    /\ phase' = "finish"
    /\ outcome' = "failed"
    /\ plan' = NoPlan
    /\ ReconcileUnchanged
    /\ UNCHANGED <<rows, root>>

(* Mutant: every row of the root is counted. *)
FinishCountsAll ==
    /\ phase = "finish"
    /\ root' = [status |-> IF errored THEN "error" ELSE "ok",
                count  |-> Cardinality(DOMAIN rows)]
    /\ phase' = "idle"
    /\ UNCHANGED <<disk, edits, rows, nextId, work, stop, baseline, priorOk, errored, plan,
                   sweeps, trouble, before, outcome, quiet, gone, skipped, swapped>>

(* The pass is written back to the root, also after a cancelled sweep. *)
Finish ==
    /\ phase = "finish"
    /\ root' = [status |-> IF errored THEN "error" ELSE "ok",
                count  |-> Cardinality(WithStatus("ok"))]
    /\ phase' = "idle"
    /\ UNCHANGED <<disk, edits, rows, nextId, work, stop, baseline, priorOk, errored, plan,
                   sweeps, trouble, before, outcome, quiet, gone, skipped, swapped>>

(* The bookkeeping is best effort: the root keeps what the last pass said. *)
FinishUnreported ==
    /\ phase = "finish"
    /\ trouble < MaxTrouble
    /\ trouble' = trouble + 1
    /\ phase' = "idle"
    /\ outcome' = "unreported"
    /\ UNCHANGED <<disk, edits, rows, nextId, root, work, stop, baseline, priorOk, errored, plan,
                   sweeps, before, quiet, gone, skipped, swapped>>

-----------------------------------------------------------------------------
(* Around the sweep *)

(* The daemon asks a running scan to stop. *)
RequestStop ==
    /\ phase \notin {"idle", "finish"}
    /\ ~stop
    /\ trouble < MaxTrouble
    /\ trouble' = trouble + 1
    /\ stop' = TRUE
    /\ UNCHANGED <<disk, edits, rows, nextId, root, phase, work, baseline, priorOk, errored, plan,
                   sweeps, before, outcome, quiet, gone, skipped, swapped>>

(* The daemon dies in the middle of a sweep; what was committed stays. *)
Crash ==
    /\ phase # "idle"
    /\ trouble < MaxTrouble
    /\ trouble' = trouble + 1
    /\ phase' = "idle"
    /\ outcome' = "crashed"
    /\ work' = [p \in Paths |-> Step("done")]
    /\ plan' = NoPlan
    /\ UNCHANGED <<disk, edits, rows, nextId, root, stop, baseline, priorOk, errored,
                   sweeps, before, quiet, gone, skipped, swapped>>

(* POST /db/prune-missing, of all missing rows or of those older than some *)
(* days: frames and memberships go with the rows.                          *)
PruneMissing(ids) ==
    /\ ids # {}
    /\ rows' = [i \in DOMAIN rows \ ids |-> rows[i]]
    /\ UNCHANGED <<disk, edits, nextId, root, phase, work, stop, baseline, priorOk, errored, plan,
                   sweeps, trouble, before, outcome, quiet, gone, skipped, swapped>>

Walker == (\E p \in Paths : WalkVisit(p)) \/ WalkStops
Worker(p) ==
    \/ WorkerStat(p) \/ WorkerTouches(p) \/ WorkerReads(p)
    \/ WorkerCannotRead(p) \/ WorkerStores(p)
Reconciler ==
    \/ ReconcileRefused \/ ReconcilePlans \/ ReconcileDone
    \/ \E v \in plan.vanished : MarkMissing(v) \/ MoveDeletes(v) \/ MoveReanchors(v)
Sweeper == Walker \/ (\E p \in Paths : Worker(p)) \/ EndWalk \/ Reconciler \/ Finish

Failure ==
    \/ RootUnreadable \/ WalkCut \/ ReconcileFails \/ FinishUnreported \/ RequestStop \/ Crash
    \/ \E p \in Paths : WorkerStoreFails(p) \/ WorkerLosesItem(p)

Disk ==
    \/ \E p \in Paths, c \in Contents, recent \in BOOLEAN : Write(p, c, recent)
    \/ \E p, q \in Paths : Rename(p, q)
    \/ \E p \in Paths : Delete(p) \/ Settle(p)
    \/ Outage

Next ==
    \/ Disk
    \/ \E base \in {"counted", "clock", "none"} : StartSweep(base)
    \/ Sweeper
    \/ Failure
    \/ \E ids \in SUBSET WithStatus("missing") : PruneMissing(ids)

Spec == Init /\ [][Next]_vars

EditedSpec == InitEdited /\ [][Next]_vars

-----------------------------------------------------------------------------
(* The type of the state; no two rows claim one path, although workers    *)
(* insert while rows are re-anchored by statements of their own.           *)
TypeOK ==
    /\ disk \in [Paths -> File \cup {NoFile}]
    /\ DOMAIN rows \subseteq 1..(nextId - 1)
    /\ \A i \in DOMAIN rows : rows[i] \in Row
    /\ \A i, j \in DOMAIN rows : rows[i].path = rows[j].path => i = j
    /\ nextId \in Nat \ {0}
    /\ phase \in {"idle", "walk", "plan", "apply", "finish"}
    /\ baseline \in {"counted", "clock", "none"}
    /\ stop \in BOOLEAN /\ errored \in BOOLEAN

AfterQuietSweep == phase = "idle" /\ outcome = "complete" /\ quiet

Describes(i, p) ==
    IF disk[p].content \in Unreadable
    THEN rows[i].status = "error"
    ELSE /\ rows[i].status = "ok"
         /\ rows[i].content # NoContent
         /\ rows[i].stamp = disk[p].stamp
         /\ KeyOf[rows[i].content] = KeyOf[disk[p].content]

(* The file at p is one in whose place an earlier sweep read another.      *)
PutBack(p) == disk[p] # NoFile /\ <<p, disk[p].stamp>> \in swapped

(* What a sweep is for: if it ran to its end over a disk nobody changed,   *)
(* then for every path it examined the index has exactly the file that is  *)
(* there, read since its last write, and a row for no other path counts as *)
(* present; whatever edits, crashes and failures came before.  Only a file *)
(* that was away while an earlier sweep, which had its stamp, read another *)
(* one at its path, and was put back there, is taken for that other one.   *)
IndexMatchesDisk ==
    AfterQuietSweep =>
        \A p \in {q \in Paths \ skipped : ~PutBack(q)} :
            IF disk[p] = NoFile THEN RowsAt(p) \subseteq WithStatus("missing")
                                ELSE \E i \in RowsAt(p) : Describes(i, p)

(* The bookkeeping agrees with the disk: a root shown as ok after such a   *)
(* sweep, with no path passed over, counts the files that are there.       *)
OkRootCountsDisk ==
    AfterQuietSweep /\ skipped = {} /\ root.status = "ok" =>
        root.count = Cardinality({p \in Paths : disk[p] # NoFile})

(* A file renamed between two sweeps keeps its row, hence its frame ids,   *)
(* tags and collections: if its fingerprint is unique in the index and on  *)
(* disk and its new path had no row, the old row now stands there.         *)
HasKey(i, k) == before[i].content # NoContent /\ KeyOf[before[i].content] = k
OnDiskWithKey(k) == {p \in Paths : disk[p] # NoFile /\ KeyOf[disk[p].content] = k}

RenamedTo(i, q) ==
    /\ before[i].status = "ok"
    /\ disk[before[i].path] = NoFile
    /\ \A j \in DOMAIN before : before[j].path # q
    /\ \A j \in DOMAIN before : HasKey(j, KeyOf[before[i].content]) => j = i
    /\ OnDiskWithKey(KeyOf[before[i].content]) = {q}
    /\ disk[q].content \notin Unreadable
    /\ q \notin skipped

RenameKeepsRow ==
    AfterQuietSweep =>
        \A i \in DOMAIN before, q \in Paths :
            RenamedTo(i, q) => /\ i \in DOMAIN rows
                               /\ rows[i].path = q
                               /\ rows[i].status = "ok"

(* No move is guessed: a row that changed its path was the only one with   *)
(* its fingerprint whose file is gone, and its new path the only new one   *)
(* with that fingerprint, so tags never end up on another exposure.        *)
MovedBy(i) == i \in DOMAIN rows /\ rows[i].path # before[i].path

NoMoveIsGuessed ==
    AfterQuietSweep =>
        \A i \in DOMAIN before : MovedBy(i) =>
            LET k == KeyOf[before[i].content] IN
            /\ \A j \in DOMAIN before \ {i} :
                  HasKey(j, k) /\ before[j].status # "missing" => disk[before[j].path] # NoFile
            /\ \A q \in OnDiskWithKey(k) \ skipped :
                  \/ q = rows[i].path
                  \/ disk[q].content \in Unreadable
                  \/ \E j \in DOMAIN before : before[j].path = q

(* Only a file that was away at some time during the sweep, or that the    *)
(* sweep did not examine, is marked missing.                               *)
TurnsMissing(i) ==
    i \in DOMAIN rows' /\ rows[i].status # "missing" /\ rows'[i].status = "missing"

MissingWasAwayOrSkipped ==
    [][\A i \in DOMAIN rows : TurnsMissing(i) => rows[i].path \in gone \cup skipped]_vars

(* The mount-failure guard: a sweep that could count the files the root    *)
(* held when it began marks some missing only if it saw an indexed file,   *)
(* and at least half as many as were present, the half rounded down: two   *)
(* of five will do, and one of three.  It is judged at every row that      *)
(* turns missing, by the rows as they are then.  A sweep that could not    *)
(* count (baseline "clock") has no guard, and nothing is promised of it.   *)
OkBefore == {i \in DOMAIN before : before[i].status = "ok"}

MarksMissing == \E i \in DOMAIN rows : TurnsMissing(i)

SawEnough == SeenNow # {} /\ Cardinality(SeenNow) >= Cardinality(OkBefore) \div 2

CountedOutageMarksNothing ==
    [][MarksMissing /\ baseline = "counted" => OkBefore = {} \/ SawEnough]_vars

(* A row that existed when the sweep began, and with it every tag and      *)
(* collection that refers to its frames, is only ever deleted by           *)
(* prune-missing; reconciling drops nothing but rows of this very sweep.   *)
OldRowsSurvive ==
    [][\A i \in DOMAIN rows \ DOMAIN rows' :
          rows[i].status = "missing" \/ i \notin DOMAIN before]_vars

=============================================================================
