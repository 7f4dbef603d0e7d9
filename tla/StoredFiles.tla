---------------------------- MODULE StoredFiles ----------------------------
(***************************************************************************)
(* What store_file promises whoever reads the database: "a file is never   *)
(* left half-written" (src/index/frame_store.hpp).  Its frames appear all  *)
(* at once, together with the cameras and filters that they name, or not   *)
(* at all.  Nothing is said of workers, caches, locks and retries; module  *)
(* Equipment has those and is shown to implement this one.                 *)
(***************************************************************************)
EXTENDS Naturals

CONSTANTS Models,    \* names of rows
          NoModel,   \* in place of one where no rule makes a row
          ModelOf,   \* what a header's name stands for
          Known,     \* the rows as the scan begins
          Files      \* sequences of names: what the frames of a file mention

VARIABLES table,     \* id -> model
          frames     \* <<name, id>> of the frames

storedVars == <<table, frames>>

Mentioned(f) == {f[k] : k \in DOMAIN f}

OneIdEach(rows) == \A i, j \in DOMAIN rows : rows[i] = rows[j] => i = j

(* The frame's id is that of the row its name stands for, 0 if there is none. *)
PointsAt(n, i, rows) ==
    IF ModelOf[n] = NoModel THEN i = 0 ELSE i \in DOMAIN rows /\ rows[i] = ModelOf[n]

Init ==
    /\ {table[i] : i \in DOMAIN table} = Known
    /\ 0 \notin DOMAIN table
    /\ OneIdEach(table)
    /\ frames = {}

(* Rows stay as they are; new ones are of models the file mentions. *)
Grows(f) ==
    /\ DOMAIN table \subseteq DOMAIN table'
    /\ \A i \in DOMAIN table : table'[i] = table[i]
    /\ \A i \in DOMAIN table' \ DOMAIN table :
          i # 0 /\ table'[i] \in Models \cap {ModelOf[n] : n \in Mentioned(f)}
    /\ OneIdEach(table')

(* Every name of the file gets its frame under the one right id. *)
StoresFrames(f) ==
    /\ \A n \in Mentioned(f) : \E i \in {0} \cup DOMAIN table' : PointsAt(n, i, table')
    /\ frames' = frames \cup {e \in Mentioned(f) \X ({0} \cup DOMAIN table') : PointsAt(e[1], e[2], table')}

Store(f) == Grows(f) /\ StoresFrames(f)

Next == \E f \in Files : Store(f)

Spec == Init /\ [][Next]_storedVars
=============================================================================
