----------------------------- MODULE Equipment -----------------------------
(***************************************************************************)
(* Cameras and filters that the scan creates on the way                    *)
(* (src/index/equipment.cpp, called inside the transaction of store_file   *)
(* in src/index/frame_store.cpp).                                          *)
(*                                                                         *)
(* Each worker resolves the names in a file's frames against its cache,    *)
(* the registry loaded once per scan, and the table, where it inserts what *)
(* is missing; all that inside the transaction that stores the file.       *)
(* Cameras and filters go through the same steps, so one table stands for  *)
(* both.  InnoDB makes an insert wait for another transaction's            *)
(* uncommitted row of the same name, and breaks a cycle of such waits by   *)
(* rolling one transaction back; an AUTO_INCREMENT id is never used twice. *)
(***************************************************************************)
EXTENDS Naturals, Sequences, FiniteSets

CONSTANTS Workers,      \* the scan's threads, with a connection and a cache each
          Names,        \* camera and filter names as headers spell them: the cache keys
          Models,       \* names of rows
          NoModel,      \* in place of one where no rule makes a row (not a ZWO camera)
          ModelOf,      \* what a header's name stands for: base_model, aliases, case
          Known,        \* the rows in the registry snapshot
          Files,        \* sequences of names: what the frames of a file mention
          MaxFiles,     \* bound: files per worker
          MaxAborts,    \* bound: transactions that fail otherwise than in a wait here
          MaxAttempts   \* kMaxAttempts

ASSUME EquipmentAssumption ==
    /\ NoModel \notin Models
    /\ ModelOf \in [Names -> Models \cup {NoModel}]
    /\ Known \subseteq Models /\ IsFiniteSet(Known)
    /\ Files \subseteq Seq(Names)
    /\ MaxFiles \in Nat /\ MaxAborts \in Nat /\ MaxAttempts \in Nat \ {0}

VARIABLES table,     \* id -> model, the committed rows
          nextId,    \* AUTO_INCREMENT
          created,   \* worker -> ids inserted by its open transaction, with their models
          cache,     \* worker -> name -> id, or 0 when there is none (-1 in the code)
          file,      \* worker -> the names of the file it stores
          todo,      \* worker -> those not yet written
          written,   \* worker -> <<name, id>> of the frames in its transaction
          attempt,   \* worker -> attempts at its file, 0 between files
          frames,    \* <<name, id>> of the committed frames
          refused,   \* history: workers whose file failed on a foreign key
          rolledBack,\* history: workers that an error cost a transaction
          filesDone, aborts

vars == <<table, nextId, created, cache, file, todo, written, attempt, frames,
          refused, rolledBack, filesDone, aborts>>

NoRows == <<>>
With(f, x, v) == [y \in DOMAIN f \cup {x} |-> IF y = x THEN v ELSE f[y]]

(* load: the registry holds the table as the scan began. *)
Init ==
    /\ nextId = Cardinality(Known) + 1
    /\ table \in [1..Cardinality(Known) -> Known]
    /\ \A i, j \in DOMAIN table : table[i] = table[j] => i = j
    /\ created = [w \in Workers |-> NoRows]
    /\ cache = [w \in Workers |-> NoRows]
    /\ file = [w \in Workers |-> <<>>]
    /\ todo = [w \in Workers |-> <<>>]
    /\ written = [w \in Workers |-> {}]
    /\ attempt = [w \in Workers |-> 0]
    /\ frames = {}
    /\ refused = {}
    /\ rolledBack = {}
    /\ filesDone = [w \in Workers |-> 0]
    /\ aborts = 0

Open(w) == attempt[w] > 0
IdsOf(rows, m) == {i \in DOMAIN rows : rows[i] = m}

-----------------------------------------------------------------------------
(* START TRANSACTION for the next file *)
Begin(w, f) ==
    /\ ~Open(w)
    /\ filesDone[w] < MaxFiles
    /\ attempt' = [attempt EXCEPT ![w] = 1]
    /\ file' = [file EXCEPT ![w] = f]
    /\ todo' = [todo EXCEPT ![w] = f]
    /\ UNCHANGED <<table, nextId, created, cache, written, frames, refused, rolledBack,
                   filesDone, aborts>>

(* The frame's INSERT under the id that was resolved *)
WriteFrame(w, id) ==
    /\ written' = [written EXCEPT ![w] = @ \cup {<<Head(todo[w]), id>>}]
    /\ todo' = [todo EXCEPT ![w] = Tail(@)]
    /\ UNCHANGED <<table, file, attempt, frames, refused, rolledBack, filesDone, aborts>>

HasName(w) == Open(w) /\ todo[w] # <<>>
Model(w) == ModelOf[Head(todo[w])]
Hit(w) == HasName(w) /\ Head(todo[w]) \in DOMAIN cache[w]
Missed(w) == HasName(w) /\ Head(todo[w]) \notin DOMAIN cache[w]

(* Mutant: one cache for all workers *)
CachedByAll(w, id) == cache' = [v \in Workers |-> With(cache[v], Head(todo[w]), id)]

Cached(w, id) == cache' = [cache EXCEPT ![w] = With(@, Head(todo[w]), id)]

(* The frame's foreign key holds for committed rows and for own ones. *)
Holds(w, id) == id \in {0} \cup DOMAIN table \cup DOMAIN created[w]

UseCached(w) ==
    /\ Hit(w)
    /\ Holds(w, cache[w][Head(todo[w])])
    /\ UNCHANGED <<nextId, created, cache>>
    /\ WriteFrame(w, cache[w][Head(todo[w])])

UseRegistry(w) ==
    /\ Missed(w)
    /\ \E i \in 1..Cardinality(Known) :
          /\ table[i] = Model(w)
          /\ Cached(w, i)
          /\ UNCHANGED <<nextId, created>>
          /\ WriteFrame(w, i)

UseNone(w) ==
    /\ Missed(w)
    /\ Model(w) = NoModel
    /\ Cached(w, 0)
    /\ UNCHANGED <<nextId, created>>
    /\ WriteFrame(w, 0)

(* Mutant: no unique key to wait on *)
BlockersIgnored(w) == {v \in {} : IdsOf(created[v], Model(w)) # {}}

(* Rows of that model that other workers have inserted and not committed *)
Blockers(w) == {v \in Workers \ {w} : IdsOf(created[v], Model(w)) # {}}

AsksTable(w) == Missed(w) /\ Model(w) \notin Known \cup {NoModel}

(* INSERT IGNORE finds the row; the read-back sees the committed row. *)
FindsRow(w) ==
    /\ AsksTable(w)
    /\ Blockers(w) = {}
    /\ \E i \in IdsOf(table, Model(w)) \cup IdsOf(created[w], Model(w)) :
          /\ Cached(w, i)
          /\ UNCHANGED <<nextId, created>>
          /\ WriteFrame(w, i)

CreatesRow(w) ==
    /\ AsksTable(w)
    /\ Blockers(w) = {}
    /\ IdsOf(table, Model(w)) \cup IdsOf(created[w], Model(w)) = {}
    /\ created' = [created EXCEPT ![w] = With(@, nextId, Model(w))]
    /\ nextId' = nextId + 1
    /\ Cached(w, nextId)
    /\ WriteFrame(w, nextId)

-----------------------------------------------------------------------------
(* Ends of a transaction *)

(* Mutant: no ROLLBACK when the transaction fails *)
CloseKeepsRows(w) ==
    /\ UNCHANGED created
    /\ written' = [written EXCEPT ![w] = {}]
    /\ UNCHANGED <<nextId, cache>>

Close(w) ==
    /\ created' = [created EXCEPT ![w] = NoRows]
    /\ written' = [written EXCEPT ![w] = {}]
    /\ UNCHANGED <<nextId, cache>>

EndFile(w) ==
    /\ attempt' = [attempt EXCEPT ![w] = 0]
    /\ file' = [file EXCEPT ![w] = <<>>]
    /\ todo' = [todo EXCEPT ![w] = <<>>]
    /\ filesDone' = [filesDone EXCEPT ![w] = @ + 1]

Commit(w) ==
    /\ Open(w)
    /\ todo[w] = <<>>
    /\ table' = [i \in DOMAIN table \cup DOMAIN created[w] |->
                   IF i \in DOMAIN table THEN table[i] ELSE created[w][i]]
    /\ frames' = frames \cup written[w]
    /\ Close(w)
    /\ EndFile(w)
    /\ UNCHANGED <<refused, rolledBack, aborts>>

(* A foreign key fails: not retryable, the file gets an error row. *)
Refused(w) ==
    /\ Hit(w)
    /\ ~Holds(w, cache[w][Head(todo[w])])
    /\ refused' = refused \cup {w}
    /\ Close(w)
    /\ EndFile(w)
    /\ UNCHANGED <<table, frames, rolledBack, aborts>>

(* A wait for another transaction's row may end as deadlock victim or in a *)
(* lock wait timeout, both of which are retryable.                         *)
Contended(w) == AsksTable(w) /\ Blockers(w) # {} /\ UNCHANGED aborts

(* Any statement may fail for another reason, retryable or not. *)
Faulted == aborts < MaxAborts /\ aborts' = aborts + 1

(* The transaction is rolled back; the cache is left as it is. *)
RollsBack(w) ==
    /\ Open(w)
    /\ rolledBack' = rolledBack \cup {w}
    /\ Close(w)
    /\ UNCHANGED <<table, frames, refused>>

(* Mutant: the new transaction goes on where the old one was rolled back *)
RetryGoesOn(w) ==
    /\ RollsBack(w)
    /\ Contended(w) \/ Faulted
    /\ attempt[w] < MaxAttempts
    /\ attempt' = [attempt EXCEPT ![w] = @ + 1]
    /\ UNCHANGED <<file, todo, filesDone>>

(* A retryable error: again from the start, up to MaxAttempts times *)
Retry(w) ==
    /\ RollsBack(w)
    /\ Contended(w) \/ Faulted
    /\ attempt[w] < MaxAttempts
    /\ attempt' = [attempt EXCEPT ![w] = @ + 1]
    /\ todo' = [todo EXCEPT ![w] = file[w]]
    /\ UNCHANGED <<file, filesDone>>

(* The error leaves store_file: a retryable one at the last attempt, any   *)
(* other at whichever it meets.                                            *)
GiveUp(w) ==
    /\ RollsBack(w)
    /\ \/ Contended(w) /\ attempt[w] = MaxAttempts
       \/ Faulted
    /\ EndFile(w)

(* Every file is dealt with. *)
Finished == (\A w \in Workers : ~Open(w) /\ filesDone[w] = MaxFiles) /\ UNCHANGED vars

Next ==
    \/ \E w \in Workers :
          \/ \E f \in Files : Begin(w, f)
          \/ UseCached(w) \/ UseRegistry(w) \/ UseNone(w) \/ FindsRow(w) \/ CreatesRow(w)
          \/ Commit(w) \/ Refused(w) \/ Retry(w) \/ GiveUp(w)
    \/ Finished

Spec == Init /\ [][Next]_vars

-----------------------------------------------------------------------------
(* Properties *)

(* Types; an open transaction's rows are nobody else's, and a name that is *)
(* cached has the row it was cached for wherever that row exists.          *)
Id == 1..(nextId - 1)
TypeOK ==
    /\ nextId \in Nat \ {0}
    /\ DOMAIN table \subseteq Id /\ \A i \in DOMAIN table : table[i] \in Models
    /\ file \in [Workers -> Seq(Names)] /\ todo \in [Workers -> Seq(Names)]
    /\ \A w \in Workers :
          /\ DOMAIN created[w] \subseteq Id \ DOMAIN table
          /\ \A i \in DOMAIN created[w] : created[w][i] \in Models
          /\ \A v \in Workers \ {w} : DOMAIN created[v] \cap DOMAIN created[w] = {}
          /\ \A n \in DOMAIN cache[w] :
                /\ cache[w][n] \in {0} \cup Id
                /\ cache[w][n] \in DOMAIN table => table[cache[w][n]] = ModelOf[n]
          /\ attempt[w] \in 0..MaxAttempts
          /\ ~Open(w) => created[w] = NoRows /\ written[w] = {} /\ todo[w] = <<>>
    /\ refused \cup rolledBack \subseteq Workers
    /\ aborts \in 0..MaxAborts

(* Workers converge on one row per camera or filter, whatever they insert  *)
(* at the same time and whichever transactions are rolled back             *)
(* (equipment.cpp, INSERT IGNORE and read-back).                           *)
OneIdPerModel ==
    /\ \A i, j \in DOMAIN table : table[i] = table[j] => i = j
    /\ \A v, w \in Workers : \A i \in DOMAIN created[v] :
          /\ \A j \in DOMAIN created[w] : created[v][i] = created[w][j] => v = w /\ i = j
          /\ \A j \in DOMAIN table : table[j] # created[v][i]

(* A committed frame points at the row of the name in its header, and has  *)
(* none only if no rule makes one (resolve and the frames' INSERT).        *)
FramesPointRight ==
    \A f \in frames :
       IF ModelOf[f[1]] = NoModel THEN f[2] = 0
                                  ELSE f[2] \in DOMAIN table /\ table[f[2]] = ModelOf[f[1]]

(* A file is refused by a foreign key only when the worker that stores it  *)
(* has had a transaction rolled back before, by a deadlock, a lock wait or *)
(* another error; refusals are not counted among those losses, so one does *)
(* not beget the next, and what other workers lose does not spread         *)
(* (equipment.hpp: "Not thread-safe; give each thread its own").           *)
OnlyRolledBackAreRefused == refused \subseteq rolledBack

(* Restarting the transaction is the remedy for contention                 *)
(* (frame_store.cpp, store_file): no file is refused for good.             *)
NoFileRefused == refused = {}

(* "A file is never left half-written" (frame_store.hpp:54): whatever is   *)
(* retried, rolled back or raced for, the committed tables change by whole *)
(* files, each with the equipment its frames name.                         *)
Stored == INSTANCE StoredFiles

ImplementsStoredFiles == Stored!Spec

=============================================================================
