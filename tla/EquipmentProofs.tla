-------------------------- MODULE EquipmentProofs --------------------------
(***************************************************************************)
(* Equipment, for any workers, names, models and files, and any numbers of *)
(* files, rollbacks and attempts: workers converge on one row per model,   *)
(* committed frames point at the right row, only a worker that an error     *)
(* cost a transaction is refused, and the tables that others read change   *)
(* by whole files (StoredFiles).                                           *)
(***************************************************************************)
EXTENDS Equipment, FiniteSetTheorems, TLAPS

(* Every worker has its entry in every function, and the registry's rows   *)
(* stay where they were loaded from.                                       *)
Shape ==
    /\ DOMAIN created = Workers /\ DOMAIN cache = Workers
    /\ DOMAIN written = Workers /\ DOMAIN attempt = Workers
    /\ 1..Cardinality(Known) \subseteq DOMAIN table

(* What a frame of w may point at before its transaction commits *)
Right(w, m, id) ==
    IF m = NoModel THEN id = 0
                   ELSE \/ id \in DOMAIN table /\ table[id] = m
                        \/ id \in DOMAIN created[w] /\ created[w][id] = m

(* A cached id is 0 where there is no row to have, is of the right model   *)
(* wherever its row is, and has no row only after a rollback: the cache    *)
(* outlives the transaction, whether it is tried again or given up.        *)
CachedId(w, n, id) ==
    /\ n \in Names
    /\ id \in {0} \cup Id
    /\ (id = 0) <=> (ModelOf[n] = NoModel)
    /\ id \in DOMAIN table => table[id] = ModelOf[n]
    /\ \A v \in Workers : id \in DOMAIN created[v] => created[v][id] = ModelOf[n]
    /\ Holds(w, id) \/ w \in rolledBack

CacheRight == \A w \in Workers : \A n \in DOMAIN cache[w] : CachedId(w, n, cache[w][n])

WrittenRight == \A w \in Workers : \A f \in written[w] : Right(w, ModelOf[f[1]], f[2])

IInv ==
    /\ Shape
    /\ TypeOK
    /\ OneIdPerModel
    /\ CacheRight
    /\ WrittenRight
    /\ FramesPointRight
    /\ OnlyRolledBackAreRefused

-----------------------------------------------------------------------------
(* A transaction that has inserted nothing has no ids. *)
LEMMA NoRowsLemma == DOMAIN NoRows = {}
BY DEF NoRows

(* The registry holds finitely many rows. *)
LEMMA KnownNat == Cardinality(Known) \in Nat
BY EquipmentAssumption, FS_CardinalityType

(* A scan begins with a unique name per row and empty caches. *)
LEMMA InitInv == Init => IInv
<1>. SUFFICES ASSUME Init PROVE IInv
  OBVIOUS
<1>1. Shape
  BY DEF Init, Shape
<1>2. TypeOK
  BY KnownNat, NoRowsLemma, EquipmentAssumption DEF Init, TypeOK, Id, Open
<1>3. OneIdPerModel
  BY NoRowsLemma DEF Init, OneIdPerModel
<1>4. CacheRight /\ WrittenRight
  BY NoRowsLemma DEF Init, CacheRight, WrittenRight
<1>5. FramesPointRight /\ OnlyRolledBackAreRefused
  BY DEF Init, FramesPointRight, OnlyRolledBackAreRefused
<1>. QED
  BY <1>1, <1>2, <1>3, <1>4, <1>5 DEF IInv

-----------------------------------------------------------------------------
(* A frame written under an id that is right for its name: what the cache, *)
(* the registry and the read-back have in common.                          *)
LEMMA WriteStep ==
    ASSUME IInv, NEW w \in Workers, NEW id,
           HasName(w), WriteFrame(w, id), UNCHANGED <<nextId, created>>,
           UNCHANGED cache \/ Cached(w, id),
           Right(w, Model(w), id)
    PROVE  IInv'
<1>. DEFINE n == Head(todo[w])
<1>1. n \in Names /\ Tail(todo[w]) \in Seq(Names)
  BY DEF IInv, TypeOK, HasName
<1>2. CachedId(w, n, id)
  <2>1. id \in {0} \cup Id /\ Holds(w, id)
    <3>1. id = 0 \/ id \in DOMAIN table \/ id \in DOMAIN created[w]
      BY DEF Right
    <3>2. DOMAIN table \subseteq Id /\ DOMAIN created[w] \subseteq Id
      BY DEF IInv, TypeOK
    <3>. QED
      BY <3>1, <3>2 DEF Holds
  <2>2. (id = 0) <=> (ModelOf[n] = NoModel)
    BY DEF IInv, TypeOK, Right, Model, Id
  <2>3. id \in DOMAIN table => table[id] = ModelOf[n]
    BY DEF IInv, TypeOK, Right, Model, Id
  <2>4. ASSUME NEW v \in Workers, id \in DOMAIN created[v] PROVE created[v][id] = ModelOf[n]
    <3>1. id \in Id \ DOMAIN table /\ (v # w => id \notin DOMAIN created[w])
      BY <2>4 DEF IInv, TypeOK
    <3>2. id # 0
      BY <3>1 DEF Id
    <3>. QED
      BY <2>4, <3>1, <3>2 DEF Right, Model
  <2>. QED
    BY <1>1, <2>1, <2>2, <2>3, <2>4 DEF CachedId
<1>3. Shape'
  BY DEF IInv, Shape, WriteFrame, Cached
<1>4. CacheRight'
  <2>1. SUFFICES ASSUME NEW v \in Workers, NEW m, m \in DOMAIN cache'[v]
                 PROVE  CachedId(v, m, cache[v][m])'
    BY DEF CacheRight
  <2>2. \/ m \in DOMAIN cache[v] /\ cache'[v][m] = cache[v][m]
        \/ v = w /\ m = n /\ cache'[v][m] = id
    <3>1. CASE UNCHANGED cache
      BY <2>1, <3>1
    <3>2. CASE Cached(w, id) /\ v # w
      BY <2>1, <3>2 DEF IInv, Shape, Cached
    <3>3. CASE Cached(w, id) /\ v = w
      <4>1. cache'[w] = With(cache[w], n, id)
        BY <3>3 DEF IInv, Shape, Cached
      <4>2. m \in DOMAIN cache[w] \cup {n}
        BY <2>1, <3>3, <4>1 DEF With
      <4>3. cache'[w][m] = IF m = n THEN id ELSE cache[w][m]
        BY <4>1, <4>2 DEF With
      <4>. QED
        BY <3>3, <4>2, <4>3
    <3>. QED
      BY <3>1, <3>2, <3>3
  <2>3. CachedId(v, m, cache'[v][m])
    BY <1>2, <2>2 DEF IInv, CacheRight
  <2>. QED
    BY <2>3 DEF CachedId, Id, Holds, WriteFrame
<1>5. TypeOK'
  <2>1. todo' \in [Workers -> Seq(Names)]
    BY <1>1 DEF IInv, TypeOK, WriteFrame
  <2>2. \A v \in Workers : \A m \in DOMAIN cache'[v] :
           /\ cache'[v][m] \in ({0} \cup Id)'
           /\ cache'[v][m] \in DOMAIN table' => table'[cache'[v][m]] = ModelOf[m]
    BY <1>4 DEF CacheRight, CachedId
  <2>3. \A v \in Workers : ~Open(v)' => created'[v] = NoRows /\ written'[v] = {} /\ todo'[v] = <<>>
    BY DEF IInv, TypeOK, Shape, HasName, Open, WriteFrame
  <2>. QED
    BY <2>1, <2>2, <2>3 DEF IInv, TypeOK, WriteFrame, Id
<1>6. WrittenRight'
  BY DEF IInv, Shape, WrittenRight, Right, WriteFrame, Model
<1>7. OneIdPerModel' /\ FramesPointRight' /\ OnlyRolledBackAreRefused'
  BY DEF IInv, OneIdPerModel, FramesPointRight, OnlyRolledBackAreRefused, WriteFrame
<1>. QED
  BY <1>3, <1>4, <1>5, <1>6, <1>7 DEF IInv

-----------------------------------------------------------------------------
(* The ways through resolve_camera and resolve_filter that insert nothing; *)
(* first a hit in the cache, whose id the foreign key still lets pass.     *)
LEMMA UseCachedInv == ASSUME IInv, NEW w \in Workers, UseCached(w) PROVE IInv'
<1>. DEFINE n == Head(todo[w])
            id == cache[w][n]
<1>1. n \in DOMAIN cache[w] /\ Holds(w, id) /\ HasName(w) /\ WriteFrame(w, id)
  BY DEF UseCached, Hit
<1>2. CachedId(w, n, id)
  BY <1>1 DEF IInv, CacheRight
<1>3. Right(w, Model(w), id)
  BY <1>1, <1>2 DEF CachedId, Holds, Right, Model
<1>. QED
  BY <1>1, <1>3, WriteStep DEF UseCached

(* The registry's ids are in the table. *)
LEMMA UseRegistryInv == ASSUME IInv, NEW w \in Workers, UseRegistry(w) PROVE IInv'
<1>1. PICK i \in 1..Cardinality(Known) :
          table[i] = Model(w) /\ Cached(w, i) /\ UNCHANGED <<nextId, created>> /\ WriteFrame(w, i)
  BY DEF UseRegistry, Model
<1>2. i \in DOMAIN table /\ table[i] \in Models
  BY DEF IInv, Shape, TypeOK
<1>3. Right(w, Model(w), i)
  BY <1>1, <1>2, EquipmentAssumption DEF Right
<1>. QED
  BY <1>1, <1>3, WriteStep DEF UseRegistry, Missed

(* No row is asked for where no rule makes one. *)
LEMMA UseNoneInv == ASSUME IInv, NEW w \in Workers, UseNone(w) PROVE IInv'
<1>1. Right(w, Model(w), 0)
  BY DEF UseNone, Right
<1>. QED
  BY <1>1, WriteStep DEF UseNone, Missed

(* The read-back returns the row that the INSERT IGNORE met. *)
LEMMA FindsRowInv == ASSUME IInv, NEW w \in Workers, FindsRow(w) PROVE IInv'
<1>1. PICK i \in IdsOf(table, Model(w)) \cup IdsOf(created[w], Model(w)) :
          Cached(w, i) /\ UNCHANGED <<nextId, created>> /\ WriteFrame(w, i)
  BY DEF FindsRow
<1>2. Right(w, Model(w), i)
  BY <1>1 DEF FindsRow, AsksTable, IdsOf, Right
<1>. QED
  BY <1>1, <1>2, WriteStep DEF FindsRow, AsksTable, Missed

-----------------------------------------------------------------------------
(* The insert: the unique key keeps it from a model that is in the table,  *)
(* or on the way there in another transaction.                             *)
LEMMA CreatesRowInv == ASSUME IInv, NEW w \in Workers, CreatesRow(w) PROVE IInv'
<1>. DEFINE n == Head(todo[w])
            m == Model(w)
<1>1. /\ n \in Names /\ Tail(todo[w]) \in Seq(Names)
      /\ m \in Models /\ m # NoModel /\ m = ModelOf[n]
      /\ WriteFrame(w, nextId) /\ Open(w)
  BY EquipmentAssumption DEF IInv, TypeOK, CreatesRow, AsksTable, Missed, HasName, Model
<1>2. /\ nextId' = nextId + 1 /\ nextId \in Nat \ {0} /\ nextId \notin Id
      /\ Id' = Id \cup {nextId}
  BY DEF IInv, TypeOK, CreatesRow, Id
<1>3. /\ DOMAIN created' = Workers
      /\ \A v \in Workers \ {w} : created'[v] = created[v]
      /\ created'[w] = With(created[w], nextId, m)
  BY DEF IInv, Shape, CreatesRow
<1>4. /\ DOMAIN created'[w] = DOMAIN created[w] \cup {nextId}
      /\ created'[w][nextId] = m
      /\ \A i \in DOMAIN created[w] : i # nextId /\ created'[w][i] = created[w][i]
  <2>1. nextId \notin DOMAIN created[w]
    BY <1>2 DEF IInv, TypeOK
  <2>. QED
    BY <1>3, <2>1 DEF With
<1>5. /\ DOMAIN cache' = Workers
      /\ \A v \in Workers \ {w} : cache'[v] = cache[v]
      /\ cache'[w] = With(cache[w], n, nextId)
  BY DEF IInv, Shape, CreatesRow, Cached
<1>6. /\ n \notin DOMAIN cache[w]
      /\ DOMAIN cache'[w] = DOMAIN cache[w] \cup {n}
      /\ cache'[w][n] = nextId
      /\ \A k \in DOMAIN cache[w] : cache'[w][k] = cache[w][k]
  BY <1>5 DEF With, CreatesRow, AsksTable, Missed
<1>7. /\ table' = table /\ file' = file /\ attempt' = attempt /\ frames' = frames
      /\ refused' = refused /\ rolledBack' = rolledBack /\ aborts' = aborts
      /\ todo' = [todo EXCEPT ![w] = Tail(@)]
      /\ written' = [written EXCEPT ![w] = @ \cup {<<n, nextId>>}]
  BY <1>1 DEF WriteFrame
<1>8. Shape'
  BY <1>3, <1>5, <1>7 DEF IInv, Shape
<1>9. OneIdPerModel'
  <2>1. \A j \in DOMAIN table : table[j] # m
    BY DEF CreatesRow, IdsOf
  <2>2. \A v \in Workers : \A j \in DOMAIN created[v] : created[v][j] # m
    BY DEF CreatesRow, IdsOf, Blockers
  <2>. QED
    BY <1>3, <1>4, <1>7, <2>1, <2>2 DEF IInv, OneIdPerModel
<1>10. CacheRight'
  <2>1. SUFFICES ASSUME NEW v \in Workers, NEW k, k \in DOMAIN cache'[v]
                 PROVE  CachedId(v, k, cache[v][k])'
    BY DEF CacheRight
  <2>2. CASE v = w /\ k = n
    <3>1. nextId \notin DOMAIN table /\ \A u \in Workers : nextId \notin DOMAIN created[u]
      BY <1>2 DEF IInv, TypeOK
    <3>. QED
      BY <1>1, <1>2, <1>3, <1>4, <1>6, <1>7, <2>2, <3>1 DEF CachedId, Holds
  <2>3. CASE ~(v = w /\ k = n)
    <3>1. k \in DOMAIN cache[v] /\ cache'[v][k] = cache[v][k]
      BY <1>5, <1>6, <2>1, <2>3
    <3>2. CachedId(v, k, cache[v][k])
      BY <3>1 DEF IInv, CacheRight
    <3>3. cache[v][k] # nextId
      BY <1>2, <3>2 DEF CachedId, Id
    <3>. QED
      BY <1>2, <1>3, <1>4, <1>7, <3>1, <3>2, <3>3 DEF CachedId, Holds
  <2>. QED
    BY <2>2, <2>3
<1>11. TypeOK'
  <2>1. todo' \in [Workers -> Seq(Names)]
    BY <1>1, <1>7 DEF IInv, TypeOK
  <2>2. \A v \in Workers : \A k \in DOMAIN cache'[v] :
           /\ cache'[v][k] \in ({0} \cup Id)'
           /\ cache'[v][k] \in DOMAIN table' => table'[cache'[v][k]] = ModelOf[k]
    BY <1>10 DEF CacheRight, CachedId
  <2>3. \A v \in Workers : ~Open(v)' => created'[v] = NoRows /\ written'[v] = {} /\ todo'[v] = <<>>
    BY <1>1, <1>3, <1>7 DEF IInv, TypeOK, Shape, Open
  <2>4. \A v \in Workers :
           /\ DOMAIN created'[v] \subseteq Id' \ DOMAIN table'
           /\ \A i \in DOMAIN created'[v] : created'[v][i] \in Models
    <3>1. SUFFICES ASSUME NEW v \in Workers
                   PROVE  /\ DOMAIN created'[v] \subseteq Id' \ DOMAIN table
                          /\ \A i \in DOMAIN created'[v] : created'[v][i] \in Models
      BY <1>7
    <3>2. /\ DOMAIN created[v] \subseteq Id \ DOMAIN table
          /\ \A i \in DOMAIN created[v] : created[v][i] \in Models
          /\ DOMAIN table \subseteq Id
      BY DEF IInv, TypeOK
    <3>3. CASE v # w
      BY <1>2, <1>3, <3>2, <3>3
    <3>4. CASE v = w
      BY <1>1, <1>2, <1>4, <3>2, <3>4
    <3>. QED
      BY <3>3, <3>4
  <2>5. \A u, v \in Workers : u # v => DOMAIN created'[u] \cap DOMAIN created'[v] = {}
    <3>1. \A v \in Workers : nextId \notin DOMAIN created[v]
      BY <1>2 DEF IInv, TypeOK
    <3>2. \A u, v \in Workers : u # v => DOMAIN created[u] \cap DOMAIN created[v] = {}
      BY DEF IInv, TypeOK
    <3>3. \A v \in Workers : DOMAIN created'[v] = IF v = w THEN DOMAIN created[v] \cup {nextId}
                                                         ELSE DOMAIN created[v]
      BY <1>3, <1>4
    <3>4. ASSUME NEW u \in Workers, NEW v \in Workers, u # v,
                 NEW i \in DOMAIN created'[u], i \in DOMAIN created'[v]
          PROVE  FALSE
      <4>1. i \in DOMAIN created[u] \/ (u = w /\ i = nextId)
        BY <3>3, <3>4
      <4>2. i \in DOMAIN created[v] \/ (v = w /\ i = nextId)
        BY <3>3, <3>4
      <4>. QED
        BY <3>1, <3>2, <3>4, <4>1, <4>2
    <3>. QED
      BY <3>4
  <2>. QED
    BY <1>2, <1>7, <2>1, <2>2, <2>3, <2>4, <2>5 DEF IInv, TypeOK
<1>12. WrittenRight'
  BY <1>1, <1>3, <1>4, <1>7 DEF IInv, Shape, WrittenRight, Right
<1>13. FramesPointRight' /\ OnlyRolledBackAreRefused'
  BY <1>7 DEF IInv, FramesPointRight, OnlyRolledBackAreRefused
<1>. QED
  BY <1>8, <1>9, <1>10, <1>11, <1>12, <1>13 DEF IInv

-----------------------------------------------------------------------------
(* A file's transaction begins with nothing written. *)
LEMMA BeginInv == ASSUME IInv, NEW w \in Workers, NEW f \in Files, Begin(w, f) PROVE IInv'
<1>1. f \in Seq(Names)
  BY EquipmentAssumption
<1>2. Shape'
  BY DEF IInv, Shape, Begin
<1>3. TypeOK'
  BY <1>1, EquipmentAssumption DEF IInv, Shape, TypeOK, Begin, Id, Open
<1>4. CacheRight' /\ WrittenRight'
  BY DEF IInv, CacheRight, CachedId, Holds, Id, WrittenRight, Right, Begin
<1>5. OneIdPerModel' /\ FramesPointRight' /\ OnlyRolledBackAreRefused'
  BY DEF IInv, OneIdPerModel, FramesPointRight, OnlyRolledBackAreRefused, Begin
<1>. QED
  BY <1>2, <1>3, <1>4, <1>5 DEF IInv

(* The table takes over the ids of the transaction, which no other has. *)
LEMMA CommitInv == ASSUME IInv, NEW w \in Workers, Commit(w) PROVE IInv'
<1>1. /\ DOMAIN table' = DOMAIN table \cup DOMAIN created[w]
      /\ \A i \in DOMAIN table : table'[i] = table[i]
      /\ \A i \in DOMAIN created[w] : i \notin DOMAIN table /\ table'[i] = created[w][i]
  BY DEF IInv, TypeOK, Commit
<1>2. /\ DOMAIN created' = Workers /\ DOMAIN written' = Workers /\ DOMAIN attempt' = Workers
      /\ \A v \in Workers \ {w} : /\ created'[v] = created[v] /\ written'[v] = written[v]
                                  /\ attempt'[v] = attempt[v]
      /\ created'[w] = NoRows /\ written'[w] = {} /\ attempt'[w] = 0
      /\ nextId' = nextId /\ Id' = Id /\ cache' = cache
      /\ refused' = refused /\ rolledBack' = rolledBack /\ aborts' = aborts
  BY DEF IInv, Shape, Commit, Close, EndFile, Id
<1>3. DOMAIN created'[w] = {}
  BY <1>2, NoRowsLemma
<1>4. Shape'
  BY <1>1, <1>2 DEF IInv, Shape
<1>5. OneIdPerModel'
  BY <1>1, <1>2, <1>3 DEF IInv, OneIdPerModel
<1>6. CacheRight'
  <2>1. SUFFICES ASSUME NEW v \in Workers, NEW k, k \in DOMAIN cache[v]
                 PROVE  CachedId(v, k, cache[v][k])'
    BY <1>2 DEF CacheRight
  <2>2. CachedId(v, k, cache[v][k])
    BY <2>1 DEF IInv, CacheRight
  <2>. QED
    BY <1>1, <1>2, <1>3, <2>2 DEF CachedId, Holds
<1>7. TypeOK'
  <2>1. file' \in [Workers -> Seq(Names)] /\ todo' \in [Workers -> Seq(Names)]
    BY DEF IInv, TypeOK, Commit, EndFile
  <2>2. todo'[w] = <<>> /\ \A v \in Workers \ {w} : todo'[v] = todo[v]
    BY DEF IInv, TypeOK, Commit, EndFile
  <2>3. DOMAIN table' \subseteq Id /\ \A i \in DOMAIN table' : table'[i] \in Models
    BY <1>1 DEF IInv, TypeOK
  <2>4. \A v \in Workers :
           /\ DOMAIN created'[v] \subseteq Id \ DOMAIN table'
           /\ \A i \in DOMAIN created'[v] : created'[v][i] \in Models
           /\ \A u \in Workers \ {v} : DOMAIN created'[u] \cap DOMAIN created'[v] = {}
    <3>1. \A v \in Workers : DOMAIN created'[v] \subseteq DOMAIN created[v]
      BY <1>2, <1>3
    <3>2. \A v \in Workers :
             /\ DOMAIN created[v] \subseteq Id \ DOMAIN table
             /\ \A i \in DOMAIN created[v] : created[v][i] \in Models
             /\ \A u \in Workers \ {v} : DOMAIN created[u] \cap DOMAIN created[v] = {}
      BY DEF IInv, TypeOK
    <3>3. ASSUME NEW v \in Workers
          PROVE  /\ DOMAIN created'[v] \subseteq Id \ DOMAIN table'
                 /\ \A i \in DOMAIN created'[v] : created'[v][i] \in Models
      <4>1. CASE v = w
        BY <1>3, <4>1
      <4>2. CASE v # w
        BY <1>1, <1>2, <3>2, <4>2
      <4>. QED
        BY <4>1, <4>2
    <3>4. ASSUME NEW v \in Workers, NEW u \in Workers \ {v}
          PROVE  DOMAIN created'[u] \cap DOMAIN created'[v] = {}
      BY <3>1, <3>2
    <3>. QED
      BY <3>3, <3>4
  <2>5. \A v \in Workers : \A k \in DOMAIN cache'[v] :
           /\ cache'[v][k] \in ({0} \cup Id)'
           /\ cache'[v][k] \in DOMAIN table' => table'[cache'[v][k]] = ModelOf[k]
    BY <1>6 DEF CacheRight, CachedId
  <2>6. \A v \in Workers :
           /\ attempt'[v] \in 0..MaxAttempts
           /\ ~Open(v)' => created'[v] = NoRows /\ written'[v] = {} /\ todo'[v] = <<>>
    <3>1. SUFFICES ASSUME NEW v \in Workers
                   PROVE  /\ attempt'[v] \in 0..MaxAttempts
                          /\ ~Open(v)' => /\ created'[v] = NoRows /\ written'[v] = {}
                                          /\ todo'[v] = <<>>
      OBVIOUS
    <3>2. CASE v = w
      BY <1>2, <2>2, <3>2, EquipmentAssumption
    <3>3. CASE v # w
      BY <1>2, <2>2, <3>3 DEF IInv, TypeOK, Open
    <3>. QED
      BY <3>2, <3>3
  <2>. QED
    BY <1>2, <2>1, <2>3, <2>4, <2>5, <2>6 DEF IInv, TypeOK
<1>8. WrittenRight'
  BY <1>1, <1>2, <1>3, EquipmentAssumption DEF IInv, WrittenRight, Right
<1>9. FramesPointRight'
  <2>1. SUFFICES ASSUME NEW f \in frames \cup written[w]
                 PROVE  IF ModelOf[f[1]] = NoModel
                          THEN f[2] = 0
                          ELSE f[2] \in DOMAIN table' /\ table'[f[2]] = ModelOf[f[1]]
    BY DEF FramesPointRight, Commit
  <2>2. CASE f \in frames
    BY <1>1, <2>2 DEF IInv, FramesPointRight
  <2>3. CASE f \in written[w]
    BY <1>1, <2>3 DEF IInv, WrittenRight, Right
  <2>. QED
    BY <2>1, <2>2, <2>3
<1>10. OnlyRolledBackAreRefused'
  BY <1>2 DEF IInv, OnlyRolledBackAreRefused
<1>. QED
  BY <1>4, <1>5, <1>6, <1>7, <1>8, <1>9, <1>10 DEF IInv

(* A transaction that is undone: its rows are gone, its cached ids stay.   *)
(* The worker is one that lost a transaction, now or before.               *)
Undone(w) ==
    /\ Close(w)
    /\ UNCHANGED <<table, frames>>
    /\ rolledBack' = rolledBack \/ rolledBack' = rolledBack \cup {w}
    /\ refused' = refused \/ refused' = refused \cup {w}
    /\ w \in rolledBack'
    /\ aborts' \in 0..MaxAborts

(* What its worker does next: the same file again, or none *)
Rests(w) ==
    /\ file' \in [Workers -> Seq(Names)]
    /\ todo' \in [Workers -> Seq(Names)]
    /\ DOMAIN attempt' = Workers
    /\ \A v \in Workers \ {w} : todo'[v] = todo[v] /\ attempt'[v] = attempt[v]
    /\ attempt'[w] \in 0..MaxAttempts
    /\ attempt'[w] > 0 \/ todo'[w] = <<>>

(* A transaction that is given up leaves no trace in the tables: the ids it *)
(* inserted go with it, and what it cached is marked by rolledBack.         *)
LEMMA UndoStep == ASSUME IInv, NEW w \in Workers, Undone(w), Rests(w) PROVE IInv'
<1>1. /\ DOMAIN created' = Workers /\ DOMAIN written' = Workers
      /\ \A v \in Workers \ {w} : created'[v] = created[v] /\ written'[v] = written[v]
      /\ created'[w] = NoRows /\ written'[w] = {}
      /\ nextId' = nextId /\ Id' = Id /\ cache' = cache /\ table' = table /\ frames' = frames
  BY DEF IInv, Shape, Undone, Close, Id
<1>2. DOMAIN created'[w] = {}
  BY <1>1, NoRowsLemma
<1>3. Shape' /\ OneIdPerModel'
  <2>1. Shape'
    BY <1>1 DEF IInv, Shape, Rests
  <2>2. \A v \in Workers : \A i \in DOMAIN created'[v] :
           i \in DOMAIN created[v] /\ created'[v][i] = created[v][i]
    BY <1>1, <1>2
  <2>3. table' = table
    BY <1>1
  <2>4. OneIdPerModel'
    BY <2>2, <2>3 DEF IInv, OneIdPerModel
  <2>. QED
    BY <2>1, <2>4
<1>4. CacheRight'
  <2>1. SUFFICES ASSUME NEW v \in Workers, NEW k, k \in DOMAIN cache[v]
                 PROVE  CachedId(v, k, cache[v][k])'
    BY <1>1 DEF CacheRight
  <2>2. CachedId(v, k, cache[v][k])
    BY <2>1 DEF IInv, CacheRight
  <2>. QED
    BY <1>1, <1>2, <2>2 DEF CachedId, Holds, Undone
<1>5. TypeOK'
  <2>1. \A v \in Workers :
           /\ DOMAIN created'[v] \subseteq Id \ DOMAIN table'
           /\ \A i \in DOMAIN created'[v] : created'[v][i] \in Models
           /\ \A u \in Workers \ {v} : DOMAIN created'[u] \cap DOMAIN created'[v] = {}
    BY <1>1, <1>2 DEF IInv, TypeOK
  <2>2. \A v \in Workers :
           /\ attempt'[v] \in 0..MaxAttempts
           /\ ~Open(v)' => created'[v] = NoRows /\ written'[v] = {} /\ todo'[v] = <<>>
    BY <1>1 DEF IInv, TypeOK, Open, Rests
  <2>3. \A v \in Workers : \A n \in DOMAIN cache'[v] :
           /\ cache'[v][n] \in ({0} \cup Id)'
           /\ cache'[v][n] \in DOMAIN table' => table'[cache'[v][n]] = ModelOf[n]
    BY <1>4 DEF CacheRight, CachedId
  <2>4. refused' \cup rolledBack' \subseteq Workers /\ aborts' \in 0..MaxAborts
    BY DEF IInv, TypeOK, Undone
  <2>5. nextId' \in Nat \ {0} /\ DOMAIN table' \subseteq Id' /\ \A i \in DOMAIN table' : table'[i] \in Models
    BY <1>1 DEF IInv, TypeOK
  <2>. QED
    BY <1>1, <2>1, <2>2, <2>3, <2>4, <2>5 DEF TypeOK, Rests
<1>6. WrittenRight'
  BY <1>1 DEF IInv, WrittenRight, Right
<1>7. FramesPointRight' /\ OnlyRolledBackAreRefused'
  BY <1>1 DEF IInv, FramesPointRight, OnlyRolledBackAreRefused, Undone
<1>. QED
  BY <1>3, <1>4, <1>5, <1>6, <1>7 DEF IInv

(* Between files a worker has nothing to write. *)
LEMMA EndFileRests == ASSUME IInv, NEW w \in Workers, EndFile(w) PROVE Rests(w)
<1>1. <<>> \in Seq(Names) /\ 0 \in 0..MaxAttempts
  BY EquipmentAssumption
<1>. QED
  BY <1>1 DEF IInv, Shape, TypeOK, EndFile, Rests

(* Only a cached id without a row is refused, and CacheRight says whose.   *)
LEMMA RefusedInv == ASSUME IInv, NEW w \in Workers, Refused(w) PROVE IInv'
<1>1. w \in rolledBack
  BY DEF IInv, CacheRight, CachedId, Refused, Hit
<1>2. Undone(w)
  BY <1>1 DEF IInv, TypeOK, Refused, Undone
<1>3. Rests(w)
  BY EndFileRests DEF Refused
<1>. QED
  BY <1>2, <1>3, UndoStep

(* A rollback leaves its worker marked, whatever the error was. *)
LEMMA RollsBackUndone ==
  ASSUME IInv, NEW w \in Workers, RollsBack(w), Contended(w) \/ Faulted
  PROVE  Undone(w)
<1>1. aborts' \in 0..MaxAborts
  BY EquipmentAssumption DEF IInv, TypeOK, Contended, Faulted
<1>. QED
  BY <1>1 DEF RollsBack, Undone

(* The next attempt starts over with the same names. *)
LEMMA RetryInv == ASSUME IInv, NEW w \in Workers, Retry(w) PROVE IInv'
<1>1. Undone(w)
  BY RollsBackUndone DEF Retry
<1>2. Rests(w)
  BY EquipmentAssumption DEF IInv, Shape, TypeOK, Retry, Rests
<1>. QED
  BY <1>1, <1>2, UndoStep

(* After kMaxAttempts, or an error that is not retryable, the file is      *)
(* given up. *)
LEMMA GiveUpInv == ASSUME IInv, NEW w \in Workers, GiveUp(w) PROVE IInv'
<1>1. Undone(w) /\ Rests(w)
  BY RollsBackUndone, EndFileRests DEF GiveUp
<1>. QED
  BY <1>1, UndoStep

-----------------------------------------------------------------------------
(* IInv holds initially and in every step of every worker (the loop of     *)
(* store_file, with whatever the others do in between).                    *)
THEOREM EquipmentInvariant == Spec => []IInv
<1>1. IInv /\ [Next]_vars => IInv'
  <2>. SUFFICES ASSUME IInv, [Next]_vars PROVE IInv'
    OBVIOUS
  <2>1. ASSUME NEW w \in Workers, NEW f \in Files, Begin(w, f) PROVE IInv'
    BY <2>1, BeginInv
  <2>2. ASSUME NEW w \in Workers, UseCached(w) \/ UseRegistry(w) \/ UseNone(w) \/ FindsRow(w)
        PROVE  IInv'
    BY <2>2, UseCachedInv, UseRegistryInv, UseNoneInv, FindsRowInv
  <2>3. ASSUME NEW w \in Workers, CreatesRow(w) PROVE IInv'
    BY <2>3, CreatesRowInv
  <2>4. ASSUME NEW w \in Workers, Commit(w) \/ Refused(w) \/ Retry(w) \/ GiveUp(w) PROVE IInv'
    BY <2>4, CommitInv, RefusedInv, RetryInv, GiveUpInv
  <2>5. CASE UNCHANGED vars
    BY <2>5 DEF IInv, Shape, TypeOK, OneIdPerModel, CacheRight, CachedId, Holds, WrittenRight, Right,
                FramesPointRight, OnlyRolledBackAreRefused, Id, Open, vars
  <2>. QED
    BY <2>1, <2>2, <2>3, <2>4, <2>5 DEF Next, Finished
<1>. QED
  BY InitInv, <1>1, PTL DEF Spec

(* The variables of the scan's workers and of the tables keep their types. *)
THEOREM EquipmentTypes == Spec => []TypeOK
<1>1. IInv => TypeOK
  BY DEF IInv
<1>. QED
  BY <1>1, EquipmentInvariant, PTL

(* INSERT IGNORE and read-back: no two rows for one camera or filter,      *)
(* committed or about to be.                                               *)
THEOREM WorkersConverge == Spec => []OneIdPerModel
<1>1. IInv => OneIdPerModel
  BY DEF IInv
<1>. QED
  BY <1>1, EquipmentInvariant, PTL

(* Every committed frame points at the row of what its header names.       *)
THEOREM FramesKeepTheirEquipment == Spec => []FramesPointRight
<1>1. IInv => FramesPointRight
  BY DEF IInv
<1>. QED
  BY <1>1, EquipmentInvariant, PTL

(* The foreign key refuses only a worker that lost a transaction before,   *)
(* by a restart or by an error that was not retryable.                     *)
THEOREM RefusalsAreOwn == Spec => []OnlyRolledBackAreRefused
<1>1. IInv => OnlyRolledBackAreRefused
  BY DEF IInv
<1>. QED
  BY <1>1, EquipmentInvariant, PTL

-----------------------------------------------------------------------------
(* The tables change by whole files.  A transaction holds the frames of the *)
(* names it is past, and rows for models that its file mentions.            *)
WholeSoFar(w) ==
    /\ file[w] \in Files
    /\ \A n \in Names : n \in Stored!Mentioned(file[w])
                        <=> (\E e \in written[w] : e[1] = n) \/ n \in Stored!Mentioned(todo[w])
    /\ \A e \in written[w] : e \in Names \X ({0} \cup Id)
    /\ \A i \in DOMAIN created[w] : \E n \in Stored!Mentioned(file[w]) : created[w][i] = ModelOf[n]

Whole == \A w \in Workers : Open(w) => WholeSoFar(w)

(* What a list mentions, its head and its tail mention.                     *)
LEMMA HeadAndTail ==
  ASSUME NEW s \in Seq(Names), s # <<>>
  PROVE  /\ Head(s) \in Names
         /\ Stored!Mentioned(s) = {Head(s)} \cup Stored!Mentioned(Tail(s))
<1>1. Len(s) \in Nat \ {0} /\ DOMAIN s = 1..Len(s) /\ Head(s) = s[1] /\ Head(s) \in Names
  OBVIOUS
<1>2. /\ DOMAIN Tail(s) = 1..(Len(s) - 1)
      /\ \A k \in 1..(Len(s) - 1) : Tail(s)[k] = s[k + 1]
  BY <1>1
<1>3. Stored!Mentioned(s) \subseteq {Head(s)} \cup Stored!Mentioned(Tail(s))
  <2>. SUFFICES ASSUME NEW k \in DOMAIN s, k # 1 PROVE \E j \in DOMAIN Tail(s) : Tail(s)[j] = s[k]
    BY <1>1 DEF Stored!Mentioned
  <2>1. k - 1 \in DOMAIN Tail(s) /\ Tail(s)[k - 1] = s[k]
    BY <1>1, <1>2
  <2>. QED
    BY <2>1
<1>4. Stored!Mentioned(Tail(s)) \subseteq Stored!Mentioned(s)
  <2>. SUFFICES ASSUME NEW k \in DOMAIN Tail(s) PROVE \E j \in DOMAIN s : s[j] = Tail(s)[k]
    BY DEF Stored!Mentioned
  <2>1. k + 1 \in DOMAIN s /\ s[k + 1] = Tail(s)[k]
    BY <1>1, <1>2
  <2>. QED
    BY <2>1
<1>5. Head(s) \in Stored!Mentioned(s)
  BY <1>1 DEF Stored!Mentioned
<1>. QED
  BY <1>1, <1>3, <1>4, <1>5

(* Files mention names; nothing is mentioned by the end of one.             *)
LEMMA FilesMentionNames == ASSUME NEW f \in Files PROVE Stored!Mentioned(f) \subseteq Names
<1>1. f \in Seq(Names)
  BY EquipmentAssumption
<1>. QED
  BY <1>1 DEF Stored!Mentioned

LEMMA NothingMentioned == Stored!Mentioned(<<>>) = {}
BY DEF Stored!Mentioned

(* A step of worker w leaves the other transactions as they are.            *)
LEMMA OthersWhole ==
  ASSUME Whole, NEW w \in Workers,
         \A v \in Workers \ {w} : /\ file'[v] = file[v] /\ todo'[v] = todo[v] /\ attempt'[v] = attempt[v]
                                  /\ written'[v] = written[v] /\ created'[v] = created[v],
         Id \subseteq Id',
         Open(w)' => WholeSoFar(w)'
  PROVE  Whole'
<1>. SUFFICES ASSUME NEW v \in Workers, v # w, Open(v)' PROVE WholeSoFar(v)'
  BY DEF Whole
<1>1. Open(v) /\ WholeSoFar(v)
  BY DEF Open, Whole
<1>2. file'[v] = file[v] /\ todo'[v] = todo[v] /\ written'[v] = written[v] /\ created'[v] = created[v]
  OBVIOUS
<1>3. PICK f, td, wr, cr :
        /\ f = file[v] /\ f = file'[v] /\ td = todo[v] /\ td = todo'[v]
        /\ wr = written[v] /\ wr = written'[v] /\ cr = created[v] /\ cr = created'[v]
  BY <1>2
<1>4. /\ f \in Files
      /\ \A n \in Names : (\E k \in DOMAIN f : f[k] = n)
                          <=> (\E e \in wr : e[1] = n) \/ (\E k \in DOMAIN td : td[k] = n)
      /\ \A e \in wr : e \in Names \X ({0} \cup Id')
      /\ \A i \in DOMAIN cr : \E n \in {f[k] : k \in DOMAIN f} : cr[i] = ModelOf[n]
  BY <1>1, <1>3 DEF WholeSoFar, Stored!Mentioned
<1>. QED
  BY <1>3, <1>4 DEF WholeSoFar, Stored!Mentioned

(* A frame is written for the head of the list.                             *)
LEMMA WritesWhole ==
  ASSUME IInv, Whole, NEW w \in Workers, NEW id \in {0} \cup Id', Id \subseteq Id',
         HasName(w), WriteFrame(w, id),
         \/ created' = created
         \/ created' = [created EXCEPT ![w] = With(@, nextId, Model(w))]
  PROVE  Whole'
<1>. DEFINE n == Head(todo[w])
<1>1. n \in Names /\ todo[w] \in Seq(Names)
      /\ Stored!Mentioned(todo[w]) = {n} \cup Stored!Mentioned(Tail(todo[w]))
  BY HeadAndTail DEF HasName, IInv, TypeOK
<1>2. WholeSoFar(w)
  BY DEF Whole, HasName
<1>3. /\ file' = file /\ attempt' = attempt
      /\ written'[w] = written[w] \cup {<<n, id>>} /\ todo'[w] = Tail(todo[w])
      /\ \A v \in Workers \ {w} : /\ todo'[v] = todo[v] /\ written'[v] = written[v]
                                  /\ created'[v] = created[v]
  BY DEF WriteFrame, IInv, Shape, TypeOK
<1>4. n \in Stored!Mentioned(file[w])
  BY <1>1, <1>2 DEF WholeSoFar
<1>5. ASSUME NEW i \in DOMAIN created'[w]
      PROVE  \E m \in Stored!Mentioned(file[w]) : created'[w][i] = ModelOf[m]
  <2>1. (i \in DOMAIN created[w] /\ created'[w][i] = created[w][i]) \/ created'[w][i] = ModelOf[n]
    BY <1>5 DEF IInv, Shape, With, Model
  <2>. QED
    BY <1>2, <1>4, <2>1 DEF WholeSoFar
<1>. HIDE DEF n
<1>6. PICK f, td, wr, cr :
        /\ f = file[w] /\ f = file'[w] /\ td = todo'[w] /\ wr = written'[w] /\ cr = created'[w]
  BY <1>3
<1>7. /\ f \in Files
      /\ \A m \in Names : m \in Stored!Mentioned(f)
                          <=> (\E e \in wr : e[1] = m) \/ m \in Stored!Mentioned(td)
  <2>1. f \in Files /\ wr = written[w] \cup {<<n, id>>} /\ td = Tail(todo[w])
    BY <1>2, <1>3, <1>6 DEF WholeSoFar
  <2>2. \A m : (\E e \in wr : e[1] = m) <=> m = n \/ \E e \in written[w] : e[1] = m
    <3>. DEFINE d == <<n, id>>
    <3>1. d[1] = n
      OBVIOUS
    <3>. HIDE DEF d
    <3>2. wr = written[w] \cup {d}
      BY <2>1 DEF d
    <3>. QED
      BY <3>1, <3>2
  <2>3. \A m : m \in Stored!Mentioned(todo[w]) <=> m = n \/ m \in Stored!Mentioned(td)
    BY <1>1, <2>1
  <2>4. \A m \in Names : m \in Stored!Mentioned(f)
                         <=> (\E e \in written[w] : e[1] = m) \/ m \in Stored!Mentioned(todo[w])
    BY <1>2, <1>6 DEF WholeSoFar
  <2>. QED
    BY <2>1, <2>2, <2>3, <2>4
<1>8. \A e \in wr : e \in Names \X ({0} \cup Id')
  BY <1>1, <1>2, <1>3, <1>6 DEF WholeSoFar
<1>9. \A i \in DOMAIN cr : \E m \in Stored!Mentioned(f) : cr[i] = ModelOf[m]
  BY <1>5, <1>6
<1>10. WholeSoFar(w)'
  BY <1>6, <1>7, <1>8, <1>9 DEF WholeSoFar, Stored!Mentioned
<1>. QED
  BY <1>3, <1>10, OthersWhole

(* A transaction that begins, first or again, has all its file before it.   *)
LEMMA BeginsWhole ==
  ASSUME IInv, Whole, NEW w \in Workers,
         \A v \in Workers \ {w} : /\ file'[v] = file[v] /\ todo'[v] = todo[v] /\ attempt'[v] = attempt[v]
                                  /\ written'[v] = written[v] /\ created'[v] = created[v],
         nextId' = nextId,
         Open(w)' => /\ file'[w] \in Files /\ todo'[w] = file'[w]
                     /\ written'[w] = {} /\ created'[w] = NoRows
  PROVE  Whole'
<1>1. ASSUME Open(w)' PROVE WholeSoFar(w)'
  <2>1. PICK f, td, wr, cr :
          /\ f = file'[w] /\ td = todo'[w] /\ wr = written'[w] /\ cr = created'[w]
    OBVIOUS
  <2>2. f \in Files /\ td = f /\ wr = {} /\ DOMAIN cr = {}
    BY <1>1, <2>1, NoRowsLemma
  <2>. QED
    BY <2>1, <2>2 DEF WholeSoFar, Stored!Mentioned
<1>2. Id' = Id
  BY DEF Id
<1>. QED
  BY <1>1, <1>2, OthersWhole

(* Every step keeps transactions whole.                                     *)
LEMMA StepWhole == ASSUME IInv, Whole, [Next]_vars PROVE Whole'
<1>1. Id \in SUBSET Nat /\ nextId \in Nat /\ \A k \in Nat : k = nextId => Id \cup {k} = 1..k
  BY DEF IInv, TypeOK, Id
<1>2. ASSUME NEW w \in Workers, NEW f \in Files, Begin(w, f) PROVE Whole'
  <2>1. created[w] = NoRows /\ written[w] = {}
    BY <1>2 DEF Begin, IInv, TypeOK
  <2>2. file' = [file EXCEPT ![w] = f] /\ todo' = [todo EXCEPT ![w] = f]
        /\ attempt' = [attempt EXCEPT ![w] = 1] /\ UNCHANGED <<created, written, nextId>>
    BY <1>2 DEF Begin
  <2>3. file'[w] = f /\ todo'[w] = f
        /\ \A v \in Workers \ {w} : file'[v] = file[v] /\ todo'[v] = todo[v] /\ attempt'[v] = attempt[v]
    BY <2>2 DEF IInv, TypeOK, Shape
  <2>. QED
    BY <2>1, <2>2, <2>3, BeginsWhole
<1>3. ASSUME NEW w \in Workers, UseCached(w) \/ UseRegistry(w) \/ UseNone(w) \/ FindsRow(w) PROVE Whole'
  <2>1. PICK id : WriteFrame(w, id) /\ id \in {0} \cup Id
    <3>1. CASE UseCached(w)
      <4>1. cache[w][Head(todo[w])] \in {0} \cup Id
        BY <3>1 DEF UseCached, Hit, IInv, TypeOK
      <4>. QED
        BY <3>1, <4>1 DEF UseCached
    <3>2. CASE UseRegistry(w)
      <4>1. 1..Cardinality(Known) \subseteq Id
        BY DEF IInv, TypeOK, Shape
      <4>. QED
        BY <3>2, <4>1 DEF UseRegistry
    <3>3. CASE UseNone(w)
      BY <3>3 DEF UseNone
    <3>4. CASE FindsRow(w)
      <4>1. IdsOf(table, Model(w)) \cup IdsOf(created[w], Model(w)) \subseteq Id
        BY DEF IdsOf, IInv, TypeOK
      <4>. QED
        BY <3>4, <4>1 DEF FindsRow
    <3>. QED
      BY <1>3, <3>1, <3>2, <3>3, <3>4
  <2>2. HasName(w) /\ created' = created /\ Id' = Id
    BY <1>3 DEF UseCached, UseRegistry, UseNone, FindsRow, Hit, Missed, AsksTable, Id
  <2>. QED
    BY <2>1, <2>2, WritesWhole
<1>4. ASSUME NEW w \in Workers, CreatesRow(w) PROVE Whole'
  <2>1. nextId \in Id' /\ Id \subseteq Id'
    <3>1. nextId \in Nat \ {0} /\ nextId' = nextId + 1
      BY <1>4 DEF CreatesRow, IInv, TypeOK
    <3>. QED
      BY <3>1 DEF Id
  <2>2. HasName(w) /\ WriteFrame(w, nextId) /\ created' = [created EXCEPT ![w] = With(@, nextId, Model(w))]
    BY <1>4 DEF CreatesRow, AsksTable, Missed
  <2>3. PICK id : id = nextId
    OBVIOUS
  <2>. QED
    BY <2>1, <2>2, <2>3, WritesWhole
<1>5. ASSUME NEW w \in Workers, Close(w), EndFile(w) PROVE Whole'
  <2>1. \A v \in Workers \ {w} : /\ file'[v] = file[v] /\ todo'[v] = todo[v] /\ attempt'[v] = attempt[v]
                                 /\ written'[v] = written[v] /\ created'[v] = created[v]
    BY <1>5 DEF Close, EndFile, IInv, TypeOK, Shape
  <2>2. attempt'[w] = 0 /\ nextId' = nextId
    BY <1>5 DEF Close, EndFile, IInv, Shape
  <2>3. ~Open(w)'
    BY <2>2 DEF Open
  <2>. QED
    BY <2>1, <2>2, <2>3, BeginsWhole
<1>6. ASSUME NEW w \in Workers, Retry(w) PROVE Whole'
  <2>1. file[w] \in Files
    BY <1>6 DEF Retry, RollsBack, Whole, WholeSoFar
  <2>2. Close(w) /\ file' = file /\ attempt' = [attempt EXCEPT ![w] = @ + 1]
        /\ todo' = [todo EXCEPT ![w] = file[w]]
    BY <1>6 DEF Retry, RollsBack
  <2>3. \A v \in Workers \ {w} : /\ file'[v] = file[v] /\ todo'[v] = todo[v] /\ attempt'[v] = attempt[v]
                                 /\ written'[v] = written[v] /\ created'[v] = created[v]
    BY <2>2 DEF Close, IInv, TypeOK, Shape
  <2>4. /\ file'[w] \in Files /\ todo'[w] = file'[w]
        /\ written'[w] = {} /\ created'[w] = NoRows /\ nextId' = nextId
    BY <2>1, <2>2 DEF Close, IInv, TypeOK, Shape
  <2>. QED
    BY <2>3, <2>4, BeginsWhole
<1>7. CASE UNCHANGED vars
  <2>. SUFFICES ASSUME NEW v \in Workers, Open(v)' PROVE WholeSoFar(v)'
    BY DEF Whole
  <2>1. UNCHANGED <<nextId, created, file, todo, written, attempt>>
    BY <1>7 DEF vars
  <2>2. Open(v)
    BY <2>1 DEF Open
  <2>3. WholeSoFar(v) /\ Id' = Id
    BY <2>1, <2>2 DEF Whole, Id
  <2>. QED
    BY <2>1, <2>3 DEF WholeSoFar, Stored!Mentioned
<1>. QED
  BY <1>2, <1>3, <1>4, <1>5, <1>6, <1>7 DEF Next, Finished, Commit, Refused, GiveUp, RollsBack

(* A commit stores one whole file.                                          *)
LEMMA CommitStores ==
  ASSUME IInv, Whole, NEW w \in Workers, Commit(w)
  PROVE  Stored!Store(file[w]) /\ file[w] \in Files
<1>1. /\ DOMAIN table' = DOMAIN table \cup DOMAIN created[w]
      /\ \A i \in DOMAIN table : table'[i] = table[i]
      /\ \A i \in DOMAIN created[w] : i \notin DOMAIN table /\ table'[i] = created[w][i]
      /\ frames' = frames \cup written[w]
  BY DEF IInv, TypeOK, Commit
<1>2. WholeSoFar(w) /\ todo[w] = <<>>
  BY DEF Whole, Commit
<1>3. /\ file[w] \in Files
      /\ \A n : n \in Stored!Mentioned(file[w]) <=> \E e \in written[w] : e[1] = n
      /\ \A e \in written[w] : e = <<e[1], e[2]>> /\ Right(w, ModelOf[e[1]], e[2])
  BY <1>2, NothingMentioned, FilesMentionNames DEF WholeSoFar, IInv, WrittenRight
<1>4. \A i, j \in DOMAIN table' : table'[i] = table'[j] => i = j
  <2>1. IInv'
    BY CommitInv
  <2>. QED
    BY <2>1 DEF IInv, OneIdPerModel
<1>5. Stored!Grows(file[w])
  <2>1. ASSUME NEW i \in DOMAIN table' \ DOMAIN table
        PROVE  i # 0 /\ table'[i] \in Models \cap {ModelOf[n] : n \in Stored!Mentioned(file[w])}
    <3>1. i \in DOMAIN created[w] /\ table'[i] = created[w][i]
      BY <1>1, <2>1
    <3>2. i \in Id /\ created[w][i] \in Models
      BY <3>1 DEF IInv, TypeOK
    <3>3. i # 0
      BY <3>2 DEF Id
    <3>. QED
      BY <1>2, <3>1, <3>2, <3>3 DEF WholeSoFar
  <2>. QED
    BY <1>1, <1>4, <2>1 DEF Stored!Grows, Stored!OneIdEach
<1>6. ASSUME NEW e \in written[w]
      PROVE  e[2] \in {0} \cup DOMAIN table' /\ Stored!PointsAt(e[1], e[2], table')
  BY <1>1, <1>3, <1>6 DEF Right, Stored!PointsAt
<1>7. ASSUME NEW n, NEW i, NEW j, Stored!PointsAt(n, i, table'), Stored!PointsAt(n, j, table')
      PROVE  i = j
  BY <1>4, <1>7 DEF Stored!PointsAt
<1>. DEFINE M == Stored!Mentioned(file[w])
            F == {e \in M \X ({0} \cup DOMAIN table') : Stored!PointsAt(e[1], e[2], table')}
<1>8. written[w] \subseteq F
  BY <1>3, <1>6
<1>9. F \subseteq written[w]
  <2>. SUFFICES ASSUME NEW n \in M, NEW i, Stored!PointsAt(n, i, table') PROVE <<n, i>> \in written[w]
    OBVIOUS
  <2>1. PICK e \in written[w] : e[1] = n
    BY <1>3
  <2>2. e[2] = i
    BY <1>6, <1>7, <2>1
  <2>. QED
    BY <1>3, <2>1, <2>2
<1>10. \A n \in M : \E i \in {0} \cup DOMAIN table' : Stored!PointsAt(n, i, table')
  BY <1>3, <1>6
<1>11. frames' = frames \cup F
  BY <1>1, <1>8, <1>9
<1>12. Stored!StoresFrames(file[w])
  BY <1>10, <1>11 DEF Stored!StoresFrames
<1>. QED
  BY <1>3, <1>5, <1>12 DEF Stored!Store

(* No other step is seen by who reads the tables.                           *)
LEMMA StepStores == ASSUME IInv, Whole, [Next]_vars PROVE [Stored!Next]_(Stored!storedVars)
<1>1. ASSUME NEW w \in Workers, Commit(w) PROVE Stored!Next
  BY <1>1, CommitStores DEF Stored!Next
<1>2. ASSUME NEW w \in Workers,
             \/ \E f \in Files : Begin(w, f)
             \/ UseCached(w) \/ UseRegistry(w) \/ UseNone(w) \/ FindsRow(w) \/ CreatesRow(w)
             \/ Refused(w) \/ Retry(w) \/ GiveUp(w)
      PROVE  UNCHANGED <<table, frames>>
  BY <1>2 DEF Begin, UseCached, UseRegistry, UseNone, FindsRow, CreatesRow, WriteFrame,
     Refused, Retry, GiveUp, RollsBack
<1>3. CASE UNCHANGED vars
  BY <1>3 DEF vars, Stored!storedVars
<1>. QED
  BY <1>1, <1>2, <1>3 DEF Next, Finished, Stored!storedVars, vars

(* No transaction is open at a start, and the tables are as loaded.         *)
LEMMA InitStores == ASSUME Init PROVE Whole /\ Stored!Init
<1>1. Whole
  BY DEF Init, Whole, Open
<1>2. table \in Injection(1..Cardinality(Known), Known)
  BY DEF Init, Injection, IsInjective
<1>3. Cardinality(Known) \in Nat /\ IsFiniteSet(Known)
  BY EquipmentAssumption, FS_CardinalityType
<1>4. Cardinality(1..Cardinality(Known)) = Cardinality(Known)
  BY <1>3, FS_Interval
<1>5. table \in Surjection(1..Cardinality(Known), Known)
  BY <1>2, <1>3, <1>4, FS_Injection
<1>6. {table[i] : i \in DOMAIN table} = Known
  BY <1>5 DEF Surjection
<1>7. 0 \notin DOMAIN table
  BY DEF Init
<1>. QED
  BY <1>1, <1>6, <1>7 DEF Init, Stored!Init, Stored!OneIdEach

(* What transactions hold is whole at any time.                             *)
THEOREM TransactionsAreWhole == Spec => []Whole
<1>1. Init => Whole
  BY InitStores
<1>2. IInv /\ Whole /\ [Next]_vars => Whole'
  BY StepWhole
<1>. QED
  BY <1>1, <1>2, EquipmentInvariant, PTL DEF Spec

(* "A file is never left half-written" (frame_store.hpp:54): store_file      *)
(* with its caches, waits, rollbacks and retries implements the storing of  *)
(* a file in one step.                                                      *)
THEOREM FilesAreStoredWhole == Spec => ImplementsStoredFiles
<1>1. Init => Stored!Init
  BY InitStores
<1>2. IInv /\ Whole /\ [Next]_vars => [Stored!Next]_(Stored!storedVars)
  BY StepStores
<1>. QED
  BY <1>1, <1>2, EquipmentInvariant, TransactionsAreWhole, PTL
     DEF Spec, ImplementsStoredFiles, Stored!Spec

(* The promise says as much of frames as FramesPointRight does: whatever    *)
(* stores files whole keeps every frame at the row of its name.             *)
THEOREM WholeFilesPointRight == Stored!Spec => []FramesPointRight
<1>1. Stored!Init => FramesPointRight
  BY DEF Stored!Init, FramesPointRight
<1>2. FramesPointRight /\ [Stored!Next]_(Stored!storedVars) => FramesPointRight'
  <2>. SUFFICES ASSUME FramesPointRight, [Stored!Next]_(Stored!storedVars), NEW e \in frames'
                PROVE  IF ModelOf[e[1]] = NoModel THEN e[2] = 0
                       ELSE e[2] \in DOMAIN table' /\ table'[e[2]] = ModelOf[e[1]]
    BY DEF FramesPointRight
  <2>1. ASSUME NEW f \in Files, Stored!Store(f)
        PROVE  /\ DOMAIN table \subseteq DOMAIN table'
               /\ \A i \in DOMAIN table : table'[i] = table[i]
               /\ e \in frames \/ Stored!PointsAt(e[1], e[2], table')
    BY <2>1 DEF Stored!Store, Stored!Grows, Stored!StoresFrames
  <2>2. CASE e \in frames
    <3>1. IF ModelOf[e[1]] = NoModel THEN e[2] = 0
          ELSE e[2] \in DOMAIN table /\ table[e[2]] = ModelOf[e[1]]
      BY <2>2 DEF FramesPointRight
    <3>. QED
      BY <2>1, <3>1 DEF Stored!Next, Stored!storedVars
  <2>3. CASE e \notin frames
    BY <2>1, <2>3 DEF Stored!Next, Stored!storedVars, Stored!PointsAt
  <2>. QED
    BY <2>2, <2>3
<1>. QED
  BY <1>1, <1>2, PTL DEF Stored!Spec
=============================================================================
