--------------------------- MODULE AccountsProofs ---------------------------
(***************************************************************************)
(* Accounts, for any threads, names, roles and tokens and any bound on the *)
(* accounts ever created: names and ids stay unique, every session belongs *)
(* to an account that exists, and no change that ran without another's in  *)
(* between takes the last administrator.                                   *)
(***************************************************************************)
EXTENDS Accounts, TLAPS

(* A recreated account inherits no session because ids only grow; the       *)
(* deletion of a name takes its sessions along because ids are not shared.  *)
IInv == TypeOK /\ SessionsHaveAccounts

-----------------------------------------------------------------------------
(* The seeded account is a well-formed row. *)
LEMMA SeedTyped ==
  ASSUME NEW id \in Ids
  PROVE  [id |-> id, name |-> AdminName, role |-> "admin", enabled |-> TRUE] \in Users
BY AccountsAssumption DEF Users, Roles

(* A start seeds one administrator. *)
LEMMA InitInv == Init => IInv
<1>. SUFFICES ASSUME Init PROVE IInv
  OBVIOUS
<1>1. users = {[id |-> 1, name |-> AdminName, role |-> "admin", enabled |-> TRUE]}
  BY DEF Init, Seeded
<1>2. 1 \in Ids
  BY AccountsAssumption DEF Ids
<1>3. TypeOK
  <2>1. users \subseteq Users
    BY <1>1, <1>2, SeedTyped
  <2>2. \A u \in users : u.id <= lastId
    BY <1>1 DEF Init
  <2>3. \A u, v \in users : u = v
    BY <1>1
  <2>. QED
    BY <1>2, <2>1, <2>2, <2>3 DEF Init, TypeOK
<1>4. SessionsHaveAccounts
  BY DEF Init, SessionsHaveAccounts
<1>. QED
  BY <1>3, <1>4 DEF IInv

(* What a thread serves is a request of its type, and answering leaves      *)
(* requests.                                                                *)
LEMMA ServedTyped ==
  ASSUME TypeOK, NEW t \in Threads, req[t] # Idle
  PROVE  req[t] \in Requests
BY DEF TypeOK

LEMMA AnswerTyped ==
  ASSUME TypeOK, NEW t \in Threads, Answer(t) \/ AnswerWritten(t)
  PROVE  req' \in [Threads -> Requests \cup {Idle}]
<1>. USE DEF TypeOK
<1>1. CASE Answer(t)
  BY <1>1 DEF Answer
<1>2. CASE AnswerWritten(t)
  <2>1. ASSUME NEW r \in Threads, req[r] # Idle
        PROVE  [req[r] EXCEPT !.alone = FALSE] \in Requests
    BY <2>1, ServedTyped DEF Requests
  <2>2. DOMAIN req = Threads
    OBVIOUS
  <2>. QED
    BY <1>2, <2>1, <2>2 DEF AnswerWritten
<1>. QED
  BY <1>1, <1>2

LEMMA ProceedTyped ==
  ASSUME TypeOK, NEW t \in Threads, req[t] # Idle,
         NEW at \in {"asked", "read", "role", "enabled", "write"}, Proceed(t, at)
  PROVE  req' \in [Threads -> Requests \cup {Idle}]
<1>1. [req[t] EXCEPT !.at = at] \in Requests
  BY ServedTyped DEF Requests
<1>. QED
  BY <1>1 DEF Proceed, TypeOK

(* A step that leaves the tables alone and keeps requests well formed       *)
(* preserves the invariant.                                                 *)
LEMMA TablesKept ==
  ASSUME IInv, UNCHANGED <<users, sessions, lastId>>,
         req' \in [Threads -> Requests \cup {Idle}]
  PROVE  IInv'
BY DEF IInv, TypeOK, SessionsHaveAccounts, Users

-----------------------------------------------------------------------------
LEMMA ArrivesStep == ASSUME IInv, NEW t \in Threads, Arrives(t) PROVE IInv'
<1>. USE DEF IInv
<1>1. ASSUME NEW op \in {"login", "create", "patch", "delete"}, NEW n \in Names, NEW body \in Bodies,
             Asks(t, op, n, body)
      PROVE  IInv'
  <2>1. [op |-> op, at |-> "asked", name |-> n, body |-> body, id |-> 0, seen |-> Keep, alone |-> TRUE]
          \in Requests
    BY DEF Requests
  <2>2. req' \in [Threads -> Requests \cup {Idle}]
    BY <1>1, <2>1 DEF Asks, TypeOK
  <2>. QED
    BY <1>1, <2>2, TablesKept DEF Asks
<1>2. Plain \in Bodies
  BY DEF Plain, Bodies, Roles, Keep
<1>3. ASSUME NEW r \in Roles PROVE [role |-> r, enabled |-> Keep] \in Bodies
  BY <1>3, AccountsAssumption DEF Bodies, Roles, Keep
<1>. QED
  BY <1>1, <1>2, <1>3 DEF Arrives

LEMMA ReadsStep == ASSUME IInv, NEW t \in Threads, Reads(t) PROVE IInv'
<1>. USE DEF IInv
<1>1. CASE LoginReads(t)
  <2>1. PICK u \in users : req' = [req EXCEPT ![t].at = "write", ![t].id = u.id]
    BY <1>1 DEF LoginReads, Named
  <2>2. u.id \in Ids /\ req[t] \in Requests
    BY <1>1, ServedTyped DEF LoginReads, Serves, TypeOK, Users
  <2>3. [req[t] EXCEPT !.at = "write", !.id = u.id] \in Requests
    BY <2>2 DEF Requests
  <2>4. req' \in [Threads -> Requests \cup {Idle}]
    BY <2>1, <2>3 DEF TypeOK
  <2>. QED
    BY <1>1, <2>4, TablesKept DEF LoginReads
<1>2. CASE CreateReads(t)
  BY <1>2, ProceedTyped, TablesKept DEF CreateReads, Serves
<1>3. ASSUME NEW u \in users, NEW at \in {"read", "role"}, req[t] # Idle,
             req' = [req EXCEPT ![t].at = at, ![t].seen = u.role], UNCHANGED <<users, sessions, lastId>>
      PROVE  IInv'
  <2>1. u.role \in Roles /\ req[t] \in Requests
    BY <1>3, ServedTyped DEF TypeOK, Users
  <2>2. [req[t] EXCEPT !.at = at, !.seen = u.role] \in Requests
    BY <2>1 DEF Requests
  <2>3. req' \in [Threads -> Requests \cup {Idle}]
    BY <1>3, <2>2 DEF TypeOK
  <2>. QED
    BY <1>3, <2>3, TablesKept
<1>4. CASE PatchReads(t)
  BY <1>3, <1>4 DEF PatchReads, Serves, Named
<1>5. CASE DeleteReads(t)
  BY <1>3, <1>5 DEF DeleteReads, Serves, Named
<1>. QED
  BY <1>1, <1>2, <1>4, <1>5 DEF Reads

LEMMA ChecksStep == ASSUME IInv, NEW t \in Threads, Checks(t) PROVE IInv'
BY ProceedTyped, TablesKept
   DEF IInv, Checks, PatchChecksRole, PatchChecksEnabled, DeleteCounts, Serves

-----------------------------------------------------------------------------
(* A session is stored for an account that is there. *)
LEMMA LoginStep == ASSUME IInv, NEW t \in Threads, LoginStores(t) PROVE IInv'
<1>. USE DEF IInv, LoginStores
<1>1. PICK tok \in Tokens : sessions' = sessions \cup {[token |-> tok, user |-> req[t].id]}
  OBVIOUS
<1>2. PICK u \in users : u.id = req[t].id
  OBVIOUS
<1>3. u.id \in Ids
  BY DEF TypeOK, Users
<1>4. TypeOK'
  BY <1>1, <1>2, <1>3, AnswerTyped DEF TypeOK, Users
<1>5. SessionsHaveAccounts'
  BY <1>1, <1>2 DEF SessionsHaveAccounts
<1>. QED
  BY <1>4, <1>5

(* The new id is above all others, and the name is free. *)
LEMMA CreateStep == ASSUME IInv, NEW t \in Threads, CreateInserts(t) PROVE IInv'
<1>. DEFINE new == [id |-> lastId + 1, name |-> req[t].name, role |-> req[t].body.role, enabled |-> TRUE]
<1>. USE DEF IInv, CreateInserts
<1>1. req[t] \in Requests
  BY ServedTyped DEF Serves
<1>2. req[t].name \in Names /\ req[t].body \in Bodies
  BY <1>1 DEF Requests
<1>3. req[t].body.role \in Roles
  BY <1>2 DEF Bodies
<1>4. lastId + 1 \in Ids /\ lastId \in Nat
  BY AccountsAssumption DEF TypeOK, Ids
<1>5. new \in Users
  BY <1>2, <1>3, <1>4 DEF Users
<1>6. users' = users \cup {new} /\ lastId' = lastId + 1
  BY DEF Inserted
<1>7. \A u \in users : u.id \in Nat /\ u.id <= lastId /\ u.name # req[t].name
  BY DEF TypeOK, Users, Ids, Named
<1>8. \A u \in users : u.id # new.id /\ u.name # new.name
  BY <1>4, <1>7
<1>9. users' \subseteq Users
  BY <1>5, <1>6 DEF TypeOK
<1>10. \A u \in users' : u.id <= lastId'
  BY <1>4, <1>6, <1>7
<1>11. \A u, v \in users' : u.name = v.name \/ u.id = v.id => u = v
  <2>1. \A u, v \in users : u.name = v.name \/ u.id = v.id => u = v
    BY DEF TypeOK
  <2>. QED
    BY <1>6, <1>8, <2>1
<1>12. TypeOK'
  BY <1>4, <1>6, <1>9, <1>10, <1>11, AnswerTyped DEF TypeOK
<1>13. SessionsHaveAccounts'
  BY <1>6 DEF SessionsHaveAccounts
<1>. QED
  BY <1>12, <1>13

(* A change keeps id and name. *)
LEMMA PatchStep == ASSUME IInv, NEW t \in Threads, PatchWrites(t) PROVE IInv'
<1>. DEFINE new(u) == IF u.name = req[t].name THEN Patched(u, req[t].body) ELSE u
<1>. USE DEF IInv, PatchWrites
<1>1. users' = {new(u) : u \in users}
  OBVIOUS
<1>2. req[t] \in Requests
  BY ServedTyped DEF Serves
<1>3. req[t].body \in Bodies
  BY <1>2 DEF Requests
<1>4. req[t].body.role \in Roles \cup {Keep}
  BY <1>3 DEF Bodies
<1>5. \A u \in users : new(u) \in Users /\ new(u).id = u.id /\ new(u).name = u.name
  <2>. SUFFICES ASSUME NEW u \in users
                PROVE  new(u) \in Users /\ new(u).id = u.id /\ new(u).name = u.name
    OBVIOUS
  <2>1. u \in Users
    BY DEF TypeOK
  <2>2. Patched(u, req[t].body) \in Users
    BY <2>1, <1>4 DEF Patched, Users
  <2>3. Patched(u, req[t].body).id = u.id /\ Patched(u, req[t].body).name = u.name
    BY <2>1 DEF Patched, Users
  <2>. QED
    BY <2>1, <2>2, <2>3
<1>. HIDE DEF new
<1>6. users' \subseteq Users /\ \A u \in users' : u.id <= lastId
  BY <1>1, <1>5 DEF TypeOK
<1>7. \A u, v \in users' : u.name = v.name \/ u.id = v.id => u = v
  BY <1>1, <1>5 DEF TypeOK
<1>8. TypeOK'
  BY <1>6, <1>7, AnswerTyped DEF TypeOK
<1>9. SessionsHaveAccounts'
  BY <1>1, <1>5 DEF SessionsHaveAccounts
<1>. QED
  BY <1>8, <1>9

(* The cascade takes the sessions of what is deleted. *)
LEMMA DeleteStep == ASSUME IInv, NEW t \in Threads, DeleteWrites(t) PROVE IInv'
<1>. USE DEF IInv, DeleteWrites
<1>1. users' \subseteq users /\ sessions' \subseteq sessions
  OBVIOUS
<1>2. TypeOK'
  BY <1>1, AnswerTyped DEF TypeOK
<1>3. SessionsHaveAccounts'
  BY DEF SessionsHaveAccounts
<1>. QED
  BY <1>2, <1>3

(* An empty table has no sessions; the seeded account has an id of its own. *)
LEMMA RestartStep == ASSUME IInv, Restart PROVE IInv'
<1>. USE DEF IInv, Restart
<1>1. req' \in [Threads -> Requests \cup {Idle}]
  OBVIOUS
<1>2. CASE users = {}
  <2>1. lastId + 1 \in Ids
    BY <1>2, AccountsAssumption DEF TypeOK, Ids
  <2>2. users' = {[id |-> lastId + 1, name |-> AdminName, role |-> "admin", enabled |-> TRUE]}
    BY <1>2 DEF Seeded
  <2>3. TypeOK'
    <3>1. users' \subseteq Users
      BY <2>1, <2>2, SeedTyped
    <3>2. \A u \in users' : u.id <= lastId'
      BY <1>2, <2>1, <2>2 DEF Ids
    <3>3. \A u, v \in users' : u = v
      BY <2>2
    <3>. QED
      BY <1>1, <1>2, <2>1, <3>1, <3>2, <3>3 DEF TypeOK
  <2>4. SessionsHaveAccounts'
    BY <1>2 DEF SessionsHaveAccounts
  <2>. QED
    BY <2>3, <2>4
<1>3. CASE users # {}
  BY <1>1, <1>3, TablesKept DEF Seeded
<1>. QED
  BY <1>2, <1>3

-----------------------------------------------------------------------------
LEMMA StepInv == IInv /\ [Next]_vars => IInv'
<1>. SUFFICES ASSUME IInv, [Next]_vars PROVE IInv'
  OBVIOUS
<1>1. ASSUME NEW t \in Threads, Writes(t) PROVE IInv'
  BY <1>1, LoginStep, CreateStep, PatchStep, DeleteStep DEF Writes
<1>2. ASSUME NEW t \in Threads, Refused(t) PROVE IInv'
  BY <1>2, AnswerTyped, TablesKept DEF Refused, IInv
<1>3. CASE SessionEnds
  <2>1. sessions' \subseteq sessions
    BY <1>3 DEF SessionEnds
  <2>. QED
    BY <1>3, <2>1 DEF SessionEnds, IInv, TypeOK, SessionsHaveAccounts
<1>4. CASE UNCHANGED vars
  BY <1>4, TablesKept DEF vars, IInv, TypeOK
<1>. QED
  BY <1>1, <1>2, <1>3, <1>4, ArrivesStep, ReadsStep, ChecksStep, RestartStep DEF Next

(* The inductive invariant holds always. *)
THEOREM AccountsInvariant == Spec => []IInv
<1>. QED
  BY InitInv, StepInv, PTL DEF Spec

(* Rows, sessions and requests are well formed, and names and ids unique    *)
(* (POST and DELETE /users that overlap, and a restart that seeds).         *)
THEOREM AccountTypes == Spec => []TypeOK
<1>1. IInv => TypeOK
  BY DEF IInv
<1>. QED
  BY <1>1, AccountsInvariant, PTL

(* No session outlives its account, although login reads and stores by      *)
(* separate statements.                                                      *)
THEOREM SessionsBelong == Spec => []SessionsHaveAccounts
<1>1. IInv => SessionsHaveAccounts
  BY DEF IInv
<1>. QED
  BY <1>1, AccountsInvariant, PTL

-----------------------------------------------------------------------------
(* What a PATCH or DELETE read and counted is still so while nobody else    *)
(* has written (alone): the role it saw, and a second administrator when    *)
(* its write may take one.  A request another write overlapped knows        *)
(* nothing.                                                                 *)
AdminsOf(us) == {u \in us : u.role = "admin"}
EnabledOf(us) == {u \in AdminsOf(us) : u.enabled}

SawRole(us, q) == \A u \in us : u.name = q.name => u.role = q.seen
Demotes(q) == q.body.role # Keep /\ q.seen = "admin" /\ q.body.role # "admin"
Disables(q) == q.body.enabled = "off" /\ q.seen = "admin"

PatchKnows(us, q) ==
    /\ q.at \in {"role", "enabled", "write"} => SawRole(us, q)
    /\ q.at \in {"enabled", "write"} /\ Demotes(q) => ~AtMostOne(EnabledOf(us))
    /\ q.at = "write" /\ Disables(q) => ~AtMostOne(EnabledOf(us))

DeleteKnows(us, q) ==
    /\ q.at \in {"read", "write"} => SawRole(us, q)
    /\ q.at = "write" /\ q.seen = "admin" => ~AtMostOne(AdminsOf(us))

Knows(us, q) ==
    q.alone => /\ q.op = "patch" => PatchKnows(us, q)
               /\ q.op = "delete" => DeleteKnows(us, q)

KInv == \A t \in Threads : req[t] # Idle => Knows(users, req[t])

(* The two ways a step changes requests: one thread's, with users as they   *)
(* were, or a write, after which no request under way is alone.             *)
LEMMA OneMoves ==
  ASSUME IInv, KInv, users' = users, NEW t \in Threads, NEW q,
         req' = [req EXCEPT ![t] = q], q = Idle \/ Knows(users, q)
  PROVE  KInv'
<1>1. req \in [Threads -> Requests \cup {Idle}]
  BY DEF IInv, TypeOK
<1>2. ASSUME NEW r \in Threads, req'[r] # Idle PROVE Knows(users', req'[r])
  BY <1>1, <1>2 DEF KInv
<1>. QED
  BY <1>2 DEF KInv

LEMMA WriteMoves ==
  ASSUME IInv, NEW t \in Threads, AnswerWritten(t)
  PROVE  KInv'
<1>1. ASSUME NEW r \in Threads, req'[r] # Idle PROVE ~req'[r].alone
  <2>1. req[r] # Idle /\ req'[r] = [req[r] EXCEPT !.alone = FALSE]
    BY <1>1 DEF AnswerWritten
  <2>2. req[r] \in Requests
    BY <2>1, ServedTyped DEF IInv
  <2>. QED
    BY <2>1, <2>2 DEF Requests
<1>. QED
  BY <1>1 DEF KInv, Knows

(* No request is read yet at a start. *)
LEMMA InitKnows == Init => KInv
BY DEF Init, KInv

(* The reads: a name is unique, so the role read is that of every row.      *)
LEMMA ReadKnows == ASSUME IInv, KInv, NEW t \in Threads, Reads(t) PROVE KInv'
<1>. DEFINE q == req[t]
<1>1. CASE LoginReads(t)
  <2>1. PICK u \in users : req' = [req EXCEPT ![t].at = "write", ![t].id = u.id]
    BY <1>1 DEF LoginReads, Named
  <2>2. q \in Requests /\ q.op = "login" /\ users' = users
    BY <1>1, ServedTyped DEF LoginReads, Serves, IInv
  <2>3. [q EXCEPT !.at = "write", !.id = u.id].op = "login"
    BY <2>2 DEF Requests
  <2>4. Knows(users, [q EXCEPT !.at = "write", !.id = u.id])
    BY <2>3 DEF Knows
  <2>5. req' = [req EXCEPT ![t] = [q EXCEPT !.at = "write", !.id = u.id]]
    BY <2>1, <2>2 DEF Requests, IInv, TypeOK
  <2>. QED
    BY <2>2, <2>4, <2>5, OneMoves
<1>2. CASE CreateReads(t)
  <2>1. q \in Requests /\ q.op = "create" /\ users' = users
    BY <1>2, ServedTyped DEF CreateReads, Serves, IInv
  <2>2. [q EXCEPT !.at = "write"].op = "create"
    BY <2>1 DEF Requests
  <2>3. Knows(users, [q EXCEPT !.at = "write"])
    BY <2>2 DEF Knows
  <2>4. req' = [req EXCEPT ![t] = [q EXCEPT !.at = "write"]]
    BY <1>2 DEF CreateReads, Proceed
  <2>. QED
    BY <2>1, <2>3, <2>4, OneMoves
<1>3. ASSUME NEW u \in Named(q.name), NEW op, NEW at, q.op = op,
             <<op, at>> \in {<<"patch", "role">>, <<"delete", "read">>}, q # Idle, users' = users,
             req' = [req EXCEPT ![t].at = at, ![t].seen = u.role]
      PROVE  KInv'
  <2>. DEFINE p == [q EXCEPT !.at = at, !.seen = u.role]
  <2>1. q \in Requests
    BY <1>3, ServedTyped DEF IInv
  <2>2. p.op = op /\ p.at = at /\ p.seen = u.role /\ p.name = q.name
    BY <2>1, <1>3 DEF Requests
  <2>3. req' = [req EXCEPT ![t] = p]
    BY <1>3, <2>1 DEF Requests, IInv, TypeOK
  <2>. HIDE DEF p
  <2>4. \A v \in users : v.name = q.name => v = u
    BY DEF IInv, TypeOK, Named
  <2>5. SawRole(users, p)
    BY <2>2, <2>4 DEF SawRole
  <2>6. (op = "patch" /\ at = "role") \/ (op = "delete" /\ at = "read")
    BY <1>3
  <2>7. Knows(users, p)
    BY <2>2, <2>5, <2>6 DEF Knows, PatchKnows, DeleteKnows
  <2>. QED
    BY <1>3, <2>3, <2>7, OneMoves
<1>4. CASE PatchReads(t)
  BY <1>3, <1>4 DEF PatchReads, Serves
<1>5. CASE DeleteReads(t)
  BY <1>3, <1>5 DEF DeleteReads, Serves
<1>. QED
  BY <1>1, <1>2, <1>4, <1>5 DEF Reads

(* The checks: each adds what it counted to what the request knows.         *)
LEMMA CheckKnows == ASSUME IInv, KInv, NEW t \in Threads, Checks(t) PROVE KInv'
<1>. DEFINE q == req[t]
<1>. DEFINE p(at) == [q EXCEPT !.at = at]
<1>1. q # Idle /\ users' = users
  BY DEF Checks, PatchChecksRole, PatchChecksEnabled, DeleteCounts, Serves
<1>2. q \in Requests /\ Knows(users, q)
  BY <1>1, ServedTyped DEF IInv, KInv
<1>3. Admins = AdminsOf(users) /\ EnabledAdmins = EnabledOf(users)
  BY DEF Admins, EnabledAdmins, AdminsOf, EnabledOf
<1>4. ASSUME NEW at
      PROVE  /\ p(at).at = at /\ p(at).op = q.op /\ p(at).alone = q.alone
             /\ SawRole(users, q) => SawRole(users, p(at))
             /\ Demotes(p(at)) = Demotes(q) /\ Disables(p(at)) = Disables(q)
             /\ p(at).seen = q.seen
  BY <1>2 DEF Requests, SawRole, Demotes, Disables
<1>5. ASSUME NEW at, Proceed(t, at), Knows(users, p(at)) PROVE KInv'
  BY <1>1, <1>5, OneMoves DEF Proceed
<1>6. CASE PatchChecksRole(t)
  <2>1. q.op = "patch" /\ q.at = "role" /\ Proceed(t, "enabled")
    BY <1>6 DEF PatchChecksRole, Serves
  <2>2. Demotes(q) => ~AtMostOne(EnabledOf(users))
    BY <1>3, <1>6 DEF PatchChecksRole, TakesRole, Demotes
  <2>3. q.alone => SawRole(users, q)
    BY <1>2, <2>1 DEF Knows, PatchKnows
  <2>. HIDE DEF p
  <2>4. Knows(users, p("enabled"))
    BY <1>4, <2>1, <2>2, <2>3 DEF Knows, PatchKnows
  <2>. QED
    BY <1>5, <2>1, <2>4
<1>7. CASE PatchChecksEnabled(t)
  <2>1. q.op = "patch" /\ q.at = "enabled" /\ Proceed(t, "write")
    BY <1>7 DEF PatchChecksEnabled, Serves
  <2>2. Disables(q) => ~AtMostOne(EnabledOf(users))
    BY <1>3, <1>7 DEF PatchChecksEnabled, TakesAccess, Disables
  <2>3. q.alone => SawRole(users, q) /\ (Demotes(q) => ~AtMostOne(EnabledOf(users)))
    BY <1>2, <2>1 DEF Knows, PatchKnows
  <2>. HIDE DEF p
  <2>4. Knows(users, p("write"))
    BY <1>4, <2>1, <2>2, <2>3 DEF Knows, PatchKnows
  <2>. QED
    BY <1>5, <2>1, <2>4
<1>8. CASE DeleteCounts(t)
  <2>1. q.op = "delete" /\ q.at = "read" /\ Proceed(t, "write")
    BY <1>8 DEF DeleteCounts, Serves
  <2>2. q.seen = "admin" => ~AtMostOne(AdminsOf(users))
    BY <1>3, <1>8 DEF DeleteCounts
  <2>3. q.alone => SawRole(users, q)
    BY <1>2, <2>1 DEF Knows, DeleteKnows
  <2>. HIDE DEF p
  <2>4. Knows(users, p("write"))
    BY <1>4, <2>1, <2>2, <2>3 DEF Knows, DeleteKnows
  <2>. QED
    BY <1>5, <2>1, <2>4
<1>. QED
  BY <1>6, <1>7, <1>8 DEF Checks

(* Every step keeps what requests know. *)
LEMMA StepKnows == IInv /\ KInv /\ [Next]_vars => KInv'
<1>. SUFFICES ASSUME IInv, KInv, [Next]_vars PROVE KInv'
  OBVIOUS
<1>1. ASSUME NEW t \in Threads, Arrives(t) PROVE KInv'
  <2>1. PICK op \in {"login", "create", "patch", "delete"}, n \in Names,
            body \in Bodies \cup {Plain} \cup {[role |-> r, enabled |-> Keep] : r \in Roles} : Asks(t, op, n, body)
    BY <1>1 DEF Arrives
  <2>. DEFINE q == [op |-> op, at |-> "asked", name |-> n, body |-> body,
                    id |-> 0, seen |-> Keep, alone |-> TRUE]
  <2>2. Knows(users, q)
    BY DEF Knows, PatchKnows, DeleteKnows
  <2>3. req' = [req EXCEPT ![t] = q] /\ users' = users
    BY <2>1 DEF Asks
  <2>. HIDE DEF q
  <2>. QED
    BY <2>2, <2>3, OneMoves
<1>2. ASSUME NEW t \in Threads, Refused(t) \/ LoginStores(t) PROVE KInv'
  BY <1>2, OneMoves DEF Refused, LoginStores, Answer
<1>3. ASSUME NEW t \in Threads, CreateInserts(t) \/ PatchWrites(t) \/ DeleteWrites(t) PROVE KInv'
  BY <1>3, WriteMoves DEF CreateInserts, PatchWrites, DeleteWrites
<1>4. CASE SessionEnds \/ UNCHANGED vars
  BY <1>4 DEF SessionEnds, vars, KInv
<1>5. CASE Restart
  BY <1>5 DEF Restart, KInv
<1>. QED
  BY <1>1, <1>2, <1>3, <1>4, <1>5, ReadKnows, CheckKnows DEF Next, Writes

(* A lone PATCH: an enabled administrator it does not name stays; the one   *)
(* it names stays an enabled administrator unless there are two.            *)
LEMMA PatchKeepsOne ==
  ASSUME IInv, KInv, NEW t \in Threads, PatchWrites(t), req[t].alone, EnabledAdmins # {}
  PROVE  EnabledAdmins' # {}
<1>. DEFINE q == req[t]
<1>. DEFINE new(u) == IF u.name = q.name THEN Patched(u, q.body) ELSE u
<1>1. PatchKnows(users, q) /\ q.at = "write" /\ q \in Requests
  BY ServedTyped DEF PatchWrites, Serves, KInv, Knows, IInv
<1>2. users' = {new(u) : u \in users}
  BY DEF PatchWrites
<1>3. ASSUME NEW u \in users, new(u).role = "admin", new(u).enabled
      PROVE  EnabledAdmins' # {}
  BY <1>2, <1>3 DEF EnabledAdmins, Admins
<1>4. ASSUME NEW u \in EnabledAdmins, u.name # q.name PROVE EnabledAdmins' # {}
  BY <1>3, <1>4 DEF EnabledAdmins, Admins
<1>5. PICK e \in EnabledAdmins : TRUE
  OBVIOUS
<1>6. CASE e.name = q.name /\ (Demotes(q) \/ Disables(q))
  <2>1. ~AtMostOne(EnabledAdmins)
    BY <1>1, <1>6 DEF PatchKnows, EnabledOf, AdminsOf, EnabledAdmins, Admins
  <2>2. PICK u \in EnabledAdmins : u # e
    BY <2>1 DEF AtMostOne
  <2>3. u \in users /\ e \in users
    BY DEF EnabledAdmins, Admins
  <2>4. u.name # q.name
    BY <1>6, <2>2, <2>3 DEF IInv, TypeOK
  <2>. QED
    BY <1>4, <2>4
<1>7. CASE e.name = q.name /\ ~Demotes(q) /\ ~Disables(q)
  <2>1. e \in users /\ e.role = "admin" /\ e.enabled /\ e \in Users
    BY DEF EnabledAdmins, Admins, IInv, TypeOK
  <2>2. q.seen = "admin"
    BY <1>1, <1>7, <2>1 DEF PatchKnows, SawRole
  <2>3. q.body \in Bodies
    BY <1>1 DEF Requests
  <2>4. q.body.role \in {Keep, "admin"} /\ q.body.enabled \in {"on", Keep}
    BY <1>7, <2>2, <2>3 DEF Demotes, Disables, Bodies
  <2>5. Patched(e, q.body).role = "admin" /\ Patched(e, q.body).enabled
    BY <2>1, <2>4 DEF Patched, Users
  <2>. QED
    BY <1>3, <1>7, <2>1, <2>5
<1>. QED
  BY <1>4, <1>6, <1>7

(* A lone DELETE: the administrator it names goes only when there are two.  *)
LEMMA DeleteKeepsOne ==
  ASSUME IInv, KInv, NEW t \in Threads, DeleteWrites(t), req[t].alone, Admins # {}
  PROVE  Admins' # {}
<1>. DEFINE q == req[t]
<1>1. DeleteKnows(users, q) /\ q.at = "write"
  BY DEF DeleteWrites, Serves, KInv, Knows
<1>2. ASSUME NEW u \in Admins, u.name # q.name PROVE Admins' # {}
  BY <1>2 DEF DeleteWrites, Named, Admins
<1>3. PICK e \in Admins : TRUE
  OBVIOUS
<1>4. CASE e.name = q.name
  <2>1. q.seen = "admin"
    BY <1>1, <1>4 DEF DeleteKnows, SawRole, Admins
  <2>2. PICK u \in Admins : u # e
    BY <1>1, <2>1 DEF DeleteKnows, AtMostOne, AdminsOf, Admins
  <2>3. u.name # q.name
    BY <1>4, <2>2 DEF IInv, TypeOK, Admins
  <2>. QED
    BY <1>2, <2>3
<1>. QED
  BY <1>2, <1>4

(* What requests know holds always. *)
THEOREM LoneRequestsKnow == Spec => [](IInv /\ KInv)
<1>. QED
  BY InitInv, StepInv, InitKnows, StepKnows, PTL DEF Spec

(* No PATCH or DELETE of /users that ran without another's change in        *)
(* between takes the last administrator.                                    *)
THEOREM AdminsKept == Spec => LoneChangesKeepAnAdmin
<1>. DEFINE Kept == \A t \in Threads :
                      /\ (PatchWrites(t) /\ req[t].alone /\ EnabledAdmins # {}) => EnabledAdmins' # {}
                      /\ (DeleteWrites(t) /\ req[t].alone /\ Admins # {}) => Admins' # {}
<1>1. IInv /\ KInv /\ [Next]_vars => [Kept]_vars
  BY PatchKeepsOne, DeleteKeepsOne
<1>2. [][IInv /\ KInv /\ [Next]_vars]_vars => [][Kept]_vars
  BY <1>1, PTL
<1>3. Spec => [][IInv /\ KInv /\ [Next]_vars]_vars
  BY LoneRequestsKnow, PTL DEF Spec
<1>. QED
  BY <1>2, <1>3 DEF LoneChangesKeepAnAdmin
=============================================================================
