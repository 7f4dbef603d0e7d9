------------------------------ MODULE Accounts ------------------------------
(***************************************************************************)
(* Accounts and login sessions (src/api/http_server.cpp, authenticate,     *)
(* POST /login and /logout, POST, PATCH and DELETE /users,                 *)
(* ensure_default_admin; the tables users and sessions).                   *)
(*                                                                         *)
(* Every handler runs on a thread of its own with a connection of its own  *)
(* and no transaction: each SQL statement is one step, and the statements  *)
(* of two requests interleave.  Passwords are abstracted to a login that   *)
(* verifies or does not; a session that expires is one the database no     *)
(* longer returns.                                                         *)
(***************************************************************************)
EXTENDS Naturals

CONSTANTS Threads,     \* HTTP threads
          Names,       \* user names
          AdminName,   \* "admin", the seeded account
          Ordinary,    \* the other roles, "user" and "readonly"
          Tokens,      \* session tokens (bound: logins that last at one time)
          StaticToken, \* SB_API_TOKEN is set: some callers are admin without a login
          Idle,        \* a thread without a request
          MaxId        \* bound: accounts ever created

ASSUME AccountsAssumption ==
    /\ AdminName \in Names
    /\ "admin" \notin Ordinary /\ "keep" \notin Ordinary
    /\ StaticToken \in BOOLEAN
    /\ MaxId \in Nat \ {0}

VARIABLES users,    \* the table users, passwords left out
          sessions, \* the table sessions: token and user_id
          lastId,   \* users.AUTO_INCREMENT
          req       \* what each thread serves

vars == <<users, sessions, lastId, req>>

Roles == {"admin"} \cup Ordinary
Ids == 1 .. MaxId
Keep == "keep"  \* the field is not in the request's body

Users == [id : Ids, name : Names, role : Roles, enabled : BOOLEAN]
Bodies == [role : Roles \cup {Keep}, enabled : {"on", "off", Keep}] \ {[role |-> Keep, enabled |-> Keep]}
Plain == [role |-> "admin", enabled |-> Keep]  \* where no body matters

Requests == [op : {"login", "create", "patch", "delete"},
             at : {"asked", "read", "role", "enabled", "write"},
             name : Names, body : Bodies, id : Ids \cup {0}, seen : Roles \cup {Keep}, alone : BOOLEAN]

Named(n) == {u \in users : u.name = n}
Admins == {u \in users : u.role = "admin"}
EnabledAdmins == {u \in Admins : u.enabled}

(* SELECT COUNT(...) came to one or none *)
AtMostOne(S) == \A a, b \in S : a = b

(* authenticate() finds an admin behind some request *)
AnAdminCalls == StaticToken \/ \E s \in sessions : \E u \in EnabledAdmins : u.id = s.user

(* ensure_default_admin *)
Seeded(us, id) == IF us = {} THEN {[id |-> id, name |-> AdminName, role |-> "admin", enabled |-> TRUE]} ELSE us

Init ==
    /\ users = Seeded({}, 1)
    /\ sessions = {}
    /\ lastId = 1
    /\ req = [t \in Threads |-> Idle]

-----------------------------------------------------------------------------
Serves(t, op, at) == req[t] # Idle /\ req[t].op = op /\ req[t].at = at

Answer(t) == req' = [req EXCEPT ![t] = Idle]
Proceed(t, at) == req' = [req EXCEPT ![t].at = at]

(* The answer of a request that wrote: the requests under way are not alone *)
AnswerWritten(t) ==
    req' = [r \in Threads |-> IF r = t \/ req[r] = Idle THEN Idle ELSE [req[r] EXCEPT !.alone = FALSE]]

(* A request arrives; those on users pass require_admin, a login does not. *)
Asks(t, op, n, body) ==
    /\ req[t] = Idle
    /\ op # "login" => AnAdminCalls
    /\ req' = [req EXCEPT ![t] = [op |-> op, at |-> "asked", name |-> n, body |-> body,
                                  id |-> 0, seen |-> Keep, alone |-> TRUE]]
    /\ UNCHANGED <<users, sessions, lastId>>

(* Not found, refused by a rule, an exception of the database: no change. *)
Refused(t) ==
    /\ req[t] # Idle
    /\ Answer(t)
    /\ UNCHANGED <<users, sessions, lastId>>

-----------------------------------------------------------------------------
LoginReads(t) ==
    /\ Serves(t, "login", "asked")
    /\ \E u \in Named(req[t].name) :
         /\ u.enabled
         /\ req' = [req EXCEPT ![t].at = "write", ![t].id = u.id]
    /\ UNCHANGED <<users, sessions, lastId>>

(* Mutant: a session whose account is gone is stored all the same *)
LoginStoresBlindly(t) ==
    /\ Serves(t, "login", "write")
    /\ \E tok \in Tokens \ {s.token : s \in sessions} :
         sessions' = sessions \cup {[token |-> tok, user |-> req[t].id]}
    /\ Answer(t)
    /\ UNCHANGED <<users, lastId>>

(* The foreign key refuses the session of an account deleted since. *)
LoginStores(t) ==
    /\ Serves(t, "login", "write")
    /\ \E u \in users : u.id = req[t].id
    /\ \E tok \in Tokens \ {s.token : s \in sessions} :
         sessions' = sessions \cup {[token |-> tok, user |-> req[t].id]}
    /\ Answer(t)
    /\ UNCHANGED <<users, lastId>>

(* POST /logout, or the expiry after seven days *)
SessionEnds ==
    /\ \E s \in sessions : sessions' = sessions \ {s}
    /\ UNCHANGED <<users, lastId, req>>

-----------------------------------------------------------------------------
CreateReads(t) ==
    /\ Serves(t, "create", "asked")
    /\ Named(req[t].name) = {}
    /\ Proceed(t, "write")
    /\ UNCHANGED <<users, sessions, lastId>>

Inserted(t) ==
    users \cup {[id |-> lastId + 1, name |-> req[t].name, role |-> req[t].body.role, enabled |-> TRUE]}

(* uk_users_username refuses the name another request has taken meanwhile. *)
CreateInserts(t) ==
    /\ Serves(t, "create", "write")
    /\ req[t].body.role # Keep
    /\ Named(req[t].name) = {}
    /\ lastId < MaxId
    /\ users' = Inserted(t)
    /\ lastId' = lastId + 1
    /\ AnswerWritten(t)
    /\ UNCHANGED sessions

-----------------------------------------------------------------------------
PatchReads(t) ==
    /\ Serves(t, "patch", "asked")
    /\ \E u \in Named(req[t].name) : req' = [req EXCEPT ![t].at = "role", ![t].seen = u.role]
    /\ UNCHANGED <<users, sessions, lastId>>

TakesRole(t) == req[t].body.role # Keep /\ req[t].seen = "admin" /\ req[t].body.role # "admin"
TakesAccess(t) == req[t].body.enabled = "off" /\ req[t].seen = "admin"

(* Each of the two checks counts again when it applies; a refusal is Refused. *)
PatchChecksRole(t) ==
    /\ Serves(t, "patch", "role")
    /\ TakesRole(t) => ~AtMostOne(EnabledAdmins)
    /\ Proceed(t, "enabled")
    /\ UNCHANGED <<users, sessions, lastId>>

(* Mutant: disabled admins are counted too *)
PatchChecksEnabledAmongAll(t) ==
    /\ Serves(t, "patch", "enabled")
    /\ TakesAccess(t) => ~AtMostOne(Admins)
    /\ Proceed(t, "write")
    /\ UNCHANGED <<users, sessions, lastId>>

PatchChecksEnabled(t) ==
    /\ Serves(t, "patch", "enabled")
    /\ TakesAccess(t) => ~AtMostOne(EnabledAdmins)
    /\ Proceed(t, "write")
    /\ UNCHANGED <<users, sessions, lastId>>

Patched(u, body) ==
    [u EXCEPT !.role = IF body.role = Keep THEN @ ELSE body.role,
              !.enabled = IF body.enabled = Keep THEN @ ELSE body.enabled = "on"]

(* UPDATE users ... WHERE username: no row when the account is gone *)
PatchWrites(t) ==
    /\ Serves(t, "patch", "write")
    /\ users' = {IF u.name = req[t].name THEN Patched(u, req[t].body) ELSE u : u \in users}
    /\ AnswerWritten(t)
    /\ UNCHANGED <<sessions, lastId>>

-----------------------------------------------------------------------------
DeleteReads(t) ==
    /\ Serves(t, "delete", "asked")
    /\ \E u \in Named(req[t].name) : req' = [req EXCEPT ![t].at = "read", ![t].seen = u.role]
    /\ UNCHANGED <<users, sessions, lastId>>

(* Every admin counts, also one that is disabled. *)
DeleteCounts(t) ==
    /\ Serves(t, "delete", "read")
    /\ req[t].seen = "admin" => ~AtMostOne(Admins)
    /\ Proceed(t, "write")
    /\ UNCHANGED <<users, sessions, lastId>>

(* ON DELETE CASCADE takes the sessions along. *)
DeleteWrites(t) ==
    /\ Serves(t, "delete", "write")
    /\ users' = users \ Named(req[t].name)
    /\ sessions' = {s \in sessions : \A u \in Named(req[t].name) : s.user # u.id}
    /\ AnswerWritten(t)
    /\ UNCHANGED lastId

(* Mutant: the counter starts again at the number of rows, as it did before *)
(* InnoDB kept it on disk                                                   *)
RestartRecounts ==
    /\ users # {}
    /\ lastId' = 1
    /\ req' = [t \in Threads |-> Idle]
    /\ UNCHANGED <<users, sessions>>

(* The daemon starts again: requests are gone, an empty table is seeded. *)
Restart ==
    /\ users = {} => lastId < MaxId
    /\ users' = Seeded(users, lastId + 1)
    /\ lastId' = IF users = {} THEN lastId + 1 ELSE lastId
    /\ req' = [t \in Threads |-> Idle]
    /\ UNCHANGED sessions

-----------------------------------------------------------------------------
Arrives(t) ==
    \E n \in Names :
      \/ \E op \in {"login", "delete"} : Asks(t, op, n, Plain)
      \/ \E r \in Roles : Asks(t, "create", n, [role |-> r, enabled |-> Keep])
      \/ \E b \in Bodies : Asks(t, "patch", n, b)

Reads(t) == LoginReads(t) \/ CreateReads(t) \/ PatchReads(t) \/ DeleteReads(t)
Checks(t) == PatchChecksRole(t) \/ PatchChecksEnabled(t) \/ DeleteCounts(t)
Writes(t) == LoginStores(t) \/ CreateInserts(t) \/ PatchWrites(t) \/ DeleteWrites(t)

Next ==
    \/ \E t \in Threads : Arrives(t) \/ Reads(t) \/ Checks(t) \/ Writes(t) \/ Refused(t)
    \/ SessionEnds
    \/ Restart

Spec == Init /\ [][Next]_vars

-----------------------------------------------------------------------------
(* Type invariant: rows, sessions and requests are well formed, ids come    *)
(* from the counter and are never shared, and requests that create one      *)
(* name, or recreate one that is being deleted, leave one account under it. *)
TypeOK ==
    /\ users \subseteq Users
    /\ sessions \subseteq [token : Tokens, user : Ids]
    /\ lastId \in Ids /\ \A u \in users : u.id <= lastId
    /\ req \in [Threads -> Requests \cup {Idle}]
    /\ \A u, v \in users : u.name = v.name \/ u.id = v.id => u = v

(* A session belongs to an account that exists, also when the login         *)
(* overlaps the account's deletion: nobody inherits it later.               *)
SessionsHaveAccounts == \A s \in sessions : \E u \in users : u.id = s.user

(* No request that ran without another's change in between takes the last   *)
(* admin: a PATCH leaves one that can log in, a DELETE one in the table.     *)
(* (Requests that overlap can, see the README, and a DELETE may leave a     *)
(* disabled admin only.)                                                     *)
LoneChangesKeepAnAdmin ==
    [][\A t \in Threads :
         /\ (PatchWrites(t) /\ req[t].alone /\ EnabledAdmins # {}) => EnabledAdmins' # {}
         /\ (DeleteWrites(t) /\ req[t].alone /\ Admins # {}) => Admins' # {}]_vars
=============================================================================
