------------------------------ MODULE Startup ------------------------------
(***************************************************************************)
(* The daemon's way up: settings, schema, seed, first admin, bind; and the *)
(* rebind that PUT /settings and POST /settings/apply ask for              *)
(* (src/daemon/main.cpp, build_api, start_api and the main loop;           *)
(* src/api/http_server.cpp, HttpServer::start, ensure_schema and           *)
(* ensure_default_admin; src/db/database.cpp, apply_script).               *)
(*                                                                         *)
(* The database, the interface, the port and the certificate come and go   *)
(* while the daemon runs; a kill may fall between any two steps, and so    *)
(* may starbasectl db-init and db-seed, the first of which the package's   *)
(* postinst runs before there is a daemon.  An address is abstracted to    *)
(* whether it can be bound.                                                *)
(***************************************************************************)
EXTENDS Naturals

CONSTANTS Binds,        \* bind addresses
          Localhost,    \* 127.0.0.1
          Ports,        \* port numbers in range
          Files,        \* what the config file may say
          Unset,        \* no row in settings; no listener
          MaxTrouble    \* bound: changes of the outside world, kills included

(* pair: both tls_cert and tls_key are set; schema, seed: the path of the   *)
(* script is set, and the script can be read                                *)
ConfigFile == [bind : Binds, port : Ports, tls : BOOLEAN, pair : BOOLEAN,
               schema : BOOLEAN, seed : BOOLEAN]

ASSUME StartupAssumption ==
    /\ Localhost \in Binds
    /\ Unset \notin Binds \cup Ports
    /\ Files \subseteq ConfigFile
    /\ MaxTrouble \in Nat

VARIABLES schema,   \* none, cut (it has its version row, not all of its tables), whole
          seed,     \* all header mappings and rules are there
          admin,    \* some row in users
          stored,   \* api_bind, api_port and api_tls in settings
          dbUp, bindable, free, certGood,   \* the outside world
          file,     \* the config file as it was last loaded
          main,     \* where the main thread is
          api,      \* the ApiConfig of this attempt, Unset when there is none
          fresh,    \* ensure_schema's local, FALSE outside of it
          attempt,  \* 1: as configured, 2: on localhost
          first,    \* the process has had no server yet
          serving,  \* the config of the listener, or Unset
          apply,    \* g_apply
          trouble,  \* history: changes of the outside world so far
          late,     \* history: this server has not read what is stored now
          spoilt,   \* history: the schema was begun by something that did not seed
          rebind,   \* history: "due" from the taking of an apply to the end of its rebind,
                    \* "killed" if a kill came first
          readOk    \* history: this attempt has read its settings

world == <<dbUp, bindable, free, certGood>>
tables == <<schema, seed, admin, stored>>
local == <<api, fresh, attempt, first>>
vars == <<tables, world, file, main, local, serving, apply, trouble, late, spoilt, rebind,
          readOk>>

NoSetting == [bind |-> Unset, port |-> Unset, tls |-> "unset"]

Init ==
    /\ schema = "none" /\ seed = FALSE /\ admin = FALSE /\ stored = NoSetting
    /\ dbUp = TRUE /\ bindable \in SUBSET Binds /\ free \in SUBSET Ports /\ certGood \in BOOLEAN
    /\ Localhost \in bindable
    /\ file \in Files
    /\ main = "build" /\ api = Unset
    /\ fresh = FALSE /\ attempt = 1 /\ first = TRUE
    /\ serving = Unset /\ apply = FALSE /\ trouble = 0 /\ late = FALSE
    /\ spoilt = FALSE /\ rebind = "no" /\ readOk = FALSE

-----------------------------------------------------------------------------
(* The outside world *)

Trouble == trouble < MaxTrouble /\ trouble' = trouble + 1

DatabaseChanges == dbUp' = ~dbUp /\ UNCHANGED <<bindable, free, certGood>>
PortChanges ==
    /\ \E p \in Ports : free' = IF p \in free THEN free \ {p} ELSE free \cup {p}
    /\ UNCHANGED <<dbUp, bindable, certGood>>
CertificateBreaks == certGood' = ~certGood /\ UNCHANGED <<dbUp, bindable, free>>

WorldChanges ==
    /\ Trouble
    /\ DatabaseChanges \/ PortChanges \/ CertificateBreaks
    /\ UNCHANGED <<tables, file, main, local, serving, apply, late, spoilt, rebind, readOk>>

(* A script that is cut short: what it did before stays.  The schema has    *)
(* its version row by then, and whoever finds that does not seed.           *)
CutShort(step) ==
    /\ schema' \in IF step = "schema" /\ schema = "none"
                     THEN {"none", "cut"} ELSE {schema}
    /\ spoilt' = (spoilt \/ schema' # schema \/ (step = "seed" /\ ~seed))
    /\ UNCHANGED seed

(* SIGKILL, power loss, or the exit after a failed first start; the unit is *)
(* started again, and loads the config file anew.                           *)
Killed ==
    /\ Trouble
    /\ file' \in Files
    /\ main' = "build" /\ attempt' = 1 /\ first' = TRUE
    /\ serving' = Unset /\ apply' = FALSE /\ late' = FALSE /\ readOk' = FALSE
    /\ api' = Unset /\ fresh' = FALSE
    /\ rebind' = IF apply \/ rebind # "no" THEN "killed" ELSE "no"
    /\ CutShort(main)
    /\ UNCHANGED <<admin, stored, world>>

(* starbasectl db-init: it seeds nothing, and may fail half way itself. *)
DbInit ==
    /\ dbUp
    /\ schema # "whole"
    /\ schema' \in {"cut", "whole"}
    /\ spoilt' = TRUE
    /\ UNCHANGED <<seed, admin, stored, world, file, main, local, serving, apply, trouble, late,
                   rebind, readOk>>

(* starbasectl db-seed, POST /db/seed *)
DbSeed ==
    /\ dbUp
    /\ schema = "whole"
    /\ seed' = TRUE
    /\ UNCHANGED <<schema, admin, stored, world, file, main, local, serving, apply, trouble, late,
                   spoilt, rebind, readOk>>

-----------------------------------------------------------------------------
(* One attempt: build_api, then HttpServer::start *)

Or(set, default) == IF set = Unset THEN default ELSE set

TlsSetting == IF stored.tls = "unset" THEN file.tls ELSE stored.tls = "on"

FromSettings ==
    IF dbUp THEN [bind |-> Or(stored.bind, file.bind), port |-> Or(stored.port, file.port),
                  tls |-> TlsSetting]
            ELSE [bind |-> file.bind, port |-> file.port, tls |-> file.tls]

ConfigOf == IF attempt = 2 THEN [FromSettings EXCEPT !.bind = Localhost] ELSE FromSettings

Build ==
    /\ main = "build"
    /\ api' = ConfigOf
    /\ readOk' = dbUp
    /\ main' = "certify"
    /\ UNCHANGED <<tables, world, file, fresh, attempt, first, serving, apply, trouble, late, spoilt,
                   rebind>>

(* The exception leaves start_api without a server. *)
AttemptFails ==
    /\ main' = IF attempt = 1 THEN "build" ELSE IF first THEN "exited" ELSE "loop"
    /\ attempt' = 2
    /\ api' = Unset /\ readOk' = FALSE
    /\ rebind' = IF attempt = 2 /\ rebind = "due" THEN "no" ELSE rebind
    /\ UNCHANGED <<tables, world, file, fresh, first, serving, apply, trouble, late, spoilt>>

(* Without both paths tls=on is served as plain HTTP. *)
Tls == api.tls /\ file.pair

(* ensure_self_signed_cert and SSLServer: a pair is used or made, or start throws *)
Certifies ==
    /\ main = "certify"
    /\ Tls => certGood
    /\ main' = "look"
    /\ UNCHANGED <<tables, world, file, local, serving, apply, trouble, late, spoilt, rebind, readOk>>

CannotCertify == main = "certify" /\ Tls /\ ~certGood /\ AttemptFails

(* A step of ensure_schema or ensure_default_admin; an error is logged only. *)
Passes(from, to) ==
    /\ main = from
    /\ main' = to
    /\ UNCHANGED <<world, file, api, attempt, first, serving, apply, trouble, late, rebind, readOk>>

(* Without a path ensure_schema returns at once; with one that cannot be    *)
(* read it reads the version, in vain, and apply_script throws.             *)
NoSchemaScript ==
    /\ ~file.schema
    /\ Passes("look", "admin")
    /\ UNCHANGED <<tables, fresh, spoilt>>

LooksAtSchema ==
    /\ dbUp
    /\ file.schema
    /\ Passes("look", "schema")
    /\ fresh' = (schema = "none")
    /\ UNCHANGED <<tables, spoilt>>

(* Mutant: the version is read after the script, no database is ever fresh *)
AppliesSchemaThenLooks ==
    /\ dbUp
    /\ Passes("schema", "admin")
    /\ schema' = "whole"
    /\ fresh' = FALSE
    /\ UNCHANGED <<seed, admin, stored, spoilt>>

(* The version row is among the first statements of the script. *)
AppliesSchema ==
    /\ dbUp
    /\ Passes("schema", IF fresh THEN "seed" ELSE "admin")
    /\ schema' = "whole"
    /\ fresh' = FALSE
    /\ UNCHANGED <<seed, admin, stored, spoilt>>

Seeds ==
    /\ dbUp
    /\ file.seed
    /\ Passes("seed", "admin")
    /\ seed' = TRUE
    /\ UNCHANGED <<schema, admin, stored, fresh, spoilt>>

(* No seed file, or one that cannot be read: logged at most *)
SeedsNothing ==
    /\ ~file.seed
    /\ Passes("seed", "admin")
    /\ spoilt' = (spoilt \/ ~seed)
    /\ UNCHANGED <<tables, fresh>>

EnsuresAdmin ==
    /\ dbUp
    /\ schema = "whole"
    /\ Passes("admin", "bind")
    /\ admin' = TRUE
    /\ UNCHANGED <<schema, seed, stored, fresh, spoilt>>

(* The database fails a step. *)
StepFails(from, to) ==
    /\ Passes(from, to)
    /\ CutShort(from)
    /\ fresh' = FALSE
    /\ UNCHANGED <<admin, stored>>

DatabaseFails ==
    /\ ~dbUp
    /\ \/ file.schema /\ StepFails("look", "admin")
       \/ StepFails("schema", "admin")
       \/ file.seed /\ StepFails("seed", "admin")
       \/ StepFails("admin", "bind")

TablesMissing == schema # "whole" /\ StepFails("admin", "bind")

Bindable(c) == c.bind \in bindable /\ c.port \in free

BindsPort ==
    /\ main = "bind"
    /\ Bindable(api)
    /\ serving' = [api EXCEPT !.tls = Tls]
    /\ late' = ~readOk
    /\ main' = "loop"
    /\ first' = FALSE /\ attempt' = 1
    /\ api' = Unset /\ readOk' = FALSE
    /\ rebind' = IF rebind = "due" THEN "no" ELSE rebind
    /\ UNCHANGED <<tables, world, file, fresh, apply, trouble, spoilt>>

CannotBind == main = "bind" /\ ~Bindable(api) /\ AttemptFails

-----------------------------------------------------------------------------
(* Requests, served until stop() returns *)

Serves == serving # Unset /\ dbUp /\ schema = "whole"

(* PUT /settings: bind first, port next; a port out of range is answered 400 *)
(* with the bind already stored.                                            *)
Put ==
    /\ Serves
    /\ \E b \in Binds \cup {Unset}, p \in Ports \cup {Unset}, t \in {"unset", "on", "off"} :
         stored' = [bind |-> IF b = Unset THEN stored.bind ELSE b,
                    port |-> IF p = Unset THEN stored.port ELSE p,
                    tls |-> IF t = "unset" THEN stored.tls ELSE t]
    /\ late' = TRUE
    /\ UNCHANGED <<schema, seed, admin, world, file, main, local, serving, apply, trouble, spoilt,
                   rebind, readOk>>

(* POST /settings/apply raises SIGUSR1. *)
Apply ==
    /\ Serves
    /\ apply' = TRUE
    /\ UNCHANGED <<tables, world, file, main, local, serving, trouble, late, spoilt, rebind, readOk>>

(* Mutant: only a daemon that has a server looks at the flag *)
TakesApplyServing ==
    /\ main = "loop"
    /\ apply /\ serving # Unset
    /\ apply' = FALSE
    /\ main' = "stopping"
    /\ rebind' = "due"
    /\ UNCHANGED <<tables, world, file, local, serving, trouble, late, spoilt, readOk>>

TakesApply ==
    /\ main = "loop"
    /\ apply
    /\ apply' = FALSE
    /\ main' = "stopping"
    /\ rebind' = "due"
    /\ UNCHANGED <<tables, world, file, local, serving, trouble, late, spoilt, readOk>>

(* Mutant: the old server goes on until the new one is up *)
StopsLast ==
    /\ main = "stopping"
    /\ main' = "build"
    /\ attempt' = 1
    /\ UNCHANGED <<tables, world, file, api, fresh, first, serving, apply, trouble, late, spoilt,
                   rebind, readOk>>

(* stop() has drained the requests. *)
Stops ==
    /\ main = "stopping"
    /\ serving' = Unset
    /\ late' = FALSE
    /\ main' = "build"
    /\ attempt' = 1
    /\ UNCHANGED <<tables, world, file, api, fresh, first, apply, trouble, spoilt, rebind, readOk>>

(* SIGHUP: the main loop loads the config file again, for the next rebind. *)
Reloads ==
    /\ Trouble
    /\ main = "loop"
    /\ file' \in Files
    /\ late' = TRUE
    /\ UNCHANGED <<tables, world, main, local, serving, apply, spoilt, rebind, readOk>>

Starting ==
    \/ Build \/ Certifies \/ CannotCertify
    \/ NoSchemaScript \/ LooksAtSchema \/ AppliesSchema
    \/ Seeds \/ SeedsNothing \/ EnsuresAdmin \/ DatabaseFails \/ TablesMissing
    \/ BindsPort \/ CannotBind

Next ==
    \/ Starting \/ TakesApply \/ Stops \/ Reloads
    \/ Put \/ Apply \/ DbInit \/ DbSeed \/ WorldChanges \/ Killed

(* The main thread is scheduled. *)
Spec == Init /\ [][Next]_vars /\ WF_vars(Starting \/ TakesApply \/ Stops)

-----------------------------------------------------------------------------
(* A server whose database has a schema has the default rules in it, unless *)
(* that schema was begun by something that does not see the seeding         *)
(* through: db-init, as the package's postinst runs it, a start without a   *)
(* readable seed file, or one that a kill or a database error cut short in  *)
(* the schema or the seed.  Whatever starts follow one of those, they do    *)
(* not seed either (hazard at ensure_schema).                               *)
DefaultsUnlessSpoilt ==
    (main = "loop" /\ serving # Unset /\ schema # "none") => seed \/ spoilt

(* What was stored before the server came up, by requests the old one        *)
(* drained included, is what it serves over the config file as loaded, save  *)
(* the localhost fallback and a start that could not read the settings; tls  *)
(* is served only where both paths are set.                                  *)
ServesWhatIsStored ==
    (main = "loop" /\ serving # Unset /\ ~late) =>
        /\ serving.port = Or(stored.port, file.port)
        /\ serving.tls = (TlsSetting /\ file.pair)
        /\ serving.bind \in {Or(stored.bind, file.bind), Localhost}

(* All that a server on localhost asks for *)
Workable == free = Ports /\ Localhost \in bindable /\ certGood

(* Every POST /settings/apply begins a rebind, also one that arrives during  *)
(* another or when that has left no server; every rebind ends, and where it  *)
(* leaves no server both attempts failed, for want of something that a       *)
(* server on localhost needs as well.  A kill excuses from it.               *)
AppliesAreActedOn ==
    /\ apply ~> (~apply /\ rebind \in {"due", "killed"})
    /\ rebind = "due" ~>
         (rebind = "killed" \/ (rebind = "no" /\ (serving # Unset \/ ~Workable)))
=============================================================================
