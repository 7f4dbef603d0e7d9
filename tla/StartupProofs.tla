---------------------------- MODULE StartupProofs ----------------------------
(***************************************************************************)
(* Startup, for any addresses, ports and config files and any number of    *)
(* troubles: a database that is served has its defaults unless its schema  *)
(* was begun by something that did not seed, and what was stored is what   *)
(* is served.                                                              *)
(***************************************************************************)
EXTENDS Startup, TLAPS

OnTheWayUp == {"certify", "look", "schema", "seed", "admin", "bind"}

(* Requests are served from the bind to the return of stop() only. *)
ServesInLoop == serving # Unset => main \in {"loop", "stopping"}

(* A schema has its defaults, will have them next, or had no one to see to   *)
(* them; a start that has seen a schema there goes by that.                  *)
SeededOrSpoilt ==
    /\ schema # "none" => seed \/ spoilt \/ main = "seed"
    /\ main = "schema" /\ ~fresh => schema # "none"

(* A configuration is what the settings say, save the localhost fallback;   *)
(* tls is what is asked for before the paths are looked at.                 *)
Fits(c, tls) ==
    /\ c = [bind |-> c.bind, port |-> c.port, tls |-> c.tls]
    /\ c.port = Or(stored.port, file.port)
    /\ c.tls = tls
    /\ c.bind \in {Or(stored.bind, file.bind), Localhost}

AttemptFits == (main \in OnTheWayUp /\ readOk) => Fits(api, TlsSetting)
ServerFits == (serving # Unset /\ ~late) => Fits(serving, TlsSetting /\ file.pair)

IInv ==
    /\ ServesInLoop
    /\ SeededOrSpoilt
    /\ AttemptFits
    /\ ServerFits

-----------------------------------------------------------------------------
(* A process begins without a server and without knowing anything. *)
LEMMA InitInv == Init => IInv
BY DEF Init, IInv, ServesInLoop, SeededOrSpoilt, AttemptFits, ServerFits, OnTheWayUp

(* What build_api puts together fits the settings it has read. *)
LEMMA ConfigFits == dbUp => Fits(ConfigOf, TlsSetting)
<1>. SUFFICES ASSUME dbUp PROVE Fits(ConfigOf, TlsSetting)
  OBVIOUS
<1>1. FromSettings = [bind |-> Or(stored.bind, file.bind), port |-> Or(stored.port, file.port),
                      tls |-> TlsSetting]
  BY DEF FromSettings
<1>2. CASE attempt = 2
  BY <1>1, <1>2 DEF ConfigOf, Fits
<1>3. CASE attempt # 2
  BY <1>1, <1>3 DEF ConfigOf, Fits
<1>. QED
  BY <1>2, <1>3

(* build_api's result is an api that nobody has looked into yet. *)
LEMMA BuildInv == ASSUME IInv, Build PROVE IInv'
<1>1. ServesInLoop' /\ SeededOrSpoilt'
  BY DEF Build, IInv, ServesInLoop, SeededOrSpoilt, tables
<1>2. AttemptFits'
  BY ConfigFits DEF Build, AttemptFits, Fits, Or, TlsSetting, tables
<1>3. ServerFits'
  BY DEF Build, IInv, ServerFits, ServesInLoop
<1>. QED
  BY <1>1, <1>2, <1>3 DEF IInv

(* A step between the certificate and the bind leaves settings, file and     *)
(* config alone, and there is no server.                                     *)
LEMMA PassesInv ==
    ASSUME IInv, NEW from \in OnTheWayUp, NEW to \in OnTheWayUp, Passes(from, to),
           UNCHANGED stored, SeededOrSpoilt'
    PROVE  IInv'
<1>1. ServesInLoop'
  BY DEF Passes, IInv, ServesInLoop, OnTheWayUp
<1>2. AttemptFits'
  BY DEF Passes, IInv, AttemptFits, Fits, Or, TlsSetting
<1>3. ServerFits'
  BY DEF Passes, IInv, ServerFits, ServesInLoop, OnTheWayUp
<1>. QED
  BY <1>1, <1>2, <1>3 DEF IInv

(* Whoever leaves the seeding or the schema half way has spoilt it. *)
LEMMA CutSpoils ==
    ASSUME IInv, CutShort(main), main' # "schema"
    PROVE  SeededOrSpoilt'
<1>1. CASE main = "schema" /\ schema = "none"
  BY <1>1 DEF CutShort, SeededOrSpoilt
<1>2. CASE main = "seed"
  BY <1>2 DEF CutShort, SeededOrSpoilt
<1>3. CASE ~(main = "schema" /\ schema = "none") /\ main # "seed"
  BY <1>3 DEF CutShort, SeededOrSpoilt, IInv
<1>. QED
  BY <1>1, <1>2, <1>3

(* Each step of ensure_schema keeps count of who seeds. *)
LEMMA SchemaStep ==
    ASSUME IInv, NoSchemaScript \/ LooksAtSchema \/ AppliesSchema \/ Seeds \/ SeedsNothing
    PROVE  IInv'
<1>. USE DEF tables, Passes, SeededOrSpoilt, IInv
<1>1. CASE NoSchemaScript
  <2>1. SeededOrSpoilt'
    BY <1>1 DEF NoSchemaScript
  <2>. QED
    BY <1>1, <2>1, PassesInv DEF NoSchemaScript, OnTheWayUp
<1>2. CASE LooksAtSchema
  <2>1. SeededOrSpoilt'
    BY <1>2 DEF LooksAtSchema
  <2>. QED
    BY <1>2, <2>1, PassesInv DEF LooksAtSchema, OnTheWayUp
<1>3. CASE AppliesSchema
  <2>1. SeededOrSpoilt'
    BY <1>3 DEF AppliesSchema
  <2>. QED
    BY <1>3, <2>1, PassesInv DEF AppliesSchema, OnTheWayUp
<1>4. CASE Seeds
  <2>1. SeededOrSpoilt'
    BY <1>4 DEF Seeds
  <2>. QED
    BY <1>4, <2>1, PassesInv DEF Seeds, OnTheWayUp
<1>5. CASE SeedsNothing
  <2>1. SeededOrSpoilt'
    BY <1>5 DEF SeedsNothing
  <2>. QED
    BY <1>5, <2>1, PassesInv DEF SeedsNothing, OnTheWayUp
<1>. QED
  BY <1>1, <1>2, <1>3, <1>4, <1>5

(* While there is no server the settings stay, so that a config that fitted *)
(* when it was read fits when the port is bound.                             *)
LEMMA StartingStep == ASSUME IInv, Starting PROVE IInv'
<1>. USE DEF tables, world, local
<1>2. ASSUME AttemptFails, main \in {"certify", "bind"} PROVE IInv'
  BY <1>2 DEF AttemptFails, IInv, ServesInLoop, SeededOrSpoilt, AttemptFits, ServerFits
<1>3. CASE Certifies
  BY <1>3 DEF Certifies, IInv, ServesInLoop, SeededOrSpoilt, AttemptFits, ServerFits, Fits, Or,
              TlsSetting, OnTheWayUp
<1>4. CASE EnsuresAdmin
  <2>1. SeededOrSpoilt'
    BY <1>4 DEF EnsuresAdmin, Passes, SeededOrSpoilt, IInv
  <2>. QED
    BY <1>4, <2>1, PassesInv DEF EnsuresAdmin, OnTheWayUp
<1>5. ASSUME NEW from \in OnTheWayUp, NEW to \in {"admin", "bind"}, StepFails(from, to)
      PROVE  IInv'
  <2>1. main = from /\ main' = to
    BY <1>5 DEF StepFails, Passes
  <2>2. SeededOrSpoilt'
    BY <1>5, <2>1, CutSpoils DEF StepFails
  <2>. QED
    BY <1>5, <2>2, PassesInv DEF StepFails, OnTheWayUp
<1>6. CASE DatabaseFails
  BY <1>5, <1>6 DEF DatabaseFails, OnTheWayUp
<1>7. CASE TablesMissing
  BY <1>5, <1>7 DEF TablesMissing, OnTheWayUp
<1>8. CASE BindsPort
  <2>1. SeededOrSpoilt' /\ ServesInLoop' /\ AttemptFits'
    BY <1>8 DEF BindsPort, IInv, SeededOrSpoilt, ServesInLoop, AttemptFits, OnTheWayUp
  <2>2. ServerFits'
    <3>. SUFFICES ASSUME readOk PROVE Fits(serving, TlsSetting /\ file.pair)'
      BY <1>8 DEF BindsPort, ServerFits
    <3>1. Fits(api, TlsSetting) /\ serving' = [api EXCEPT !.tls = Tls]
      BY <1>8 DEF BindsPort, IInv, AttemptFits, OnTheWayUp
    <3>2. serving' = [bind |-> api.bind, port |-> api.port, tls |-> Tls]
      BY <3>1 DEF Fits
    <3>3. Tls = (TlsSetting /\ file.pair)
      BY <3>1 DEF Fits, Tls
    <3>. QED
      BY <1>8, <3>1, <3>2, <3>3 DEF BindsPort, Fits, TlsSetting, Or
  <2>. QED
    BY <2>1, <2>2 DEF IInv
<1>9. CASE CannotCertify \/ CannotBind
  BY <1>2, <1>9 DEF CannotCertify, CannotBind
<1>. QED
  BY BuildInv, SchemaStep, <1>3, <1>4, <1>6, <1>7, <1>8, <1>9 DEF Starting

(* Settings change only while they are served, and then the server is late. *)
LEMMA RequestStep == ASSUME IInv, Put \/ Apply \/ TakesApply \/ Stops \/ Reloads PROVE IInv'
<1>. USE DEF IInv, ServesInLoop, SeededOrSpoilt, AttemptFits, ServerFits, OnTheWayUp, tables, world,
             local
<1>1. CASE Put
  BY <1>1 DEF Put, Serves
<1>2. CASE Apply
  BY <1>2 DEF Apply, Fits, Or, TlsSetting
<1>3. CASE TakesApply
  BY <1>3 DEF TakesApply, Fits, Or, TlsSetting
<1>4. CASE Stops
  BY <1>4 DEF Stops
<1>5. CASE Reloads
  BY <1>5 DEF Reloads
<1>. QED
  BY <1>1, <1>2, <1>3, <1>4, <1>5

(* Only a kill and db-init have a say in who seeds. *)
LEMMA WorldStep == ASSUME IInv, WorldChanges \/ Killed \/ DbInit \/ DbSeed PROVE IInv'
<1>. USE DEF tables, world, local
<1>1. CASE WorldChanges
  BY <1>1 DEF WorldChanges, IInv, ServesInLoop, SeededOrSpoilt, AttemptFits, ServerFits, Fits, Or,
              TlsSetting
<1>2. CASE Killed
  <2>1. SeededOrSpoilt'
    BY <1>2, CutSpoils DEF Killed
  <2>. QED
    BY <1>2, <2>1 DEF Killed, IInv, ServesInLoop, AttemptFits, ServerFits, OnTheWayUp
<1>3. CASE DbInit
  BY <1>3 DEF DbInit, IInv, ServesInLoop, SeededOrSpoilt, AttemptFits, ServerFits, Fits, Or, TlsSetting
<1>4. CASE DbSeed
  BY <1>4 DEF DbSeed, IInv, ServesInLoop, SeededOrSpoilt, AttemptFits, ServerFits, Fits, Or, TlsSetting
<1>. QED
  BY <1>1, <1>2, <1>3, <1>4

LEMMA StepInv == IInv /\ [Next]_vars => IInv'
<1>. SUFFICES ASSUME IInv, [Next]_vars PROVE IInv'
  OBVIOUS
<1>1. CASE UNCHANGED vars
  BY <1>1 DEF vars, tables, world, local, IInv, ServesInLoop, SeededOrSpoilt, AttemptFits, ServerFits,
              Fits, Or, TlsSetting
<1>. QED
  BY <1>1, StartingStep, RequestStep, WorldStep DEF Next

(* The inductive invariant holds always. *)
THEOREM StartupInvariant == Spec => []IInv
<1>. QED
  BY InitInv, StepInv, PTL DEF Spec

(* ensure_schema seeds a database that was empty when it looked and no       *)
(* other: whoever has begun the schema, a start that goes on to seed it or   *)
(* anything else, settles whether it is served with its defaults.            *)
THEOREM DefaultsFollowTheSchema == Spec => []DefaultsUnlessSpoilt
<1>1. IInv => DefaultsUnlessSpoilt
  BY DEF IInv, SeededOrSpoilt, DefaultsUnlessSpoilt
<1>. QED
  BY <1>1, StartupInvariant, PTL

(* A rebind serves what was stored before it, requests that the old server   *)
(* answered while it was being stopped included, and HTTPS only if both      *)
(* paths are set.                                                            *)
THEOREM StoredIsServed == Spec => []ServesWhatIsStored
<1>1. IInv => ServesWhatIsStored
  BY DEF IInv, ServerFits, Fits, ServesWhatIsStored
<1>. QED
  BY <1>1, StartupInvariant, PTL
=============================================================================
