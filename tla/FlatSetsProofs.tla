--------------------------- MODULE FlatSetsProofs ---------------------------
(***************************************************************************)
(* FlatSets, for any threads, flats, focal lengths, filters and nights and *)
(* any bounds on rigs, sets and requests.                                  *)
(*                                                                         *)
(*   A  the type of the state (TInv)                                       *)
(*   B  what each request may put in its list of statements                *)
(*   C  the pick of a night, which needs no more than the types            *)
(*   D  frames and their rigs (RInv): as long as no two requests that are  *)
(*      under way are on one rig or set, each claims the range its rig has *)
(*      when the claim's turn comes, and a frame that its rig does not     *)
(*      cover has a release ahead of it                                    *)
(*   E  flats and their sets (FInv): what is left of a list gathers for a  *)
(*      set that is there and deletes a set that no flat is bound to       *)
(***************************************************************************)
EXTENDS FlatSets, SequenceTheorems, WellFoundedInduction, TLAPS

-----------------------------------------------------------------------------
(***************************************************************************)
(* A. The type of the state.                                               *)
(***************************************************************************)

(* The ids of the rows, and a night or SQL NULL.                            *)
RigIds == {r.id : r \in rigs}
SetIds == {s.id : s \in sets}
MaybeNight == Nights \cup {Null}

(* The rows of the tables. *)
RigRow == [id : 1 .. lastRig, lo : Focals, hi : Focals, sited : BOOLEAN,
           active : (1 .. lastSet) \cup {Null}]
SetRow == [id : 1 .. lastSet, rig : RigIds, filter : Filters \cup {Null},
           captured : MaybeNight, from : MaybeNight, to : MaybeNight]
PinRow == [rig : RigIds, night : Nights, set : SetIds]

(* What a handler may send. *)
Sends ==
    [do : {"insert rig"}, rig : Nat, lo : Focals, hi : Focals, sited : BOOLEAN]
    \cup [do : {"claim"}, rig : Nat, lo : Focals, hi : Focals]
    \cup [do : {"release", "delete rig"}, rig : Nat]
    \cup [do : {"update rig"}, rig : Nat, lo : Focals \cup {Keep}, hi : Focals \cup {Keep},
          sited : BOOLEAN \cup {Keep}, active : Nat \cup {Null, Keep}]
    \cup [do : {"insert set"}, set : Nat, rig : Nat, filter : Filters \cup {Null}]
    \cup [do : {"gather"}, set : Nat, rig : Nat, filter : Filters \cup {Null},
          start : Nights, end : Nights]
    \cup [do : {"date set", "free", "deactivate", "delete set"}, set : Nat]
    \cup [do : {"update set"}, set : Nat, from : MaybeNight, to : MaybeNight]
    \cup [do : {"pin"}, rig : Nat, night : Nights, set : Nat]
    \cup [do : {"unpin"}, pin : [rig : Nat, night : Nights, set : Nat]]

(* The ids in a statement are among those that were given out. *)
GivenOut(st, lastR, lastS) ==
    /\ st.do = "insert rig" => st.rig \in 1 .. lastR
    /\ st.do = "update rig" => st.active \in (1 .. lastS) \cup {Null, Keep}
    /\ st.do \in {"insert set", "gather"} => st.set \in 1 .. lastS

(* The tables and the two columns of frames.                                *)
TablesOK ==
    /\ rigs \subseteq RigRow
    /\ sets \subseteq SetRow
    /\ pins \subseteq PinRow
    /\ \A p, q \in pins : p.rig = q.rig /\ p.night = q.night => p = q
    /\ rig \in [Flats -> RigIds \cup {Null}]
    /\ flatSet \in [Flats -> (1 .. lastSet) \cup {Null}]

(* The lists of statements under way.                                       *)
WorkOK ==
    /\ DOMAIN work = Threads
    /\ \A t \in Threads :
         /\ work[t] = [on |-> work[t].on, todo |-> work[t].todo]
         /\ work[t].todo \in Seq(Sends)
         /\ \A i \in DOMAIN work[t].todo : GivenOut(work[t].todo[i], lastRig, lastSet)

(* The inductive invariant of the types. *)
TInv == lastRig \in Nat /\ lastSet \in Nat /\ TablesOK /\ WorkOK

(* At first there is one rig, and it has every flat.                        *)
LEMMA InitTInv == Init => TInv
<1>. SUFFICES ASSUME Init PROVE TInv
  OBVIOUS
<1>1. lastRig = 1 /\ lastSet = 0
  BY DEF Init
<1>2. PICK lo \in Focals, hi \in Focals, sited \in BOOLEAN :
        rigs = {[id |-> 1, lo |-> lo, hi |-> hi, sited |-> sited, active |-> Null]}
  BY DEF Init
<1>3. rigs \subseteq RigRow /\ 1 \in RigIds
  <2>1. 1 \in 1 .. lastRig
    BY <1>1
  <2>2. [id |-> 1, lo |-> lo, hi |-> hi, sited |-> sited, active |-> Null] \in rigs
    BY <1>2
  <2>. QED
    BY <1>2, <2>1, <2>2 DEF RigRow, RigIds
<1>4. TablesOK
  <2>1. rig \in [Flats -> RigIds \cup {Null}]
    BY <1>3 DEF Init
  <2>2. flatSet \in [Flats -> (1 .. lastSet) \cup {Null}]
    BY DEF Init
  <2>3. sets = {} /\ pins = {}
    BY DEF Init
  <2>. QED
    BY <1>3, <2>1, <2>2, <2>3 DEF TablesOK
<1>5. WorkOK
  <2>1. \A t \in Threads : work[t].on = {} /\ work[t].todo = <<>> /\ work[t] = [on |-> {}, todo |-> <<>>]
    BY DEF Init, Free
  <2>2. <<>> \in Seq(Sends) /\ DOMAIN <<>> = {}
    OBVIOUS
  <2>. QED
    BY <2>1, <2>2 DEF Init, WorkOK
<1>. QED
  BY <1>1, <1>4, <1>5 DEF TInv

(* The fields of a statement.                                               *)
LEMMA SendFields ==
  ASSUME NEW st \in Sends
  PROVE  /\ st.do \in {"insert rig", "claim"} => st.rig \in Nat /\ st.lo \in Focals /\ st.hi \in Focals
         /\ st.do = "insert rig" => st.sited \in BOOLEAN
         /\ st.do \in {"release", "delete rig"} => st.rig \in Nat
         /\ st.do = "update rig" => /\ st.rig \in Nat
                                    /\ st.lo \in Focals \cup {Keep} /\ st.hi \in Focals \cup {Keep}
                                    /\ st.sited \in BOOLEAN \cup {Keep}
                                    /\ st.active \in Nat \cup {Null, Keep}
         /\ st.do \in {"insert set", "gather"} =>
              st.set \in Nat /\ st.rig \in Nat /\ st.filter \in Filters \cup {Null}
         /\ st.do \in {"date set", "free", "deactivate", "delete set"} => st.set \in Nat
         /\ st.do = "update set" => st.set \in Nat /\ st.from \in MaybeNight /\ st.to \in MaybeNight
         /\ st.do = "pin" => st.rig \in Nat /\ st.night \in Nights /\ st.set \in Nat
BY DEF Sends

(* A set of nights has an earliest one.                                     *)
LEMMA Earliest ==
  ASSUME NEW T \in SUBSET Nat, T # {}
  PROVE  \E n \in T : \A m \in T : n <= m
<1>. DEFINE Under == OpToRel(<, Nat)
<1>1. IsWellFoundedOn(Under, Nat)
  BY NatLessThanWellFounded
<1>2. \A m, n \in Nat : m < n => <<m, n>> \in Under
  BY DEF OpToRel
<1>. HIDE DEF Under
<1>3. PICK n \in T : \A m \in T : <<m, n>> \notin Under
  BY <1>1, WFMin
<1>4. \A m \in T : m \in Nat
  OBVIOUS
<1>5. \A m \in T : ~(m < n)
  BY <1>2, <1>3, <1>4, Zenon
<1>. QED
  BY <1>4, <1>5, SMT

(* MIN(session_night) is a night or NULL.                                   *)
LEMMA EarliestNightType == \A id : EarliestNight(id) \in MaybeNight
<1>. TAKE id
<1>. DEFINE N == {Info[f].night : f \in {g \in Flats : flatSet[g] = id}}
<1>1. N \subseteq Nights /\ N \in SUBSET Nat
  BY FlatSetsAssumption
<1>2. EarliestNight(id) = IF N = {} THEN Null ELSE CHOOSE n \in N : \A m \in N : n <= m
  BY DEF EarliestNight
<1>. HIDE DEF N
<1>3. CASE N = {}
  BY <1>2, <1>3 DEF MaybeNight
<1>4. CASE N # {}
  <2>1. \E n \in N : \A m \in N : n <= m
    BY <1>1, <1>4, Earliest
  <2>. QED
    BY <1>1, <1>2, <1>4, <2>1 DEF MaybeNight
<1>. QED
  BY <1>3, <1>4

(* The statements on rigs.                                                  *)
LEMMA TypesRigStatements ==
  ASSUME TInv, NEW st \in Sends, GivenOut(st, lastRig, lastSet), UNCHANGED counters,
         \/ Claims(st) \/ Releases(st) \/ InsertsRig(st) \/ UpdatesRig(st) \/ DeletesRig(st)
         \/ Deactivates(st)
  PROVE  TablesOK'
<1>. lastRig' = lastRig /\ lastSet' = lastSet
  BY DEF counters
<1>1. CASE Claims(st)
  <2>1. rigs' = rigs /\ RigIds' = RigIds /\ SetIds' = SetIds
        /\ sets' = sets /\ pins' = pins /\ flatSet' = flatSet
    BY <1>1 DEF Claims, RigIds, SetIds
  <2>2. \A f \in Flats : Info[f].focal \in st.lo .. st.hi => st.rig \in RigIds
    BY <1>1 DEF Claims, RigOf, RigIds
  <2>3. rig' \in [Flats -> RigIds \cup {Null}]
    BY <1>1, <2>2 DEF Claims, TInv, TablesOK
  <2>. QED
    BY <2>1, <2>3 DEF TInv, TablesOK, RigRow, SetRow, PinRow
<1>2. CASE Releases(st)
  <2>1. rigs' = rigs /\ RigIds' = RigIds /\ SetIds' = SetIds
        /\ sets' = sets /\ pins' = pins /\ flatSet' = flatSet
    BY <1>2 DEF Releases, RigIds, SetIds
  <2>2. rig' \in [Flats -> RigIds \cup {Null}]
    BY <1>2 DEF Releases, TInv, TablesOK
  <2>. QED
    BY <2>1, <2>2 DEF TInv, TablesOK, RigRow, SetRow, PinRow
<1>3. CASE InsertsRig(st)
  <2>. DEFINE r == [id |-> st.rig, lo |-> st.lo, hi |-> st.hi, sited |-> st.sited, active |-> Null]
  <2>1. rigs' = rigs \cup {r} /\ sets' = sets /\ pins' = pins /\ rig' = rig /\ flatSet' = flatSet
    BY <1>3 DEF InsertsRig
  <2>2. r \in RigRow
    BY <1>3, SendFields DEF InsertsRig, GivenOut, RigRow
  <2>. HIDE DEF r
  <2>3. RigIds \subseteq RigIds' /\ SetIds' = SetIds
    BY <2>1 DEF RigIds, SetIds
  <2>. QED
    BY <2>1, <2>2, <2>3 DEF TInv, TablesOK, RigRow, SetRow, PinRow
<1>4. CASE UpdatesRig(st) \/ Deactivates(st)
  <2>1. sets' = sets /\ pins' = pins /\ rig' = rig /\ flatSet' = flatSet
    BY <1>4 DEF UpdatesRig, Deactivates
  <2>2. ASSUME NEW r \in rigs
        PROVE  /\ [r EXCEPT !.active = Null] \in RigRow
               /\ [r EXCEPT !.active = Null].id = r.id
               /\ UpdatesRig(st) =>
                  /\ [r EXCEPT !.lo = Given(st.lo, @), !.hi = Given(st.hi, @),
                              !.sited = Given(st.sited, @), !.active = Given(st.active, @)] \in RigRow
                  /\ [r EXCEPT !.lo = Given(st.lo, @), !.hi = Given(st.hi, @),
                              !.sited = Given(st.sited, @), !.active = Given(st.active, @)].id = r.id
    <3>1. r \in RigRow
      BY DEF TInv, TablesOK
    <3>2. UpdatesRig(st) => /\ Given(st.lo, r.lo) \in Focals /\ Given(st.hi, r.hi) \in Focals
                            /\ Given(st.sited, r.sited) \in BOOLEAN
                            /\ Given(st.active, r.active) \in (1 .. lastSet) \cup {Null}
      BY <3>1, SendFields DEF UpdatesRig, GivenOut, Given, RigRow
    <3>. QED
      BY <3>1, <3>2 DEF RigRow
  <2>3. /\ \A q \in rigs' : q \in RigRow /\ \E r \in rigs : q.id = r.id
        /\ \A r \in rigs : \E q \in rigs' : q.id = r.id
    <3>1. CASE UpdatesRig(st)
      <4>. DEFINE U(r) == [r EXCEPT !.lo = Given(st.lo, @), !.hi = Given(st.hi, @),
                              !.sited = Given(st.sited, @), !.active = Given(st.active, @)]
      <4>1. rigs' = {IF r.id # st.rig THEN r ELSE U(r) : r \in rigs}
        BY <3>1 DEF UpdatesRig
      <4>2. \A r \in rigs : U(r) \in RigRow /\ U(r).id = r.id
        BY <2>2, <3>1
      <4>. HIDE DEF U
      <4>. QED
        BY <4>1, <4>2 DEF TInv, TablesOK
    <3>2. CASE Deactivates(st)
      <4>. DEFINE U(r) == [r EXCEPT !.active = Null]
      <4>1. rigs' = {IF r.active = st.set THEN U(r) ELSE r : r \in rigs}
        BY <3>2 DEF Deactivates
      <4>2. \A r \in rigs : U(r) \in RigRow /\ U(r).id = r.id
        BY <2>2
      <4>. HIDE DEF U
      <4>. QED
        BY <4>1, <4>2 DEF TInv, TablesOK
    <3>. QED
      BY <1>4, <3>1, <3>2
  <2>4. RigIds' = RigIds /\ SetIds' = SetIds
    BY <2>1, <2>3 DEF RigIds, SetIds
  <2>. QED
    BY <2>1, <2>3, <2>4 DEF TInv, TablesOK, RigRow, SetRow, PinRow
<1>5. CASE DeletesRig(st)
  <2>1. /\ rigs' = {r \in rigs : r.id # st.rig}
        /\ sets' = {s \in sets : s.rig # st.rig}
        /\ pins' = {p \in pins : p.rig # st.rig /\ \E s \in sets : s.id = p.set /\ s.rig # st.rig}
        /\ rig' = [f \in Flats |-> IF rig[f] = st.rig THEN Null ELSE rig[f]]
        /\ flatSet' = flatSet
    BY <1>5 DEF DeletesRig, RigOf
  <2>2. \A id \in RigIds : id # st.rig => id \in RigIds'
    BY <2>1 DEF RigIds
  <2>3. \A s \in sets' : s \in SetRow'
    BY <2>1, <2>2 DEF TInv, TablesOK, SetRow
  <2>4. \A p \in pins' : p \in PinRow'
    BY <2>1, <2>2 DEF TInv, TablesOK, PinRow, SetIds
  <2>5. rig' \in [Flats -> RigIds' \cup {Null}]
    BY <2>1, <2>2 DEF TInv, TablesOK
  <2>. QED
    BY <2>1, <2>3, <2>4, <2>5 DEF TInv, TablesOK, RigRow
<1>. QED
  BY <1>1, <1>2, <1>3, <1>4, <1>5

(* The statements on sets and pins.                                         *)
LEMMA TypesSetStatements ==
  ASSUME TInv, NEW st \in Sends, GivenOut(st, lastRig, lastSet), UNCHANGED counters,
         \/ InsertsSet(st) \/ GathersFlats(st) \/ DatesSet(st) \/ SetsWindow(st)
         \/ FreesFlats(st) \/ DeletesSet(st) \/ Pins(st) \/ Unpins(st)
  PROVE  TablesOK'
<1>0. /\ lastRig' = lastRig /\ lastSet' = lastSet /\ rigs' = rigs /\ rig' = rig
      /\ RigIds' = RigIds
  BY DEF counters, InsertsSet, GathersFlats, DatesSet, SetsWindow, FreesFlats, DeletesSet, Pins, Unpins,
     RigIds
<1>1. CASE InsertsSet(st)
  <2>. DEFINE s == [id |-> st.set, rig |-> st.rig, filter |-> st.filter, captured |-> Null,
                    from |-> Null, to |-> Null]
  <2>1. sets' = sets \cup {s} /\ pins' = pins /\ flatSet' = flatSet
    BY <1>1 DEF InsertsSet
  <2>2. st.rig \in RigIds
    BY <1>1 DEF InsertsSet, RigOf, RigIds
  <2>3. s \in SetRow
    BY <1>1, <2>2, SendFields DEF InsertsSet, GivenOut, SetRow, MaybeNight
  <2>. HIDE DEF s
  <2>4. SetIds \subseteq SetIds'
    BY <2>1 DEF SetIds
  <2>. QED
    BY <1>0, <2>1, <2>3, <2>4 DEF TInv, TablesOK, RigRow, SetRow, PinRow
<1>2. CASE GathersFlats(st) \/ FreesFlats(st)
  <2>1. sets' = sets /\ pins' = pins /\ SetIds' = SetIds
    BY <1>2 DEF GathersFlats, FreesFlats, SetIds
  <2>2. flatSet' \in [Flats -> (1 .. lastSet) \cup {Null}]
    BY <1>2 DEF GathersFlats, FreesFlats, GivenOut, TInv, TablesOK
  <2>. QED
    BY <1>0, <2>1, <2>2 DEF TInv, TablesOK, RigRow, SetRow, PinRow
<1>3. CASE DatesSet(st) \/ SetsWindow(st)
  <2>1. pins' = pins /\ flatSet' = flatSet
    BY <1>3 DEF DatesSet, SetsWindow
  <2>2. /\ \A u \in sets' : u \in SetRow /\ \E s \in sets : u.id = s.id
        /\ \A s \in sets : \E u \in sets' : u.id = s.id
    <3>1. CASE DatesSet(st)
      <4>. DEFINE U(s) == [s EXCEPT !.captured = EarliestNight(st.set)]
      <4>1. sets' = {IF s.id = st.set THEN U(s) ELSE s : s \in sets}
        BY <3>1 DEF DatesSet
      <4>2. \A s \in sets : U(s) \in SetRow /\ U(s).id = s.id
        <5>. SUFFICES ASSUME NEW s \in sets PROVE U(s) \in SetRow /\ U(s).id = s.id
          OBVIOUS
        <5>1. s \in SetRow /\ EarliestNight(st.set) \in MaybeNight
          BY EarliestNightType DEF TInv, TablesOK
        <5>. QED
          BY <5>1 DEF SetRow
      <4>. HIDE DEF U
      <4>. QED
        BY <4>1, <4>2 DEF TInv, TablesOK
    <3>2. CASE SetsWindow(st)
      <4>. DEFINE U(s) == [s EXCEPT !.from = st.from, !.to = st.to]
      <4>1. sets' = {IF s.id # st.set THEN s ELSE U(s) : s \in sets}
        BY <3>2 DEF SetsWindow
      <4>2. \A s \in sets : U(s) \in SetRow /\ U(s).id = s.id
        <5>. SUFFICES ASSUME NEW s \in sets PROVE U(s) \in SetRow /\ U(s).id = s.id
          OBVIOUS
        <5>1. s \in SetRow /\ st.from \in MaybeNight /\ st.to \in MaybeNight
          BY <3>2, SendFields DEF SetsWindow, TInv, TablesOK
        <5>. QED
          BY <5>1 DEF SetRow
      <4>. HIDE DEF U
      <4>. QED
        BY <4>1, <4>2 DEF TInv, TablesOK
    <3>. QED
      BY <1>3, <3>1, <3>2
  <2>3. SetIds' = SetIds
    BY <2>2 DEF SetIds
  <2>. QED
    BY <1>0, <2>1, <2>2, <2>3 DEF TInv, TablesOK, RigRow, SetRow, PinRow
<1>4. CASE DeletesSet(st)
  <2>1. /\ sets' = {s \in sets : s.id # st.set} /\ flatSet' = flatSet
        /\ pins' = {p \in pins : p.set # st.set}
    BY <1>4 DEF DeletesSet, SetOf
  <2>2. \A p \in pins' : p \in PinRow'
    BY <1>0, <2>1 DEF TInv, TablesOK, PinRow, SetIds
  <2>. QED
    BY <1>0, <2>1, <2>2 DEF TInv, TablesOK, RigRow, SetRow
<1>5. CASE Pins(st)
  <2>. DEFINE p == [rig |-> st.rig, night |-> st.night, set |-> st.set]
  <2>1. /\ sets' = sets /\ flatSet' = flatSet /\ SetIds' = SetIds
        /\ pins' = {q \in pins : q.rig # st.rig \/ q.night # st.night} \cup {p}
    BY <1>5 DEF Pins, SetIds
  <2>2. p \in PinRow /\ p.rig = st.rig /\ p.night = st.night
    BY <1>5, SendFields DEF Pins, PinRow, RigOf, SetOf, RigIds, SetIds
  <2>. HIDE DEF p
  <2>. QED
    BY <1>0, <2>1, <2>2 DEF TInv, TablesOK, RigRow, SetRow, PinRow
<1>6. CASE Unpins(st)
  <2>1. sets' = sets /\ flatSet' = flatSet /\ SetIds' = SetIds /\ pins' \subseteq pins
    BY <1>6 DEF Unpins, SetIds
  <2>. QED
    BY <1>0, <2>1 DEF TInv, TablesOK, RigRow, SetRow, PinRow
<1>. QED
  BY <1>1, <1>2, <1>3, <1>4, <1>5, <1>6

-----------------------------------------------------------------------------
(***************************************************************************)
(* B. What a request puts in its list, and with it the types.              *)
(***************************************************************************)

(* The rigs and sets that a statement writes by their id are among those    *)
(* the request is on.                                                       *)
Watched(on, s) ==
    \A i \in DOMAIN s :
        /\ s[i].do \in {"insert rig", "update rig", "release", "claim", "delete rig"} => R(s[i].rig) \in on
        /\ s[i].do \in {"insert set", "gather", "delete set"} => S(s[i].set) \in on

(* A new rig gets a new id. *)
InsertsNew(s) == \A i \in DOMAIN s : s[i].do = "insert rig" => i = 1 /\ RigOf(s[1].rig) = {}

(* Rig id, while it is there, covers lo to hi.                              *)
HasRange(id, lo, hi) == \A r \in RigOf(id) : r.lo = lo /\ r.hi = hi

(* A claim is for the range that the rig has when its turn comes. *)
ClaimsOwn(s) ==
    \A i \in DOMAIN s : s[i].do = "claim" =>
        \/ i = 1 /\ HasRange(s[1].rig, s[1].lo, s[1].hi)
        \/ /\ i = 2 /\ s[1].do = "insert rig" /\ s[1].rig = s[2].rig
           /\ s[1].lo = s[2].lo /\ s[1].hi = s[2].hi
        \/ i = 2 /\ s[1].do = "release" /\ s[1].rig = s[2].rig /\ HasRange(s[2].rig, s[2].lo, s[2].hi)
        \/ /\ i = 3 /\ s[1].do = "update rig" /\ s[2].do = "release"
           /\ s[1].rig = s[3].rig /\ s[2].rig = s[3].rig
           /\ \A r \in RigOf(s[3].rig) : Given(s[1].lo, r.lo) = s[3].lo /\ Given(s[1].hi, r.hi) = s[3].hi

(* Who changes a range drops what the old one held. *)
UpdatesRelease(s) ==
    \A i \in DOMAIN s : s[i].do = "update rig" =>
        \/ s[i].lo = Keep /\ s[i].hi = Keep
        \/ i = 1 /\ 2 \in DOMAIN s /\ s[2].do = "release" /\ s[2].rig = s[1].rig

(* Flats are gathered for a set that is there, *)
GathersForSet(s) ==
    \A i \in DOMAIN s : s[i].do = "gather" =>
        \/ i = 1 /\ SetOf(s[1].set) # {}
        \/ i = 2 /\ s[1].do = "insert set" /\ s[1].set = s[2].set

(* and freed before their set goes. *)
Unused(id) == \A f \in Flats : flatSet[f] # id

DeletesFreed(s) ==
    \A i \in DOMAIN s : s[i].do = "delete set" =>
        \/ i = 1 /\ Unused(s[1].set)
        \/ i = 2 /\ s[1].do = "deactivate" /\ Unused(s[2].set)
        \/ i = 3 /\ s[1].do = "free" /\ s[1].set = s[3].set /\ s[2].do = "deactivate"

(* The list s on rigs, and on sets.                                         *)
RigsScript(s) == InsertsNew(s) /\ ClaimsOwn(s) /\ UpdatesRelease(s)
SetsScript(s) == GathersForSet(s) /\ DeletesFreed(s)

(* No two rows of rigs have one id.                                         *)
OneRigPerId == \A r, q \in rigs : r.id = q.id => r = q

(* A request as it arrives at thread t. *)
Comes(t) ==
    \E on, s : /\ Arrives(t, on, s)
               /\ s \in Seq(Sends)
               /\ \A i \in DOMAIN s : GivenOut(s[i], lastRig', lastSet')
               /\ Watched(on, s)
               /\ OneRigPerId => RigsScript(s)
               /\ SetsScript(s)

(* Lists of one to four statements.                                         *)
LEMMA Lists ==
  /\ \A a : /\ DOMAIN <<a>> = {1} /\ <<a>>[1] = a
            /\ a \in Sends => <<a>> \in Seq(Sends)
  /\ \A a, b : /\ DOMAIN <<a, b>> = {1, 2} /\ <<a, b>>[1] = a /\ <<a, b>>[2] = b
               /\ a \in Sends /\ b \in Sends => <<a, b>> \in Seq(Sends)
  /\ \A a, b, c : /\ DOMAIN <<a, b, c>> = {1, 2, 3}
                  /\ <<a, b, c>>[1] = a /\ <<a, b, c>>[2] = b /\ <<a, b, c>>[3] = c
                  /\ a \in Sends /\ b \in Sends /\ c \in Sends => <<a, b, c>> \in Seq(Sends)
OBVIOUS

(* Three statements and one more, as POST /flat-sets joins them.            *)
LEMMA Joined ==
  ASSUME NEW a \in Sends, NEW b \in Sends, NEW c \in Sends, NEW d \in Sends
  PROVE  /\ <<a, b, c>> \o <<d>> \in Seq(Sends)
         /\ DOMAIN (<<a, b, c>> \o <<d>>) = {1, 2, 3, 4}
         /\ (<<a, b, c>> \o <<d>>)[1] = a /\ (<<a, b, c>> \o <<d>>)[2] = b
         /\ (<<a, b, c>> \o <<d>>)[3] = c /\ (<<a, b, c>> \o <<d>>)[4] = d
<1>. DEFINE p == <<a, b, c>>
            q == <<d>>
<1>1. p \in Seq(Sends) /\ Len(p) = 3 /\ p[1] = a /\ p[2] = b /\ p[3] = c
  BY Lists
<1>2. q \in Seq(Sends) /\ Len(q) = 1 /\ q[1] = d
  BY Lists
<1>. HIDE DEF p, q
<1>3. /\ p \o q \in Seq(Sends) /\ Len(p \o q) = Len(p) + Len(q)
      /\ \A i \in 1 .. Len(p) + Len(q) :
           (p \o q)[i] = IF i <= Len(p) THEN p[i] ELSE q[i - Len(p)]
  BY <1>1, <1>2, ConcatProperties, Zenon
<1>. DEFINE r == p \o q
<1>4. r \in Seq(Sends) /\ Len(r) = 4 /\ \A i \in 1 .. 4 : r[i] = IF i <= 3 THEN p[i] ELSE q[i - 3]
  BY <1>1, <1>2, <1>3
<1>. HIDE DEF r
<1>5. r[1] = p[1] /\ r[2] = p[2] /\ r[3] = p[3] /\ r[4] = q[1]
  BY <1>4
<1>6. DOMAIN r = 1 .. 4
  BY <1>4
<1>7. 1 .. 4 = {1, 2, 3, 4}
  OBVIOUS
<1>8. DOMAIN r = {1, 2, 3, 4} /\ r[1] = a /\ r[2] = b /\ r[3] = c /\ r[4] = d
  BY <1>1, <1>2, <1>5, <1>6, <1>7
<1>. QED
  BY <1>4, <1>8 DEF p, q, r

(* POST /equipment/rigs                                                     *)
LEMMA ComesPostRig ==
  ASSUME TInv, NEW t \in Threads, PostRig(t)
  PROVE  Comes(t)
<1>1. PICK lo \in Focals, hi \in Focals, sited \in BOOLEAN :
        Arrives(t, {R(lastRig')},
              <<[do |-> "insert rig", rig |-> lastRig', lo |-> lo, hi |-> hi, sited |-> sited],
                [do |-> "claim", rig |-> lastRig', lo |-> lo, hi |-> hi]>>)
  BY DEF PostRig
<1>. DEFINE n == lastRig'
            a == [do |-> "insert rig", rig |-> n, lo |-> lo, hi |-> hi, sited |-> sited]
            b == [do |-> "claim", rig |-> n, lo |-> lo, hi |-> hi]
<1>2. lastRig' = lastRig + 1 /\ n = lastRig + 1 /\ n \in Nat /\ n \in 1 .. lastRig'
  <2>1. lastRig' = lastRig + 1
    BY DEF PostRig
  <2>2. lastRig \in Nat
    BY DEF TInv
  <2>. QED
    BY <2>1, <2>2
<1>3. RigOf(n) = {}
  BY <1>2 DEF RigOf, TInv, TablesOK, RigRow
<1>4. a \in Sends /\ b \in Sends
  BY <1>2 DEF Sends
<1>5. /\ a.do = "insert rig" /\ a.rig = n /\ a.lo = lo /\ a.hi = hi
      /\ b.do = "claim" /\ b.rig = n /\ b.lo = lo /\ b.hi = hi
  OBVIOUS
<1>6. Arrives(t, {R(n)}, <<a, b>>)
  BY <1>1
<1>. HIDE DEF n, a, b
<1>7. <<a, b>> \in Seq(Sends) /\ DOMAIN <<a, b>> = {1, 2} /\ <<a, b>>[1] = a /\ <<a, b>>[2] = b
  BY <1>4, Lists
<1>8. \A i \in {1, 2} : GivenOut(<<a, b>>[i], lastRig', lastSet')
  BY <1>2, <1>5, <1>7 DEF GivenOut
<1>9. Watched({R(n)}, <<a, b>>)
  BY <1>5, <1>7 DEF Watched
<1>10. RigsScript(<<a, b>>) /\ SetsScript(<<a, b>>)
  BY <1>3, <1>5, <1>7 DEF RigsScript, SetsScript, InsertsNew, ClaimsOwn, UpdatesRelease,
     GathersForSet, DeletesFreed
<1>. QED
  BY <1>6, <1>7, <1>8, <1>9, <1>10 DEF Comes

(* PATCH /equipment/rigs with a range                                       *)
LEMMA ComesPatchRigRange ==
  ASSUME TInv, NEW t \in Threads, PatchRigRange(t)
  PROVE  Comes(t)
<1>1. PICK r \in rigs, lo \in Focals \cup {Keep}, hi \in Focals \cup {Keep} :
        Arrives(t, {R(r.id)}, Reranges(r, lo, hi))
  BY DEF PatchRigRange
<1>. DEFINE n == r.id
            l == Given(lo, r.lo)
            h == Given(hi, r.hi)
            a == NewRig(r.id, lo, hi, Keep, Keep)
            b == [do |-> "release", rig |-> r.id]
            c == [do |-> "claim", rig |-> r.id, lo |-> Given(lo, r.lo), hi |-> Given(hi, r.hi)]
<1>2. n \in Nat /\ l \in Focals /\ h \in Focals
  BY DEF TInv, TablesOK, RigRow, Given
<1>3. OneRigPerId => \A q \in RigOf(n) : Given(lo, q.lo) = l /\ Given(hi, q.hi) = h
  BY DEF OneRigPerId, RigOf
<1>4. a \in Sends /\ b \in Sends /\ c \in Sends
  <2>1. a = [do |-> "update rig", rig |-> n, lo |-> lo, hi |-> hi, sited |-> Keep, active |-> Keep]
    BY DEF NewRig
  <2>. HIDE DEF a, n, l, h
  <2>2. a \in Sends
    BY <1>2, <2>1 DEF Sends
  <2>. USE DEF n, l, h
  <2>3. b \in Sends /\ c \in Sends
    BY <1>2 DEF Sends
  <2>. QED
    BY <2>2, <2>3
<1>5. /\ a.do = "update rig" /\ a.rig = n /\ a.lo = lo /\ a.hi = hi /\ a.active = Keep
      /\ b.do = "release" /\ b.rig = n
      /\ c.do = "claim" /\ c.rig = n /\ c.lo = l /\ c.hi = h
  BY DEF NewRig
<1>6. Arrives(t, {R(n)}, <<a, b, c>>)
  BY <1>1 DEF Reranges
<1>. HIDE DEF n, l, h, a, b, c
<1>. DEFINE s == <<a, b, c>>
<1>7. s \in Seq(Sends) /\ DOMAIN s = {1, 2, 3} /\ s[1] = a /\ s[2] = b /\ s[3] = c
  BY <1>4, Lists
<1>. HIDE DEF s
<1>8. \A i \in {1, 2, 3} : GivenOut(s[i], lastRig', lastSet')
  BY <1>5, <1>7 DEF GivenOut
<1>9. Watched({R(n)}, s)
  BY <1>5, <1>7 DEF Watched
<1>10. (OneRigPerId => RigsScript(s)) /\ SetsScript(s)
  BY <1>3, <1>5, <1>7 DEF RigsScript, SetsScript, InsertsNew, ClaimsOwn, UpdatesRelease,
     GathersForSet, DeletesFreed
<1>11. Arrives(t, {R(n)}, s)
  BY <1>6 DEF s
<1>. QED
  BY <1>7, <1>8, <1>9, <1>10, <1>11 DEF Comes

(* Requests of one statement.                                               *)
LEMMA ComesAlone ==
  ASSUME NEW t \in Threads, NEW on, NEW a \in Sends, Arrives(t, on, <<a>>),
         GivenOut(a, lastRig', lastSet'), Watched(on, <<a>>),
         a.do \notin {"insert rig", "claim", "gather", "delete set"},
         a.do = "update rig" => a.lo = Keep /\ a.hi = Keep
  PROVE  Comes(t)
<1>1. DOMAIN <<a>> = {1} /\ <<a>>[1] = a /\ <<a>> \in Seq(Sends)
  BY Lists
<1>2. RigsScript(<<a>>) /\ SetsScript(<<a>>)
  BY <1>1 DEF RigsScript, SetsScript, InsertsNew, ClaimsOwn, UpdatesRelease, GathersForSet, DeletesFreed
<1>. QED
  BY <1>1, <1>2 DEF Comes

(* PATCH /equipment/rigs with a site or an active set, PATCH                *)
(* /equipment/flat-sets, and the pins                                       *)
LEMMA ComesSingle ==
  ASSUME TInv, NEW t \in Threads,
         PatchRigSite(t) \/ PatchRigActive(t) \/ PatchSet(t) \/ PostPin(t) \/ DeletePin(t)
  PROVE  Comes(t)
<1>0. \A a : DOMAIN <<a>> = {1} /\ <<a>>[1] = a
  BY Lists
<1>1. CASE PatchRigSite(t)
  <2>1. PICK r \in rigs, sited \in BOOLEAN : Arrives(t, {R(r.id)}, <<NewRig(r.id, Keep, Keep, sited, Keep)>>)
    BY <1>1 DEF PatchRigSite
  <2>. DEFINE a == NewRig(r.id, Keep, Keep, sited, Keep)
  <2>2. r.id \in Nat
    BY DEF TInv, TablesOK, RigRow
  <2>3. a = [do |-> "update rig", rig |-> r.id, lo |-> Keep, hi |-> Keep, sited |-> sited, active |-> Keep]
    BY DEF NewRig
  <2>4. Arrives(t, {R(r.id)}, <<a>>)
    BY <2>1
  <2>. HIDE DEF a
  <2>5. a \in Sends
    BY <2>2, <2>3 DEF Sends
  <2>6. a.do = "update rig" /\ a.rig = r.id /\ a.lo = Keep /\ a.hi = Keep /\ a.active = Keep
    BY <2>3
  <2>7. Watched({R(r.id)}, <<a>>) /\ GivenOut(a, lastRig', lastSet')
    BY <1>0, <2>6 DEF Watched, GivenOut
  <2>. QED
    BY <2>4, <2>5, <2>6, <2>7, ComesAlone
<1>2. CASE PatchRigActive(t)
  <2>1. PICK r \in rigs : \E id \in MayBeActive(r) :
         Arrives(t, {R(r.id), S(id)}, <<NewRig(r.id, Keep, Keep, Keep, id)>>)
    BY <1>2 DEF PatchRigActive
  <2>2. PICK id \in MayBeActive(r) :
         Arrives(t, {R(r.id), S(id)}, <<NewRig(r.id, Keep, Keep, Keep, id)>>)
    BY <2>1
  <2>. DEFINE a == NewRig(r.id, Keep, Keep, Keep, id)
  <2>3. r.id \in Nat /\ id \in (1 .. lastSet) \cup {Null}
    BY DEF TInv, TablesOK, RigRow, SetRow, MayBeActive
  <2>4. a = [do |-> "update rig", rig |-> r.id, lo |-> Keep, hi |-> Keep, sited |-> Keep, active |-> id]
    BY DEF NewRig
  <2>5. Arrives(t, {R(r.id), S(id)}, <<a>>)
    BY <2>2
  <2>. HIDE DEF a
  <2>6. a \in Sends
    <3>1. id \in Nat \cup {Null, Keep}
      BY <2>3
    <3>2. Keep \in Focals \cup {Keep} /\ Keep \in BOOLEAN \cup {Keep}
      OBVIOUS
    <3>. QED
      BY <2>3, <2>4, <3>1, <3>2 DEF Sends
  <2>7. a.do = "update rig" /\ a.rig = r.id /\ a.lo = Keep /\ a.hi = Keep /\ a.active = id
    BY <2>4
  <2>8. lastSet' = lastSet
    BY <1>2 DEF PatchRigActive
  <2>9. Watched({R(r.id), S(id)}, <<a>>) /\ GivenOut(a, lastRig', lastSet')
    BY <1>0, <2>3, <2>7, <2>8 DEF Watched, GivenOut
  <2>. QED
    BY <2>5, <2>6, <2>7, <2>9, ComesAlone
<1>3. CASE PatchSet(t)
  <2>1. PICK s \in sets, v \in Validities :
         Arrives(t, {S(s.id)}, <<[do |-> "update set", set |-> s.id, from |-> v[1], to |-> v[2]]>>)
    BY <1>3 DEF PatchSet
  <2>. DEFINE a == [do |-> "update set", set |-> s.id, from |-> v[1], to |-> v[2]]
  <2>2. s.id \in Nat /\ v[1] \in MaybeNight /\ v[2] \in MaybeNight
    BY FlatSetsAssumption DEF TInv, TablesOK, SetRow, MaybeNight
  <2>3. a \in Sends /\ a.do = "update set"
    BY <2>2 DEF Sends
  <2>4. Arrives(t, {S(s.id)}, <<a>>)
    BY <2>1
  <2>. HIDE DEF a
  <2>5. Watched({S(s.id)}, <<a>>) /\ GivenOut(a, lastRig', lastSet')
    BY <1>0, <2>3 DEF Watched, GivenOut
  <2>. QED
    BY <2>3, <2>4, <2>5, ComesAlone
<1>4. CASE PostPin(t)
  <2>1. PICK s \in sets, r \in rigs, n \in Nights :
         Arrives(t, {}, <<[do |-> "pin", rig |-> r.id, night |-> n, set |-> s.id]>>)
    BY <1>4 DEF PostPin
  <2>. DEFINE a == [do |-> "pin", rig |-> r.id, night |-> n, set |-> s.id]
  <2>2. s.id \in Nat /\ r.id \in Nat
    BY DEF TInv, TablesOK, SetRow, RigRow
  <2>3. a \in Sends /\ a.do = "pin"
    BY <2>2 DEF Sends
  <2>4. Arrives(t, {}, <<a>>)
    BY <2>1
  <2>. HIDE DEF a
  <2>5. Watched({}, <<a>>) /\ GivenOut(a, lastRig', lastSet')
    BY <1>0, <2>3 DEF Watched, GivenOut
  <2>. QED
    BY <2>3, <2>4, <2>5, ComesAlone
<1>5. CASE DeletePin(t)
  <2>1. PICK p \in pins : Arrives(t, {}, <<[do |-> "unpin", pin |-> p]>>)
    BY <1>5 DEF DeletePin
  <2>. DEFINE a == [do |-> "unpin", pin |-> p]
  <2>2. p \in [rig : Nat, night : Nights, set : Nat]
    BY DEF TInv, TablesOK, PinRow, RigIds, SetIds, RigRow, SetRow
  <2>3. a \in Sends /\ a.do = "unpin"
    BY <2>2 DEF Sends
  <2>4. Arrives(t, {}, <<a>>)
    BY <2>1
  <2>. HIDE DEF a
  <2>5. Watched({}, <<a>>) /\ GivenOut(a, lastRig', lastSet')
    BY <1>0, <2>3 DEF Watched, GivenOut
  <2>. QED
    BY <2>3, <2>4, <2>5, ComesAlone
<1>. QED
  BY <1>1, <1>2, <1>3, <1>4, <1>5

(* DELETE /equipment/rigs and /equipment/flat-sets                          *)
LEMMA ComesDelete ==
  ASSUME TInv, NEW t \in Threads, DeleteRig(t) \/ DeleteSet(t)
  PROVE  Comes(t)
<1>1. CASE DeleteRig(t)
  <2>1. PICK r \in rigs : Arrives(t, {R(r.id)} \cup {S(s.id) : s \in {u \in sets : u.rig = r.id}},
                              <<[do |-> "release", rig |-> r.id], [do |-> "delete rig", rig |-> r.id]>>)
    BY <1>1 DEF DeleteRig
  <2>. DEFINE on == {R(r.id)} \cup {S(s.id) : s \in {u \in sets : u.rig = r.id}}
              a == [do |-> "release", rig |-> r.id]
              b == [do |-> "delete rig", rig |-> r.id]
  <2>2. r.id \in Nat
    BY DEF TInv, TablesOK, RigRow
  <2>3. a \in Sends /\ b \in Sends
    BY <2>2 DEF Sends
  <2>4. a.do = "release" /\ a.rig = r.id /\ b.do = "delete rig" /\ b.rig = r.id
    OBVIOUS
  <2>5. Arrives(t, on, <<a, b>>) /\ R(r.id) \in on
    BY <2>1
  <2>. HIDE DEF on, a, b
  <2>6. <<a, b>> \in Seq(Sends) /\ DOMAIN <<a, b>> = {1, 2} /\ <<a, b>>[1] = a /\ <<a, b>>[2] = b
    BY <2>3, Lists
  <2>7. Watched(on, <<a, b>>) /\ \A i \in {1, 2} : GivenOut(<<a, b>>[i], lastRig', lastSet')
    BY <2>4, <2>5, <2>6 DEF Watched, GivenOut
  <2>8. RigsScript(<<a, b>>) /\ SetsScript(<<a, b>>)
    BY <2>4, <2>6 DEF RigsScript, SetsScript, InsertsNew, ClaimsOwn, UpdatesRelease,
       GathersForSet, DeletesFreed
  <2>. QED
    BY <2>5, <2>6, <2>7, <2>8 DEF Comes
<1>2. CASE DeleteSet(t)
  <2>1. PICK r \in sets : Arrives(t, {S(r.id)}, Deletion(r.id))
    BY <1>2 DEF DeleteSet
  <2>. DEFINE n == r.id
              a == [do |-> "free", set |-> n]
              b == [do |-> "deactivate", set |-> n]
              c == [do |-> "delete set", set |-> n]
              s == <<a, b, c>>
  <2>2. n \in Nat
    BY DEF TInv, TablesOK, SetRow
  <2>3. a \in Sends /\ b \in Sends /\ c \in Sends
    BY <2>2 DEF Sends
  <2>4. /\ a.do = "free" /\ a.set = n /\ b.do = "deactivate" /\ b.set = n
        /\ c.do = "delete set" /\ c.set = n
    OBVIOUS
  <2>5. Arrives(t, {S(n)}, s)
    BY <2>1 DEF Deletion
  <2>. HIDE DEF a, b, c, n
  <2>6. s \in Seq(Sends) /\ DOMAIN s = {1, 2, 3} /\ s[1] = a /\ s[2] = b /\ s[3] = c
    BY <2>3, Lists
  <2>. HIDE DEF s
  <2>7. Watched({S(n)}, s) /\ \A i \in {1, 2, 3} : GivenOut(s[i], lastRig', lastSet')
    BY <2>4, <2>6 DEF Watched, GivenOut
  <2>8. RigsScript(s) /\ SetsScript(s)
    BY <2>4, <2>6 DEF RigsScript, SetsScript, InsertsNew, ClaimsOwn, UpdatesRelease,
       GathersForSet, DeletesFreed
  <2>. QED
    BY <2>5, <2>6, <2>7, <2>8 DEF Comes
<1>. QED
  BY <1>1, <1>2

(* POST /equipment/flat-sets                                                *)
LEMMA ComesPostSet ==
  ASSUME TInv, NEW t \in Threads, PostSet(t)
  PROVE  Comes(t)
<1>1. PICK r \in rigs, filter \in Filters \cup {Null}, span \in Spans, setActive \in BOOLEAN :
        Arrives(t, {R(r.id), S(lastSet')},
              <<[do |-> "insert set", set |-> lastSet', rig |-> r.id, filter |-> filter],
                [do |-> "gather", set |-> lastSet', rig |-> r.id, filter |-> filter, start |-> span[1], end |-> span[2]],
                [do |-> "date set", set |-> lastSet']>>
              \o IF setActive THEN <<NewRig(r.id, Keep, Keep, Keep, lastSet')>> ELSE <<>>)
  BY DEF PostSet
<1>. DEFINE n == lastSet'
            a == [do |-> "insert set", set |-> n, rig |-> r.id, filter |-> filter]
            b == [do |-> "gather", set |-> n, rig |-> r.id, filter |-> filter, start |-> span[1], end |-> span[2]]
            c == [do |-> "date set", set |-> n]
            d == NewRig(r.id, Keep, Keep, Keep, n)
            s == <<a, b, c>> \o IF setActive THEN <<d>> ELSE <<>>
<1>2. n \in Nat /\ n \in 1 .. lastSet' /\ r.id \in Nat /\ span[1] \in Nights /\ span[2] \in Nights
  <2>1. lastSet' = lastSet + 1
    BY DEF PostSet
  <2>2. lastSet \in Nat /\ r.id \in Nat
    BY DEF TInv, TablesOK, RigRow
  <2>3. span[1] \in Nights /\ span[2] \in Nights
    BY FlatSetsAssumption
  <2>. QED
    BY <2>1, <2>2, <2>3
<1>3. d = [do |-> "update rig", rig |-> r.id, lo |-> Keep, hi |-> Keep, sited |-> Keep, active |-> n]
  BY DEF NewRig
<1>4. Arrives(t, {R(r.id), S(n)}, s)
  BY <1>1
<1>5. a \in Sends /\ b \in Sends /\ c \in Sends
  BY <1>2 DEF Sends
<1>. HIDE DEF d
<1>6. d \in Sends
  BY <1>2, <1>3 DEF Sends
<1>7. /\ a.do = "insert set" /\ a.set = n /\ b.do = "gather" /\ b.set = n /\ c.do = "date set"
      /\ d.do = "update rig" /\ d.rig = r.id /\ d.lo = Keep /\ d.hi = Keep /\ d.active = n
  BY <1>3
<1>. HIDE DEF n, a, b, c
<1>8. /\ s \in Seq(Sends) /\ DOMAIN s \subseteq {1, 2, 3, 4}
      /\ s[1] = a /\ s[2] = b /\ s[3] = c /\ (4 \in DOMAIN s => s[4] = d)
      /\ {1, 2, 3} \subseteq DOMAIN s
  <2>1. CASE setActive
    <3>1. s = <<a, b, c>> \o <<d>>
      BY <2>1
    <3>. HIDE DEF s
    <3>2. s \in Seq(Sends) /\ DOMAIN s = {1, 2, 3, 4} /\ s[1] = a /\ s[2] = b /\ s[3] = c /\ s[4] = d
      BY <1>5, <1>6, <3>1, Joined
    <3>. QED
      BY <3>2
  <2>2. CASE ~setActive
    <3>1. s = <<a, b, c>>
      BY <2>2
    <3>. HIDE DEF s
    <3>. QED
      BY <1>5, <3>1
  <2>. QED
    BY <2>1, <2>2
<1>. HIDE DEF s
<1>9. Watched({R(r.id), S(n)}, s) /\ \A i \in DOMAIN s : GivenOut(s[i], lastRig', lastSet')
  BY <1>2, <1>7, <1>8 DEF Watched, GivenOut
<1>10. RigsScript(s) /\ SetsScript(s)
  BY <1>7, <1>8 DEF RigsScript, SetsScript, InsertsNew, ClaimsOwn, UpdatesRelease,
     GathersForSet, DeletesFreed
<1>. QED
  BY <1>4, <1>8, <1>9, <1>10 DEF Comes

(* Every request comes so.                                                  *)
LEMMA RequestComes ==
  ASSUME TInv, NEW t \in Threads, Request(t)
  PROVE  /\ Comes(t)
         /\ lastRig' \in Nat /\ lastSet' \in Nat /\ lastRig <= lastRig' /\ lastSet <= lastSet'
<1>1. Comes(t)
  BY ComesPostRig, ComesPatchRigRange, ComesSingle, ComesDelete, ComesPostSet DEF Request
<1>2. PostRig(t) => lastRig' = lastRig + 1 /\ lastSet' = lastSet
  BY DEF PostRig
<1>3. PostSet(t) => lastRig' = lastRig /\ lastSet' = lastSet + 1
  BY DEF PostSet
<1>4. PatchRigRange(t) \/ PatchRigSite(t) \/ PatchRigActive(t) \/ DeleteRig(t)
      => lastRig' = lastRig /\ lastSet' = lastSet
  BY DEF PatchRigRange, PatchRigSite, PatchRigActive, DeleteRig
<1>5. PatchSet(t) \/ DeleteSet(t) \/ PostPin(t) \/ DeletePin(t)
      => lastRig' = lastRig /\ lastSet' = lastSet
  BY DEF PatchSet, DeleteSet, PostPin, DeletePin
<1>6. lastRig \in Nat /\ lastSet \in Nat
  BY DEF TInv
<1>. HIDE DEF TInv
<1>7. \/ lastRig' = lastRig + 1 /\ lastSet' = lastSet
      \/ lastRig' = lastRig /\ lastSet' = lastSet + 1
      \/ lastRig' = lastRig /\ lastSet' = lastSet
  BY <1>2, <1>3, <1>4, <1>5 DEF Request
<1>8. lastRig' \in Nat /\ lastSet' \in Nat /\ lastRig <= lastRig' /\ lastSet <= lastSet'
  BY <1>6, <1>7
<1>. QED
  BY <1>1, <1>8

(* What arrives is the whole of it: the tables stay, and the list is        *)
(* thread t's.                                                              *)
LEMMA ArrivesEffect ==
  ASSUME TInv, NEW t \in Threads, NEW on, NEW s, Arrives(t, on, s)
  PROVE  /\ rigs' = rigs /\ sets' = sets /\ pins' = pins /\ rig' = rig /\ flatSet' = flatSet
         /\ cached' = cached /\ rigGone' = rigGone
         /\ RigIds' = RigIds /\ SetIds' = SetIds
         /\ DOMAIN work' = Threads
         /\ work[t].on = {} /\ work[t].todo = <<>>
         /\ work'[t] = [on |-> on, todo |-> s] /\ work'[t].on = on /\ work'[t].todo = s
         /\ \A u \in Threads \ {t} : work'[u] = work[u]
         /\ clean' = (clean /\ \A u \in Threads : work[u].on \cap on = {})
BY DEF Arrives, TInv, WorkOK, Free, RigIds, SetIds

(* A request keeps the types.                                               *)
LEMMA TypesRequest ==
  ASSUME TInv, NEW t \in Threads, Request(t)
  PROVE  TInv'
<1>1. PICK on, s : /\ Arrives(t, on, s)
                   /\ s \in Seq(Sends)
                   /\ \A i \in DOMAIN s : GivenOut(s[i], lastRig', lastSet')
  BY RequestComes DEF Comes
<1>2. /\ lastRig' \in Nat /\ lastSet' \in Nat /\ lastRig <= lastRig' /\ lastSet <= lastSet'
      /\ lastRig \in Nat /\ lastSet \in Nat
  BY RequestComes DEF TInv
<1>3. /\ rigs' = rigs /\ sets' = sets /\ pins' = pins /\ rig' = rig /\ flatSet' = flatSet
      /\ RigIds' = RigIds /\ SetIds' = SetIds
  BY <1>1, ArrivesEffect
<1>4. TablesOK'
  <2>1. 1 .. lastRig \subseteq 1 .. lastRig' /\ 1 .. lastSet \subseteq 1 .. lastSet'
    BY <1>2
  <2>2. RigRow \subseteq RigRow' /\ SetRow \subseteq SetRow' /\ PinRow' = PinRow
    BY <1>3, <2>1 DEF RigRow, SetRow, PinRow
  <2>. QED
    BY <1>3, <2>1, <2>2 DEF TInv, TablesOK
<1>5. WorkOK'
  <2>1. /\ DOMAIN work' = Threads
        /\ work'[t] = [on |-> work'[t].on, todo |-> work'[t].todo] /\ work'[t].todo = s
        /\ \A u \in Threads \ {t} : work'[u] = work[u]
    <3>1. /\ DOMAIN work' = Threads /\ work'[t] = [on |-> on, todo |-> s]
          /\ \A u \in Threads \ {t} : work'[u] = work[u]
      BY <1>1, ArrivesEffect
    <3>2. work'[t].on = on /\ work'[t].todo = s
      BY <3>1
    <3>. QED
      BY <3>1, <3>2
  <2>2. ASSUME NEW u \in Threads
        PROVE  /\ work'[u] = [on |-> work'[u].on, todo |-> work'[u].todo]
               /\ work'[u].todo \in Seq(Sends)
               /\ \A i \in DOMAIN work'[u].todo : GivenOut(work'[u].todo[i], lastRig', lastSet')
    <3>1. CASE u = t
      BY <1>1, <2>1, <3>1
    <3>2. CASE u # t
      <4>1. work'[u] = work[u]
        BY <2>1, <3>2
      <4>2. /\ work[u] = [on |-> work[u].on, todo |-> work[u].todo]
            /\ work[u].todo \in Seq(Sends)
            /\ \A i \in DOMAIN work[u].todo : GivenOut(work[u].todo[i], lastRig, lastSet)
        BY DEF TInv, WorkOK
      <4>3. \A i \in DOMAIN work[u].todo : GivenOut(work[u].todo[i], lastRig', lastSet')
        <5>1. 1 .. lastRig \subseteq 1 .. lastRig' /\ 1 .. lastSet \subseteq 1 .. lastSet'
          BY <1>2
        <5>. QED
          BY <4>2, <5>1 DEF GivenOut
      <4>. QED
        BY <4>1, <4>2, <4>3
    <3>. QED
      BY <3>1, <3>2
  <2>. QED
    BY <2>1, <2>2 DEF WorkOK
<1>. QED
  BY <1>2, <1>4, <1>5 DEF TInv

(* After a statement, thread t has the rest of its list.                    *)
Advances(t) ==
    /\ DOMAIN work' = Threads
    /\ \A u \in Threads \ {t} : work'[u] = work[u]
    /\ work'[t] = [on |-> work'[t].on, todo |-> work'[t].todo]
    /\ work'[t].todo \in Seq(Sends)
    /\ \A i \in DOMAIN work'[t].todo :
         /\ i \in Nat \ {0} /\ i + 1 \in DOMAIN work[t].todo
         /\ work'[t].todo[i] = work[t].todo[i + 1]
    /\ \A i \in Nat \ {0} : i + 1 \in DOMAIN work[t].todo => i \in DOMAIN work'[t].todo
    /\ work'[t].on = work[t].on \/ (work'[t].on = {} /\ work'[t].todo = <<>>)

(* A statement is the first of a list and leaves the rest of it.            *)
LEMMA StatementAdvances ==
  ASSUME TInv, NEW t \in Threads, Statement(t)
  PROVE  /\ Advances(t)
         /\ 1 \in DOMAIN work[t].todo
         /\ work[t].todo[1] \in Sends /\ GivenOut(work[t].todo[1], lastRig, lastSet)
         /\ Executes(work[t].todo[1])
         /\ UNCHANGED <<cached, counters, clean>>
<1>. DEFINE k == work[t].todo
<1>1. /\ DOMAIN work = Threads
      /\ work[t] = [on |-> work[t].on, todo |-> k]
      /\ k \in Seq(Sends) /\ k # <<>>
      /\ \A i \in DOMAIN k : GivenOut(k[i], lastRig, lastSet)
  BY DEF TInv, WorkOK, Statement
<1>2. /\ 1 \in DOMAIN k /\ k[1] \in Sends /\ Head(k) = k[1]
      /\ Len(k) \in Nat /\ Len(k) >= 1 /\ DOMAIN k = 1 .. Len(k)
  BY <1>1
<1>3. /\ work' = [work EXCEPT ![t] = IF Len(k) = 1 THEN Free ELSE [on |-> work[t].on, todo |-> Tail(k)]]
      /\ Executes(Head(k)) /\ UNCHANGED <<cached, counters, clean>>
  BY DEF Statement
<1>4. /\ DOMAIN work' = Threads
      /\ \A u \in Threads \ {t} : work'[u] = work[u]
      /\ work'[t] = IF Len(k) = 1 THEN Free ELSE [on |-> work[t].on, todo |-> Tail(k)]
  <2>. DEFINE rest == IF Len(k) = 1 THEN Free ELSE [on |-> work[t].on, todo |-> Tail(k)]
  <2>1. work' = [work EXCEPT ![t] = rest] /\ DOMAIN work = Threads
    BY <1>1, <1>3
  <2>. HIDE DEF rest
  <2>2. DOMAIN work' = Threads /\ (\A u \in Threads \ {t} : work'[u] = work[u]) /\ work'[t] = rest
    BY <2>1
  <2>. QED
    BY <2>2 DEF rest
<1>. HIDE DEF k
<1>5. Advances(t)
  <2>1. CASE Len(k) = 1
    <3>1. /\ work'[t] = [on |-> {}, todo |-> <<>>] /\ work'[t].on = {} /\ work'[t].todo = <<>>
      BY <1>4, <2>1 DEF Free
    <3>2. \A i \in Nat \ {0} : i + 1 \notin DOMAIN k
      BY <1>2, <2>1
    <3>3. <<>> \in Seq(Sends) /\ DOMAIN <<>> = {}
      OBVIOUS
    <3>. QED
      BY <1>4, <3>1, <3>2, <3>3 DEF Advances, k
  <2>2. CASE Len(k) # 1
    <3>. DEFINE l == Tail(k)
    <3>1. l \in Seq(Sends) /\ DOMAIN l = 1 .. (Len(k) - 1) /\ \A i \in 1 .. (Len(k) - 1) : l[i] = k[i + 1]
      BY <1>1, <1>2
    <3>2. /\ work'[t] = [on |-> work[t].on, todo |-> l] /\ work'[t].on = work[t].on /\ work'[t].todo = l
      BY <1>4, <2>2
    <3>. HIDE DEF l
    <3>3. \A i \in DOMAIN l : i \in Nat \ {0} /\ i + 1 \in DOMAIN k /\ l[i] = k[i + 1]
      BY <1>2, <3>1
    <3>4. \A i \in Nat \ {0} : i + 1 \in DOMAIN k => i \in DOMAIN l
      BY <1>2, <3>1
    <3>. QED
      BY <1>4, <3>1, <3>2, <3>3, <3>4 DEF Advances, k
  <2>. QED
    BY <2>1, <2>2
<1>6. /\ 1 \in DOMAIN k /\ k[1] \in Sends /\ GivenOut(k[1], lastRig, lastSet) /\ Executes(k[1])
      /\ UNCHANGED <<cached, counters, clean>>
  BY <1>1, <1>2, <1>3
<1>. QED
  BY <1>5, <1>6 DEF k

(* A statement keeps the types.                                             *)
LEMMA TypesStatement ==
  ASSUME TInv, NEW t \in Threads, Statement(t)
  PROVE  TInv'
<1>. DEFINE st == work[t].todo[1]
<1>1. /\ Advances(t) /\ st \in Sends /\ GivenOut(st, lastRig, lastSet) /\ Executes(st)
      /\ UNCHANGED counters /\ lastRig' = lastRig /\ lastSet' = lastSet
  BY StatementAdvances DEF counters
<1>. HIDE DEF st
<1>2. TablesOK'
  BY <1>1, TypesRigStatements, TypesSetStatements DEF Executes
<1>3. WorkOK'
  <2>1. ASSUME NEW u \in Threads
        PROVE  /\ work'[u] = [on |-> work'[u].on, todo |-> work'[u].todo]
               /\ work'[u].todo \in Seq(Sends)
               /\ \A i \in DOMAIN work'[u].todo : GivenOut(work'[u].todo[i], lastRig, lastSet)
    <3>1. CASE u = t
      <4>1. \A i \in DOMAIN work[t].todo : GivenOut(work[t].todo[i], lastRig, lastSet)
        BY DEF TInv, WorkOK
      <4>. QED
        BY <1>1, <3>1, <4>1 DEF Advances
    <3>2. CASE u # t
      BY <1>1, <3>2 DEF Advances, TInv, WorkOK
    <3>. QED
      BY <3>1, <3>2
  <2>. QED
    BY <1>1, <2>1 DEF WorkOK, Advances
<1>. QED
  BY <1>1, <1>2, <1>3 DEF TInv

(* The sweep files a frame under a rig that is there.                       *)
LEMMA SweepStoresEffect ==
  ASSUME TInv, NEW f \in Flats, SweepStores(f)
  PROVE  /\ UNCHANGED <<rigs, sets, pins, flatSet, cached, work, counters, rigGone>>
         /\ \E id : /\ id = Null \/ (RigOf(id) # {} /\ \E c \in cached : Covers(c, f) /\ c.id = id)
                    /\ rig' = [rig EXCEPT ![f] = id]
         /\ clean' = (clean /\ cached = rigs)
<1>. DEFINE covering == {r.id : r \in {c \in cached : Covers(c, f)}}
<1>1. \E id \in IF covering = {} THEN {Null} ELSE covering :
            /\ id = Null \/ RigOf(id) # {}
            /\ rig' = [rig EXCEPT ![f] = id]
  BY DEF SweepStores
<1>2. \A id \in IF covering = {} THEN {Null} ELSE covering :
          id = Null \/ \E c \in cached : Covers(c, f) /\ c.id = id
  OBVIOUS
<1>3. \E id : /\ id = Null \/ (RigOf(id) # {} /\ \E c \in cached : Covers(c, f) /\ c.id = id)
              /\ rig' = [rig EXCEPT ![f] = id]
  BY <1>1, <1>2
<1>4. /\ UNCHANGED <<rigs, sets, pins, flatSet, cached, work, counters, rigGone>>
      /\ clean' = (clean /\ cached = rigs)
  BY DEF SweepStores
<1>. QED
  BY <1>3, <1>4

(* Every step keeps the types.                                              *)
LEMMA TypesStep == TInv /\ [Next]_vars => TInv'
<1>. SUFFICES ASSUME TInv, [Next]_vars PROVE TInv'
  OBVIOUS
<1>1. ASSUME NEW t \in Threads, Request(t) PROVE TInv'
  BY <1>1, TypesRequest
<1>2. ASSUME NEW t \in Threads, Statement(t) PROVE TInv'
  BY <1>2, TypesStatement
<1>3. ASSUME NEW t \in Threads, Fails(t) PROVE TInv'
  <2>1. /\ UNCHANGED <<rigs, sets, pins, rig, flatSet>> /\ lastRig' = lastRig /\ lastSet' = lastSet
    BY <1>3 DEF Fails, counters
  <2>2. TablesOK'
    BY <2>1 DEF TInv, TablesOK, RigRow, SetRow, PinRow, RigIds, SetIds
  <2>3. WorkOK'
    <3>1. /\ DOMAIN work' = Threads /\ \A u \in Threads \ {t} : work'[u] = work[u]
          /\ work'[t] = [on |-> {}, todo |-> <<>>] /\ work'[t].on = {} /\ work'[t].todo = <<>>
      BY <1>3 DEF Fails, Free, TInv, WorkOK
    <3>2. <<>> \in Seq(Sends) /\ DOMAIN <<>> = {}
      OBVIOUS
    <3>. QED
      BY <2>1, <3>1, <3>2 DEF TInv, WorkOK
  <2>. QED
    BY <2>1, <2>2, <2>3 DEF TInv
<1>4. CASE SweepLoads \/ UNCHANGED vars
  <2>1. UNCHANGED <<rigs, sets, pins, rig, flatSet, work>> /\ lastRig' = lastRig /\ lastSet' = lastSet
    BY <1>4 DEF SweepLoads, vars, counters
  <2>. QED
    BY <2>1 DEF TInv, TablesOK, WorkOK, RigRow, SetRow, PinRow, RigIds, SetIds
<1>5. ASSUME NEW f \in Flats, SweepStores(f) PROVE TInv'
  <2>1. UNCHANGED <<rigs, sets, pins, flatSet, work>> /\ lastRig' = lastRig /\ lastSet' = lastSet
    BY <1>5 DEF SweepStores, counters
  <2>2. PICK id : /\ id = Null \/ RigOf(id) # {}
                  /\ rig' = [rig EXCEPT ![f] = id]
    BY <1>5, SweepStoresEffect
  <2>3. rig' \in [Flats -> RigIds \cup {Null}]
    <3>1. id \in RigIds \cup {Null}
      BY <2>2 DEF RigOf, RigIds
    <3>. QED
      BY <2>2, <3>1 DEF TInv, TablesOK
  <2>. QED
    BY <2>1, <2>3 DEF TInv, TablesOK, WorkOK, RigRow, SetRow, PinRow, RigIds, SetIds
<1>. QED
  BY <1>1, <1>2, <1>3, <1>4, <1>5 DEF Next

(* So they hold of every state that is reached,                             *)
LEMMA TInvAlways == Spec => []TInv
BY InitTInv, TypesStep, PTL DEF Spec

(* and with them the type invariant that TLC checks.                        *)
LEMMA TInvTypeOK == TInv => TypeOK
BY DEF TInv, TablesOK, TypeOK, RigRow, SetRow, PinRow, RigIds, SetIds, MaybeNight

(* TypeOK is invariant: the tables' keys hold, a set's and a pin's          *)
(* references are there, and a frame's rig is one of the rigs, however the  *)
(* statements of POST, PATCH and DELETE requests, the cascades and the      *)
(* sweep interleave.                                                        *)
THEOREM FlatSetsTypes == Spec => []TypeOK
BY TInvAlways, TInvTypeOK, PTL

-----------------------------------------------------------------------------
(***************************************************************************)
(* C. The pick of a night.                                                 *)
(***************************************************************************)

(* Without a pin or a window, the pick of a sited rig is the first of those *)
(* captured by the night, and those are the same sets on both nights.       *)
LEMMA TypedPicksAreSticky == TInv => PicksAreSticky
<1>. SUFFICES ASSUME TInv,
                     NEW r \in rigs, NEW filter \in Filters \cup {Null}, NEW m \in Nights, NEW n \in Nights,
                     r.sited, m < n,
                     \A p \in pins : p.rig # r.id,
                     \A s \in sets : s.from = Null,
                     \A s \in sets : s.rig = r.id /\ Fits(s, filter) /\ s.captured # Null
                                       => s.captured \notin (m + 1) .. n
              PROVE  FlatSetFor(r, m, filter) = FlatSetFor(r, n, filter)
  BY DEF PicksAreSticky
<1>. DEFINE fitting == {s \in sets : Fits(s, filter)}
            own == {s \in fitting : s.rig = r.id}
            pinned(k) == {s \in fitting : [rig |-> r.id, night |-> k, set |-> s.id] \in pins}
            current(k) == {s \in own : k # Null /\ WindowCovers(s, k)}
            sticky(k) == {s \in own : k # Null /\ CapturedBy(s, k)}
            active == {s \in fitting : s.id = r.active}
<1>1. \A k : pinned(k) = {}
  <2>1. \A k, id : [rig |-> r.id, night |-> k, set |-> id] \notin pins
    <3>1. \A k, id : [rig |-> r.id, night |-> k, set |-> id].rig = r.id
      OBVIOUS
    <3>. QED
      BY <3>1
  <2>. QED
    BY <2>1
<1>2. \A k : current(k) = {}
  BY DEF WindowCovers
<1>3. sticky(m) = sticky(n)
  <2>1. m \in Nat /\ n \in Nat /\ m # Null /\ n # Null
    BY FlatSetsAssumption
  <2>2. ASSUME NEW s \in own PROVE CapturedBy(s, m) <=> CapturedBy(s, n)
    <3>1. s.captured = Null \/ s.captured \in Nat
      BY FlatSetsAssumption DEF TInv, TablesOK, SetRow, MaybeNight
    <3>2. s.captured # Null => s.captured \notin (m + 1) .. n
      OBVIOUS
    <3>. QED
      BY <2>1, <3>1, <3>2 DEF CapturedBy
  <2>. HIDE DEF own
  <2>. QED
    BY <2>1, <2>2
<1>. HIDE DEF own, fitting
<1>4. FlatSetFor(r, m, filter) = IF sticky(m) # {} THEN First(sticky(m)) ELSE active
  BY <1>1, <1>2 DEF FlatSetFor, own, fitting
<1>5. FlatSetFor(r, n, filter) = IF sticky(n) # {} THEN First(sticky(n)) ELSE active
  BY <1>1, <1>2 DEF FlatSetFor, own, fitting
<1>. HIDE DEF sticky, active
<1>. QED
  BY <1>3, <1>4, <1>5

(* PicksAreSticky is invariant: resolve_flat_set answers alike on two nights*)
(* unless a fitting set was captured in between, or a pin or a window says  *)
(* otherwise.                                                               *)
THEOREM PicksStick == Spec => []PicksAreSticky
BY TInvAlways, TypedPicksAreSticky, PTL

-----------------------------------------------------------------------------
(***************************************************************************)
(* D. Frames and their rigs.                                               *)
(***************************************************************************)

(* The frames of rig id are still to be released.                           *)
Releasing(id) ==
    \E t \in Threads : \E i \in DOMAIN work[t].todo :
        work[t].todo[i].do = "release" /\ work[t].todo[i].rig = id

(* No two requests under way are on one rig or set, and each writes only   *)
(* what it is on.                                                          *)
OnTheirOwn ==
    /\ \A t, u \in Threads : t # u => work[t].on \cap work[u].on = {}
    /\ \A t \in Threads : Watched(work[t].on, work[t].todo)

(* A frame is covered by its rig, or to be released.                        *)
Fitting == \A f \in Flats : \A r \in rigs : rig[f] = r.id => Covers(r, f) \/ Releasing(r.id)

(* What is left of thread t's list.                                         *)
RigsScripted(t) == RigsScript(work[t].todo)
SetsScripted(t) == SetsScript(work[t].todo)

(* The inductive invariant of part D, as long as no requests clash,         *)
RInv ==
    clean => /\ OnTheirOwn
             /\ OneRigPerId
             /\ \A t \in Threads : RigsScripted(t)
             /\ Fitting

(* A flat's set is there.                                                   *)
Bound(f) == flatSet[f] = Null \/ SetOf(flatSet[f]) # {}

(* and that of part E, as long as no rig went.                              *)
FInv ==
    clean /\ ~rigGone =>
        /\ \A t \in Threads : SetsScripted(t)
        /\ \A f \in Flats : Bound(f)

(* What is left of a list once its first statement is executed.             *)
Rest(l, s) ==
    /\ \A i \in DOMAIN l : i \in Nat \ {0} /\ i + 1 \in DOMAIN s /\ l[i] = s[i + 1]
    /\ \A i \in Nat \ {0} : i + 1 \in DOMAIN s => i \in DOMAIN l

(* Where a row of rigs comes from.                                          *)
Row(st, q) ==
    \/ st.do = "insert rig" /\ q.id = st.rig /\ q.lo = st.lo /\ q.hi = st.hi
    \/ \E r \in rigs : /\ r.id = q.id
                       /\ IF st.do = "update rig" /\ st.rig = r.id
                          THEN q.lo = Given(st.lo, r.lo) /\ q.hi = Given(st.hi, r.hi)
                          ELSE q.lo = r.lo /\ q.hi = r.hi

(* Every row of rigs after a statement comes from one before, or is new.    *)
LEMMA RigRows ==
  ASSUME TInv, NEW st \in Sends, Executes(st)
  PROVE  \A q \in rigs' : Row(st, q)
<1>0. \A r \in rigs : r \in RigRow
  BY DEF TInv, TablesOK
<1>1. CASE InsertsRig(st)
  <2>. DEFINE n == [id |-> st.rig, lo |-> st.lo, hi |-> st.hi, sited |-> st.sited, active |-> Null]
  <2>1. st.do = "insert rig" /\ rigs' = rigs \cup {n}
    BY <1>1 DEF InsertsRig
  <2>2. n.id = st.rig /\ n.lo = st.lo /\ n.hi = st.hi
    OBVIOUS
  <2>. HIDE DEF n
  <2>. QED
    BY <2>1, <2>2 DEF Row
<1>2. CASE UpdatesRig(st)
  <2>. DEFINE U(r) == [r EXCEPT !.lo = Given(st.lo, @), !.hi = Given(st.hi, @),
                              !.sited = Given(st.sited, @), !.active = Given(st.active, @)]
  <2>1. st.do = "update rig" /\ rigs' = {IF r.id # st.rig THEN r ELSE U(r) : r \in rigs}
    BY <1>2 DEF UpdatesRig
  <2>2. \A r \in rigs : U(r).id = r.id /\ U(r).lo = Given(st.lo, r.lo) /\ U(r).hi = Given(st.hi, r.hi)
    BY <1>0 DEF RigRow
  <2>. HIDE DEF U
  <2>. SUFFICES ASSUME NEW q \in rigs' PROVE Row(st, q)
    OBVIOUS
  <2>3. PICK r \in rigs : q = IF r.id # st.rig THEN r ELSE U(r)
    BY <2>1
  <2>4. CASE r.id # st.rig
    BY <2>3, <2>4 DEF Row
  <2>5. CASE r.id = st.rig
    BY <2>1, <2>2, <2>3, <2>5 DEF Row
  <2>. QED
    BY <2>4, <2>5
<1>3. CASE Deactivates(st)
  <2>. DEFINE U(r) == [r EXCEPT !.active = Null]
  <2>1. st.do = "deactivate" /\ rigs' = {IF r.active = st.set THEN U(r) ELSE r : r \in rigs}
    BY <1>3 DEF Deactivates
  <2>2. \A r \in rigs : U(r).id = r.id /\ U(r).lo = r.lo /\ U(r).hi = r.hi
    BY <1>0 DEF RigRow
  <2>. HIDE DEF U
  <2>. QED
    BY <2>1, <2>2 DEF Row
<1>4. CASE DeletesRig(st)
  BY <1>4 DEF DeletesRig, Row
<1>5. CASE Claims(st) \/ Releases(st) \/ InsertsSet(st) \/ GathersFlats(st) \/ DatesSet(st)
           \/ SetsWindow(st) \/ FreesFlats(st) \/ DeletesSet(st) \/ Pins(st) \/ Unpins(st)
  <2>1. rigs' = rigs /\ st.do # "update rig"
    BY <1>5 DEF Claims, Releases, InsertsSet, GathersFlats, DatesSet, SetsWindow, FreesFlats, DeletesSet,
       Pins, Unpins
  <2>. QED
    BY <2>1 DEF Row
<1>. QED
  BY <1>1, <1>2, <1>3, <1>4, <1>5 DEF Executes

(* A new rig has a new id, and the others keep theirs.                      *)
LEMMA RigsStayApart ==
  ASSUME TInv, NEW st \in Sends, Executes(st), OneRigPerId,
         st.do = "insert rig" => RigOf(st.rig) = {}
  PROVE  OneRigPerId'
<1>0. \A r \in rigs : r \in RigRow
  BY DEF TInv, TablesOK
<1>1. CASE InsertsRig(st)
  <2>. DEFINE n == [id |-> st.rig, lo |-> st.lo, hi |-> st.hi, sited |-> st.sited, active |-> Null]
  <2>1. st.do = "insert rig" /\ rigs' = rigs \cup {n}
    BY <1>1 DEF InsertsRig
  <2>2. n.id = st.rig
    OBVIOUS
  <2>3. \A r \in rigs : r.id # st.rig
    BY <2>1 DEF RigOf
  <2>. HIDE DEF n
  <2>. QED
    BY <2>1, <2>2, <2>3 DEF OneRigPerId
<1>2. CASE UpdatesRig(st)
  <2>. DEFINE U(r) == [r EXCEPT !.lo = Given(st.lo, @), !.hi = Given(st.hi, @),
                              !.sited = Given(st.sited, @), !.active = Given(st.active, @)]
  <2>1. rigs' = {IF r.id # st.rig THEN r ELSE U(r) : r \in rigs}
    BY <1>2 DEF UpdatesRig
  <2>2. \A r \in rigs : U(r).id = r.id
    BY <1>0 DEF RigRow
  <2>. HIDE DEF U
  <2>. SUFFICES ASSUME NEW p \in rigs', NEW q \in rigs', p.id = q.id PROVE p = q
    BY DEF OneRigPerId
  <2>3. PICK a \in rigs : p = IF a.id # st.rig THEN a ELSE U(a)
    BY <2>1
  <2>4. PICK b \in rigs : q = IF b.id # st.rig THEN b ELSE U(b)
    BY <2>1
  <2>5. a.id = p.id /\ b.id = q.id
    BY <2>2, <2>3, <2>4
  <2>6. a = b
    BY <2>5 DEF OneRigPerId
  <2>. QED
    BY <2>3, <2>4, <2>6
<1>3. CASE Deactivates(st)
  <2>. DEFINE U(r) == [r EXCEPT !.active = Null]
  <2>1. rigs' = {IF r.active = st.set THEN U(r) ELSE r : r \in rigs}
    BY <1>3 DEF Deactivates
  <2>2. \A r \in rigs : U(r).id = r.id
    BY <1>0 DEF RigRow
  <2>. HIDE DEF U
  <2>. SUFFICES ASSUME NEW p \in rigs', NEW q \in rigs', p.id = q.id PROVE p = q
    BY DEF OneRigPerId
  <2>3. PICK a \in rigs : p = IF a.active = st.set THEN U(a) ELSE a
    BY <2>1
  <2>4. PICK b \in rigs : q = IF b.active = st.set THEN U(b) ELSE b
    BY <2>1
  <2>5. a.id = p.id /\ b.id = q.id
    BY <2>2, <2>3, <2>4
  <2>6. a = b
    BY <2>5 DEF OneRigPerId
  <2>. QED
    BY <2>3, <2>4, <2>6
<1>4. CASE DeletesRig(st)
  BY <1>4 DEF DeletesRig, OneRigPerId
<1>5. CASE Claims(st) \/ Releases(st) \/ InsertsSet(st) \/ GathersFlats(st) \/ DatesSet(st)
           \/ SetsWindow(st) \/ FreesFlats(st) \/ DeletesSet(st) \/ Pins(st) \/ Unpins(st)
  <2>1. rigs' = rigs
    BY <1>5 DEF Claims, Releases, InsertsSet, GathersFlats, DatesSet, SetsWindow, FreesFlats, DeletesSet,
       Pins, Unpins
  <2>. QED
    BY <2>1 DEF OneRigPerId
<1>. QED
  BY <1>1, <1>2, <1>3, <1>4, <1>5 DEF Executes

(* What a statement does to frames.rig_id.                                  *)
LEMMA RigColumn ==
  ASSUME TInv, NEW st \in Sends, Executes(st), NEW f \in Flats
  PROVE  \/ st.do = "claim" /\ rigs' = rigs /\ Info[f].focal \in st.lo .. st.hi /\ rig'[f] = st.rig
         \/ rig'[f] = Null
         \/ rig'[f] = rig[f] /\ (st.do \in {"release", "delete rig"} => rig[f] # st.rig)
<1>1. CASE Claims(st)
  BY <1>1 DEF Claims
<1>2. CASE Releases(st)
  BY <1>2 DEF Releases
<1>3. CASE DeletesRig(st)
  BY <1>3 DEF DeletesRig
<1>4. CASE InsertsRig(st) \/ UpdatesRig(st) \/ Deactivates(st) \/ InsertsSet(st) \/ GathersFlats(st)
           \/ DatesSet(st) \/ SetsWindow(st) \/ FreesFlats(st) \/ DeletesSet(st) \/ Pins(st) \/ Unpins(st)
  BY <1>4 DEF InsertsRig, UpdatesRig, Deactivates, InsertsSet, GathersFlats, DatesSet, SetsWindow,
     FreesFlats, DeletesSet, Pins, Unpins
<1>. QED
  BY <1>1, <1>2, <1>3, <1>4 DEF Executes

(* Another request's list stays true,                                       *)
LEMMA OthersRigsScript ==
  ASSUME TInv, NEW st \in Sends, Executes(st), NEW s, RigsScript(s),
         \A i \in DOMAIN s : s[i].do \in {"insert rig", "claim"} /\ st.do \in {"insert rig", "update rig"}
                                => s[i].rig # st.rig
  PROVE  RigsScript(s)'
<1>1. \A id : (st.do \in {"insert rig", "update rig"} => id # st.rig) =>
          \A q \in rigs' : q.id = id => \E r \in rigs : r.id = id /\ q.lo = r.lo /\ q.hi = r.hi
  <2>. SUFFICES ASSUME NEW q \in rigs', st.do \in {"insert rig", "update rig"} => q.id # st.rig
                PROVE  \E r \in rigs : r.id = q.id /\ q.lo = r.lo /\ q.hi = r.hi
    OBVIOUS
  <2>1. Row(st, q)
    BY RigRows
  <2>2. PICK r \in rigs : /\ r.id = q.id
                          /\ IF st.do = "update rig" /\ st.rig = r.id
                             THEN q.lo = Given(st.lo, r.lo) /\ q.hi = Given(st.hi, r.hi)
                             ELSE q.lo = r.lo /\ q.hi = r.hi
    BY <2>1 DEF Row
  <2>. QED
    BY <2>2
<1>2. InsertsNew(s)'
  <2>. SUFFICES ASSUME NEW i \in DOMAIN s, s[i].do = "insert rig" PROVE i = 1 /\ RigOf(s[1].rig)' = {}
    BY DEF InsertsNew
  <2>1. i = 1 /\ RigOf(s[1].rig) = {}
    BY DEF RigsScript, InsertsNew
  <2>2. st.do \in {"insert rig", "update rig"} => s[1].rig # st.rig
    BY <2>1
  <2>3. \A r \in rigs : r.id # s[1].rig
    BY <2>1 DEF RigOf
  <2>4. \A q \in rigs' : q.id # s[1].rig
    BY <1>1, <2>2, <2>3
  <2>. QED
    BY <2>1, <2>4 DEF RigOf
<1>3. ClaimsOwn(s)'
  <2>. SUFFICES ASSUME NEW i \in DOMAIN s, s[i].do = "claim"
                PROVE  \/ i = 1 /\ HasRange(s[1].rig, s[1].lo, s[1].hi)'
                       \/ /\ i = 2 /\ s[1].do = "insert rig" /\ s[1].rig = s[2].rig
                          /\ s[1].lo = s[2].lo /\ s[1].hi = s[2].hi
                       \/ i = 2 /\ s[1].do = "release" /\ s[1].rig = s[2].rig
                                /\ HasRange(s[2].rig, s[2].lo, s[2].hi)'
                       \/ /\ i = 3 /\ s[1].do = "update rig" /\ s[2].do = "release"
                          /\ s[1].rig = s[3].rig /\ s[2].rig = s[3].rig
                          /\ \A r \in RigOf(s[3].rig)' : Given(s[1].lo, r.lo) = s[3].lo
                                                          /\ Given(s[1].hi, r.hi) = s[3].hi
    BY DEF ClaimsOwn
  <2>1. st.do \in {"insert rig", "update rig"} => s[i].rig # st.rig
    OBVIOUS
  <2>2. \A q \in rigs' : q.id = s[i].rig => \E r \in rigs : r.id = s[i].rig /\ q.lo = r.lo /\ q.hi = r.hi
    BY <1>1, <2>1
  <2>3. \A lo, hi : HasRange(s[i].rig, lo, hi) => HasRange(s[i].rig, lo, hi)'
    BY <2>2 DEF HasRange, RigOf
  <2>4. ASSUME \A r \in RigOf(s[i].rig) : Given(s[1].lo, r.lo) = s[i].lo /\ Given(s[1].hi, r.hi) = s[i].hi
        PROVE  \A r \in RigOf(s[i].rig)' : Given(s[1].lo, r.lo) = s[i].lo /\ Given(s[1].hi, r.hi) = s[i].hi
    <3>. SUFFICES ASSUME NEW q \in rigs', q.id = s[i].rig
                  PROVE  Given(s[1].lo, q.lo) = s[i].lo /\ Given(s[1].hi, q.hi) = s[i].hi
      BY DEF RigOf
    <3>1. PICK r \in rigs : r.id = s[i].rig /\ q.lo = r.lo /\ q.hi = r.hi
      BY <2>2
    <3>2. r \in RigOf(s[i].rig)
      BY <3>1 DEF RigOf
    <3>. QED
      BY <2>4, <3>1, <3>2
  <2>. QED
    BY <2>3, <2>4 DEF RigsScript, ClaimsOwn
<1>4. UpdatesRelease(s)'
  BY DEF RigsScript, UpdatesRelease
<1>. QED
  BY <1>2, <1>3, <1>4 DEF RigsScript

(* and so does what is left of the request's own.                           *)
LEMMA OwnRigsScript ==
  ASSUME TInv, NEW s \in Seq(Sends), 1 \in DOMAIN s, Executes(s[1]), RigsScript(s),
         NEW l, Rest(l, s)
  PROVE  RigsScript(l)'
<1>0. \A i \in DOMAIN l : i \in Nat /\ i # 0 /\ i + 1 # 1 /\ i + 1 \in DOMAIN s /\ l[i] = s[i + 1]
  BY DEF Rest
<1>1. \A q \in rigs' : Row(s[1], q)
  <2>1. s[1] \in Sends
    OBVIOUS
  <2>. QED
    BY <2>1, RigRows
<1>2. InsertsNew(l)'
  BY <1>0 DEF RigsScript, InsertsNew
<1>3. UpdatesRelease(l)'
  <2>. SUFFICES ASSUME NEW i \in DOMAIN l, l[i].do = "update rig" PROVE l[i].lo = Keep /\ l[i].hi = Keep
    BY DEF UpdatesRelease
  <2>1. i + 1 \in DOMAIN s /\ i + 1 # 1 /\ l[i] = s[i + 1]
    BY <1>0
  <2>. QED
    BY <2>1 DEF RigsScript, UpdatesRelease
<1>4. ClaimsOwn(l)'
  <2>. SUFFICES ASSUME NEW i \in DOMAIN l, l[i].do = "claim"
                PROVE  \/ i = 1 /\ HasRange(l[1].rig, l[1].lo, l[1].hi)'
                       \/ i = 2 /\ l[1].do = "release" /\ l[1].rig = l[2].rig
                                /\ HasRange(l[2].rig, l[2].lo, l[2].hi)'
    BY DEF ClaimsOwn
  <2>1. i \in Nat /\ i # 0 /\ i + 1 # 1 /\ i + 1 \in DOMAIN s /\ l[i] = s[i + 1] /\ s[i + 1].do = "claim"
    BY <1>0
  <2>2. CASE i + 1 = 2 /\ s[1].do = "insert rig" /\ s[1].rig = s[2].rig
             /\ s[1].lo = s[2].lo /\ s[1].hi = s[2].hi
    <3>0. i \in Nat /\ i + 1 = 2
      BY <2>1, <2>2
    <3>1. i = 1 /\ l[1] = s[2]
      <4>1. i = 1
        BY <3>0
      <4>. QED
        BY <2>1, <3>0, <4>1
    <3>2. \A r \in rigs : r.id # s[1].rig
      BY <2>2 DEF RigsScript, InsertsNew, RigOf
    <3>3. \A q \in rigs' : q.id = s[1].rig => q.lo = s[1].lo /\ q.hi = s[1].hi
      <4>. SUFFICES ASSUME NEW q \in rigs', q.id = s[1].rig PROVE q.lo = s[1].lo /\ q.hi = s[1].hi
        OBVIOUS
      <4>1. Row(s[1], q)
        BY <1>1
      <4>. QED
        BY <3>2, <4>1 DEF Row
    <3>4. HasRange(s[2].rig, s[2].lo, s[2].hi)'
      BY <2>2, <3>3 DEF HasRange, RigOf
    <3>. QED
      BY <3>1, <3>4
  <2>3. CASE i + 1 = 2 /\ s[1].do = "release" /\ s[1].rig = s[2].rig /\ HasRange(s[2].rig, s[2].lo, s[2].hi)
    <3>1. i = 1 /\ l[1] = s[2]
      BY <2>1, <2>3
    <3>2. \A r \in rigs : r.id = s[2].rig => r.lo = s[2].lo /\ r.hi = s[2].hi
      BY <2>3 DEF HasRange, RigOf
    <3>3. \A q \in rigs' : q.id = s[2].rig => q.lo = s[2].lo /\ q.hi = s[2].hi
      BY <1>1, <2>3, <3>2 DEF Row
    <3>. QED
      BY <3>1, <3>3 DEF HasRange, RigOf
  <2>4. CASE /\ i + 1 = 3 /\ s[1].do = "update rig" /\ s[2].do = "release"
             /\ s[1].rig = s[3].rig /\ s[2].rig = s[3].rig
             /\ \A r \in RigOf(s[3].rig) : Given(s[1].lo, r.lo) = s[3].lo /\ Given(s[1].hi, r.hi) = s[3].hi
    <3>0. i \in Nat /\ i + 1 = 3
      BY <2>1, <2>4
    <3>1. i = 2 /\ l[2] = s[3]
      <4>1. i = 2
        BY <3>0
      <4>. QED
        BY <2>1, <3>0, <4>1
    <3>2. 2 \in DOMAIN s /\ 1 \in DOMAIN l
      <4>1. 3 \in DOMAIN s
        BY <2>1, <2>4
      <4>2. DOMAIN s = 1 .. Len(s) /\ Len(s) \in Nat
        OBVIOUS
      <4>3. 2 \in DOMAIN s
        BY <4>1, <4>2
      <4>. QED
        BY <4>3 DEF Rest
    <3>3. l[1] = s[2]
      BY <1>0, <3>2
    <3>4. \A r \in rigs : r.id = s[3].rig => Given(s[1].lo, r.lo) = s[3].lo /\ Given(s[1].hi, r.hi) = s[3].hi
      BY <2>4 DEF RigOf
    <3>5. \A q \in rigs' : q.id = s[3].rig => q.lo = s[3].lo /\ q.hi = s[3].hi
      <4>. SUFFICES ASSUME NEW q \in rigs', q.id = s[3].rig PROVE q.lo = s[3].lo /\ q.hi = s[3].hi
        OBVIOUS
      <4>1. PICK r \in rigs : r.id = q.id /\ q.lo = Given(s[1].lo, r.lo) /\ q.hi = Given(s[1].hi, r.hi)
        BY <1>1, <2>4 DEF Row
      <4>. QED
        BY <3>4, <4>1
    <3>. QED
      BY <2>4, <3>1, <3>3, <3>5 DEF HasRange, RigOf
  <2>. QED
    BY <2>1, <2>2, <2>3, <2>4 DEF RigsScript, ClaimsOwn
<1>. QED
  BY <1>2, <1>3, <1>4 DEF RigsScript

(* A release that is still to come stays to come.                           *)
LEMMA ReleasingStays ==
  ASSUME TInv, NEW t \in Threads, Advances(t), NEW id, Releasing(id),
         ~(work[t].todo[1].do = "release" /\ work[t].todo[1].rig = id)
  PROVE  Releasing(id)'
<1>0. PICK u \in Threads : \E i \in DOMAIN work[u].todo :
        work[u].todo[i].do = "release" /\ work[u].todo[i].rig = id
  BY DEF Releasing
<1>1. PICK i \in DOMAIN work[u].todo : work[u].todo[i].do = "release" /\ work[u].todo[i].rig = id
  BY <1>0
<1>2. CASE u # t
  <2>1. work'[u] = work[u]
    BY <1>2 DEF Advances
  <2>. QED
    BY <1>1, <2>1 DEF Releasing
<1>3. CASE u = t
  <2>1. i \in Nat /\ i # 0
    BY <1>3 DEF TInv, WorkOK
  <2>2. i # 1
    BY <1>1, <1>3
  <2>3. PICK j \in Nat \ {0} : i = j + 1
    <3>1. i - 1 \in Nat \ {0} /\ i = (i - 1) + 1
      BY <2>1, <2>2
    <3>. QED
      BY <3>1
  <2>4. j \in DOMAIN work'[t].todo
    BY <1>3, <2>3 DEF Advances
  <2>5. work'[t].todo[j] = work[t].todo[i]
    BY <2>3, <2>4 DEF Advances
  <2>. QED
    BY <1>1, <1>3, <2>4, <2>5 DEF Releasing
<1>. QED
  BY <1>2, <1>3

(* Requests do not come closer to one another.                              *)
LEMMA StatementsStayApart ==
  ASSUME OnTheirOwn, NEW t \in Threads, Advances(t)
  PROVE  OnTheirOwn'
<1>1. \A u \in Threads : work'[u].on \subseteq work[u].on
  BY DEF Advances
<1>2. \A u, v \in Threads : u # v => work'[u].on \cap work'[v].on = {}
  BY <1>1 DEF OnTheirOwn
<1>3. ASSUME NEW u \in Threads PROVE Watched(work'[u].on, work'[u].todo)
  <2>1. CASE u # t
    <3>1. work'[u] = work[u]
      BY <2>1 DEF Advances
    <3>. QED
      BY <3>1 DEF OnTheirOwn, Watched
  <2>2. CASE u = t
    <3>1. CASE work'[t].todo = <<>>
      <4>1. DOMAIN <<>> = {}
        OBVIOUS
      <4>2. \A on : Watched(on, <<>>)
        BY <4>1 DEF Watched
      <4>. QED
        BY <2>2, <3>1, <4>2
    <3>2. CASE work'[t].on = work[t].on
      <4>1. \A i \in DOMAIN work'[t].todo : i + 1 \in DOMAIN work[t].todo
                                            /\ work'[t].todo[i] = work[t].todo[i + 1]
        BY DEF Advances
      <4>2. Watched(work[t].on, work[t].todo)
        BY DEF OnTheirOwn
      <4>. QED
        BY <2>2, <3>2, <4>1, <4>2 DEF Watched
    <3>. QED
      BY <3>1, <3>2 DEF Advances
  <2>. QED
    BY <2>1, <2>2
<1>. QED
  BY <1>2, <1>3 DEF OnTheirOwn

(* A statement that files frames under a rig files them under one that      *)
(* covers them; one that changes a range has the release behind it.         *)
LEMMA FittingStatement ==
  ASSUME TInv, OnTheirOwn, NEW t \in Threads, Statement(t), RigsScript(work[t].todo), Fitting
  PROVE  Fitting'
<1>. DEFINE s == work[t].todo
            st == work[t].todo[1]
<1>1. /\ Advances(t) /\ 1 \in DOMAIN s /\ st \in Sends /\ Executes(st)
      /\ s \in Seq(Sends)
  BY StatementAdvances DEF TInv, WorkOK
<1>2. \A q \in rigs' : Row(st, q)
  BY <1>1, RigRows
<1>3. \A q \in rigs' : q.id # Null
  <2>1. TInv'
    BY TypesStatement
  <2>. QED
    BY <2>1, FlatSetsAssumption DEF TInv, TablesOK, RigRow
<1>4. st.do = "claim" => HasRange(st.rig, st.lo, st.hi)
  BY <1>1 DEF RigsScript, ClaimsOwn
<1>5. st.do = "insert rig" => RigOf(st.rig) = {}
  BY <1>1 DEF RigsScript, InsertsNew
<1>6. st.do = "update rig" => \/ st.lo = Keep /\ st.hi = Keep
                              \/ 2 \in DOMAIN s /\ s[2].do = "release" /\ s[2].rig = st.rig
  BY <1>1 DEF RigsScript, UpdatesRelease
<1>. HIDE DEF s, st
<1>. SUFFICES ASSUME NEW f \in Flats, NEW q \in rigs', rig'[f] = q.id
              PROVE  Covers(q, f) \/ Releasing(q.id)'
  BY DEF Fitting
<1>7. CASE st.do = "claim" /\ rigs' = rigs /\ Info[f].focal \in st.lo .. st.hi /\ rig'[f] = st.rig
  <2>1. q.lo = st.lo /\ q.hi = st.hi
    BY <1>4, <1>7 DEF HasRange, RigOf
  <2>. QED
    BY <1>7, <2>1 DEF Covers
<1>8. CASE rig'[f] = rig[f] /\ (st.do \in {"release", "delete rig"} => rig[f] # st.rig)
  <2>1. PICK r \in rigs : /\ r.id = q.id
                          /\ IF st.do = "update rig" /\ st.rig = r.id
                             THEN q.lo = Given(st.lo, r.lo) /\ q.hi = Given(st.hi, r.hi)
                             ELSE q.lo = r.lo /\ q.hi = r.hi
    <3>1. Row(st, q)
      BY <1>2
    <3>2. ~(st.do = "insert rig" /\ q.id = st.rig)
      <4>1. PICK r \in rigs : r.id = rig[f]
        BY <1>3, <1>8 DEF TInv, TablesOK, RigIds
      <4>. QED
        BY <1>5, <1>8, <4>1 DEF RigOf
    <3>. QED
      BY <3>1, <3>2 DEF Row
  <2>2. CASE Releasing(r.id)
    <3>1. ~(st.do = "release" /\ st.rig = r.id)
      BY <1>8, <2>1
    <3>2. Releasing(r.id)'
      BY <1>1, <2>2, <3>1, ReleasingStays DEF st
    <3>. QED
      BY <2>1, <3>2
  <2>3. CASE Covers(r, f)
    <3>1. CASE q.lo = r.lo /\ q.hi = r.hi
      BY <2>3, <3>1 DEF Covers
    <3>2. CASE ~(q.lo = r.lo /\ q.hi = r.hi)
      <4>1. st.do = "update rig" /\ st.rig = r.id
        BY <2>1, <3>2
      <4>2. ~(st.lo = Keep /\ st.hi = Keep)
        BY <2>1, <3>2, <4>1 DEF Given
      <4>3. 2 \in DOMAIN s /\ s[2].do = "release" /\ s[2].rig = q.id
        BY <1>6, <2>1, <4>1, <4>2
      <4>4. 1 \in DOMAIN work'[t].todo
        <5>1. 1 + 1 = 2 /\ 1 \in Nat \ {0}
          OBVIOUS
        <5>. QED
          BY <1>1, <4>3, <5>1 DEF Advances, s
      <4>5. work'[t].todo[1] = s[2]
        <5>1. 1 + 1 = 2
          OBVIOUS
        <5>. QED
          BY <1>1, <4>4, <5>1 DEF Advances, s
      <4>. QED
        BY <4>3, <4>4, <4>5 DEF Releasing
    <3>. QED
      BY <3>1, <3>2
  <2>4. rig[f] = r.id
    BY <1>8, <2>1
  <2>. QED
    BY <2>2, <2>3, <2>4 DEF Fitting
<1>9. rig'[f] # Null
  BY <1>3
<1>10. \/ st.do = "claim" /\ rigs' = rigs /\ Info[f].focal \in st.lo .. st.hi /\ rig'[f] = st.rig
       \/ rig'[f] = Null
       \/ rig'[f] = rig[f] /\ (st.do \in {"release", "delete rig"} => rig[f] # st.rig)
  BY <1>1, RigColumn
<1>. QED
  <2>1. CASE st.do = "claim" /\ rigs' = rigs /\ Info[f].focal \in st.lo .. st.hi /\ rig'[f] = st.rig
    BY <1>7, <2>1
  <2>2. CASE rig'[f] = rig[f] /\ (st.do \in {"release", "delete rig"} => rig[f] # st.rig)
    BY <1>8, <2>2
  <2>. QED
    BY <1>9, <1>10, <2>1, <2>2

(* A list that was named on its own.                                        *)
LEMMA TodosOfRigs ==
  ASSUME NEW u, NEW l, work'[u].todo = l, RigsScript(l)'
  PROVE  RigsScripted(u)'
<1>1. InsertsNew(l)' /\ ClaimsOwn(l)' /\ UpdatesRelease(l)'
  BY DEF RigsScript
<1>2. InsertsNew(work[u].todo)'
  BY <1>1 DEF InsertsNew, RigOf
<1>3. ClaimsOwn(work[u].todo)'
  BY <1>1, ZenonT(120) DEF ClaimsOwn, HasRange, RigOf
<1>4. UpdatesRelease(work[u].todo)'
  BY <1>1 DEF UpdatesRelease
<1>. QED
  BY <1>2, <1>3, <1>4 DEF RigsScripted, RigsScript

(* A statement keeps RInv.                                                  *)
LEMMA RInvStatement ==
  ASSUME TInv, RInv, NEW t \in Threads, Statement(t)
  PROVE  RInv'
<1>. SUFFICES ASSUME clean'
              PROVE  OnTheirOwn' /\ OneRigPerId' /\ (\A u \in Threads : RigsScripted(u)') /\ Fitting'
  BY DEF RInv
<1>. DEFINE s == work[t].todo
            st == work[t].todo[1]
<1>1. /\ Advances(t) /\ 1 \in DOMAIN s /\ st \in Sends /\ Executes(st) /\ clean
      /\ s \in Seq(Sends)
  BY StatementAdvances DEF TInv, WorkOK
<1>2. OnTheirOwn /\ OneRigPerId /\ (\A u \in Threads : RigsScripted(u)) /\ Fitting
  BY <1>1 DEF RInv
<1>3. Fitting'
  BY <1>2, FittingStatement DEF RigsScripted
<1>4. OnTheirOwn'
  BY <1>1, <1>2, StatementsStayApart
<1>5. OneRigPerId'
  <2>1. st.do = "insert rig" => RigOf(st.rig) = {}
    BY <1>1, <1>2 DEF RigsScripted, RigsScript, InsertsNew
  <2>. QED
    BY <1>1, <1>2, <2>1, RigsStayApart
<1>6. ASSUME NEW u \in Threads PROVE RigsScripted(u)'
  <2>1. CASE u = t
    <3>1. PICK k, l : k = work[t].todo /\ l = work'[t].todo
      OBVIOUS
    <3>2. Rest(l, k)
      BY <1>1, <3>1 DEF Rest, Advances
    <3>3. k \in Seq(Sends) /\ 1 \in DOMAIN k /\ Executes(k[1]) /\ RigsScript(k)
      BY <1>1, <1>2, <3>1 DEF RigsScripted
    <3>4. RigsScript(l)'
      BY <3>2, <3>3, OwnRigsScript
    <3>. QED
      BY <2>1, <3>1, <3>4, TodosOfRigs
  <2>2. CASE u # t
    <3>1. PICK k : k = work[u].todo
      OBVIOUS
    <3>2. work'[u].todo = k /\ RigsScript(k)
      BY <1>1, <1>2, <2>2, <3>1 DEF Advances, RigsScripted
    <3>3. ASSUME NEW i \in DOMAIN k, k[i].do \in {"insert rig", "claim"},
                 st.do \in {"insert rig", "update rig"}
          PROVE  k[i].rig # st.rig
      <4>1. R(k[i].rig) \in work[u].on /\ R(st.rig) \in work[t].on
        BY <1>1, <1>2, <3>1, <3>3 DEF OnTheirOwn, Watched
      <4>2. R(k[i].rig) # R(st.rig)
        BY <1>2, <2>2, <4>1 DEF OnTheirOwn
      <4>. QED
        BY <4>2
    <3>4. RigsScript(k)'
      BY <1>1, <3>2, <3>3, OthersRigsScript
    <3>. QED
      BY <3>2, <3>4, TodosOfRigs
  <2>. QED
    BY <2>1, <2>2
<1>. QED
  BY <1>3, <1>4, <1>5, <1>6

(* With the same rigs and the same lists nothing changes.                   *)
LEMMA RigsListsKept ==
  ASSUME rigs' = rigs, work' = work
  PROVE  /\ OnTheirOwn => OnTheirOwn'
         /\ OneRigPerId => OneRigPerId'
         /\ \A u \in Threads : RigsScripted(u) => RigsScripted(u)'
         /\ \A id : Releasing(id) => Releasing(id)'
<1>1. OnTheirOwn => OnTheirOwn'
  BY DEF OnTheirOwn, Watched
<1>2. OneRigPerId => OneRigPerId'
  BY DEF OneRigPerId
<1>3. ASSUME NEW u \in Threads, RigsScripted(u) PROVE RigsScripted(u)'
  <2>1. PICK k : k = work[u].todo
    OBVIOUS
  <2>2. work'[u].todo = k /\ RigsScript(k)
    BY <1>3, <2>1 DEF RigsScripted
  <2>3. RigsScript(k)'
    <3>1. \A id : RigOf(id)' = RigOf(id)
      BY DEF RigOf
    <3>2. InsertsNew(k)'
      BY <2>2, <3>1 DEF RigsScript, InsertsNew
    <3>3. \A id, lo, hi : HasRange(id, lo, hi)' <=> HasRange(id, lo, hi)
      BY <3>1 DEF HasRange
    <3>4. ClaimsOwn(k)'
      BY <2>2, <3>1, <3>3 DEF RigsScript, ClaimsOwn
    <3>5. UpdatesRelease(k)'
      BY <2>2 DEF RigsScript, UpdatesRelease
    <3>. QED
      BY <3>2, <3>4, <3>5 DEF RigsScript
  <2>. QED
    BY <2>2, <2>3, TodosOfRigs
<1>4. \A id : Releasing(id) => Releasing(id)'
  BY DEF Releasing
<1>. QED
  BY <1>1, <1>2, <1>3, <1>4

(* A request that clashes with none keeps RInv.                             *)
LEMMA RInvRequest ==
  ASSUME TInv, RInv, NEW t \in Threads, Request(t)
  PROVE  RInv'
<1>. SUFFICES ASSUME clean'
              PROVE  OnTheirOwn' /\ OneRigPerId' /\ (\A u \in Threads : RigsScripted(u)') /\ Fitting'
  BY DEF RInv
<1>1. PICK on, s : /\ Arrives(t, on, s) /\ s \in Seq(Sends) /\ Watched(on, s)
                   /\ OneRigPerId => RigsScript(s)
  BY RequestComes DEF Comes
<1>2. /\ rigs' = rigs /\ rig' = rig
      /\ work[t].todo = <<>>
      /\ work'[t] = [on |-> on, todo |-> s] /\ work'[t].on = on /\ work'[t].todo = s
      /\ \A u \in Threads \ {t} : work'[u] = work[u]
      /\ clean' = (clean /\ \A u \in Threads : work[u].on \cap on = {})
  <2>0. Arrives(t, on, s)
    BY <1>1
  <2>1. rigs' = rigs /\ rig' = rig /\ work[t].todo = <<>> /\ work'[t] = [on |-> on, todo |-> s]
        /\ \A u \in Threads \ {t} : work'[u] = work[u]
    BY <2>0 DEF Arrives, TInv, WorkOK, Free
  <2>2. clean' = (clean /\ \A u \in Threads : work[u].on \cap on = {})
    BY <2>0 DEF Arrives
  <2>3. work'[t].on = on /\ work'[t].todo = s
    BY <2>1
  <2>. QED
    BY <2>1, <2>2, <2>3
<1>3. clean /\ \A u \in Threads : work[u].on \cap on = {}
  BY <1>2, Zenon
<1>4. OnTheirOwn /\ OneRigPerId /\ (\A u \in Threads : RigsScripted(u)) /\ Fitting
  BY <1>3 DEF RInv
<1>5. OnTheirOwn'
  <2>1. \A u, v \in Threads : u # v => work'[u].on \cap work'[v].on = {}
    BY <1>2, <1>3, <1>4 DEF OnTheirOwn
  <2>2. \A u \in Threads : Watched(work'[u].on, work'[u].todo)
    BY <1>1, <1>2, <1>4 DEF OnTheirOwn
  <2>. QED
    BY <2>1, <2>2 DEF OnTheirOwn, Watched
<1>6. OneRigPerId'
  BY <1>2, <1>4 DEF OneRigPerId
<1>7. ASSUME NEW k, RigsScript(k) PROVE RigsScript(k)'
  BY <1>2, <1>7 DEF RigsScript, InsertsNew, ClaimsOwn, UpdatesRelease, HasRange, RigOf
<1>8. ASSUME NEW u \in Threads PROVE RigsScripted(u)'
  <2>1. PICK k : k = work'[u].todo
    OBVIOUS
  <2>2. RigsScript(k)
    BY <1>1, <1>2, <1>4, <2>1 DEF RigsScripted
  <2>3. RigsScript(k)'
    BY <1>7, <2>2
  <2>. QED
    BY <2>1, <2>3, TodosOfRigs
<1>9. Fitting'
  <2>1. ASSUME NEW id, Releasing(id) PROVE Releasing(id)'
    <3>1. PICK u \in Threads : \E i \in DOMAIN work[u].todo :
            work[u].todo[i].do = "release" /\ work[u].todo[i].rig = id
      BY <2>1 DEF Releasing
    <3>2. u # t
      <4>1. DOMAIN <<>> = {}
        OBVIOUS
      <4>. QED
        BY <1>2, <3>1, <4>1
    <3>3. work'[u] = work[u]
      BY <1>2, <3>2
    <3>. QED
      BY <3>1, <3>3 DEF Releasing
  <2>. QED
    BY <1>2, <1>4, <2>1 DEF Fitting
<1>. QED
  BY <1>5, <1>6, <1>8, <1>9

(* So does a sweep that has the rigs as they are.                           *)
LEMMA RInvSweepStores ==
  ASSUME TInv, RInv, NEW f \in Flats, SweepStores(f)
  PROVE  RInv'
<1>. SUFFICES ASSUME clean'
              PROVE  OnTheirOwn' /\ OneRigPerId' /\ (\A u \in Threads : RigsScripted(u)') /\ Fitting'
  BY DEF RInv
<1>1. rigs' = rigs /\ work' = work /\ clean /\ cached = rigs
  <2>1. rigs' = rigs /\ work' = work /\ clean' = (clean /\ cached = rigs)
    BY SweepStoresEffect
  <2>. QED
    BY <2>1, Zenon
<1>2. OnTheirOwn /\ OneRigPerId /\ (\A u \in Threads : RigsScripted(u)) /\ Fitting
  BY <1>1 DEF RInv
<1>3. OnTheirOwn' /\ OneRigPerId' /\ \A u \in Threads : RigsScripted(u)'
  BY <1>1, <1>2, RigsListsKept
<1>4. Fitting'
  <2>1. PICK id : /\ id = Null \/ \E c \in cached : Covers(c, f) /\ c.id = id
                  /\ rig' = [rig EXCEPT ![f] = id]
    BY SweepStoresEffect
  <2>2. \A r \in rigs : r.id # Null
    BY FlatSetsAssumption DEF TInv, TablesOK, RigRow
  <2>3. DOMAIN rig = Flats
    BY DEF TInv, TablesOK
  <2>. SUFFICES ASSUME NEW g \in Flats, NEW r \in rigs, rig'[g] = r.id
                PROVE  Covers(r, g) \/ Releasing(r.id)'
    BY <1>1 DEF Fitting
  <2>4. CASE g = f
    <3>1. id = r.id /\ id # Null
      BY <2>1, <2>2, <2>3, <2>4
    <3>2. PICK c \in rigs : Covers(c, f) /\ c.id = r.id
      BY <1>1, <2>1, <3>1
    <3>3. c = r
      BY <1>2, <3>2 DEF OneRigPerId
    <3>. QED
      BY <2>4, <3>2, <3>3
  <2>5. CASE g # f
    <3>1. rig[g] = r.id
      BY <2>1, <2>3, <2>5
    <3>. QED
      BY <1>1, <1>2, <3>1 DEF Fitting, Releasing
  <2>. QED
    BY <2>4, <2>5
<1>. QED
  BY <1>3, <1>4

(* Every step keeps RInv.                                                   *)
LEMMA RInvStep == TInv /\ RInv /\ [Next]_vars => RInv'
<1>. SUFFICES ASSUME TInv, RInv, [Next]_vars PROVE RInv'
  OBVIOUS
<1>1. ASSUME NEW t \in Threads, Request(t) PROVE RInv'
  BY <1>1, RInvRequest
<1>2. ASSUME NEW t \in Threads, Statement(t) PROVE RInv'
  BY <1>2, RInvStatement
<1>3. ASSUME NEW t \in Threads, Fails(t) PROVE RInv'
  BY <1>3 DEF Fails, RInv
<1>4. CASE SweepLoads \/ UNCHANGED vars
  <2>1. UNCHANGED <<rigs, rig, work, clean>>
    BY <1>4 DEF SweepLoads, vars
  <2>2. Fitting => Fitting'
    BY <2>1, RigsListsKept DEF Fitting
  <2>. QED
    BY <2>1, <2>2, RigsListsKept DEF RInv
<1>5. ASSUME NEW f \in Flats, SweepStores(f) PROVE RInv'
  BY <1>5, RInvSweepStores
<1>. QED
  BY <1>1, <1>2, <1>3, <1>4, <1>5 DEF Next

(* At first the one rig covers every frame.                                 *)
LEMMA InitRInv == Init => RInv
<1>. SUFFICES ASSUME Init PROVE RInv
  OBVIOUS
<1>1. PICK lo \in Focals, hi \in Focals, sited \in BOOLEAN :
        /\ \A x \in Focals : x \in lo .. hi
        /\ rigs = {[id |-> 1, lo |-> lo, hi |-> hi, sited |-> sited, active |-> Null]}
  BY DEF Init
<1>2. OneRigPerId
  BY <1>1 DEF OneRigPerId
<1>3. Fitting
  <2>1. \A f \in Flats : Info[f].focal \in lo .. hi
    BY <1>1, FlatSetsAssumption
  <2>. QED
    BY <1>1, <2>1 DEF Fitting, Covers
<1>4. \A t \in Threads : work[t].on = {} /\ work[t].todo = <<>>
  BY DEF Init, Free
<1>5. DOMAIN <<>> = {}
  OBVIOUS
<1>6. OnTheirOwn /\ \A t \in Threads : RigsScripted(t)
  BY <1>4, <1>5 DEF OnTheirOwn, Watched, RigsScripted, RigsScript, InsertsNew, ClaimsOwn, UpdatesRelease
<1>. QED
  BY <1>2, <1>3, <1>6 DEF RInv

(* So it holds of every state that is reached,                              *)
LEMMA RInvAlways == Spec => [](TInv /\ RInv)
<1>1. Init => TInv /\ RInv
  BY InitTInv, InitRInv
<1>2. TInv /\ RInv /\ [Next]_vars => (TInv /\ RInv)'
  BY TypesStep, RInvStep
<1>. QED
  BY <1>1, <1>2, PTL DEF Spec

(* and when nothing is under way, nothing is to be released.                *)
LEMMA RInvFits == RInv => FramesFitTheirRig
<1>. SUFFICES ASSUME RInv, clean, Quiet, NEW f \in Flats, NEW r \in rigs, rig[f] = r.id PROVE Covers(r, f)
  BY DEF FramesFitTheirRig
<1>1. \A t \in Threads : work[t].todo = <<>>
  <2>. SUFFICES ASSUME NEW t \in Threads PROVE work[t].todo = <<>>
    OBVIOUS
  <2>1. work[t] = [on |-> {}, todo |-> <<>>]
    BY DEF Quiet, Free
  <2>. QED
    BY <2>1
<1>2. DOMAIN <<>> = {}
  OBVIOUS
<1>3. ~Releasing(r.id)
  BY <1>1, <1>2 DEF Releasing
<1>. QED
  BY <1>3 DEF RInv, Fitting

(* FramesFitTheirRig is invariant: the claims and releases of POST and PATCH*)
(* /equipment/rigs leave no frame under a rig that does not cover it, as    *)
(* long as none fails, clashes or meets a sweep with older rigs.            *)
THEOREM FramesFit == Spec => []FramesFitTheirRig
BY RInvAlways, RInvFits, PTL

-----------------------------------------------------------------------------
(***************************************************************************)
(* E. Flats and their sets.                                                *)
(***************************************************************************)

(* What a statement does to the sets that are there, and to                 *)
(* frames.flat_set_id.                                                      *)
LEMMA SetsEffect ==
  ASSUME TInv, NEW st \in Sends, Executes(st)
  PROVE  /\ st.do # "delete rig" => rigGone' = rigGone
         /\ st.do = "delete rig" => rigGone'
         /\ st.do = "insert set" => SetOf(st.set)' # {}
         /\ \A id : \/ SetOf(id) = {}
                    \/ SetOf(id)' # {}
                    \/ st.do = "delete set" /\ st.set = id
                    \/ st.do = "delete rig"
<1>0. \A s \in sets : s \in SetRow
  BY DEF TInv, TablesOK
<1>1. CASE InsertsSet(st)
  <2>. DEFINE n == [id |-> st.set, rig |-> st.rig, filter |-> st.filter, captured |-> Null,
                    from |-> Null, to |-> Null]
  <2>1. st.do = "insert set" /\ sets' = sets \cup {n} /\ rigGone' = rigGone
    BY <1>1 DEF InsertsSet
  <2>2. n.id = st.set
    OBVIOUS
  <2>. HIDE DEF n
  <2>. QED
    BY <2>1, <2>2 DEF SetOf
<1>2. CASE DatesSet(st)
  <2>. DEFINE U(s) == [s EXCEPT !.captured = EarliestNight(st.set)]
  <2>1. st.do = "date set" /\ sets' = {IF s.id = st.set THEN U(s) ELSE s : s \in sets} /\ rigGone' = rigGone
    BY <1>2 DEF DatesSet
  <2>2. \A s \in sets : U(s).id = s.id
    BY <1>0 DEF SetRow
  <2>. HIDE DEF U
  <2>. QED
    BY <2>1, <2>2 DEF SetOf
<1>3. CASE SetsWindow(st)
  <2>. DEFINE U(s) == [s EXCEPT !.from = st.from, !.to = st.to]
  <2>1. st.do = "update set" /\ sets' = {IF s.id # st.set THEN s ELSE U(s) : s \in sets} /\ rigGone' = rigGone
    BY <1>3 DEF SetsWindow
  <2>2. \A s \in sets : U(s).id = s.id
    BY <1>0 DEF SetRow
  <2>. HIDE DEF U
  <2>. QED
    BY <2>1, <2>2 DEF SetOf
<1>4. CASE DeletesSet(st)
  BY <1>4 DEF DeletesSet, SetOf
<1>5. CASE DeletesRig(st)
  BY <1>5 DEF DeletesRig
<1>6. CASE Claims(st) \/ Releases(st) \/ InsertsRig(st) \/ UpdatesRig(st) \/ Deactivates(st)
           \/ GathersFlats(st) \/ FreesFlats(st) \/ Pins(st) \/ Unpins(st)
  <2>1. sets' = sets /\ rigGone' = rigGone /\ st.do \notin {"delete rig", "insert set"}
    BY <1>6 DEF Claims, Releases, InsertsRig, UpdatesRig, Deactivates, GathersFlats, FreesFlats, Pins, Unpins
  <2>. QED
    BY <2>1 DEF SetOf
<1>. QED
  BY <1>1, <1>2, <1>3, <1>4, <1>5, <1>6 DEF Executes

(* A flat is bound by a gather alone, and freed of the set that is to go.   *)
LEMMA FlatColumn ==
  ASSUME TInv, NEW st \in Sends, Executes(st), NEW f \in Flats
  PROVE  /\ \/ flatSet'[f] = Null
            \/ flatSet'[f] = flatSet[f]
            \/ st.do = "gather" /\ flatSet'[f] = st.set
         /\ st.do = "free" => flatSet'[f] # st.set
<1>1. CASE GathersFlats(st)
  BY <1>1 DEF GathersFlats
<1>2. CASE FreesFlats(st)
  <2>1. st.set # Null
    <3>1. st.do = "free"
      BY <1>2 DEF FreesFlats
    <3>2. st.set \in Nat
      BY <3>1, SendFields
    <3>. QED
      BY <3>2, FlatSetsAssumption
  <2>. QED
    BY <1>2, <2>1 DEF FreesFlats
<1>3. CASE \/ Claims(st) \/ Releases(st) \/ InsertsRig(st) \/ UpdatesRig(st) \/ DeletesRig(st)
           \/ InsertsSet(st) \/ DatesSet(st) \/ SetsWindow(st)
           \/ Deactivates(st) \/ DeletesSet(st) \/ Pins(st) \/ Unpins(st)
  <2>1. flatSet' = flatSet /\ st.do # "free"
    BY <1>3 DEF Claims, Releases, InsertsRig, UpdatesRig, DeletesRig, InsertsSet, DatesSet, SetsWindow,
       Deactivates, DeletesSet, Pins, Unpins
  <2>. QED
    BY <2>1
<1>. QED
  BY <1>1, <1>2, <1>3 DEF Executes

(* A set without flats stays so unless it gathers.                          *)
LEMMA UnusedStays ==
  ASSUME TInv, NEW st \in Sends, Executes(st), NEW id \in Nat,
         Unused(id) \/ (st.do = "free" /\ st.set = id),
         ~(st.do = "gather" /\ st.set = id)
  PROVE  Unused(id)'
<1>. SUFFICES ASSUME NEW f \in Flats PROVE flatSet'[f] # id
  BY DEF Unused
<1>1. id # Null
  BY FlatSetsAssumption
<1>2. /\ \/ flatSet'[f] = Null
         \/ flatSet'[f] = flatSet[f]
         \/ st.do = "gather" /\ flatSet'[f] = st.set
      /\ st.do = "free" => flatSet'[f] # st.set
  BY FlatColumn
<1>3. CASE Unused(id)
  BY <1>1, <1>2, <1>3 DEF Unused
<1>4. CASE st.do = "free" /\ st.set = id
  BY <1>2, <1>4
<1>. QED
  BY <1>3, <1>4

(* A list that was named on its own.                                        *)
LEMMA TodosOfSets ==
  ASSUME NEW u, NEW l, work'[u].todo = l, SetsScript(l)'
  PROVE  SetsScripted(u)'
BY DEF SetsScripted, SetsScript, GathersForSet, DeletesFreed, Unused, SetOf

(* Not the statement that takes a rig and its sets.                         *)
KeepsRigs(st) == st.do # "delete rig"

(* The statements of a list.                                                *)
LEMMA Items ==
  ASSUME NEW s \in Seq(Sends)
  PROVE  /\ \A i \in DOMAIN s : s[i] \in Sends
         /\ Len(s) \in Nat /\ DOMAIN s = 1 .. Len(s)
<1>1. Len(s) \in Nat /\ DOMAIN s = 1 .. Len(s)
  OBVIOUS
<1>2. \A i \in 1 .. Len(s) : s[i] \in Sends
  OBVIOUS
<1>. QED
  BY <1>1, <1>2

(* Another request's list stays true,                                       *)
LEMMA OthersSetsScript ==
  ASSUME TInv, NEW st \in Sends, Executes(st), KeepsRigs(st),
         NEW s \in Seq(Sends), SetsScript(s),
         \A i \in DOMAIN s : s[i].do \in {"gather", "delete set"} /\ st.do \in {"gather", "delete set"}
                                => s[i].set # st.set
  PROVE  SetsScript(s)'
<1>1. GathersForSet(s)'
  <2>. SUFFICES ASSUME NEW i \in DOMAIN s, s[i].do = "gather"
                PROVE  \/ i = 1 /\ SetOf(s[1].set)' # {}
                       \/ i = 2 /\ s[1].do = "insert set" /\ s[1].set = s[2].set
    BY DEF GathersForSet
  <2>1. CASE i = 1 /\ SetOf(s[1].set) # {}
    <3>1. ~(st.do = "delete set" /\ st.set = s[1].set)
      BY <2>1
    <3>. QED
      BY <2>1, <3>1, SetsEffect DEF KeepsRigs
  <2>. QED
    BY <2>1 DEF SetsScript, GathersForSet
<1>2. DeletesFreed(s)'
  <2>. SUFFICES ASSUME NEW i \in DOMAIN s, s[i].do = "delete set"
                PROVE  \/ i = 1 /\ Unused(s[1].set)'
                       \/ i = 2 /\ s[1].do = "deactivate" /\ Unused(s[2].set)'
                       \/ i = 3 /\ s[1].do = "free" /\ s[1].set = s[3].set /\ s[2].do = "deactivate"
    BY DEF DeletesFreed
  <2>1. ~(st.do = "gather" /\ st.set = s[i].set)
    OBVIOUS
  <2>2. s[i].set \in Nat
    <3>1. s[i] \in Sends
      BY Items
    <3>. QED
      BY <3>1, SendFields
  <2>3. Unused(s[i].set) => Unused(s[i].set)'
    BY <2>1, <2>2, UnusedStays
  <2>. QED
    BY <2>3 DEF SetsScript, DeletesFreed
<1>. QED
  BY <1>1, <1>2 DEF SetsScript

(* and so does what is left of the request's own.                           *)
LEMMA OwnSetsScript ==
  ASSUME TInv, NEW s \in Seq(Sends), 1 \in DOMAIN s, Executes(s[1]), KeepsRigs(s[1]), SetsScript(s),
         NEW l, Rest(l, s)
  PROVE  SetsScript(l)'
<1>0. /\ \A i \in DOMAIN l : i \in Nat /\ i # 0 /\ i + 1 # 1 /\ i + 1 \in DOMAIN s /\ l[i] = s[i + 1]
      /\ s[1] \in Sends
  <2>1. s[1] \in Sends
    BY Items
  <2>2. ASSUME NEW i \in DOMAIN l
        PROVE  i \in Nat /\ i # 0 /\ i + 1 # 1 /\ i + 1 \in DOMAIN s /\ l[i] = s[i + 1]
    <3>1. i \in Nat \ {0}
      BY Zenon DEF Rest
    <3>2. i + 1 \in DOMAIN s /\ l[i] = s[i + 1]
      BY Zenon DEF Rest
    <3>3. i \in Nat /\ i # 0 /\ i + 1 # 1
      BY <3>1
    <3>. QED
      BY <3>2, <3>3
  <2>. QED
    BY <2>1, <2>2
<1>1. GathersForSet(l)'
  <2>. SUFFICES ASSUME NEW i \in DOMAIN l, l[i].do = "gather" PROVE i = 1 /\ SetOf(l[1].set)' # {}
    BY DEF GathersForSet
  <2>1. i \in Nat /\ i + 1 # 1 /\ i + 1 \in DOMAIN s /\ l[i] = s[i + 1]
    BY <1>0
  <2>2. i + 1 = 2 /\ s[1].do = "insert set" /\ s[1].set = s[2].set
    BY <2>1 DEF SetsScript, GathersForSet
  <2>3. i = 1
    <3>1. i \in Nat
      BY <2>1
    <3>2. i + 1 = 2
      BY <2>2
    <3>. QED
      BY <3>1, <3>2
  <2>4. l[1] = s[2]
    BY <2>1, <2>2, <2>3
  <2>5. SetOf(s[1].set)' # {}
    BY <1>0, <2>2, SetsEffect DEF KeepsRigs
  <2>. QED
    BY <2>2, <2>3, <2>4, <2>5
<1>2. DeletesFreed(l)'
  <2>0. SUFFICES ASSUME NEW i \in DOMAIN l, l[i].do = "delete set"
                PROVE  \/ i = 1 /\ Unused(l[1].set)'
                       \/ i = 2 /\ l[1].do = "deactivate" /\ Unused(l[2].set)'
    BY DEF DeletesFreed
  <2>1. i \in Nat /\ i + 1 # 1 /\ i + 1 \in DOMAIN s /\ l[i] = s[i + 1]
    BY <1>0
  <2>2. l[i].set \in Nat
    <3>1. s[i + 1] \in Sends
      BY <2>1, Items
    <3>. QED
      BY <2>0, <2>1, <3>1, SendFields
  <2>3. CASE i + 1 = 2 /\ s[1].do = "deactivate" /\ Unused(s[2].set)
    <3>1. i = 1
      <4>1. i \in Nat
        BY <2>1
      <4>2. i + 1 = 2
        BY <2>3
      <4>. QED
        BY <4>1, <4>2
    <3>2. l[1] = s[2] /\ s[2].set \in Nat
      BY <2>1, <2>2, <2>3, <3>1
    <3>3. Unused(s[2].set)'
      BY <1>0, <2>3, <3>2, UnusedStays
    <3>. QED
      BY <3>1, <3>2, <3>3
  <2>4. CASE i + 1 = 3 /\ s[1].do = "free" /\ s[1].set = s[3].set /\ s[2].do = "deactivate"
    <3>1. i = 2
      <4>1. i \in Nat
        BY <2>1
      <4>2. i + 1 = 3
        BY <2>4
      <4>. QED
        BY <4>1, <4>2
    <3>2. l[2] = s[3] /\ s[3].set \in Nat
      BY <2>1, <2>2, <2>4, <3>1
    <3>3. Unused(s[3].set)'
      BY <1>0, <2>4, <3>2, UnusedStays
    <3>4. 1 \in DOMAIN l
      <4>1. 3 \in DOMAIN s
        BY <2>1, <2>4
      <4>2. DOMAIN s = 1 .. Len(s) /\ Len(s) \in Nat
        BY Items
      <4>3. 2 \in DOMAIN s
        BY <4>1, <4>2
      <4>4. 1 + 1 = 2 /\ 1 \in Nat \ {0}
        OBVIOUS
      <4>. QED
        BY <4>3, <4>4 DEF Rest
    <3>5. l[1] = s[2]
      BY <1>0, <3>4
    <3>. QED
      BY <2>4, <3>1, <3>2, <3>3, <3>5
  <2>. QED
    BY <2>0, <2>1, <2>3, <2>4 DEF SetsScript, DeletesFreed
<1>. QED
  BY <1>1, <1>2 DEF SetsScript

(* A statement keeps FInv.                                                  *)
LEMMA FInvStatement ==
  ASSUME TInv, RInv, FInv, NEW t \in Threads, Statement(t)
  PROVE  FInv'
<1>. SUFFICES ASSUME clean', ~rigGone'
              PROVE  /\ \A u \in Threads : SetsScripted(u)'
                     /\ \A f \in Flats : Bound(f)'
  BY DEF FInv
<1>. DEFINE st == work[t].todo[1]
<1>1. /\ Advances(t) /\ 1 \in DOMAIN work[t].todo /\ st \in Sends /\ Executes(st) /\ clean
  BY StatementAdvances
<1>2. KeepsRigs(st) /\ ~rigGone
  BY <1>1, SetsEffect DEF KeepsRigs
<1>3. /\ OnTheirOwn
      /\ \A u \in Threads : SetsScripted(u)
      /\ \A f \in Flats : Bound(f)
  BY <1>1, <1>2 DEF RInv, FInv
<1>4. \A f \in Flats : flatSet[f] \in (1 .. lastSet) \cup {Null}
  BY DEF TInv, TablesOK
<1>5. ASSUME NEW u \in Threads PROVE SetsScripted(u)'
  <2>1. CASE u = t
    <3>1. PICK k, l : k = work[t].todo /\ l = work'[t].todo
      OBVIOUS
    <3>2. Rest(l, k)
      BY <1>1, <3>1 DEF Rest, Advances
    <3>3. k \in Seq(Sends) /\ 1 \in DOMAIN k /\ Executes(k[1]) /\ KeepsRigs(k[1]) /\ SetsScript(k)
      BY <1>1, <1>2, <1>3, <3>1 DEF SetsScripted, TInv, WorkOK
    <3>4. SetsScript(l)'
      BY <3>2, <3>3, OwnSetsScript
    <3>. QED
      BY <2>1, <3>1, <3>4, TodosOfSets
  <2>2. CASE u # t
    <3>1. PICK k : k = work[u].todo
      OBVIOUS
    <3>2. work'[u].todo = k /\ SetsScript(k) /\ k \in Seq(Sends)
      BY <1>1, <1>3, <2>2, <3>1 DEF Advances, SetsScripted, TInv, WorkOK
    <3>3. ASSUME NEW i \in DOMAIN k, k[i].do \in {"gather", "delete set"},
                 st.do \in {"gather", "delete set"}
          PROVE  k[i].set # st.set
      <4>1. S(k[i].set) \in work[u].on /\ S(st.set) \in work[t].on
        BY <1>1, <1>3, <3>1, <3>3 DEF OnTheirOwn, Watched
      <4>2. S(k[i].set) # S(st.set)
        BY <1>3, <2>2, <4>1 DEF OnTheirOwn
      <4>. QED
        BY <4>2
    <3>4. SetsScript(k)'
      BY <1>1, <1>2, <3>2, <3>3, OthersSetsScript
    <3>. QED
      BY <3>2, <3>4, TodosOfSets
  <2>. QED
    BY <2>1, <2>2
<1>6. ASSUME NEW f \in Flats, flatSet'[f] # Null PROVE Bound(f)'
  <2>1. PICK id : id = flatSet'[f]
    OBVIOUS
  <2>2. st.do = "gather" => SetOf(st.set) # {}
    BY <1>1, <1>3 DEF SetsScripted, SetsScript, GathersForSet
  <2>3. st.do = "delete set" => Unused(st.set)
    BY <1>1, <1>3 DEF SetsScripted, SetsScript, DeletesFreed
  <2>4. \/ id = flatSet[f]
        \/ st.do = "gather" /\ id = st.set
    BY <1>1, <1>6, <2>1, FlatColumn
  <2>5. SetOf(id) # {}
    BY <1>3, <1>6, <2>1, <2>2, <2>4 DEF Bound
  <2>6. ~(st.do = "delete set" /\ st.set = id)
    BY <2>3, <2>4 DEF Unused
  <2>7. SetOf(id)' # {}
    BY <1>1, <1>2, <2>5, <2>6, SetsEffect DEF KeepsRigs
  <2>. QED
    BY <2>1, <2>7 DEF Bound, SetOf
<1>7. ASSUME NEW f \in Flats PROVE Bound(f)'
  BY <1>6 DEF Bound
<1>. QED
  BY <1>5, <1>7

(* So does a request,                                                       *)
LEMMA FInvRequest ==
  ASSUME TInv, FInv, NEW t \in Threads, Request(t)
  PROVE  FInv'
<1>1. PICK on, s : Arrives(t, on, s) /\ SetsScript(s)
  BY RequestComes DEF Comes
<1>2. /\ sets' = sets /\ flatSet' = flatSet /\ rigGone' = rigGone /\ work'[t] = [on |-> on, todo |-> s]
      /\ \A u \in Threads \ {t} : work'[u] = work[u]
  BY <1>1, ArrivesEffect
<1>3. work'[t].todo = s
  BY <1>2
<1>4. clean' => clean
  BY <1>1, Zenon DEF Arrives
<1>5. ASSUME NEW k, SetsScript(k) PROVE SetsScript(k)'
  BY <1>2, <1>5 DEF SetsScript, GathersForSet, DeletesFreed, Unused, SetOf
<1>6. ASSUME NEW u \in Threads, u = t \/ SetsScripted(u) PROVE SetsScripted(u)'
  <2>1. PICK k : k = work'[u].todo
    OBVIOUS
  <2>2. SetsScript(k)
    BY <1>1, <1>2, <1>3, <1>6, <2>1 DEF SetsScripted
  <2>3. SetsScript(k)'
    BY <1>5, <2>2
  <2>. QED
    BY <2>1, <2>3, TodosOfSets
<1>. QED
  BY <1>2, <1>4, <1>6 DEF FInv, Bound, SetOf

(* and every step.                                                          *)
LEMMA FInvStep == TInv /\ RInv /\ FInv /\ [Next]_vars => FInv'
<1>. SUFFICES ASSUME TInv, RInv, FInv, [Next]_vars PROVE FInv'
  OBVIOUS
<1>1. ASSUME NEW t \in Threads, Request(t) PROVE FInv'
  BY <1>1, FInvRequest
<1>2. ASSUME NEW t \in Threads, Statement(t) PROVE FInv'
  BY <1>2, FInvStatement
<1>3. ASSUME NEW t \in Threads, Fails(t) PROVE FInv'
  BY <1>3 DEF Fails, FInv
<1>4. ASSUME sets' = sets, flatSet' = flatSet, work' = work, rigGone' = rigGone, clean' => clean
      PROVE  FInv'
  <2>1. ASSUME NEW u \in Threads, SetsScripted(u) PROVE SetsScripted(u)'
    <3>1. PICK k : k = work[u].todo
      OBVIOUS
    <3>2. work'[u].todo = k /\ SetsScript(k)
      BY <1>4, <2>1, <3>1 DEF SetsScripted
    <3>3. SetsScript(k)'
      BY <1>4, <3>2 DEF SetsScript, GathersForSet, DeletesFreed, Unused, SetOf
    <3>. QED
      BY <3>2, <3>3, TodosOfSets
  <2>. QED
    BY <1>4, <2>1 DEF FInv, Bound, SetOf
<1>5. CASE SweepLoads \/ UNCHANGED vars
  <2>1. UNCHANGED <<sets, flatSet, work, rigGone, clean>>
    BY <1>5 DEF SweepLoads, vars
  <2>. QED
    BY <1>4, <2>1
<1>6. ASSUME NEW f \in Flats, SweepStores(f) PROVE FInv'
  <2>1. sets' = sets /\ flatSet' = flatSet /\ work' = work /\ rigGone' = rigGone
    BY <1>6 DEF SweepStores
  <2>2. clean
    BY <1>6 DEF SweepStores
  <2>. QED
    BY <1>4, <2>1, <2>2
<1>. QED
  BY <1>1, <1>2, <1>3, <1>5, <1>6 DEF Next

(* At first no flat has a set.                                              *)
LEMMA InitFInv == Init => FInv
<1>. SUFFICES ASSUME Init PROVE FInv
  OBVIOUS
<1>1. \A t \in Threads : work[t].todo = <<>>
  BY DEF Init, Free
<1>2. DOMAIN <<>> = {}
  OBVIOUS
<1>3. \A t \in Threads : SetsScripted(t)
  BY <1>1, <1>2 DEF SetsScripted, SetsScript, GathersForSet, DeletesFreed
<1>4. \A f \in Flats : flatSet[f] = Null
  BY DEF Init
<1>. QED
  BY <1>3, <1>4 DEF FInv, Bound

(* FInv says so of the flats.                                               *)
LEMMA FInvFlats == FInv => FlatsStayClaimable
BY DEF FInv, Bound, FlatsStayClaimable

(* FlatsStayClaimable is invariant: until a rig goes, no DELETE             *)
(* /equipment/flat-sets leaves a flat bound to a set that is gone, where no *)
(* other set could claim it.                                                *)
THEOREM FlatsClaimable == Spec => []FlatsStayClaimable
<1>1. Init => TInv /\ RInv /\ FInv
  BY InitTInv, InitRInv, InitFInv
<1>2. TInv /\ RInv /\ FInv /\ [Next]_vars => (TInv /\ RInv /\ FInv)'
  BY TypesStep, RInvStep, FInvStep
<1>. QED
  BY <1>1, <1>2, FInvFlats, PTL DEF Spec

=============================================================================
