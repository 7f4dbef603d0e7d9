------------------------------ MODULE FlatSets ------------------------------
(***************************************************************************)
(* Rigs, flat sets and pins, and the flat set a light is calibrated with   *)
(* (src/api/http_server.cpp, /equipment/rigs, /equipment/flat-sets and     *)
(* /equipment/flat-pins; src/match/calibration.cpp, resolve_flat_set; the  *)
(* tables rigs, flat_sets, light_flat_pins and two columns of frames).     *)
(*                                                                         *)
(* A handler reads, then sends its statements one by one, outside of any   *)
(* transaction; the statements of two requests and of a sweep interleave,  *)
(* and a failure drops those that are left.  One camera is modelled;       *)
(* names, labels and the site stamped on frames are left out.              *)
(***************************************************************************)
EXTENDS Integers, Sequences

CONSTANTS Threads,   \* HTTP threads
          Flats,     \* flat frames
          Info,      \* Info[f]: a flat's focal length, filter, time and night
          Focals,    \* focal lengths, an interval
          Filters,   \* filter ids
          Nights,    \* session nights, an interval; DATE-OBS grows with them
          Spans,     \* <<start, end>> that POST /flat-sets may gather over
          Validities,  \* <<from, to>> that PATCH /flat-sets may set
          Null, Keep,  \* SQL NULL; a field the request does not give
          MaxRigs, MaxSets, MaxRequests,  \* bounds
          MaxTroubled  \* bound on the requests once one has failed or clashed

ASSUME FlatSetsAssumption ==
    /\ Focals \subseteq Int /\ Nights \subseteq Nat /\ Null \notin Int
    /\ \A f \in Flats : /\ Info[f].focal \in Focals /\ Info[f].night \in Nights
                        /\ Info[f].filter \in Filters \cup {Null}
    /\ Spans \subseteq Nights \X Nights
    /\ Validities \subseteq (Nights \cup {Null}) \X (Nights \cup {Null})

VARIABLES rigs, sets, pins,  \* the tables
          rig, flatSet,      \* frames.rig_id and frames.flat_set_id
          cached,            \* the rigs as the sweep under way loaded them
          work,              \* what is left of each request: its statements
          requests, lastRig, lastSet,
          clean,             \* history: no failure and no clash so far
          rigGone            \* history: some rig was deleted

vars == <<rigs, sets, pins, rig, flatSet, cached, work, requests, lastRig, lastSet, clean, rigGone>>
counters == <<requests, lastRig, lastSet>>

RigOf(id) == {r \in rigs : r.id = id}
SetOf(id) == {s \in sets : s.id = id}
Covers(r, f) == Info[f].focal \in r.lo .. r.hi
Free == [on |-> {}, todo |-> <<>>]

(* One rig has been defined, for every focal length; a sweep is under way. *)
Init ==
    /\ \E lo, hi \in Focals, sited \in BOOLEAN :
         /\ \A x \in Focals : x \in lo .. hi
         /\ rigs = {[id |-> 1, lo |-> lo, hi |-> hi, sited |-> sited, active |-> Null]}
    /\ rig = [f \in Flats |-> 1]
    /\ sets = {} /\ pins = {}
    /\ flatSet = [f \in Flats |-> Null]
    /\ cached = rigs
    /\ work = [t \in Threads |-> Free]
    /\ requests = 0 /\ lastRig = 1 /\ lastSet = 0
    /\ clean = TRUE /\ rigGone = FALSE

Given(new, old) == IF new = Keep THEN old ELSE new

-----------------------------------------------------------------------------
(* Statements.  Each is [do |-> ..., ...]; what is not named is unchanged.  *)

(* UPDATE frames ... WHERE focal_len_mm BETWEEN, by POST and PATCH rigs: it *)
(* takes the frames of overlapping rigs too; fk_frames_rig must hold.       *)
Claims(st) ==
    /\ st.do = "claim"
    /\ (\E f \in Flats : Info[f].focal \in st.lo .. st.hi) => RigOf(st.rig) # {}
    /\ rig' = [f \in Flats |-> IF Info[f].focal \in st.lo .. st.hi THEN st.rig ELSE rig[f]]
    /\ UNCHANGED <<rigs, sets, pins, flatSet, rigGone>>

Releases(st) ==
    /\ st.do = "release"
    /\ rig' = [f \in Flats |-> IF rig[f] = st.rig THEN Null ELSE rig[f]]
    /\ UNCHANGED <<rigs, sets, pins, flatSet, rigGone>>

InsertsRig(st) ==
    /\ st.do = "insert rig"
    /\ rigs' = rigs \cup {[id |-> st.rig, lo |-> st.lo, hi |-> st.hi, sited |-> st.sited, active |-> Null]}
    /\ UNCHANGED <<sets, pins, rig, flatSet, rigGone>>

UpdatesRig(st) ==
    /\ st.do = "update rig"
    /\ rigs' = {IF r.id # st.rig THEN r
               ELSE [r EXCEPT !.lo = Given(st.lo, @), !.hi = Given(st.hi, @),
                              !.sited = Given(st.sited, @), !.active = Given(st.active, @)] : r \in rigs}
    /\ UNCHANGED <<sets, pins, rig, flatSet, rigGone>>

(* ON DELETE CASCADE to flat_sets and pins, SET NULL on frames.rig_id;      *)
(* frames.flat_set_id has no foreign key.                                    *)
DeletesRig(st) ==
    /\ st.do = "delete rig"
    /\ rigs' = rigs \ RigOf(st.rig)
    /\ sets' = {s \in sets : s.rig # st.rig}
    /\ pins' = {p \in pins : p.rig # st.rig /\ \E s \in sets : s.id = p.set /\ s.rig # st.rig}
    /\ rig' = [f \in Flats |-> IF rig[f] = st.rig THEN Null ELSE rig[f]]
    /\ rigGone' = TRUE
    /\ UNCHANGED flatSet

InsertsSet(st) ==
    /\ st.do = "insert set"
    /\ RigOf(st.rig) # {}
    /\ sets' = sets \cup {[id |-> st.set, rig |-> st.rig, filter |-> st.filter, captured |-> Null,
                           from |-> Null, to |-> Null]}
    /\ UNCHANGED <<rigs, pins, rig, flatSet, rigGone>>

(* The rig's flats of the window and the filter that no set has claimed     *)
Gathered(st) ==
    {f \in Flats : /\ rig[f] = st.rig /\ flatSet[f] = Null
                   /\ st.filter = Null \/ Info[f].filter = st.filter
                   /\ Info[f].night \in st.start .. st.end}

GathersFlats(st) ==
    /\ st.do = "gather"
    /\ flatSet' = [f \in Flats |-> IF f \in Gathered(st) THEN st.set ELSE flatSet[f]]
    /\ UNCHANGED <<rigs, sets, pins, rig, rigGone>>

(* captured_night = MIN(session_night) of the set's flats, NULL without any *)
EarliestNight(id) ==
    LET nights == {Info[f].night : f \in {g \in Flats : flatSet[g] = id}}
    IN IF nights = {} THEN Null ELSE CHOOSE n \in nights : \A m \in nights : n <= m

DatesSet(st) ==
    /\ st.do = "date set"
    /\ sets' = {IF s.id = st.set THEN [s EXCEPT !.captured = EarliestNight(st.set)] ELSE s : s \in sets}
    /\ UNCHANGED <<rigs, pins, rig, flatSet, rigGone>>

SetsWindow(st) ==
    /\ st.do = "update set"
    /\ sets' = {IF s.id # st.set THEN s
               ELSE [s EXCEPT !.from = st.from, !.to = st.to] : s \in sets}
    /\ UNCHANGED <<rigs, pins, rig, flatSet, rigGone>>

FreesFlats(st) ==
    /\ st.do = "free"
    /\ flatSet' = [f \in Flats |-> IF flatSet[f] = st.set THEN Null ELSE flatSet[f]]
    /\ UNCHANGED <<rigs, sets, pins, rig, rigGone>>

Deactivates(st) ==
    /\ st.do = "deactivate"
    /\ rigs' = {IF r.active = st.set THEN [r EXCEPT !.active = Null] ELSE r : r \in rigs}
    /\ UNCHANGED <<sets, pins, rig, flatSet, rigGone>>

(* Mutant: no foreign key takes the pins along *)
DeletesSetOnly(st) ==
    /\ st.do = "delete set"
    /\ sets' = sets \ SetOf(st.set)
    /\ UNCHANGED <<rigs, pins, rig, flatSet, rigGone>>

DeletesSet(st) ==
    /\ st.do = "delete set"
    /\ sets' = sets \ SetOf(st.set)
    /\ pins' = {p \in pins : p.set # st.set}
    /\ UNCHANGED <<rigs, rig, flatSet, rigGone>>

(* ON DUPLICATE KEY UPDATE: a repeat re-points the pin of the rig's night.  *)
Pins(st) ==
    /\ st.do = "pin"
    /\ RigOf(st.rig) # {} /\ SetOf(st.set) # {}
    /\ pins' = {p \in pins : p.rig # st.rig \/ p.night # st.night}
                  \cup {[rig |-> st.rig, night |-> st.night, set |-> st.set]}
    /\ UNCHANGED <<rigs, sets, rig, flatSet, rigGone>>

Unpins(st) ==
    /\ st.do = "unpin"
    /\ pins' = pins \ {st.pin}
    /\ UNCHANGED <<rigs, sets, rig, flatSet, rigGone>>

Executes(st) ==
    \/ Claims(st) \/ Releases(st) \/ InsertsRig(st) \/ UpdatesRig(st) \/ DeletesRig(st)
    \/ InsertsSet(st) \/ GathersFlats(st) \/ DatesSet(st) \/ SetsWindow(st)
    \/ FreesFlats(st) \/ Deactivates(st) \/ DeletesSet(st) \/ Pins(st) \/ Unpins(st)

Statement(t) ==
    /\ work[t].todo # <<>>
    /\ Executes(Head(work[t].todo))
    /\ work' = [work EXCEPT ![t] = IF Len(@.todo) = 1 THEN Free ELSE [on |-> @.on, todo |-> Tail(@.todo)]]
    /\ UNCHANGED <<cached, counters, clean>>

(* A foreign key, the connection or the process fails: the rest is not sent. *)
(* Bound: one failure, or a clash, but any refusal by a foreign key.         *)
Fails(t) ==
    /\ work[t].todo # <<>>
    /\ clean \/ Head(work[t].todo).do \in {"claim", "insert set", "pin"}
    /\ work' = [work EXCEPT ![t] = Free]
    /\ clean' = FALSE
    /\ UNCHANGED <<rigs, sets, pins, rig, flatSet, cached, counters, rigGone>>

-----------------------------------------------------------------------------
(* Requests.  What a handler reads when it arrives is fixed in its todo.     *)

Arrives(t, on, todo) ==
    /\ work[t] = Free
    /\ requests < IF clean THEN MaxRequests ELSE MaxTroubled
    /\ requests' = requests + 1
    /\ work' = [work EXCEPT ![t] = [on |-> on, todo |-> todo]]
    /\ clean' = (clean /\ \A u \in Threads : work[u].on \cap on = {})
    /\ UNCHANGED <<rigs, sets, pins, rig, flatSet, cached, rigGone>>

R(id) == <<"rig", id>>
S(id) == <<"set", id>>
NewRig(id, lo, hi, sited, active) ==
    [do |-> "update rig", rig |-> id, lo |-> lo, hi |-> hi, sited |-> sited, active |-> active]

PostRig(t) ==
    /\ lastRig < MaxRigs
    /\ lastRig' = lastRig + 1
    /\ \E lo, hi \in Focals, sited \in BOOLEAN :
         /\ lo <= hi
         /\ Arrives(t, {R(lastRig')},
              <<[do |-> "insert rig", rig |-> lastRig', lo |-> lo, hi |-> hi, sited |-> sited],
                [do |-> "claim", rig |-> lastRig', lo |-> lo, hi |-> hi]>>)
    /\ UNCHANGED lastSet

(* Mutant: the frames the old range held are not dropped *)
ReclaimsOnly(r, lo, hi) ==
    <<NewRig(r.id, lo, hi, Keep, Keep),
      [do |-> "claim", rig |-> r.id, lo |-> Given(lo, r.lo), hi |-> Given(hi, r.hi)]>>

(* A bound the body leaves out is the one read before; membership is        *)
(* dropped, then claimed anew.                                               *)
Reranges(r, lo, hi) ==
    <<NewRig(r.id, lo, hi, Keep, Keep),
      [do |-> "release", rig |-> r.id],
      [do |-> "claim", rig |-> r.id, lo |-> Given(lo, r.lo), hi |-> Given(hi, r.hi)]>>

PatchRigRange(t) ==
    /\ \E r \in rigs, lo, hi \in Focals \cup {Keep} :
         /\ <<lo, hi>> # <<Keep, Keep>>
         /\ Given(lo, r.lo) <= Given(hi, r.hi)
         /\ Arrives(t, {R(r.id)}, Reranges(r, lo, hi))
    /\ UNCHANGED <<lastRig, lastSet>>

PatchRigSite(t) ==
    /\ \E r \in rigs, sited \in BOOLEAN : Arrives(t, {R(r.id)}, <<NewRig(r.id, Keep, Keep, sited, Keep)>>)
    /\ UNCHANGED <<lastRig, lastSet>>

(* "flat set does not belong to this rig" *)
MayBeActive(r) == {s.id : s \in {u \in sets : u.rig = r.id}} \cup {Null}

PatchRigActive(t) ==
    /\ \E r \in rigs : \E id \in MayBeActive(r) :
         Arrives(t, {R(r.id), S(id)}, <<NewRig(r.id, Keep, Keep, Keep, id)>>)
    /\ UNCHANGED <<lastRig, lastSet>>

DeleteRig(t) ==
    /\ \E r \in rigs : Arrives(t, {R(r.id)} \cup {S(s.id) : s \in {u \in sets : u.rig = r.id}},
                              <<[do |-> "release", rig |-> r.id], [do |-> "delete rig", rig |-> r.id]>>)
    /\ UNCHANGED <<lastRig, lastSet>>

(* The window is given by its nights; a validity comes with PatchSet.       *)
PostSet(t) ==
    /\ lastSet < MaxSets
    /\ lastSet' = lastSet + 1
    /\ \E r \in rigs, filter \in Filters \cup {Null}, span \in Spans, setActive \in BOOLEAN :
         Arrives(t, {R(r.id), S(lastSet')},
              <<[do |-> "insert set", set |-> lastSet', rig |-> r.id, filter |-> filter],
                [do |-> "gather", set |-> lastSet', rig |-> r.id, filter |-> filter, start |-> span[1], end |-> span[2]],
                [do |-> "date set", set |-> lastSet']>>
              \o IF setActive THEN <<NewRig(r.id, Keep, Keep, Keep, lastSet')>> ELSE <<>>)
    /\ UNCHANGED lastRig

PatchSet(t) ==
    /\ \E s \in sets, v \in Validities :
         Arrives(t, {S(s.id)}, <<[do |-> "update set", set |-> s.id, from |-> v[1], to |-> v[2]]>>)
    /\ UNCHANGED <<lastRig, lastSet>>

(* Mutant: left to the foreign keys *)
DeletionByKey(id) == <<[do |-> "deactivate", set |-> id], [do |-> "delete set", set |-> id]>>

Deletion(id) ==
    <<[do |-> "free", set |-> id], [do |-> "deactivate", set |-> id], [do |-> "delete set", set |-> id]>>

DeleteSet(t) ==
    /\ \E s \in sets : Arrives(t, {S(s.id)}, Deletion(s.id))
    /\ UNCHANGED <<lastRig, lastSet>>

(* The set may be one of another rig. *)
PostPin(t) ==
    /\ \E s \in sets, r \in rigs, n \in Nights :
         Arrives(t, {}, <<[do |-> "pin", rig |-> r.id, night |-> n, set |-> s.id]>>)
    /\ UNCHANGED <<lastRig, lastSet>>

DeletePin(t) ==
    /\ \E p \in pins : Arrives(t, {}, <<[do |-> "unpin", pin |-> p]>>)
    /\ UNCHANGED <<lastRig, lastSet>>

-----------------------------------------------------------------------------
(* The sweep loads the rigs once and files the frames it reads under them.   *)
(* Bound: no sweep once a failure, a clash or an older sweep has interfered. *)

SweepLoads ==
    /\ clean
    /\ cached' = rigs
    /\ UNCHANGED <<rigs, sets, pins, rig, flatSet, work, counters, clean, rigGone>>

SweepStores(f) ==
    /\ clean
    /\ LET covering == {r.id : r \in {c \in cached : Covers(c, f)}}
       IN \E id \in IF covering = {} THEN {Null} ELSE covering :
            /\ id = Null \/ RigOf(id) # {}
            /\ rig' = [rig EXCEPT ![f] = id]
    /\ clean' = (clean /\ cached = rigs)
    /\ UNCHANGED <<rigs, sets, pins, flatSet, cached, work, counters, rigGone>>

Request(t) ==
    \/ PostRig(t) \/ PatchRigRange(t) \/ PatchRigSite(t) \/ PatchRigActive(t) \/ DeleteRig(t)
    \/ PostSet(t) \/ PatchSet(t) \/ DeleteSet(t) \/ PostPin(t) \/ DeletePin(t)

Next ==
    \/ \E t \in Threads : Request(t) \/ Statement(t) \/ Fails(t)
    \/ SweepLoads
    \/ \E f \in Flats : SweepStores(f)

Spec == Init /\ [][Next]_vars

-----------------------------------------------------------------------------
(* resolve_flat_set: the set of at most one pick *)

Fits(s, filter) == s.filter = Null \/ s.filter = filter

(* ORDER BY (filter_id IS NOT NULL) DESC, captured_night DESC, id DESC      *)
Precedes(s, u) ==
    IF (s.filter = Null) # (u.filter = Null) THEN u.filter = Null
    ELSE IF s.captured # u.captured THEN u.captured = Null \/ (s.captured # Null /\ s.captured > u.captured)
    ELSE s.id >= u.id

First(found) == {s \in found : \A u \in found : Precedes(s, u)}

WindowCovers(s, n) == s.from # Null /\ s.from <= n /\ (s.to = Null \/ n <= s.to)

(* Mutant: strictly before the night *)
CapturedBefore(s, n) == s.captured = Null \/ s.captured < n

CapturedBy(s, n) == s.captured = Null \/ s.captured <= n

FlatSetFor(r, night, filter) ==
    LET fitting == {s \in sets : Fits(s, filter)}
        own == {s \in fitting : s.rig = r.id}
        pinned == {s \in fitting : [rig |-> r.id, night |-> night, set |-> s.id] \in pins}
        current == {s \in own : night # Null /\ WindowCovers(s, night)}
        sticky == {s \in own : night # Null /\ CapturedBy(s, night)}
        active == {s \in fitting : s.id = r.active}
    IN IF pinned # {} THEN pinned
       ELSE IF ~r.sited THEN First({s \in own : night # Null /\ s.captured = night})
       ELSE IF current # {} THEN First(current)
       ELSE IF sticky # {} THEN First(sticky)
       ELSE active

-----------------------------------------------------------------------------
(* Type invariant: the tables' keys hold and their references are sound.    *)
TypeOK ==
    /\ rigs \subseteq [id : 1 .. lastRig, lo : Focals, hi : Focals, sited : BOOLEAN, active : (1 .. lastSet) \cup {Null}]
    /\ sets \subseteq [id : 1 .. lastSet, rig : {r.id : r \in rigs}, filter : Filters \cup {Null},
                       captured : Nights \cup {Null}, from : Nights \cup {Null}, to : Nights \cup {Null}]
    /\ pins \subseteq [rig : {r.id : r \in rigs}, night : Nights, set : {s.id : s \in sets}]
    /\ \A p, q \in pins : p.rig = q.rig /\ p.night = q.night => p = q
    /\ rig \in [Flats -> {r.id : r \in rigs} \cup {Null}]
    /\ flatSet \in [Flats -> (1 .. lastSet) \cup {Null}]

Quiet == \A t \in Threads : work[t] = Free

(* However rigs are made, re-ranged and deleted, overlapping ones included,  *)
(* a frame's rig covers the frame, once the requests have gone through; a    *)
(* failed or overlapping request, or a sweep that loaded older rigs, may     *)
(* leave a frame under a rig that does not.                                  *)
FramesFitTheirRig ==
    clean /\ Quiet => \A f \in Flats : \A r \in rigs : rig[f] = r.id => Covers(r, f)

(* A flat whose set is gone is free to be claimed by another set, unless a  *)
(* rig went and took its sets along: then the flat stays bound to nothing.  *)
FlatsStayClaimable ==
    clean /\ Quiet /\ ~rigGone =>
        \A f \in Flats : flatSet[f] = Null \/ SetOf(flatSet[f]) # {}

(* On a fixed rig the pick changes from one night to a later one only when  *)
(* a fitting set was captured in between, or a pin or a window says so      *)
(* ("active from captured_night until the next set for the rig").           *)
PicksAreSticky ==
    \A r \in rigs, filter \in Filters \cup {Null}, m, n \in Nights :
        (/\ r.sited /\ m < n
         /\ \A p \in pins : p.rig # r.id
         /\ \A s \in sets : s.from = Null
         /\ \A s \in sets : s.rig = r.id /\ Fits(s, filter) /\ s.captured # Null => s.captured \notin (m + 1) .. n)
        => FlatSetFor(r, m, filter) = FlatSetFor(r, n, filter)
=============================================================================
