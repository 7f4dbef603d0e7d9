----------------------------- MODULE Workbench -----------------------------
(***************************************************************************)
(* What an observer does with the index: sweeps put frames into it         *)
(* (Headers), searches page through them (Query, Names), a light is given  *)
(* its calibration frames (Matcher), and a selection is staged (Staging).  *)
(*                                                                         *)
(* A file on the disk is [id, name, header, target], target being what the *)
(* observer pointed at (it is not in the index); the row of its frame has   *)
(* the file's id, for a file holds one image here.                          *)
(***************************************************************************)
EXTENDS Headers, FiniteSets

CONSTANTS
    Files,         \* the files that sweeps may find
    Tags,          \* file id -> its tags
    Offsets,       \* hours (in half hours) from UTC of the site
    HeaderMaps,    \* contents of header_map
    Asks,          \* searches: [filter, sort, missing, target]
    Rules,         \* calibration rules
    Columns,       \* the columns a filter may name
    MaxFrames, PageSize, MatchLimit,
    Idle

VARIABLES frames, offset, table, answer

vars == <<frames, offset, table, answer>>

Q == INSTANCE Query WITH Fields <- Columns
M == INSTANCE Matcher WITH Day <- 2 * HalfDay
S == INSTANCE Staging

Row(file) ==
    Resolved(file.header, table, offset) @@
    [id |-> file.id, name |-> file.name, cards |-> file.header, target |-> file.target,
     tags |-> Tags[file.id], collections |-> {}, file_status |-> "ok", there |-> TRUE]

Init ==
    /\ frames = {} /\ answer = Idle
    /\ offset \in Offsets /\ table \in HeaderMaps

(* A sweep meets a file (Sweep models how). *)
Indexes(file) ==
    /\ answer = Idle /\ Cardinality(frames) < MaxFrames
    /\ \A f \in frames : f.id # file.id
    /\ frames' = frames \cup {Row(file)}
    /\ UNCHANGED <<offset, table, answer>>

(* A file goes away, one in all, and perhaps a sweep notices. *)
Vanishes(f) ==
    /\ answer = Idle /\ \A g \in frames : g.there
    /\ frames' = (frames \ {f}) \cup {[f EXCEPT !.there = FALSE]}
    /\ UNCHANGED <<offset, table, answer>>

Noticed(f) ==
    /\ answer = Idle /\ ~f.there /\ f.file_status = "ok"
    /\ frames' = (frames \ {f}) \cup {[f EXCEPT !.file_status = "missing"]}
    /\ UNCHANGED <<offset, table, answer>>

Answers(reply) == answer' = reply /\ UNCHANGED <<frames, offset, table>>

Refusal == [kind |-> "refused"]

(* POST /query with a page of rows; each request sorts anew. *)
Lists(ask, skip, listed) ==
    LET shown == Q!Shown(ask.filter, ask.missing, frames)
    IN \E l \in Q!Listings(ask.sort, shown) :
         Answers([kind |-> "page", ask |-> ask, total |-> Cardinality(shown),
                  hidden |-> Cardinality(Q!MissingHidden(ask.filter, ask.missing, frames)),
                  offset |-> skip, listed |-> listed \o Q!Page(l, skip, PageSize)])

Compiled(filter) == filter = Null \/ Q!Compiles(filter)

Searches(ask) ==
    /\ answer = Idle
    /\ IF Compiled(ask.filter) THEN Lists(ask, 0, <<>>) ELSE Answers(Refusal)

TurnsPage ==
    /\ answer # Idle /\ answer.kind = "page" /\ answer.offset + PageSize < answer.total
    /\ Lists(answer.ask, answer.offset + PageSize, answer.listed)

(* The calibration frames of one frame: lights only. *)
Matches(f, rule) ==
    /\ answer = Idle
    /\ IF f.image_type = "light"
       THEN Answers([kind |-> "match", light |-> f, rule |-> rule,
                     found |-> M!Matched(rule, f, frames, MatchLimit)])
       ELSE Answers(Refusal)

(* POST /actions with op stage or wbpp: the filter selects missing files    *)
(* too, and the rows come back in any order.                                *)
Stages(filter) ==
    /\ answer = Idle
    /\ LET selected == IF Compiled(filter) THEN Q!Selected(filter, frames) ELSE {}
       IN IF selected = {} THEN Answers(Refusal)
          ELSE \E order \in SetToSeqs(selected), mode \in S!LinkModes :
                 Answers([kind |-> "job", job |-> S!Staged(mode, order)])

Reads == answer # Idle /\ Answers(Idle)

Next ==
    \/ \E file \in Files : Indexes(file)
    \/ \E f \in frames : Vanishes(f) \/ Noticed(f)
    \/ \E ask \in Asks : Searches(ask)
    \/ TurnsPage
    \/ \E f \in frames, rule \in Rules : Matches(f, rule)
    \/ \E ask \in Asks : Stages(ask.filter)
    \/ Reads

Spec == Init /\ [][Next]_vars

-----------------------------------------------------------------------------
(* "The local noon-to-noon night" (ARCHITECTURE.md:422): two dated frames of *)
(* a site are of one night unless a local noon lies between them or at the   *)
(* later one, also across midnight and the UTC date line.                    *)
NightsTurnAtNoon ==
    \A f, g \in {h \in frames : h.session_night # Null} :
        f.date_obs_utc <= g.date_obs_utc =>
          ((f.session_night # g.session_night) <=>
             \E t \in f.date_obs_utc + 1 .. g.date_obs_utc : (t + offset) % (2 * HalfDay) = HalfDay)

(* "M31, M 31, NGC224, and NGC 224 all find the same target"                *)
(* (ARCHITECTURE.md:256-260): a search paged to its end lists every present  *)
(* frame of the target once, however the header and the search spell it;     *)
(* frames that share a date may change places between the pages.             *)
SearchFindsEverySpelling ==
    (/\ answer # Idle /\ answer.kind = "page" /\ answer.ask.target # Null
     /\ answer.offset + PageSize >= answer.total) =>
       LET wanted == {f \in frames : f.target = answer.ask.target /\ (answer.ask.missing \/ f.file_status # "missing")}
       IN (\A f, g \in wanted : f.date_obs_utc = g.date_obs_utc => f = g) =>
            /\ ToSet(answer.listed) = wanted
            /\ Len(answer.listed) = Cardinality(wanted)

(* A calibration frame that has every value the rule looks at in common     *)
(* with the light, what both lack included, and its time is found, and only *)
(* masters and frames of that time or without one are put before it.         *)
TwinsComeFirst ==
    (answer # Idle /\ answer.kind = "match") =>
       LET light == answer.light
           rule == answer.rule
           found == answer.found.candidates
           mayLead(f) == f.image_type = "master" \/ f.date_obs_utc \in {Null, light.date_obs_utc}
           twins == {f \in frames : /\ f.image_type = rule.target /\ f.date_obs_utc # Null
                                    /\ f.date_obs_utc = light.date_obs_utc
                                    /\ \A field \in DOMAIN rule.specs : f[field] = light[field]}
       IN \A twin \in twins :
            \/ \E i \in DOMAIN found : found[i] = twin /\ \A j \in 1 .. i : mayLead(found[j])
            \/ Len(found) = MatchLimit /\ \A j \in DOMAIN found : mayLead(found[j])

(* In the directory of a job each frame that is reported staged has a name   *)
(* of its own that leads to its own file, whichever frames share a file      *)
(* name; one is refused only if its file is gone, a namesake's file is, or    *)
(* another frame's real name is the one its suffix would have made.           *)
StagedUnderOwnName ==
    (answer # Idle /\ answer.kind = "job") =>
       LET job == answer.job
           items == ToSet(job.items)
       IN /\ Len(job.items) = Cardinality(items)
          /\ \A it \in items :
               IF it.status = "ok" THEN job.tree[it.dst].id = it.frame.id
               ELSE \/ ~it.frame.there
                    \/ \E other \in items :
                         /\ other.frame.id # it.frame.id /\ other.dst = it.dst
                         /\ (~other.frame.there \/ other.frame.name = it.dst[2])
=============================================================================
