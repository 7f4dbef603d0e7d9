------------------------------ MODULE Matcher ------------------------------
(***************************************************************************)
(* The rules that choose the calibration frames of a light                 *)
(* (src/match/calibration.cpp, match_calibration without its flat-set      *)
(* branch, which FlatSets models).  A frame is a row of Headers with an id; *)
(* a rule is                                                               *)
(*   [target, specs : field -> [kind, tol], max_age_days, prefer_masters,  *)
(*    prefer_same_session, min_frames].                                    *)
(* Reasons and scores are wording over the order of the answer.            *)
(***************************************************************************)
EXTENDS Integers, Sequences, SequencesExt

CONSTANTS Null, Day

Gap(a, b) == IF a >= b THEN a - b ELSE b - a

(* Mutant: a value the light lacks is compared all the same, "= NULL". *)
MeetsByEquality(spec, wanted, had) ==
    CASE spec.kind = "exact" -> wanted # Null /\ had = wanted
      [] spec.kind = "exact_null_ok" -> wanted = Null \/ had \in {wanted, Null}
      [] spec.kind = "tol" -> wanted = Null \/ (had # Null /\ Gap(had, wanted) <= spec.tol)

(* One field of a rule.  What the light lacks an exact field must lack too; *)
(* the other kinds then ask for nothing.                                    *)
Meets(spec, wanted, had) ==
    CASE spec.kind = "exact" -> had = wanted
      [] spec.kind = "exact_null_ok" -> wanted = Null \/ had \in {wanted, Null}
      [] spec.kind = "tol" -> wanted = Null \/ (had # Null /\ Gap(had, wanted) <= spec.tol)

IsTarget(rule, frame) ==
    frame.image_type = rule.target \/ (frame.image_type = "master" /\ frame.master_of = rule.target)

(* TIMESTAMPDIFF(DAY) counts whole days. *)
YoungEnough(rule, light, frame) ==
    \/ Null \in {rule.max_age_days, light.date_obs_utc, frame.date_obs_utc}
    \/ Gap(frame.date_obs_utc, light.date_obs_utc) \div Day <= rule.max_age_days

Candidates(rule, light, frames) ==
    {f \in frames :
       /\ IsTarget(rule, f)
       /\ \A field \in DOMAIN rule.specs : Meets(rule.specs[field], light[field], f[field])
       /\ YoungEnough(rule, light, f)}

(* ORDER BY: masters, the light's session, the nearest in time, the id; in  *)
(* an ascending order NULL comes first, in a descending one last.           *)
Rank(rule, light, f) ==
    <<IF rule.prefer_masters /\ f.image_type # "master" THEN 1 ELSE 0,
      IF ~rule.prefer_same_session \/ light.session_night = Null \/ f.session_night = light.session_night THEN 0
      ELSE IF f.session_night = Null THEN 2 ELSE 1,
      IF light.date_obs_utc = Null THEN 0
      ELSE IF f.date_obs_utc = Null THEN -1 ELSE Gap(f.date_obs_utc, light.date_obs_utc),
      f.id>>

Before(r, s) == \E i \in DOMAIN r : r[i] < s[i] /\ \A j \in 1 .. i - 1 : r[j] = s[j]

(* What match_calibration answers for one rule. *)
Matched(rule, light, frames, limit) ==
    LET found == Candidates(rule, light, frames)
        order == SetToSortSeq(found, LAMBDA f, g : Before(Rank(rule, light, f), Rank(rule, light, g)))
        total == Len(order)
    IN [total |-> total,
        candidates |-> SubSeq(order, 1, IF total < limit THEN total ELSE limit),
        warning |-> IF total = 0 THEN "none"
                    ELSE IF rule.min_frames # Null /\ total < rule.min_frames THEN "few" ELSE "no warning"]
=============================================================================
