------------------------------ MODULE Headers ------------------------------
(***************************************************************************)
(* From the header of an image to the row of the frame                     *)
(* (src/extract/resolver.cpp, resolver_defaults.cpp, with the mapping      *)
(* tables of src/index/mapping_loader.cpp and the quarantine of            *)
(* src/index/frame_store.cpp).                                             *)
(*                                                                         *)
(* A header maps the keywords it carries to raw values: texts (see Names;  *)
(* here words may follow one another without a blank, "FlatDark" is        *)
(* <<"flat", "dark">>), whole numbers, Junk for what does not parse as a   *)
(* number, or Empty.                                                       *)
(* DATE-OBS is [at, timed]: half hours UTC since some midnight, and        *)
(* whether the card has a time of day.  Left out: coordinates, focal       *)
(* length, sky brightness, air mass, axes, pier side and row order, which  *)
(* are copied; regular expressions among the value rules.                  *)
(***************************************************************************)
EXTENDS Names, Functions

CONSTANTS
    Null, Empty, Junk,
    HalfDay            \* 24 half hours

(* HeaderMapping::defaults: the keywords of a field, the first present wins. *)
DefaultKeywords ==
    [date_obs |-> <<"DATE-OBS", "DATE_OBS">>, image_type |-> <<"IMAGETYP", "FRAME", "PICTTYPE">>,
     object |-> <<"OBJECT">>, filter |-> <<"FILTER">>, instrument |-> <<"INSTRUME", "CAMERA">>,
     exposure_s |-> <<"EXPTIME", "EXPOSURE">>, gain |-> <<"GAIN", "GAINRAW", "GAINADU">>,
     set_temp_c |-> <<"SET-TEMP">>]

Rule(raw, to, mode) == [raw |-> raw, to |-> to, mode |-> mode]

(* HeaderMapping::defaults, and the seed of header_value_map: the values of *)
(* a field, the first rule wins.                                            *)
DefaultValues ==
    [image_type |->
       <<Rule(<<"flat", "dark">>, <<"darkflat">>, "contains"), Rule(<<"dark", " ", "flat">>, <<"darkflat">>, "contains"),
         Rule(<<"dark", "flat">>, <<"darkflat">>, "contains"), Rule(<<"master", " ", "dark">>, <<"master">>, "exact"),
         Rule(<<"master">>, <<"master">>, "contains"), Rule(<<"integration">>, <<"master">>, "contains"),
         Rule(<<"stack">>, <<"master">>, "contains"),
         Rule(<<"light">>, <<"light">>, "exact"), Rule(<<"light", " ", "frame">>, <<"light">>, "exact"),
         Rule(<<"dark">>, <<"dark">>, "exact"), Rule(<<"dark", " ", "frame">>, <<"dark">>, "exact"),
         Rule(<<"flat">>, <<"flat">>, "exact"), Rule(<<"flat", " ", "field">>, <<"flat">>, "exact"),
         Rule(<<"bias">>, <<"bias">>, "exact"), Rule(<<"bias", " ", "frame">>, <<"bias">>, "exact"),
         Rule(<<"zero">>, <<"bias">>, "contains")>>,
     filter |-> <<Rule(<<"!", "shutter", "!">>, <<>>, "exact"), Rule(<<"dark">>, <<>>, "exact"),
                  Rule(<<"none">>, <<>>, "exact")>>,
     object |-> <<Rule(<<"flatwizard">>, <<>>, "exact")>>]

(* load_mapping: rows of header_map are [field, keyword, priority]; a table *)
(* without an enabled row stands for the defaults, keywords and values.     *)
Keywords(table) ==
    IF table = {} THEN DefaultKeywords
    ELSE LET of(field) == {row \in table : row.field = field}
             order(field) == SetToSortSeq(of(field), LAMBDA x, y : x.priority < y.priority)
         IN [field \in {row.field : row \in table} |->
               [i \in DOMAIN order(field) |-> order(field)[i].keyword]]

(* resolve_raw: a keyword that is present counts, whatever its value parses to. *)
Raw(header, table, field) ==
    LET keywords == Keywords(table)
        named == IF field \in DOMAIN keywords THEN keywords[field] ELSE <<>>
        present == {i \in DOMAIN named : named[i] \in DOMAIN header /\ header[named[i]] # Empty}
    IN IF present = {} THEN Null
       ELSE header[named[CHOOSE i \in present : \A j \in present : i <= j]]

Includes(text, part) ==
    \E i \in 0 .. Len(text) - Len(part) : SubSeq(text, i + 1, i + Len(part)) = part

Applies(rule, raw) ==
    \/ rule.mode = "exact" /\ raw = rule.raw
    \/ rule.mode = "contains" /\ Includes(raw, rule.raw)

(* normalize_value *)
Normalized(field, raw) ==
    LET rules == DefaultValues[field]
        found == {i \in DOMAIN rules : Applies(rules[i], raw)}
    IN IF found = {} THEN raw ELSE rules[CHOOSE i \in found : \A j \in found : i <= j].to

(* A text card after its value rules; Null if it is missing or maps to nothing. *)
Text(header, table, field) ==
    LET raw == Raw(header, table, field)
    IN IF raw = Null \/ Normalized(field, raw) = <<>> THEN Null ELSE Normalized(field, raw)

Number(header, table, field) ==
    LET raw == Raw(header, table, field) IN IF raw = Junk THEN Null ELSE raw

ImageTypes == {"light", "dark", "flat", "bias", "darkflat", "master"}

ImageType(header, table) ==
    LET text == Text(header, table, "image_type")
    IN IF text # Null /\ Len(text) = 1 /\ text[1] \in ImageTypes THEN text[1] ELSE "unknown"

(* Mutant: the shift to local time is forgotten. *)
NightInUtc(date, offset) ==
    IF date = Null \/ ~date.timed THEN Null ELSE (date.at - HalfDay) \div (2 * HalfDay)

(* night_of: local time, half a day back, as a civil date. *)
NightOf(date, offset) ==
    IF date = Null \/ ~date.timed THEN Null ELSE (date.at + offset - HalfDay) \div (2 * HalfDay)

(* resolve and the row store_file_once writes; its code never sets master_of. *)
Resolved(header, table, offset) ==
    LET type == ImageType(header, table)
        date == Raw(header, table, "date_obs")
        object == Text(header, table, "object")
        filter == Text(header, table, "filter")
    IN [image_type |-> type,
        date_obs_utc |-> IF date = Null THEN Null ELSE date.at,
        session_night |-> NightOf(date, offset),
        object |-> object,
        object_canonical |-> IF object = Null \/ IsPlaceholder(object) THEN Null ELSE Canonical(object),
        filter |-> IF filter = Null /\ type \in {"light", "flat"} THEN <<"clear">> ELSE filter,
        camera |-> Raw(header, table, "instrument"),
        exposure_s |-> Number(header, table, "exposure_s"),
        gain |-> Number(header, table, "gain"),
        set_temp_c |-> Number(header, table, "set_temp_c"),
        master_of |-> Null,
        quarantine_reason |-> IF date = Null THEN "no-dateobs"
                              ELSE IF type = "unknown" THEN "unknown-type" ELSE Null]
=============================================================================
