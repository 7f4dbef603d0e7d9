---------------------------- MODULE MCWorkbench ----------------------------
EXTENDS Workbench

Name(stem, numbers) == [stem |-> stem, numbers |-> numbers]
File(id, name, target, header) == [id |-> id, name |-> name, target |-> target, header |-> header]
At(t) == [at |-> t, timed |-> TRUE]

Light(object, date) ==
    ("IMAGETYP" :> <<"light">>) @@ ("OBJECT" :> object) @@ ("DATE-OBS" :> date) @@ ("INSTRUME" :> "cam")
      @@ ("EXPTIME" :> 300) @@ ("SET-TEMP" :> -10) @@ ("GAIN" :> 100)

Dark(type, date) ==
    ("PICTTYPE" :> type) @@ ("FRAME" :> Empty) @@ ("DATE_OBS" :> date) @@ ("CAMERA" :> "cam")
      @@ ("EXPOSURE" :> 300) @@ ("SET-TEMP" :> -10)

\* Local noon is at 38 and 86 (UTC-7), at 13, 61 and 109 (UTC+5:30).
Archive ==
    {File(1, Name("a", <<>>), "andromeda", Light(<<"m", "31">>, At(40))),
     File(2, Name("a", <<>>), "andromeda", Light(<<" ", "ngc", "_", "224", " ">>, At(61)) @@ ("FILTER" :> <<"none">>)),
     File(3, Name("a", <<>>), "andromeda", [k \in {"DATE-OBS", "FRAME", "OBJECT", "INSTRUME", "EXPTIME", "GAIN"} |->
             CASE k = "DATE-OBS" -> At(86) [] k = "FRAME" -> <<"light", " ", "frame">> [] k = "OBJECT" -> <<"messier", " ", " ", "31">>
               [] k = "INSTRUME" -> "cam" [] k = "EXPTIME" -> 302 [] k = "GAIN" -> Junk]),
     File(4, Name("a", <<2>>), "orion", Light(<<"ngc", " ", "1976">>, [at |-> 48, timed |-> FALSE])),
     File(5, Name("c", <<>>), "cave", Light(<<"sharpless", "155">>, At(37)) @@ ("FILTER" :> <<"ha">>)),
     File(7, Name("a", <<>>), "none", Dark(<<"dark">>, At(40))),
     File(8, Name("a", <<7>>), "none", Dark(<<"dark", " ", "frame">>, At(40)) @@ ("GAIN" :> 100)),
     File(9, Name("a", <<>>), "none", Dark(<<"master", " ", "dark">>, At(13))),
     File(10, Name("a", <<>>), "none", Dark(<<"dark", " ", "flat">>, At(38)) @@ ("GAINRAW" :> 100)),
     File(11, Name("d", <<>>), "none", ("IMAGETYP" :> <<"flat">>) @@ ("OBJECT" :> <<"flatwizard">>) @@ ("DATE-OBS" :> At(86))),
     File(12, Name("d", <<>>), "none", ("IMAGETYP" :> <<"dark">>) @@ ("EXPTIME" :> 300) @@ ("SET-TEMP" :> -10) @@ ("GAIN" :> 100)),
     File(6, Name("e", <<>>), "asteroid", ("IMAGETYP" :> <<"odd">>) @@ ("DATE-OBS" :> At(85)) @@ ("OBJECT" :> <<"icarus">>)),
     File(13, Name("e", <<>>), "none", Dark(<<"zero">>, At(40)) @@ ("GAIN" :> 100))}

MCTags == [id \in 1 .. 13 |-> IF id \in {2, 4} THEN {"keep"} ELSE {}]

MCMessier == {[m |-> "31", catalog |-> "ngc", number |-> "224"], [m |-> "42", catalog |-> "ngc", number |-> "1976"]}

\* The seeded table, with OBJECT and DATE_OBS given another priority.
SeedRows ==
    {[field |-> f, keyword |-> k, priority |-> p] : <<f, k, p>> \in
       {<<"date_obs", "DATE_OBS", 10>>, <<"date_obs", "DATE-OBS", 20>>, <<"image_type", "IMAGETYP", 10>>,
        <<"image_type", "FRAME", 20>>, <<"image_type", "PICTTYPE", 30>>, <<"object", "OBJECT", 10>>,
        <<"instrument", "INSTRUME", 10>>, <<"instrument", "CAMERA", 20>>, <<"exposure_s", "EXPTIME", 10>>,
        <<"exposure_s", "EXPOSURE", 20>>, <<"gain", "GAIN", 10>>, <<"set_temp_c", "SET-TEMP", 10>>}}

MCHeaderMaps == {{}, SeedRows}

Leaf(field, op, value) == [op |-> op, field |-> field, value |-> value]
Node(op, clauses) == [op |-> op, clauses |-> clauses]
Member(op, value) == [op |-> op, value |-> value]
Ask(filter, sort, missing, target) == [filter |-> filter, sort |-> sort, missing |-> missing, target |-> target]
Plain(filter) == Ask(filter, <<>>, FALSE, Null)

MCAsks ==
    {Ask(Leaf("object", "eq", <<"m", "31">>), <<>>, FALSE, "andromeda"),
     Ask(Leaf("object", "eq", <<"ngc", "224">>), <<[field |-> "exposure_s", dir |-> "asc"], [field |-> "date_obs_utc", dir |-> "asc"]>>, TRUE, "andromeda"),
     Ask(Leaf("object", "eq", <<"m", "-", "42">>), <<>>, FALSE, "orion"),
     Ask(Leaf("object", "eq", <<"sh", "2", "-", "155">>), <<>>, FALSE, "cave"),
     Ask(Leaf("object", "eq", <<"icarus">>), <<>>, FALSE, "asteroid"),
     Plain(Null),
     Plain(Leaf("file_status", "ne", "ok")),
     Plain(Node("not", <<Leaf("object", "eq", <<"m", "31">>)>>)),
     Plain(Node("and", <<Leaf("gain", "gte", 100), Node("or", <<Leaf("gain", "isnull", 0), Leaf("exposure_s", "between", <<299, 301>>)>>)>>)),
     Plain(Node("or", <<Member("tagged", "keep"), Leaf("set_temp_c", "in", {-20, -10}), Member("in_collection", "c")>>)),
     Plain(Node("and", <<Member("untagged", "keep"), [op |-> "card_absent", field |-> "FILTER"], Leaf("exposure_s", "notnull", 0)>>)),
     Plain([op |-> "card", field |-> "EXPTIME", value |-> 300]),
     Plain(Node("and", <<Leaf("exposure_s", "lt", 301), Leaf("exposure_s", "gt", 299), Leaf("gain", "lte", 100), Leaf("gain", "eq", 100)>>)),
     Plain(Node("not", <<>>)),
     Plain(Leaf("password", "eq", "x"))}

MCOffsets == {-14, 11}

MCColumns == {"object", "file_status", "gain", "exposure_s", "set_temp_c"}

Exact == [kind |-> "exact", tol |-> 0]
NullOk == [kind |-> "exact_null_ok", tol |-> 0]
Within(t) == [kind |-> "tol", tol |-> t]
MCRules ==
    {[target |-> "dark", specs |-> [camera |-> Exact, gain |-> NullOk, set_temp_c |-> Within(1), exposure_s |-> Within(5)],
      max_age_days |-> 365, prefer_masters |-> TRUE, prefer_same_session |-> FALSE, min_frames |-> 2],
     [target |-> "bias", specs |-> [camera |-> Exact, gain |-> Exact],
      max_age_days |-> 0, prefer_masters |-> FALSE, prefer_same_session |-> TRUE, min_frames |-> Null],
     [target |-> "flat", specs |-> [filter |-> Exact, gain |-> Exact],
      max_age_days |-> 30, prefer_masters |-> TRUE, prefer_same_session |-> TRUE, min_frames |-> 10]}
=============================================================================
