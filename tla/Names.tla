------------------------------- MODULE Names -------------------------------
(***************************************************************************)
(* Target names (src/names/canon.cpp): the catalog form of an OBJECT card  *)
(* and the designations an object search is expanded to.                   *)
(*                                                                         *)
(* A text is the sequence of its runs of letters, runs of digits and       *)
(* single other characters: "NGC_224 " is <<"ngc", "_", "224", " ">>.  Case *)
(* is left out: the code lowers what it compares, and the database's       *)
(* collation ignores it.  A run of digits is one symbol, so "sh2155" (where *)
(* the code takes the alias sh2 and the number 155) cannot be written.     *)
(***************************************************************************)
EXTENDS Integers, Sequences, SequencesExt

CONSTANTS
    Digits,    \* the runs of digits that occur
    Letters,   \* single letters that may follow a catalog number
    Messier    \* messier_xref: a set of [m, catalog, number]

ASSUME NamesAssumption ==
    /\ " " \notin Digits \cup Letters
    /\ \A x, y \in Messier : x.m = y.m <=> (x.catalog = y.catalog /\ x.number = y.number)

Blank == " "

(* The ends are trimmed and each run of blanks becomes one. *)
Tidy(text) ==
    LET kept == {i \in DOMAIN text :
                   \/ text[i] # Blank
                   \/ /\ i < Len(text) /\ text[i + 1] # Blank
                      /\ \E j \in 1 .. i : text[j] # Blank}
        order == SetToSortSeq(kept, <)
    IN [k \in DOMAIN order |-> text[order[k]]]

Placeholders ==
    {<<>>, <<"target">>, <<"none">>, <<"unknown">>, <<"n", "/", "a">>, <<"na">>, <<"test">>,
     <<"flatwizard">>, <<"flat">>, <<"dark">>, <<"bias">>, <<"object">>,
     <<"no", " ", "target">>, <<"-">>}

(* The catalogs, by alias; "sh2" stands before "sh". *)
Aliases ==
    LET rule(acronym, sep, aliases) == [acronym |-> acronym, sep |-> sep, aliases |-> aliases]
        plain == {"ngc", "ic", "ugc", "pgc", "arp", "lbn", "ldn", "vdb"}
    IN {rule(<<a>>, Blank, {<<a>>}) : a \in plain} \cup
       {rule(<<"m">>, Blank, {<<"messier">>, <<"m">>}),
        rule(<<"abell">>, Blank, {<<"abell">>, <<"aco">>}),
        rule(<<"sh", "2">>, "-", {<<"sharpless">>, <<"sh", "2">>, <<"sh">>}),
        rule(<<"cr">>, Blank, {<<"collinder">>, <<"cr">>}),
        rule(<<"mel">>, Blank, {<<"melotte">>, <<"mel">>}),
        rule(<<"ced">>, Blank, {<<"cederblad">>, <<"ced">>}),
        rule(<<"c">>, Blank, {<<"caldwell">>}),
        rule(<<"b">>, Blank, {<<"barnard">>, <<"b">>})}

(* After the alias and any separators: digits and at most one letter.  The *)
(* empty sequence if the rest is anything else.                            *)
CatalogNumber(rest) ==
    LET marks == {i \in DOMAIN rest : rest[i] \notin {Blank, "_", "-"}}
        number == IF marks = {} THEN <<>>
                  ELSE SubSeq(rest, CHOOSE i \in marks : \A j \in marks : i <= j, Len(rest))
    IN IF number # <<>> /\ number[1] \in Digits
          /\ (Len(number) = 1 \/ (Len(number) = 2 /\ number[2] \in Letters))
       THEN number ELSE <<>>

(* What the aliases make of a text; CatalogNumber decides. *)
Readings(text) ==
    LET rest(a) == SubSeq(text, Len(a) + 1, Len(text))
        read(r) == {a \in r.aliases : IsPrefix(a, text) /\ CatalogNumber(rest(a)) # <<>>}
    IN UNION {{[acronym |-> r.acronym, sep |-> r.sep, used |-> Len(a), number |-> CatalogNumber(rest(a))]
                 : a \in read(r)} : r \in Aliases}

(* Mutant: NGC and IC names stay what they are. *)
ToMessierNever(name) == name

(* NGC and IC names of a Messier object become its Messier name. *)
ToMessier(name) ==
    LET same == {x \in Messier : name = <<x.catalog, Blank, x.number>>}
    IN IF same = {} THEN name ELSE <<"m", Blank, (CHOOSE x \in same : TRUE).m>>

FromMessier(name) == {<<x.catalog, Blank, x.number>> : x \in {y \in Messier : name = <<"m", Blank, y.m>>}}

Canonical(text) ==
    LET tidy == Tidy(text)
        found == Readings(tidy)
    IN IF tidy \in Placeholders \/ found = {} THEN tidy
       ELSE LET r == CHOOSE r \in found : \A s \in found : r.used >= s.used
            IN ToMessier(r.acronym \o <<r.sep>> \o r.number)

IsPlaceholder(text) == Tidy(text) \in Placeholders

(* What an object search looks for. *)
Designations(text) == {Canonical(text)} \cup FromMessier(Canonical(text))
=============================================================================
