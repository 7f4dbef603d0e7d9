---------------------------- MODULE MCFlatSets ----------------------------
(* Two flats of neighbouring focal lengths and nights, one filter. *)
EXTENDS FlatSets, TLC
CONSTANTS f1, f2, ha
TwoFlats == {f1, f2}
OneFilter == {ha}
Pair == [f \in TwoFlats |-> IF f = f1 THEN [focal |-> 1, filter |-> ha, night |-> 1]
                                      ELSE [focal |-> 2, filter |-> Null, night |-> 2]]
SomeSpans == {<<1, 2>>, <<2, 2>>}
SomeValidities == {<<1, Null>>, <<2, 2>>, <<Null, Null>>}
Symmetric == Permutations(Threads)
===========================================================================
