---------------------------- MODULE MCFileAction ----------------------------
(* Two namesakes in two directories, and a file of a name of its own; the *)
(* third directory is free to move to.                                    *)
EXTENDS FileAction, TLC

CONSTANTS d1, d2, d3

MCHome == <<<<d1, "a">>, <<d2, "a">>, <<d1, "b">>>>
MCWalkOrder == <<<<d1, "a">>, <<d1, "b">>, <<d2, "a">>, <<d2, "b">>,
                 <<d3, "a">>, <<d3, "b">>>>
(* One device, and one that has the free directory and the trash beside it *)
MCLayouts == {[d \in Dirs |-> 1], [d \in Dirs |-> IF d \in {d1, d2} THEN 1 ELSE 2]}
Sym == Permutations(Handlers)
=============================================================================
