------------------------------ MODULE MCSweep ------------------------------
(* Constants for TLC.  The header raw is the one a camera wrote, other a    *)
(* different frame's, and torn a file that does not parse.                  *)
EXTENDS Sweep, TLC

CONSTANTS p1, p2, p3, p4, raw, other, torn, k1, k2, k3

ThreePaths == {p1, p2, p3}
FourPaths  == {p1, p2, p3, p4}
MCKeys     == {k1, k2, k3}
MCKeyOf    == [c \in Contents |-> IF c = torn THEN k3 ELSE IF c = other THEN k2 ELSE k1]

PathSymmetry == Permutations(Paths)
=============================================================================
