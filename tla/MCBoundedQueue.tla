--------------------------- MODULE MCBoundedQueue ---------------------------
(* Constants for TLC: model values for the threads.                        *)
EXTENDS BoundedQueue

CONSTANTS p1, p2, c1, c2, c3

TwoProducers   == {p1, p2}
ThreeConsumers == {c1, c2, c3}
=============================================================================
