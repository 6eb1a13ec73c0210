----------------------------- MODULE MCDeltaStream -----------------------------
(* A small instance of the picture's way for TLC.                              *)
EXTENDS DeltaStream, TLC

CONSTANT alice

OneViewer == {alice}
TwoSizes == {[w |-> 4, h |-> 3], [w |-> 3, h |-> 3]}
ThreeGreys == {0, 1, 2}
\* A corner, and pixels of several tiles.
SomeSpots == {{0}, {4, 5, 6, 8}}
================================================================================
