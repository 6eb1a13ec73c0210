------------------------------- MODULE QuadTree --------------------------------
(* The delta detector (quadtree.rs): which rectangles of a frame differ from the *)
(* frame before it.  A frame is its size and its pixels, row by row; a pixel is  *)
(* one number, the channel that differs most.                                    *)
EXTENDS Integers, FiniteSets

CONSTANTS MinTile,           \* min_tile_px
          DirtyNum, DirtyDen, \* dirty_threshold, as a fraction
          NoiseFloor         \* pixel_noise_floor

ASSUME TileAssumption == MinTile \in Nat \ {0}
ASSUME ThresholdAssumption == DirtyNum \in Nat /\ DirtyDen \in Nat \ {0}
ASSUME NoiseAssumption == NoiseFloor \in Nat

Indices(w, h) == 0 .. w * h - 1

Rect(x, y, w, h) == [x |-> x, y |-> y, w |-> w, h |-> h]

\* The pixels of a rectangle as indices into the data of a frame that is W wide.
Inside(W, r) == {i \in Indices(W, r.y + r.h) : /\ i \div W \in r.y .. r.y + r.h - 1
                                              /\ i % W \in r.x .. r.x + r.w - 1}

Differs(a, b) == a > b + NoiseFloor \/ b > a + NoiseFloor

\* The numerator of change_ratio, as a set; its denominator is w * h.
Changed(curr, prev, r) == {i \in Inside(curr.w, r) : Differs(curr.data[i], prev.data[i])}

TooSmall(r) == r.w <= MinTile \/ r.h <= MinTile
Dense(r, n) == n * DirtyDen >= DirtyNum * (r.w * r.h)

QuadrantsRound(r) ==
    LET hw == r.w \div 2
        hh == r.h \div 2
    IN  {Rect(r.x, r.y, hw, hh), Rect(r.x + hw, r.y, hw, hh),
         Rect(r.x, r.y + hh, hw, hh), Rect(r.x + hw, r.y + hh, hw, hh)}

\* Integer halving: the eastern and southern quadrants get the odd pixel.
Quadrants(r) ==
    LET hw == r.w \div 2
        hh == r.h \div 2
    IN  {Rect(r.x, r.y, hw, hh), Rect(r.x + hw, r.y, r.w - hw, hh),
         Rect(r.x, r.y + hh, hw, r.h - hh), Rect(r.x + hw, r.y + hh, r.w - hw, r.h - hh)}

Whole(frame) == Rect(0, 0, frame.w, frame.h)
Tiles(frame) == {r \in [x : 0 .. frame.w, y : 0 .. frame.h, w : 1 .. frame.w, h : 1 .. frame.h] :
                   r.x + r.w <= frame.w /\ r.y + r.h <= frame.h}

\* The rectangles pushed to out below a tile; their order is of no consequence.
Subdivide(curr, prev) ==
    LET dirty[r \in Tiles(curr)] ==
          LET changed == Changed(curr, prev, r)
          IN  IF changed = {} THEN {}
              ELSE IF TooSmall(r) \/ Dense(r, Cardinality(changed)) THEN {r}
              ELSE UNION {dirty[q] : q \in Quadrants(r)}
    IN  dirty[Whole(curr)]

--------------------------------------------------------------------------------
(* What the rectangles must be, as a relation between the two frames: tiles of   *)
(* the frame that do not overlap, that hold every changed pixel, and none of     *)
(* them without a changed pixel.                                                 *)

IsDirtyCover(rects, curr, prev) ==
    /\ \A r \in rects : /\ r.x + r.w <= curr.w /\ r.y + r.h <= curr.h
                        /\ Changed(curr, prev, r) # {}
    /\ \A r, s \in rects : r # s => Inside(curr.w, r) \cap Inside(curr.w, s) = {}
    /\ Changed(curr, prev, Whole(curr)) \subseteq UNION {Inside(curr.w, r) : r \in rects}

\* No more is sent than the threshold allows: a rectangle that could have been
\* split is dense with changes.
IsTight(rects, curr, prev) ==
    \A r \in rects : TooSmall(r) \/ Dense(r, Cardinality(Changed(curr, prev, r)))
================================================================================
