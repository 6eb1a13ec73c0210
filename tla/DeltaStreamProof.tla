--------------------------- MODULE DeltaStreamProof ----------------------------
(* Theorems about the delta detector and the picture on its way, for frames of   *)
(* any size, any noise floor, threshold and smallest tile, any ring and queue,   *)
(* and any number of viewers.                                                    *)
EXTENDS DeltaStream, WellFoundedInduction, SequenceTheorems, FiniteSetTheorems, TLAPS

--------------------------------------------------------------------------------
(* Lemmas about rows and columns.                                                *)

\* A product grows with its factor by at least the other one.
LEMMA ProductGrows ==
    ASSUME NEW w \in Nat, NEW a \in Nat, NEW c \in Nat, a + 1 <= c
    PROVE  w * a + w <= w * c
<1>1. PICK k \in Nat : c = a + 1 + k
  <2>1. c - (a + 1) \in Nat /\ c = a + 1 + (c - (a + 1))
    OBVIOUS
  <2> QED
    BY <2>1
<1>2. w * c = w * a + w + w * k
  BY <1>1
<1>3. w * k \in Nat
  OBVIOUS
<1> QED
  BY <1>2, <1>3

\* The row and the column of a pixel.
Row(w, i) == i \div w
Col(w, i) == i % w

LEMMA RowColIs ==
    ASSUME NEW w \in Nat \ {0}, NEW i \in Nat
    PROVE  /\ Row(w, i) \in Nat /\ Col(w, i) \in Nat /\ Col(w, i) < w
           /\ i = Row(w, i) * w + Col(w, i)
<1>1. i \div w \in Nat /\ i % w \in 0 .. w - 1
  <2>1. i \div w \in Nat
    OBVIOUS
  <2>2. i % w \in 0 .. w - 1
    OBVIOUS
  <2> QED
    BY <2>1, <2>2
<1>2. PICK q \in Nat, r \in Nat : q = i \div w /\ r = i % w
  BY <1>1
<1>3. i = w * q + r
  BY <1>2
<1>4. w * q = q * w
  OBVIOUS
<1>5. Row(w, i) = q /\ Col(w, i) = r /\ r < w
  BY <1>1, <1>2 DEF Row, Col
<1> QED
  BY <1>3, <1>4, <1>5

LEMMA PixelAt ==
    ASSUME NEW w \in Nat \ {0}, NEW q \in Nat, NEW r \in Nat, r < w
    PROVE  /\ q * w + r \in Nat
           /\ Row(w, q * w + r) = q /\ Col(w, q * w + r) = r
<1>1. (q * w + r) \div w = q
  OBVIOUS
<1>2. (q * w + r) % w = r
  OBVIOUS
<1>3. q * w \in Nat
  OBVIOUS
<1> QED
  BY <1>1, <1>2, <1>3 DEF Row, Col

\* A pixel is in a frame's data if its row is in the frame.
LEMMA IndexIs ==
    ASSUME NEW w \in Nat \ {0}, NEW h \in Nat, NEW i \in Nat
    PROVE  i \in Indices(w, h) <=> Row(w, i) < h
<1>1. PICK q \in Nat, r \in Nat : q = Row(w, i) /\ r = Col(w, i) /\ r < w /\ i = q * w + r
  BY RowColIs
<1>2. w * h \in Nat /\ (i \in Indices(w, h) <=> i < w * h)
  <2>1. w * h \in Nat
    OBVIOUS
  <2> QED
    BY <2>1 DEF Indices
<1>3. CASE q < h
  <2>1. w * q + w <= w * h
    BY <1>3, ProductGrows
  <2>2. w * q = q * w /\ q * w \in Nat
    OBVIOUS
  <2> QED
    BY <1>1, <1>2, <1>3, <2>1, <2>2
<1>4. CASE h <= q
  <2>1. PICK k \in Nat : q = h + k
    <3>1. q - h \in Nat /\ q = h + (q - h)
      BY <1>4
    <3> QED
      BY <3>1
  <2>2. q * w = w * h + k * w /\ k * w \in Nat
    BY <2>1
  <2>3. ~(i < w * h)
    BY <1>1, <1>2, <2>2
  <2> QED
    BY <1>1, <1>2, <1>4, <2>3
<1> QED
  BY <1>1, <1>3, <1>4

--------------------------------------------------------------------------------
(* Tiles.                                                                        *)

HasSize(f) == f.w \in Nat \ {0} /\ f.h \in Nat \ {0}

LEMMA TileIs ==
    ASSUME NEW f, HasSize(f), NEW r
    PROVE  r \in Tiles(f) <=>
               /\ r \in [x : Nat, y : Nat, w : Nat \ {0}, h : Nat \ {0}]
               /\ r.x + r.w <= f.w /\ r.y + r.h <= f.h
<1>1. PICK W \in Nat \ {0}, H \in Nat \ {0} : W = f.w /\ H = f.h
  BY DEF HasSize
<1>2. ASSUME r \in [x : Nat, y : Nat, w : Nat \ {0}, h : Nat \ {0}],
             r.x + r.w <= W, r.y + r.h <= H
      PROVE  r \in [x : 0 .. W, y : 0 .. H, w : 1 .. W, h : 1 .. H]
  <2>1. /\ r.x \in Nat /\ r.y \in Nat /\ r.w \in Nat \ {0} /\ r.h \in Nat \ {0}
        /\ r = [x |-> r.x, y |-> r.y, w |-> r.w, h |-> r.h]
    BY <1>2
  <2>2. r.x \in 0 .. W /\ r.y \in 0 .. H /\ r.w \in 1 .. W /\ r.h \in 1 .. H
    BY <1>2, <2>1
  <2> QED
    BY <2>1, <2>2
<1>3. ASSUME r \in [x : 0 .. W, y : 0 .. H, w : 1 .. W, h : 1 .. H]
      PROVE  r \in [x : Nat, y : Nat, w : Nat \ {0}, h : Nat \ {0}]
  <2>1. /\ r.x \in 0 .. W /\ r.y \in 0 .. H /\ r.w \in 1 .. W /\ r.h \in 1 .. H
        /\ r = [x |-> r.x, y |-> r.y, w |-> r.w, h |-> r.h]
    BY <1>3
  <2>2. r.x \in Nat /\ r.y \in Nat /\ r.w \in Nat \ {0} /\ r.h \in Nat \ {0}
    BY <2>1
  <2> QED
    BY <2>1, <2>2
<1> QED
  BY <1>1, <1>2, <1>3 DEF Tiles

\* The pixels of a tile are those of its rows and columns.
In(f, r, i) == /\ r.y <= Row(f.w, i) /\ Row(f.w, i) < r.y + r.h
               /\ r.x <= Col(f.w, i) /\ Col(f.w, i) < r.x + r.w

LEMMA InsideIs ==
    ASSUME NEW f, HasSize(f), NEW r \in Tiles(f), NEW i
    PROVE  i \in Inside(f.w, r) <=> i \in Nat /\ In(f, r, i)
<1>1. PICK W \in Nat \ {0}, x \in Nat, y \in Nat, w \in Nat \ {0}, h \in Nat \ {0} :
          W = f.w /\ x = r.x /\ y = r.y /\ w = r.w /\ h = r.h
  BY TileIs DEF HasSize
<1>2. i \in Indices(W, y + h) => i \in Nat
  <2>1. W * (y + h) \in Nat
    OBVIOUS
  <2> QED
    BY <2>1 DEF Indices
<1>3. ASSUME i \in Nat
      PROVE  i \in Inside(W, r) <=> In(f, r, i)
  <2>1. PICK q \in Nat, c \in Nat : q = Row(W, i) /\ c = Col(W, i)
    BY <1>3, RowColIs
  <2>2. i \in Indices(W, y + h) <=> q < y + h
    BY <1>3, <2>1, IndexIs
  <2>3. q \in y .. y + h - 1 <=> y <= q /\ q < y + h
    OBVIOUS
  <2>4. c \in x .. x + w - 1 <=> x <= c /\ c < x + w
    OBVIOUS
  <2>5. i \in Inside(W, r) <=>
            i \in Indices(W, y + h) /\ q \in y .. y + h - 1 /\ c \in x .. x + w - 1
    BY <1>1, <2>1 DEF Inside, Row, Col
  <2> QED
    BY <1>1, <2>1, <2>2, <2>3, <2>4, <2>5 DEF In
<1> QED
  BY <1>1, <1>2, <1>3 DEF Inside

\* The whole of a frame is a tile and holds every pixel.
LEMMA WholeIs ==
    ASSUME NEW f, HasSize(f)
    PROVE  Whole(f) \in Tiles(f) /\ Inside(f.w, Whole(f)) = Indices(f.w, f.h)
<1>1. PICK W \in Nat \ {0}, H \in Nat \ {0} : W = f.w /\ H = f.h
  BY DEF HasSize
<1>2. /\ Whole(f).x = 0 /\ Whole(f).y = 0 /\ Whole(f).w = W /\ Whole(f).h = H
      /\ Whole(f) \in [x : Nat, y : Nat, w : Nat \ {0}, h : Nat \ {0}]
  BY <1>1 DEF Whole, Rect
<1>3. Whole(f) \in Tiles(f)
  BY <1>1, <1>2, TileIs
<1>4. ASSUME NEW i \in Nat
      PROVE  In(f, Whole(f), i) <=> i \in Indices(W, H)
  <2>1. PICK q \in Nat, c \in Nat : q = Row(W, i) /\ c = Col(W, i) /\ c < W
    BY RowColIs
  <2>2. i \in Indices(W, H) <=> q < H
    BY <2>1, IndexIs
  <2> QED
    BY <1>1, <1>2, <2>1, <2>2 DEF In
<1>5. \A i \in Indices(W, H) : i \in Nat
  <2>1. W * H \in Nat
    OBVIOUS
  <2> QED
    BY <2>1 DEF Indices
<1>6. \A i : i \in Inside(f.w, Whole(f)) <=> i \in Indices(W, H)
  BY <1>3, <1>4, <1>5, InsideIs
<1> QED
  BY <1>1, <1>3, <1>6

\* A tile that is split has four quadrants, smaller than itself, which divide its
\* pixels among them.
SizeOf(r) == r.w + r.h

LEMMA QuadrantIs ==
    ASSUME NEW f, HasSize(f), NEW r \in Tiles(f), ~TooSmall(r), NEW q \in Quadrants(r)
    PROVE  /\ q \in Tiles(f) /\ SizeOf(q) \in Nat /\ SizeOf(q) < SizeOf(r)
           /\ \A i \in Nat : In(f, q, i) => In(f, r, i)
<1>1. PICK W \in Nat \ {0}, H \in Nat \ {0}, x \in Nat, y \in Nat, w \in Nat \ {0},
           h \in Nat \ {0} :
          W = f.w /\ H = f.h /\ x = r.x /\ y = r.y /\ w = r.w /\ h = r.h
  <2>1. r.x \in Nat /\ r.y \in Nat /\ r.w \in Nat \ {0} /\ r.h \in Nat \ {0}
    BY TileIs
  <2> QED
    BY <2>1 DEF HasSize
<1>2. x + w <= W /\ y + h <= H
  BY <1>1, TileIs
<1>3. w >= 2 /\ h >= 2
  BY <1>1, TileAssumption DEF TooSmall
<1>4. PICK hw \in Nat, hh \in Nat : hw = w \div 2 /\ hh = h \div 2
  OBVIOUS
<1>5. 1 <= hw /\ hw < w /\ 1 <= hh /\ hh < h
  BY <1>3, <1>4
<1>6. /\ q \in [x : Nat, y : Nat, w : Nat \ {0}, h : Nat \ {0}]
      /\ x <= q.x /\ q.x + q.w <= x + w /\ y <= q.y /\ q.y + q.h <= y + h
      /\ q.w < w /\ q.h < h
  <2>1. \/ q = Rect(x, y, hw, hh) \/ q = Rect(x + hw, y, w - hw, hh)
        \/ q = Rect(x, y + hh, hw, h - hh) \/ q = Rect(x + hw, y + hh, w - hw, h - hh)
    BY <1>1, <1>4 DEF Quadrants
  <2>2. w - hw \in Nat \ {0} /\ h - hh \in Nat \ {0}
    BY <1>5
  <2> QED
    BY <1>5, <2>1, <2>2 DEF Rect
<1>7. q \in Tiles(f)
  BY <1>1, <1>2, <1>6, TileIs
<1>8. SizeOf(q) \in Nat /\ SizeOf(q) < SizeOf(r)
  BY <1>1, <1>6 DEF SizeOf
<1>9. ASSUME NEW i \in Nat, In(f, q, i)
      PROVE  In(f, r, i)
  <2>1. PICK a \in Nat, c \in Nat : a = Row(W, i) /\ c = Col(W, i)
    BY RowColIs
  <2> QED
    BY <1>1, <1>6, <1>9, <2>1 DEF In
<1> QED
  BY <1>7, <1>8, <1>9

LEMMA QuadrantsCover ==
    ASSUME NEW f, HasSize(f), NEW r \in Tiles(f), ~TooSmall(r), NEW i \in Nat, In(f, r, i)
    PROVE  \E q \in Quadrants(r) : In(f, q, i)
<1>1. PICK W \in Nat \ {0}, x \in Nat, y \in Nat, w \in Nat \ {0}, h \in Nat \ {0} :
          W = f.w /\ x = r.x /\ y = r.y /\ w = r.w /\ h = r.h
  BY TileIs DEF HasSize
<1>2. PICK a \in Nat, c \in Nat : a = Row(W, i) /\ c = Col(W, i)
  BY RowColIs
<1>3. y <= a /\ a < y + h /\ x <= c /\ c < x + w
  BY <1>1, <1>2 DEF In
<1>4. PICK hw \in Nat, hh \in Nat : hw = w \div 2 /\ hh = h \div 2 /\ hw <= w /\ hh <= h
  OBVIOUS
<1>5. /\ Rect(x, y, hw, hh) \in Quadrants(r)
      /\ Rect(x + hw, y, w - hw, hh) \in Quadrants(r)
      /\ Rect(x, y + hh, hw, h - hh) \in Quadrants(r)
      /\ Rect(x + hw, y + hh, w - hw, h - hh) \in Quadrants(r)
  BY <1>1, <1>4 DEF Quadrants
<1>6. CASE a < y + hh /\ c < x + hw
  <2>1. In(f, Rect(x, y, hw, hh), i)
    BY <1>1, <1>2, <1>3, <1>6 DEF In, Rect
  <2> QED
    BY <1>5, <2>1
<1>7. CASE a < y + hh /\ x + hw <= c
  <2>1. x + hw + (w - hw) = x + w
    BY <1>4
  <2>2. In(f, Rect(x + hw, y, w - hw, hh), i)
    BY <1>1, <1>2, <1>3, <1>7, <2>1 DEF In, Rect
  <2> QED
    BY <1>5, <2>2
<1>8. CASE y + hh <= a /\ c < x + hw
  <2>1. y + hh + (h - hh) = y + h
    BY <1>4
  <2>2. In(f, Rect(x, y + hh, hw, h - hh), i)
    BY <1>1, <1>2, <1>3, <1>8, <2>1 DEF In, Rect
  <2> QED
    BY <1>5, <2>2
<1>9. CASE y + hh <= a /\ x + hw <= c
  <2>1. x + hw + (w - hw) = x + w /\ y + hh + (h - hh) = y + h
    BY <1>4
  <2>2. In(f, Rect(x + hw, y + hh, w - hw, h - hh), i)
    BY <1>1, <1>2, <1>3, <1>9, <2>1 DEF In, Rect
  <2> QED
    BY <1>5, <2>2
<1> QED
  BY <1>6, <1>7, <1>8, <1>9

LEMMA QuadrantsApart ==
    ASSUME NEW f, HasSize(f), NEW r \in Tiles(f), ~TooSmall(r), NEW i \in Nat,
           NEW p \in Quadrants(r), NEW q \in Quadrants(r), In(f, p, i), In(f, q, i)
    PROVE  p = q
<1>1. PICK W \in Nat \ {0}, x \in Nat, y \in Nat, w \in Nat \ {0}, h \in Nat \ {0} :
          W = f.w /\ x = r.x /\ y = r.y /\ w = r.w /\ h = r.h
  BY TileIs DEF HasSize
<1>2. PICK a \in Nat, c \in Nat : a = Row(W, i) /\ c = Col(W, i)
  BY RowColIs
<1>4. PICK hw \in Nat, hh \in Nat : hw = w \div 2 /\ hh = h \div 2 /\ hw <= w /\ hh <= h
  OBVIOUS
<1> DEFINE A == Rect(x, y, hw, hh)
           B == Rect(x + hw, y, w - hw, hh)
           C == Rect(x, y + hh, hw, h - hh)
           D == Rect(x + hw, y + hh, w - hw, h - hh)
<1>5. Quadrants(r) = {A, B, C, D}
  BY <1>1, <1>4 DEF Quadrants
<1>6. /\ In(f, A, i) => a < y + hh /\ c < x + hw
      /\ In(f, B, i) => a < y + hh /\ x + hw <= c
      /\ In(f, C, i) => y + hh <= a /\ c < x + hw
      /\ In(f, D, i) => y + hh <= a /\ x + hw <= c
  BY <1>1, <1>2 DEF In, Rect
<1> HIDE DEF A, B, C, D
<1>7. /\ a < y + hh => ~(y + hh <= a)
      /\ c < x + hw => ~(x + hw <= c)
  OBVIOUS
<1> QED
  BY <1>5, <1>6, <1>7

--------------------------------------------------------------------------------
(* The recursion of the detector.                                                *)

Less == OpToRel(<, Nat)

\* Induction over the numbers, for a set of them.
LEMMA AllNumbers ==
    ASSUME NEW S, 0 \in S, \A n \in Nat : n \in S => n + 1 \in S
    PROVE  \A n \in Nat : n \in S
<1>1. SUFFICES ASSUME NEW m \in Nat, m \notin S
               PROVE  FALSE
  OBVIOUS
<1> DEFINE T == {n \in Nat : n \notin S}
<1>2. T \subseteq Nat /\ T # {}
  BY <1>1
<1> HIDE DEF T
<1>3. PICK x \in T : \A y \in T : ~ (<<y, x>> \in Less)
  <2>1. IsWellFoundedOn(Less, Nat)
    BY NatLessThanWellFounded DEF Less
  <2> QED
    BY <1>2, <2>1, WFMin
<1>4. x \in Nat /\ x \notin S
  BY <1>2 DEF T
<1>5. PICK y \in Nat : x = y + 1
  <2>1. x # 0
    BY <1>4
  <2>2. x - 1 \in Nat /\ x = (x - 1) + 1
    BY <1>4, <2>1
  <2> QED
    BY <2>2
<1>6. y \in T
  BY <1>4, <1>5 DEF T
<1>7. <<y, x>> \in Less
  BY <1>4, <1>5 DEF Less, OpToRel
<1> QED
  BY <1>3, <1>6, <1>7

\* One call of subdivide, given the results of the calls it makes.
Call(curr, before, g, r) ==
    IF Changed(curr, before, r) = {} THEN {}
    ELSE IF TooSmall(r) \/ Dense(r, Cardinality(Changed(curr, before, r))) THEN {r}
    ELSE UNION {g[q] : q \in Quadrants(r)}

\* Tiles get smaller with every call, so that subdivide has a result for each of them.
LEMMA SubdivideIs ==
    ASSUME NEW curr, NEW before, HasSize(curr)
    PROVE  \E g : /\ \A r \in Tiles(curr) : g[r] = Call(curr, before, g, r)
                  /\ Subdivide(curr, before) = g[Whole(curr)]
<1> DEFINE Upto(g, n) == \A r \in Tiles(curr) :
                             SizeOf(r) <= n => g[r] = Call(curr, before, g, r)
           S == {n \in Nat : \E g : Upto(g, n)}
<1>1. \A r \in Tiles(curr) : SizeOf(r) \in Nat /\ SizeOf(r) > 0 /\ SizeOf(r) <= curr.w + curr.h
  <2>1. SUFFICES ASSUME NEW r \in Tiles(curr)
                 PROVE  SizeOf(r) \in Nat /\ SizeOf(r) > 0 /\ SizeOf(r) <= curr.w + curr.h
    OBVIOUS
  <2>2. /\ r.x \in Nat /\ r.y \in Nat /\ r.w \in Nat \ {0} /\ r.h \in Nat \ {0}
        /\ r.x + r.w <= curr.w /\ r.y + r.h <= curr.h
    BY TileIs
  <2> QED
    BY <2>2 DEF SizeOf, HasSize
<1>2. 0 \in S
  <2>1. Upto(<<>>, 0)
    BY <1>1
  <2> QED
    BY <2>1
<1>3. ASSUME NEW n \in Nat, n \in S
      PROVE  n + 1 \in S
  <2>1. PICK g : Upto(g, n)
    BY <1>3
  <2> DEFINE G == [r \in Tiles(curr) |->
                     IF SizeOf(r) <= n THEN g[r] ELSE Call(curr, before, g, r)]
  <2>2. \A r \in Tiles(curr) : SizeOf(r) <= n => G[r] = g[r]
    OBVIOUS
  <2>3. \A r \in Tiles(curr) : G[r] = Call(curr, before, g, r)
    BY <2>1
  <2> HIDE DEF G
  <2>4. ASSUME NEW r \in Tiles(curr), SizeOf(r) <= n + 1, ~TooSmall(r), NEW q \in Quadrants(r)
        PROVE  G[q] = g[q]
    <3>1. q \in Tiles(curr) /\ SizeOf(q) \in Nat /\ SizeOf(q) < SizeOf(r)
      BY <2>4, QuadrantIs
    <3>2. SizeOf(q) <= n
      BY <1>1, <2>4, <3>1
    <3> QED
      BY <2>2, <3>1, <3>2
  <2>5. ASSUME NEW r \in Tiles(curr), SizeOf(r) <= n + 1
        PROVE  Call(curr, before, G, r) = Call(curr, before, g, r)
    <3>1. CASE TooSmall(r)
      BY <3>1 DEF Call
    <3>2. CASE ~TooSmall(r)
      <4>1. \A q \in Quadrants(r) : G[q] = g[q]
        BY <2>4, <2>5, <3>2
      <4>2. {G[q] : q \in Quadrants(r)} = {g[q] : q \in Quadrants(r)}
        BY <4>1
      <4> QED
        BY <4>2 DEF Call
    <3> QED
      BY <3>1, <3>2
  <2>6. Upto(G, n + 1)
    BY <2>3, <2>5
  <2> QED
    BY <2>6
<1> HIDE DEF S
<1>4. \A n \in Nat : n \in S
  BY <1>2, <1>3, AllNumbers
<1>5. PICK g : Upto(g, curr.w + curr.h)
  <2>1. curr.w + curr.h \in Nat
    BY DEF HasSize
  <2> QED
    BY <1>4, <2>1 DEF S
<1>6. \A r \in Tiles(curr) : g[r] = Call(curr, before, g, r)
  BY <1>1, <1>5
<1> DEFINE F == [r \in Tiles(curr) |-> g[r]]
<1>7. F = [r \in Tiles(curr) |-> Call(curr, before, F, r)]
  <2>1. ASSUME NEW r \in Tiles(curr)
        PROVE  Call(curr, before, F, r) = Call(curr, before, g, r)
    <3>1. CASE TooSmall(r)
      BY <3>1 DEF Call
    <3>2. CASE ~TooSmall(r)
      <4>1. \A q \in Quadrants(r) : F[q] = g[q]
        BY <3>2, QuadrantIs
      <4>2. {F[q] : q \in Quadrants(r)} = {g[q] : q \in Quadrants(r)}
        BY <4>1
      <4> QED
        BY <4>2 DEF Call
    <3> QED
      BY <3>1, <3>2
  <2> QED
    BY <1>6, <2>1
<1> HIDE DEF F
<1> DEFINE d == CHOOSE dirty : dirty = [r \in Tiles(curr) |-> Call(curr, before, dirty, r)]
<1>8. d = [r \in Tiles(curr) |-> Call(curr, before, d, r)]
  BY <1>7
<1>9. Subdivide(curr, before) = d[Whole(curr)]
  BY DEF Subdivide, Call
<1> QED
  <2>1. \A r \in Tiles(curr) : d[r] = Call(curr, before, d, r)
    <3> HIDE DEF d
    <3> QED
      BY <1>8
  <2> QED
    BY <1>9, <2>1

\* What subdivide returns for a tile: tiles inside it that do not overlap, each with a
\* change in it and dense with changes or too small to be split, which hold every changed
\* pixel of the tile.
Exact(curr, before, rects, r) ==
    /\ \A s \in rects : /\ s \in Tiles(curr)
                        /\ Changed(curr, before, s) # {}
                        /\ TooSmall(s) \/ Dense(s, Cardinality(Changed(curr, before, s)))
                        /\ \A i \in Nat : In(curr, s, i) => In(curr, r, i)
    /\ \A s, t \in rects : \A i \in Nat : In(curr, s, i) /\ In(curr, t, i) => s = t
    /\ \A i \in Changed(curr, before, r) : \E s \in rects : In(curr, s, i)

\* If the calls for the quadrants are exact, so is the call for the tile.
LEMMA CallExact ==
    ASSUME NEW curr, NEW before, HasSize(curr), NEW g, NEW r \in Tiles(curr),
           g[r] = Call(curr, before, g, r),
           ~TooSmall(r) => \A q \in Quadrants(r) : Exact(curr, before, g[q], q)
    PROVE  Exact(curr, before, g[r], r)
<1>1. \A i : i \in Changed(curr, before, r) <=>
                 /\ i \in Nat /\ In(curr, r, i)
                 /\ Differs(curr.data[i], before.data[i])
  BY InsideIs DEF Changed
<1>2. CASE Changed(curr, before, r) = {}
  <2>1. g[r] = {}
    BY <1>2 DEF Call
  <2> QED
    BY <1>2, <2>1 DEF Exact
<1>3. CASE /\ Changed(curr, before, r) # {}
           /\ TooSmall(r) \/ Dense(r, Cardinality(Changed(curr, before, r)))
  <2>1. g[r] = {r}
    BY <1>3 DEF Call
  <2> QED
    BY <1>1, <1>3, <2>1 DEF Exact
<1>4. CASE /\ Changed(curr, before, r) # {}
           /\ ~TooSmall(r) /\ ~Dense(r, Cardinality(Changed(curr, before, r)))
  <2>1. g[r] = UNION {g[q] : q \in Quadrants(r)}
    BY <1>4 DEF Call
  <2>2. \A s \in g[r] : \E q \in Quadrants(r) : s \in g[q]
    BY <2>1
  <2>3. \A q \in Quadrants(r) : q \in Tiles(curr) /\ \A i \in Nat : In(curr, q, i) => In(curr, r, i)
    BY <1>4, QuadrantIs
  <2>4. ASSUME NEW s \in g[r]
        PROVE  /\ s \in Tiles(curr)
               /\ Changed(curr, before, s) # {}
               /\ TooSmall(s) \/ Dense(s, Cardinality(Changed(curr, before, s)))
               /\ \A i \in Nat : In(curr, s, i) => In(curr, r, i)
    <3>1. PICK q \in Quadrants(r) : s \in g[q]
      BY <2>2
    <3>2. Exact(curr, before, g[q], q)
      BY <1>4
    <3> QED
      BY <2>3, <3>1, <3>2 DEF Exact
  <2>5. ASSUME NEW s \in g[r], NEW t \in g[r], NEW i \in Nat, In(curr, s, i), In(curr, t, i)
        PROVE  s = t
    <3>1. PICK p \in Quadrants(r) : s \in g[p]
      BY <2>2
    <3>2. PICK q \in Quadrants(r) : t \in g[q]
      BY <2>2
    <3>3. Exact(curr, before, g[p], p) /\ Exact(curr, before, g[q], q)
      BY <1>4
    <3>4. In(curr, p, i) /\ In(curr, q, i)
      BY <2>5, <3>1, <3>2, <3>3 DEF Exact
    <3>5. p = q
      BY <1>4, <3>4, QuadrantsApart
    <3> QED
      BY <2>5, <3>1, <3>2, <3>3, <3>5 DEF Exact
  <2>6. ASSUME NEW i \in Changed(curr, before, r)
        PROVE  \E s \in g[r] : In(curr, s, i)
    <3>1. i \in Nat /\ In(curr, r, i) /\ Differs(curr.data[i], before.data[i])
      BY <1>1
    <3>2. PICK q \in Quadrants(r) : In(curr, q, i)
      BY <1>4, <3>1, QuadrantsCover
    <3>3. i \in Changed(curr, before, q)
      BY <2>3, <3>1, <3>2, InsideIs DEF Changed
    <3>4. PICK s \in g[q] : In(curr, s, i)
      BY <1>4, <3>3 DEF Exact
    <3>5. s \in g[r]
      BY <2>1, <3>4
    <3> QED
      BY <3>4, <3>5
  <2> QED
    BY <2>4, <2>5, <2>6 DEF Exact
<1> QED
  BY <1>2, <1>3, <1>4

LEMMA SubdivideExact ==
    ASSUME NEW curr, NEW before, HasSize(curr)
    PROVE  Exact(curr, before, Subdivide(curr, before), Whole(curr))
<1>1. PICK g : /\ \A r \in Tiles(curr) : g[r] = Call(curr, before, g, r)
               /\ Subdivide(curr, before) = g[Whole(curr)]
  BY SubdivideIs
<1> DEFINE S == {n \in Nat : \A r \in Tiles(curr) :
                                 SizeOf(r) <= n => Exact(curr, before, g[r], r)}
<1>2. \A r \in Tiles(curr) : SizeOf(r) \in Nat /\ SizeOf(r) > 0
  <2>1. SUFFICES ASSUME NEW r \in Tiles(curr)
                 PROVE  SizeOf(r) \in Nat /\ SizeOf(r) > 0
    OBVIOUS
  <2>2. r.w \in Nat \ {0} /\ r.h \in Nat \ {0}
    BY TileIs
  <2> QED
    BY <2>2 DEF SizeOf
<1>3. 0 \in S
  BY <1>2
<1>4. ASSUME NEW n \in Nat, n \in S
      PROVE  n + 1 \in S
  <2>1. ASSUME NEW r \in Tiles(curr), SizeOf(r) <= n + 1
        PROVE  Exact(curr, before, g[r], r)
    <3>1. ASSUME ~TooSmall(r), NEW q \in Quadrants(r)
          PROVE  Exact(curr, before, g[q], q)
      <4>1. q \in Tiles(curr) /\ SizeOf(q) \in Nat /\ SizeOf(q) < SizeOf(r)
        BY <3>1, QuadrantIs
      <4>2. SizeOf(q) <= n
        BY <1>2, <2>1, <4>1
      <4> QED
        BY <1>4, <4>1, <4>2
    <3> QED
      BY <1>1, <3>1, CallExact
  <2> QED
    BY <2>1
<1> HIDE DEF S
<1>5. \A n \in Nat : n \in S
  BY <1>3, <1>4, AllNumbers
<1>6. Whole(curr) \in Tiles(curr)
  BY WholeIs
<1>7. SizeOf(Whole(curr)) \in S
  BY <1>2, <1>5, <1>6
<1>8. Exact(curr, before, g[Whole(curr)], Whole(curr))
  BY <1>2, <1>6, <1>7 DEF S
<1> QED
  BY <1>1, <1>8

\* For any two frames, in the terms of QuadTree: the rectangles the detector finds are tiles
\* of the frame, cover each changed pixel, once, each has a change in it, and no more is
\* sent than the threshold allows.
THEOREM SubdivideCorrect ==
    ASSUME NEW curr, NEW before, HasSize(curr)
    PROVE  /\ IsDirtyCover(Subdivide(curr, before), curr, before)
           /\ IsTight(Subdivide(curr, before), curr, before)
           /\ \A r \in Subdivide(curr, before) : r \in Tiles(curr)
<1> DEFINE rects == Subdivide(curr, before)
<1>1. Exact(curr, before, rects, Whole(curr))
  BY SubdivideExact
<1> HIDE DEF rects
<1>2. \A r \in rects : r \in Tiles(curr)
  BY <1>1 DEF Exact
<1>3. IsTight(rects, curr, before)
  BY <1>1 DEF Exact, IsTight
<1>4. \A r \in rects : /\ r.x + r.w <= curr.w /\ r.y + r.h <= curr.h
                       /\ Changed(curr, before, r) # {}
  BY <1>1, <1>2, TileIs DEF Exact
<1>5. \A r, s \in rects : r # s => Inside(curr.w, r) \cap Inside(curr.w, s) = {}
  <2>1. SUFFICES ASSUME NEW r \in rects, NEW s \in rects, NEW i,
                        i \in Inside(curr.w, r), i \in Inside(curr.w, s)
                 PROVE  r = s
    OBVIOUS
  <2>2. i \in Nat /\ In(curr, r, i) /\ In(curr, s, i)
    BY <1>2, <2>1, InsideIs
  <2> QED
    BY <1>1, <2>2 DEF Exact
<1>6. Changed(curr, before, Whole(curr)) \subseteq UNION {Inside(curr.w, r) : r \in rects}
  <2>1. SUFFICES ASSUME NEW i \in Changed(curr, before, Whole(curr))
                 PROVE  \E r \in rects : i \in Inside(curr.w, r)
    OBVIOUS
  <2>2. i \in Nat
    BY WholeIs, InsideIs DEF Changed
  <2>3. PICK r \in rects : In(curr, r, i)
    BY <1>1 DEF Exact
  <2> QED
    BY <1>2, <2>2, <2>3, InsideIs
<1> QED
  BY <1>2, <1>3, <1>4, <1>5, <1>6 DEF IsDirtyCover, rects
--------------------------------------------------------------------------------
(* Messages.                                                                     *)

\* The pixels of an encoded rectangle are those of the tile, at their places.
LEMMA RectIs ==
    ASSUME NEW f, HasSize(f), NEW r \in Tiles(f), NEW e, e = EncodeRect(f, r)
    PROVE  /\ \A k \in DOMAIN e.px : /\ Target(e, k, f.w) \in Inside(f.w, r)
                                     /\ e.px[k] = f.data[Target(e, k, f.w)]
           /\ \A i \in Inside(f.w, r) : \E k \in DOMAIN e.px : Target(e, k, f.w) = i
<1>1. PICK W \in Nat \ {0}, x \in Nat, y \in Nat, w \in Nat \ {0}, h \in Nat \ {0} :
          W = f.w /\ x = r.x /\ y = r.y /\ w = r.w /\ h = r.h
  BY TileIs DEF HasSize
<1>2. x + w <= W
  BY <1>1, TileIs
<1>3. /\ e.x = x /\ e.y = y /\ e.w = w
      /\ DOMAIN e.px = Indices(w, h)
      /\ \A k \in Indices(w, h) : e.px[k] = f.data[(y + (k \div w)) * W + x + (k % w)]
  BY <1>1 DEF EncodeRect
<1>4. \A k \in Indices(w, h) : k \in Nat
  <2>1. w * h \in Nat
    OBVIOUS
  <2> QED
    BY <2>1 DEF Indices
<1>5. ASSUME NEW k \in Indices(w, h)
      PROVE  /\ Target(e, k, W) \in Inside(W, r)
             /\ e.px[k] = f.data[Target(e, k, W)]
  <2>1. PICK q \in Nat, c \in Nat : q = Row(w, k) /\ c = Col(w, k) /\ c < w
    BY <1>4, RowColIs
  <2>2. q < h
    BY <1>4, <2>1, IndexIs
  <2>3. Target(e, k, W) = (y + q) * W + x + c
    BY <1>3, <2>1 DEF Target, Row, Col
  <2>4. e.px[k] = f.data[(y + q) * W + x + c]
    BY <1>3, <2>1 DEF Row, Col
  <2>5. y + q \in Nat /\ x + c \in Nat /\ x + c < W
    BY <1>2, <2>1
  <2>6. /\ (y + q) * W + (x + c) \in Nat
        /\ Row(W, (y + q) * W + (x + c)) = y + q
        /\ Col(W, (y + q) * W + (x + c)) = x + c
    BY <2>5, PixelAt
  <2>7. (y + q) * W + (x + c) = (y + q) * W + x + c
    <3>1. (y + q) * W \in Nat
      BY <2>5
    <3> QED
      BY <2>1, <3>1
  <2>8. In(f, r, (y + q) * W + (x + c))
    BY <1>1, <2>1, <2>2, <2>6 DEF In
  <2> QED
    BY <1>1, <2>3, <2>4, <2>6, <2>7, <2>8, InsideIs
<1>6. ASSUME NEW i \in Inside(W, r)
      PROVE  \E k \in Indices(w, h) : Target(e, k, W) = i
  <2>1. i \in Nat /\ In(f, r, i)
    BY <1>1, InsideIs
  <2>2. PICK a \in Nat, b \in Nat : a = Row(W, i) /\ b = Col(W, i) /\ b < W /\ i = a * W + b
    <3>1. /\ Row(W, i) \in Nat /\ Col(W, i) \in Nat /\ Col(W, i) < W
          /\ i = Row(W, i) * W + Col(W, i)
      BY <2>1, RowColIs
    <3> QED
      BY <3>1
  <2>3. y <= a /\ a < y + h /\ x <= b /\ b < x + w
    BY <1>1, <2>1, <2>2 DEF In
  <2>4. PICK q \in Nat, c \in Nat : a = y + q /\ b = x + c
    <3>1. a - y \in Nat /\ b - x \in Nat /\ a = y + (a - y) /\ b = x + (b - x)
      BY <2>3
    <3> QED
      BY <3>1
  <2>5. q < h /\ c < w
    BY <2>3, <2>4
  <2>6. q * w + c \in Nat /\ Row(w, q * w + c) = q /\ Col(w, q * w + c) = c
    BY <2>5, PixelAt
  <2>7. q * w + c \in Indices(w, h)
    BY <2>5, <2>6, IndexIs
  <2>8. Target(e, q * w + c, W) = (y + q) * W + x + c
    BY <1>3, <2>6 DEF Target, Row, Col
  <2>9. (y + q) * W + x + c = i
    <3>1. a * W \in Nat
      OBVIOUS
    <3> QED
      BY <2>2, <2>4, <3>1
  <2> QED
    BY <2>7, <2>8, <2>9
<1> QED
  BY <1>1, <1>3, <1>5, <1>6

\* What a message is of: the picture f, of which it has the pixels in some set.
Carries(msg, f, pixels) ==
    /\ msg.w = f.w /\ msg.h = f.h
    /\ Covered(msg) = pixels
    /\ \A i \in pixels : Hits(msg, i) # {}
    /\ \A i : \A hit \in Hits(msg, i) : i \in pixels /\ hit[1].px[hit[2]] = f.data[i]

LEMMA MessageIs ==
    ASSUME NEW f, HasSize(f), NEW rects \in SUBSET Tiles(f)
    PROVE  /\ Carries(EncodeVideoFrame(rects, f), f, Pixels(rects, f))
           /\ Pixels(rects, f) \subseteq Indices(f.w, f.h)
<1> DEFINE msg == EncodeVideoFrame(rects, f)
           pixels == Pixels(rects, f)
<1>1. msg.w = f.w /\ msg.h = f.h /\ msg.rects = {EncodeRect(f, r) : r \in rects}
  BY DEF EncodeVideoFrame
<1>2. \A i : i \in pixels <=> \E r \in rects : i \in Inside(f.w, r)
  BY DEF Pixels
<1>3. \A i : i \in Covered(msg) <=>
                 \E e \in msg.rects : \E k \in DOMAIN e.px : Target(e, k, msg.w) = i
  BY DEF Covered
<1>4. \A i : \A hit \in Hits(msg, i) :
          \E e \in msg.rects : \E k \in DOMAIN e.px :
              hit[1] = e /\ hit[2] = k /\ Target(e, k, msg.w) = i
  BY DEF Hits
<1>5. \A e \in msg.rects : \A k \in DOMAIN e.px : <<e, k>> \in Hits(msg, Target(e, k, msg.w))
  BY DEF Hits
<1> HIDE DEF msg, pixels
<1>6. ASSUME NEW i \in pixels
      PROVE  \E e \in msg.rects : \E k \in DOMAIN e.px : Target(e, k, msg.w) = i
  <2>1. PICK r \in rects : i \in Inside(f.w, r)
    BY <1>2
  <2>2. EncodeRect(f, r) \in msg.rects
    BY <1>1
  <2>3. \E k \in DOMAIN EncodeRect(f, r).px : Target(EncodeRect(f, r), k, f.w) = i
    BY <2>1, RectIs
  <2> QED
    BY <1>1, <2>2, <2>3
<1>7. ASSUME NEW e \in msg.rects, NEW k \in DOMAIN e.px
      PROVE  Target(e, k, msg.w) \in pixels /\ e.px[k] = f.data[Target(e, k, msg.w)]
  <2>1. PICK r \in rects : e = EncodeRect(f, r)
    BY <1>1
  <2>2. Target(e, k, f.w) \in Inside(f.w, r) /\ e.px[k] = f.data[Target(e, k, f.w)]
    BY <1>7, <2>1, RectIs
  <2> QED
    BY <1>1, <1>2, <2>2
<1>8. Covered(msg) = pixels
  <2>1. \A i : i \in Covered(msg) => i \in pixels
    BY <1>3, <1>7
  <2>2. \A i : i \in pixels => i \in Covered(msg)
    BY <1>3, <1>6
  <2> QED
    BY <2>1, <2>2
<1>9. \A i \in pixels : Hits(msg, i) # {}
  BY <1>5, <1>6
<1>10. \A i : \A hit \in Hits(msg, i) : i \in pixels /\ hit[1].px[hit[2]] = f.data[i]
  BY <1>4, <1>7
<1>11. pixels \subseteq Indices(f.w, f.h)
  <2>1. SUFFICES ASSUME NEW i \in pixels
                 PROVE  i \in Indices(f.w, f.h)
    OBVIOUS
  <2>2. PICK r \in rects : i \in Inside(f.w, r)
    BY <1>2
  <2>3. i \in Nat /\ In(f, r, i)
    BY <2>2, InsideIs
  <2>4. PICK H \in Nat, y \in Nat, h \in Nat : H = f.h /\ y = r.y /\ h = r.h /\ y + h <= H
    BY TileIs DEF HasSize
  <2>5. Row(f.w, i) \in Nat
    BY <2>3, RowColIs DEF HasSize
  <2>6. Row(f.w, i) < H
    BY <2>3, <2>4, <2>5 DEF In
  <2> QED
    BY <2>3, <2>4, <2>6, IndexIs DEF HasSize
<1> QED
  BY <1>1, <1>8, <1>9, <1>10, <1>11 DEF Carries, msg, pixels

\* What the detector finds dirty is a set of tiles; a pixel outside of it has not changed.
LEMMA DirtyRectsIs ==
    ASSUME NEW f, HasSize(f)
    PROVE  /\ DirtyRects(f) \in SUBSET Tiles(f)
           /\ prev = NoFrame => Pixels(DirtyRects(f), f) = Indices(f.w, f.h)
           /\ prev # NoFrame =>
                \A i \in Indices(f.w, f.h) \ Pixels(DirtyRects(f), f) :
                    ~Differs(f.data[i], prev.data[i])
<1>1. CASE prev = NoFrame
  <2>1. DirtyRects(f) = {Whole(f)}
    BY <1>1 DEF DirtyRects
  <2> QED
    BY <1>1, <2>1, WholeIs DEF Pixels
<1>2. CASE prev # NoFrame
  <2>1. DirtyRects(f) = Subdivide(f, prev)
    BY <1>2 DEF DirtyRects
  <2>2. /\ IsDirtyCover(DirtyRects(f), f, prev)
        /\ DirtyRects(f) \in SUBSET Tiles(f)
    BY <2>1, SubdivideCorrect
  <2>3. Changed(f, prev, Whole(f)) \subseteq Pixels(DirtyRects(f), f)
    BY <2>2 DEF IsDirtyCover, Pixels
  <2>4. \A i \in Indices(f.w, f.h) : Differs(f.data[i], prev.data[i])
                                        => i \in Changed(f, prev, Whole(f))
    BY WholeIs DEF Changed
  <2> QED
    BY <1>2, <2>2, <2>3, <2>4
<1> QED
  BY <1>1, <1>2
--------------------------------------------------------------------------------
(* The invariant.                                                                *)

Regions == UNION {Frames(size) : size \in Sizes}
Messages == UNION {{EncodeVideoFrame(rects, f) : rects \in SUBSET Tiles(f)} : f \in Regions}
Entries == [cap : Nat, msg : Messages]

SameSize(a, b) == a.w = b.w /\ a.h = b.h

\* The host: the detector's previous frame is of the region that is captured.
HostOK ==
    /\ cap \in 0 .. MaxCaptures /\ frames \in 0 .. MaxFrames
    /\ dims \in Sizes \cup {[w |-> 0, h |-> 0]}
    /\ prev = NoFrame \/ prev \in Regions
    /\ dims.w > 0 /\ prev # NoFrame => SameSize(prev, dims)
    /\ dims.w > 0 => quiet \in [Indices(dims.w, dims.h) -> Nat]
    /\ prev # NoFrame => quiet \in [Indices(prev.w, prev.h) -> Nat]

\* The log: the entries of a capture are together and of one size, which is that of
\* the previous frame for the capture that is going on.
LogOK ==
    /\ log \in Seq(Entries)
    /\ \A k \in 1 .. Len(log) : log[k].cap <= cap
    /\ \A j, k \in 1 .. Len(log) : j <= k => log[j].cap <= log[k].cap
    /\ \A j, k \in 1 .. Len(log) : log[j].cap = log[k].cap => SameSize(log[j].msg, log[k].msg)
    /\ \A k \in 1 .. Len(log) : log[k].cap = cap => prev # NoFrame /\ SameSize(log[k].msg, prev)

\* A viewer's place p in the log, what it lost, its queue and the last entry it showed: the
\* queue is in order and between the last two, and nothing between them is missing that
\* is not lost.
Window(p, l, q, s) ==
    /\ p \in Nat /\ s \in 0 .. p
    /\ l \subseteq 1 .. p
    /\ q \in Seq(Nat) /\ Len(q) <= QueueCap
    /\ \A i \in 1 .. Len(q) : s < q[i] /\ q[i] <= p
    /\ \A i, j \in 1 .. Len(q) : i < j => q[i] < q[j]
    /\ \A k \in Nat : s < k /\ k <= p => k \in l \/ \E i \in 1 .. Len(q) : q[i] = k

\* The buffer is as large as its size says, which is that of the entry it shows.
IsPicture(pic) ==
    /\ pic = [w |-> pic.w, h |-> pic.h, data |-> pic.data]
    /\ DOMAIN pic.data = Indices(pic.w, pic.h)
PictureOK(v) ==
    /\ IsPicture(picture[v])
    /\ shown[v] # 0 => SameSize(picture[v], log[shown[v]].msg)

ViewerOK(v) ==
    /\ v \notin joined => shown[v] = 0 /\ video_queue[v] = <<>>
    /\ position[v] <= Len(log)
    /\ Window(position[v], lost[v], video_queue[v], shown[v])
    /\ PictureOK(v)

ViewersOK ==
    /\ joined \subseteq Viewers
    /\ position \in [Viewers -> Nat] /\ shown \in [Viewers -> Nat]
    /\ lost \in [Viewers -> SUBSET Nat]
    /\ video_queue \in [Viewers -> Seq(Nat)]
    /\ picture = [v \in Viewers |-> picture[v]]
    /\ \A v \in Viewers : ViewerOK(v)

IInv == HostOK /\ LogOK /\ ViewersOK

LEMMA RegionIs ==
    ASSUME NEW f \in Regions
    PROVE  HasSize(f) /\ f # NoFrame /\ f.data \in [Indices(f.w, f.h) -> Nat]
<1>1. PICK size \in Sizes : f \in Frames(size)
  BY DEF Regions
<1>2. size.w \in Nat \ {0} /\ size.h \in Nat \ {0} /\ Values \subseteq Nat
  BY PictureAssumption
<1>3. f.w = size.w /\ f.h = size.h /\ f.data \in [Indices(f.w, f.h) -> Values]
  BY <1>1 DEF Frames
<1>4. f.data \in [Indices(f.w, f.h) -> Nat]
  BY <1>2, <1>3
<1>5. f # NoFrame
  BY <1>2, <1>3 DEF NoFrame
<1> QED
  BY <1>2, <1>3, <1>4, <1>5 DEF HasSize

LEMMA EntryIs ==
    ASSUME NEW m \in Messages
    PROVE  \E f \in Regions : Carries(m, f, Covered(m)) /\ Covered(m) \subseteq Indices(f.w, f.h)
<1>1. PICK f \in Regions : \E rects \in SUBSET Tiles(f) : m = EncodeVideoFrame(rects, f)
  BY DEF Messages
<1>2. PICK rects \in SUBSET Tiles(f) : m = EncodeVideoFrame(rects, f)
  BY <1>1
<1>3. Carries(m, f, Pixels(rects, f)) /\ Pixels(rects, f) \subseteq Indices(f.w, f.h)
  BY <1>2, RegionIs, MessageIs
<1>4. Covered(m) = Pixels(rects, f)
  BY <1>3 DEF Carries
<1> QED
  BY <1>3, <1>4

\* The next frame is of the region's size.
LEMMA NextFramesAre ==
    ASSUME HostOK, dims.w > 0, NEW frame \in NextFrames
    PROVE  frame \in Regions /\ SameSize(frame, dims)
<1>1. dims \in Sizes /\ dims.w \in Nat
  <2>1. dims # [w |-> 0, h |-> 0]
    OBVIOUS
  <2> QED
    BY <2>1, PictureAssumption DEF HostOK
<1>2. CASE prev = NoFrame
  <2>1. PICK c \in Values :
            frame = [w |-> dims.w, h |-> dims.h, data |-> [i \in Indices(dims.w, dims.h) |-> c]]
    BY <1>2 DEF NextFrames
  <2>2. frame \in Frames(dims)
    BY <2>1 DEF Frames
  <2> QED
    BY <1>1, <2>1, <2>2 DEF Regions, SameSize
<1>3. CASE prev # NoFrame
  <2>1. PICK size \in Sizes : prev \in Frames(size)
    BY <1>3 DEF HostOK, Regions
  <2>2. PICK spot \in Spots, c \in Values :
            frame = [prev EXCEPT !.data = [i \in DOMAIN @ |-> IF i \in spot THEN c ELSE @[i]]]
    BY <1>3 DEF NextFrames
  <2>3. frame = [prev EXCEPT !.data =
                   [i \in DOMAIN prev.data |-> IF i \in spot THEN c ELSE prev.data[i]]]
    BY <2>2
  <2>4. /\ prev.data \in [Indices(size.w, size.h) -> Values]
        /\ prev.w = size.w /\ prev.h = size.h
        /\ prev = [w |-> prev.w, h |-> prev.h, data |-> prev.data]
    BY <2>1 DEF Frames
  <2>5. [i \in DOMAIN prev.data |-> IF i \in spot THEN c ELSE prev.data[i]]
            \in [Indices(size.w, size.h) -> Values]
    BY <2>4
  <2>6. frame.w = size.w /\ frame.h = size.h /\ frame \in Frames(size)
    BY <2>3, <2>4, <2>5 DEF Frames
  <2> QED
    BY <1>1, <1>3, <2>1, <2>4, <2>6 DEF HostOK, Regions, SameSize
<1> QED
  BY <1>2, <1>3
--------------------------------------------------------------------------------
(* A viewer's window on the log.                                                 *)

LEMMA WindowStarts ==
    ASSUME NEW p \in Nat
    PROVE  Window(p, 1 .. p, <<>>, 0)
<1>1. <<>> \in Seq(Nat) /\ Len(<<>>) = 0
  OBVIOUS
<1>2. QueueCap \in Nat
  BY StreamAssumption
<1> QED
  BY <1>1, <1>2 DEF Window

LEMMA WindowJumps ==
    ASSUME NEW p, NEW l, NEW q, NEW s, Window(p, l, q, s), NEW b \in Nat, p <= b
    PROVE  Window(b, l \cup (p + 1 .. b), q, s)
<1>1. /\ p \in Nat /\ s \in 0 .. p /\ l \subseteq 1 .. p /\ q \in Seq(Nat) /\ Len(q) <= QueueCap
      /\ \A i \in 1 .. Len(q) : q[i] \in Nat /\ s < q[i] /\ q[i] <= p
      /\ \A i, j \in 1 .. Len(q) : i < j => q[i] < q[j]
      /\ \A k \in Nat : s < k /\ k <= p => k \in l \/ \E i \in 1 .. Len(q) : q[i] = k
  BY DEF Window
<1>2. s \in 0 .. b /\ l \cup (p + 1 .. b) \subseteq 1 .. b
  BY <1>1
<1>3. \A i \in 1 .. Len(q) : s < q[i] /\ q[i] <= b
  BY <1>1
<1>4. ASSUME NEW k \in Nat, s < k, k <= b
      PROVE  k \in l \cup (p + 1 .. b) \/ \E i \in 1 .. Len(q) : q[i] = k
  <2>1. CASE k <= p
    BY <1>1, <1>4, <2>1
  <2>2. CASE p < k
    BY <1>1, <1>4, <2>2
  <2> QED
    BY <1>1, <2>1, <2>2
<1> QED
  BY <1>1, <1>2, <1>3, <1>4 DEF Window

\* The next entry at the end of a queue that has room for it.
LEMMA WindowTakes ==
    ASSUME NEW p, NEW l, NEW q, NEW s, Window(p, l, q, s), Len(q) < QueueCap
    PROVE  Window(p + 1, l, Append(q, p + 1), s)
<1>1. /\ p \in Nat /\ s \in 0 .. p /\ l \subseteq 1 .. p /\ q \in Seq(Nat)
      /\ \A i \in 1 .. Len(q) : q[i] \in Nat /\ s < q[i] /\ q[i] <= p
      /\ \A i, j \in 1 .. Len(q) : i < j => q[i] < q[j]
      /\ \A k \in Nat : s < k /\ k <= p => k \in l \/ \E i \in 1 .. Len(q) : q[i] = k
  BY DEF Window
<1>2. PICK n \in Nat : n = Len(q)
  BY <1>1
<1> DEFINE t == Append(q, p + 1)
<1>3. /\ t \in Seq(Nat) /\ Len(t) = n + 1 /\ t[n + 1] = p + 1
      /\ \A i \in 1 .. n : t[i] = q[i]
  BY <1>1, <1>2
<1> HIDE DEF t
<1>4. \A i \in 1 .. n + 1 : i \in 1 .. n \/ i = n + 1
  OBVIOUS
<1>5. Len(t) <= QueueCap
  BY <1>2, <1>3, StreamAssumption
<1>6. \A i \in 1 .. Len(t) : s < t[i] /\ t[i] <= p + 1
  <2>1. \A i \in 1 .. n : s < t[i] /\ t[i] <= p + 1
    BY <1>1, <1>2, <1>3
  <2>2. s < t[n + 1] /\ t[n + 1] <= p + 1
    BY <1>1, <1>3
  <2> QED
    BY <1>3, <1>4, <2>1, <2>2
<1>7. \A i, j \in 1 .. Len(t) : i < j => t[i] < t[j]
  <2>1. SUFFICES ASSUME NEW i \in 1 .. n + 1, NEW j \in 1 .. n + 1, i < j
                 PROVE  t[i] < t[j]
    BY <1>3
  <2>2. i \in 1 .. n /\ t[i] = q[i]
    BY <1>2, <1>3, <2>1
  <2>3. CASE j \in 1 .. n
    BY <1>1, <1>2, <1>3, <2>1, <2>2, <2>3
  <2>4. CASE j = n + 1
    <3>1. q[i] \in Nat /\ q[i] <= p
      BY <1>1, <1>2, <2>2
    <3> QED
      BY <1>1, <1>3, <2>2, <2>4, <3>1
  <2> QED
    BY <1>4, <2>3, <2>4
<1>8. ASSUME NEW k \in Nat, s < k, k <= p + 1
      PROVE  k \in l \/ \E i \in 1 .. Len(t) : t[i] = k
  <2>1. CASE k = p + 1
    BY <1>2, <1>3, <2>1
  <2>2. CASE k <= p
    <3>1. k \in l \/ \E i \in 1 .. n : q[i] = k
      BY <1>1, <1>2, <1>8, <2>2
    <3>2. \A i \in 1 .. n : i \in 1 .. n + 1
      OBVIOUS
    <3> QED
      BY <1>3, <3>1, <3>2
  <2> QED
    BY <1>1, <1>8, <2>1, <2>2
<1>9. p + 1 \in Nat /\ s \in 0 .. p + 1 /\ l \subseteq 1 .. p + 1
  BY <1>1
<1> QED
  BY <1>3, <1>5, <1>6, <1>7, <1>8, <1>9 DEF Window, t

\* Without its first entry the queue is the window of a viewer that is past that entry;
\* up to there everything was lost.
LEMMA WindowMoves ==
    ASSUME NEW p, NEW l, NEW q, NEW s, Window(p, l, q, s), q # <<>>
    PROVE  /\ Head(q) \in Nat /\ s < Head(q) /\ Head(q) <= p
           /\ Window(p, l, Tail(q), Head(q))
           /\ Len(Tail(q)) < Len(q)
           /\ \A k \in Nat : s < k /\ k < Head(q) => k \in l
<1>1. /\ p \in Nat /\ s \in 0 .. p /\ l \subseteq 1 .. p /\ q \in Seq(Nat) /\ Len(q) <= QueueCap
      /\ \A i \in 1 .. Len(q) : q[i] \in Nat /\ s < q[i] /\ q[i] <= p
      /\ \A i, j \in 1 .. Len(q) : i < j => q[i] < q[j]
      /\ \A k \in Nat : s < k /\ k <= p => k \in l \/ \E i \in 1 .. Len(q) : q[i] = k
  BY DEF Window
<1>2. PICK n \in Nat : n + 1 = Len(q)
  <2>1. Len(q) \in Nat /\ Len(q) # 0
    BY <1>1
  <2>2. Len(q) - 1 \in Nat /\ (Len(q) - 1) + 1 = Len(q)
    BY <2>1
  <2> QED
    BY <2>2
<1> DEFINE t == Tail(q)
           h == Head(q)
<1>3. /\ t \in Seq(Nat) /\ Len(t) = n /\ h = q[1]
      /\ \A i \in 1 .. n : t[i] = q[i + 1]
  BY <1>1, <1>2
<1> HIDE DEF t, h
<1>4. 1 \in 1 .. n + 1 /\ \A i \in 1 .. n : i + 1 \in 1 .. n + 1 /\ 1 < i + 1
  OBVIOUS
<1>5. h \in Nat /\ s < h /\ h <= p
  BY <1>1, <1>2, <1>3, <1>4
<1>6. \A i \in 1 .. n : t[i] \in Nat /\ h < t[i] /\ t[i] <= p
  BY <1>1, <1>2, <1>3, <1>4
<1>7. \A i, j \in 1 .. n : i < j => t[i] < t[j]
  <2>1. SUFFICES ASSUME NEW i \in 1 .. n, NEW j \in 1 .. n, i < j
                 PROVE  t[i] < t[j]
    OBVIOUS
  <2>2. /\ i + 1 \in 1 .. Len(q) /\ j + 1 \in 1 .. Len(q) /\ i + 1 < j + 1
        /\ t[i] = q[i + 1] /\ t[j] = q[j + 1]
    BY <1>2, <1>3, <2>1
  <2> QED
    BY <1>1, <2>2
<1>8. ASSUME NEW k \in Nat, s < k, k <= p
      PROVE  \/ k \in l
             \/ k = h
             \/ h < k /\ \E i \in 1 .. n : t[i] = k
  <2>1. CASE k \in l
    BY <2>1
  <2>2. CASE k \notin l
    <3>1. PICK i \in 1 .. n + 1 : q[i] = k
      BY <1>1, <1>2, <1>8, <2>2
    <3>2. CASE i = 1
      BY <1>3, <3>1, <3>2
    <3>3. CASE i # 1
      <4>1. PICK j \in 1 .. n : i = j + 1
        <5>1. i - 1 \in 1 .. n /\ i = (i - 1) + 1
          BY <3>3
        <5> QED
          BY <5>1
      <4>2. t[j] = k
        BY <1>3, <3>1, <4>1
      <4>3. h < k
        BY <1>6, <4>2
      <4> QED
        BY <4>2, <4>3
    <3> QED
      BY <3>2, <3>3
  <2> QED
    BY <2>1, <2>2
<1>9. \A k \in Nat : s < k /\ k < h => k \in l
  <2>1. SUFFICES ASSUME NEW k \in Nat, s < k, k < h
                 PROVE  k \in l
    OBVIOUS
  <2>2. k <= p /\ k # h /\ ~(h < k)
    BY <1>1, <1>5, <2>1
  <2> QED
    BY <1>8, <2>1, <2>2
<1>10. \A k \in Nat : h < k /\ k <= p => k \in l \/ \E i \in 1 .. n : t[i] = k
  <2>1. SUFFICES ASSUME NEW k \in Nat, h < k, k <= p
                 PROVE  k \in l \/ \E i \in 1 .. n : t[i] = k
    OBVIOUS
  <2>2. s < k /\ k # h
    BY <1>1, <1>5, <2>1
  <2> QED
    BY <1>8, <2>1, <2>2
<1>11. Len(t) <= QueueCap /\ Len(t) < Len(q)
  BY <1>1, <1>2, <1>3, StreamAssumption
<1>12. h \in 0 .. p
  BY <1>1, <1>5
<1> QED
  BY <1>1, <1>3, <1>5, <1>6, <1>7, <1>9, <1>10, <1>11, <1>12 DEF Window, t, h

\* Without showing it: the entry is lost.
LEMMA WindowDrops ==
    ASSUME NEW p, NEW l, NEW q, NEW s, Window(p, l, q, s), q # <<>>
    PROVE  Window(p, l \cup {Head(q)}, Tail(q), s)
<1> DEFINE t == Tail(q)
           h == Head(q)
<1>1. /\ h \in Nat /\ s < h /\ h <= p
      /\ Window(p, l, t, h)
      /\ \A k \in Nat : s < k /\ k < h => k \in l
  BY WindowMoves
<1> HIDE DEF t, h
<1>2. /\ p \in Nat /\ s \in 0 .. p /\ l \subseteq 1 .. p
  BY DEF Window
<1>3. /\ t \in Seq(Nat) /\ Len(t) <= QueueCap
      /\ \A i \in 1 .. Len(t) : t[i] \in Nat /\ h < t[i] /\ t[i] <= p
      /\ \A i, j \in 1 .. Len(t) : i < j => t[i] < t[j]
      /\ \A k \in Nat : h < k /\ k <= p => k \in l \/ \E i \in 1 .. Len(t) : t[i] = k
  BY <1>1 DEF Window
<1>4. \A i \in 1 .. Len(t) : s < t[i] /\ t[i] <= p
  BY <1>1, <1>2, <1>3
<1>5. l \cup {h} \subseteq 1 .. p
  BY <1>1, <1>2
<1>6. ASSUME NEW k \in Nat, s < k, k <= p
      PROVE  k \in l \cup {h} \/ \E i \in 1 .. Len(t) : t[i] = k
  <2>1. k < h \/ k = h \/ h < k
    BY <1>1
  <2> QED
    BY <1>1, <1>3, <1>6, <2>1
<1> QED
  BY <1>2, <1>3, <1>4, <1>5, <1>6 DEF Window, t, h
--------------------------------------------------------------------------------
(* The steps.                                                                    *)

LEMMA InitHolds ==
    ASSUME Init
    PROVE  IInv
<1>1. HostOK
  <2>1. 0 \in 0 .. MaxCaptures /\ 0 \in 0 .. MaxFrames
    BY BoundAssumption
  <2>2. dims.w = 0
    BY DEF Init
  <2> QED
    BY <2>1, <2>2 DEF Init, HostOK
<1>2. LogOK
  <2>1. log \in Seq(Entries) /\ Len(log) = 0
    BY DEF Init
  <2> QED
    BY <2>1 DEF LogOK
<1>3. Window(0, {}, <<>>, 0)
  <2>1. 1 .. 0 = {}
    OBVIOUS
  <2> QED
    BY <2>1, WindowStarts
<1>4. DOMAIN <<>> = Indices(0, 0)
  <2>1. Indices(0, 0) = 0 .. -1
    BY DEF Indices
  <2>2. 0 .. -1 = {}
    OBVIOUS
  <2>3. DOMAIN <<>> = {}
    OBVIOUS
  <2> QED
    BY <2>1, <2>2, <2>3
<1>5. ASSUME NEW v \in Viewers
      PROVE  /\ shown[v] = 0 /\ video_queue[v] = <<>> /\ position[v] = 0 /\ lost[v] = {}
             /\ picture[v] = NotJoined
  BY DEF Init
<1>6. 0 <= Len(log)
  BY DEF Init
<1>7. ViewersOK
  <2>1. /\ joined \subseteq Viewers
        /\ position \in [Viewers -> Nat] /\ shown \in [Viewers -> Nat]
        /\ lost \in [Viewers -> SUBSET Nat]
        /\ video_queue \in [Viewers -> Seq(Nat)]
        /\ picture = [v \in Viewers |-> picture[v]]
    BY DEF Init
  <2>2. ASSUME NEW v \in Viewers
        PROVE  PictureOK(v)
    <3>1. /\ picture[v].w = 0 /\ picture[v].h = 0 /\ picture[v].data = <<>>
          /\ picture[v] = [w |-> 0, h |-> 0, data |-> <<>>]
      BY <1>5 DEF NotJoined
    <3> QED
      BY <1>4, <1>5, <3>1 DEF PictureOK, IsPicture
  <2> QED
    BY <1>3, <1>5, <1>6, <2>1, <2>2 DEF ViewersOK, ViewerOK
<1> QED
  BY <1>1, <1>2, <1>7 DEF IInv

\* The log only grows.
Extends(a, b) == Len(a) <= Len(b) /\ \A k \in 1 .. Len(a) : b[k] = a[k]

LEMMA LogExtended ==
    ASSUME IInv, [Next]_vars
    PROVE  Extends(log, log') /\ Len(log) \in Nat /\ Len(log') \in Nat
<1>1. log \in Seq(Entries) /\ Len(log) \in Nat
  BY DEF IInv, LogOK
<1>2. CASE log' = log
  BY <1>1, <1>2 DEF Extends
<1>3. ASSUME NEW e, log' = Append(log, e)
      PROVE  Extends(log, log') /\ Len(log') \in Nat
  BY <1>1, <1>3 DEF Extends
<1>4. log' = log \/ \E e : log' = Append(log, e)
  BY DEF Next, vars, viewer, StartCapture, StopCapture, CaptureFrame, Join, Lapped, Receive, Show
<1> QED
  BY <1>1, <1>2, <1>3, <1>4

LEMMA HostSame ==
    ASSUME HostOK, UNCHANGED capture
    PROVE  HostOK'
BY DEF HostOK, capture

LEMMA LogSame ==
    ASSUME LogOK, UNCHANGED <<cap, prev, log>>
    PROVE  LogOK'
BY DEF LogOK
\* A viewer whose state does not change, while the log may grow.
LEMMA ViewerSame ==
    ASSUME NEW v \in Viewers, ViewerOK(v), position[v] \in Nat, shown[v] \in Nat,
           Extends(log, log'), Len(log) \in Nat, Len(log') \in Nat,
           joined \subseteq joined',
           position'[v] = position[v], lost'[v] = lost[v], shown'[v] = shown[v],
           video_queue'[v] = video_queue[v], picture'[v] = picture[v]
    PROVE  ViewerOK(v)'
<1>1. v \notin joined' => shown'[v] = 0 /\ video_queue'[v] = <<>>
  BY DEF ViewerOK
<1>2. position'[v] <= Len(log')
  BY DEF ViewerOK, Extends
<1>3. Window(position'[v], lost'[v], video_queue'[v], shown'[v])
  BY DEF ViewerOK
<1>4. PictureOK(v)'
  <2>1. shown[v] <= position[v]
    BY DEF ViewerOK, Window
  <2>2. shown[v] # 0 => shown[v] \in 1 .. Len(log)
    BY <2>1 DEF ViewerOK
  <2>3. shown[v] # 0 => log'[shown[v]] = log[shown[v]]
    BY <2>2 DEF Extends
  <2>4. IsPicture(picture'[v])
    BY DEF ViewerOK, PictureOK
  <2>5. shown'[v] # 0 => SameSize(picture'[v], log'[shown'[v]].msg)
    BY <2>3 DEF ViewerOK, PictureOK
  <2> QED
    BY <2>4, <2>5 DEF PictureOK
<1>5. Window(position[v], lost[v], video_queue[v], shown[v])'
  BY <1>3
<1> QED
  BY <1>1, <1>2, <1>4, <1>5 DEF ViewerOK

LEMMA ViewersSame ==
    ASSUME IInv, [Next]_vars, UNCHANGED <<position, viewer>>
    PROVE  ViewersOK'
<1>1. Extends(log, log') /\ Len(log) \in Nat /\ Len(log') \in Nat
  BY LogExtended
<1>2. UNCHANGED <<position, joined, lost, video_queue, shown, picture>>
  BY DEF viewer
<1>3. ASSUME NEW v \in Viewers
      PROVE  ViewerOK(v)'
  <2>1. ViewerOK(v) /\ position[v] \in Nat /\ shown[v] \in Nat
    BY DEF IInv, ViewersOK
  <2>2. joined \subseteq joined'
    BY <1>2
  <2>3. /\ position'[v] = position[v] /\ lost'[v] = lost[v] /\ shown'[v] = shown[v]
        /\ video_queue'[v] = video_queue[v] /\ picture'[v] = picture[v]
    BY <1>2
  <2> QED
    BY <1>1, <2>1, <2>2, <2>3, ViewerSame
<1> QED
  BY <1>2, <1>3 DEF IInv, ViewersOK

\* What a step of viewer v leaves to show: the functions' types, and v itself.
LEMMA ViewerMoves ==
    ASSUME IInv, UNCHANGED log, NEW v \in Viewers,
           joined' \subseteq Viewers, joined \subseteq joined',
           NEW p \in Nat, NEW l \in SUBSET Nat, NEW q \in Seq(Nat), NEW s \in Nat, NEW pic,
           position' = [position EXCEPT ![v] = p], lost' = [lost EXCEPT ![v] = l],
           video_queue' = [video_queue EXCEPT ![v] = q], shown' = [shown EXCEPT ![v] = s],
           picture' = [picture EXCEPT ![v] = pic],
           v \notin joined' => s = 0 /\ q = <<>>,
           p <= Len(log), Window(p, l, q, s),
           IsPicture(pic),
           s # 0 => SameSize(pic, log[s].msg)
    PROVE  ViewersOK'
<1>1. /\ position' \in [Viewers -> Nat] /\ shown' \in [Viewers -> Nat]
      /\ lost' \in [Viewers -> SUBSET Nat] /\ video_queue' \in [Viewers -> Seq(Nat)]
      /\ picture' = [u \in Viewers |-> picture'[u]]
  BY DEF IInv, ViewersOK
<1>2. /\ position'[v] = p /\ shown'[v] = s /\ lost'[v] = l /\ video_queue'[v] = q
      /\ picture'[v] = pic
  BY DEF IInv, ViewersOK
<1>3. ViewerOK(v)'
  <2>1. Window(position'[v], lost'[v], video_queue'[v], shown'[v])
    BY <1>2
  <2>2. Window(position[v], lost[v], video_queue[v], shown[v])'
    BY <2>1
  <2>3. PictureOK(v)'
    BY <1>2 DEF PictureOK
  <2> QED
    BY <1>2, <2>2, <2>3 DEF ViewerOK
<1>4. ASSUME NEW u \in Viewers, u # v
      PROVE  ViewerOK(u)'
  <2>1. ViewerOK(u) /\ position[u] \in Nat /\ shown[u] \in Nat
    BY DEF IInv, ViewersOK
  <2>2. /\ position'[u] = position[u] /\ lost'[u] = lost[u] /\ shown'[u] = shown[u]
        /\ video_queue'[u] = video_queue[u] /\ picture'[u] = picture[u]
    BY <1>4 DEF IInv, ViewersOK
  <2>3. Len(log) \in Nat /\ Extends(log, log')
    BY DEF IInv, LogOK, Extends
  <2> QED
    BY <2>1, <2>2, <2>3, ViewerSame
<1> QED
  BY <1>1, <1>3, <1>4 DEF ViewersOK
LEMMA BlackIs ==
    ASSUME NEW w, NEW h
    PROVE  /\ IsPicture(Black(w, h)) /\ Black(w, h).w = w /\ Black(w, h).h = h
BY DEF IsPicture, Black

LEMMA BlitIs ==
    ASSUME NEW pic, IsPicture(pic), NEW m
    PROVE  /\ IsPicture(BlitFrame(pic, m)) /\ SameSize(BlitFrame(pic, m), m)
           /\ \A i \in DOMAIN BlitFrame(pic, m).data :
                IF Hits(m, i) # {}
                THEN BlitFrame(pic, m).data[i] = LET hit == CHOOSE hit \in Hits(m, i) : TRUE
                                                 IN  hit[1].px[hit[2]]
                ELSE SameSize(pic, m) => BlitFrame(pic, m).data[i] = pic.data[i]
<1> DEFINE c == Canvas(pic, m)
<1>1. IsPicture(c) /\ SameSize(c, m)
  <2>1. CASE SameSize(pic, m)
    BY <2>1 DEF SameSize, Canvas
  <2>2. CASE ~SameSize(pic, m)
    <3>1. c = Black(m.w, m.h)
      BY <2>2 DEF SameSize, Canvas
    <3> QED
      BY <3>1, BlackIs DEF SameSize
  <2> QED
    BY <2>1, <2>2
<1>2. SameSize(pic, m) => c = pic
  BY DEF SameSize, Canvas
<1> DEFINE d == [i \in DOMAIN c.data |->
                   IF Hits(m, i) # {} THEN LET hit == CHOOSE hit \in Hits(m, i) : TRUE
                                           IN  hit[1].px[hit[2]]
                   ELSE c.data[i]]
<1>3. BlitFrame(pic, m) = [c EXCEPT !.data = d]
  BY DEF BlitFrame
<1>4. /\ DOMAIN d = DOMAIN c.data
      /\ \A i \in DOMAIN d :
           IF Hits(m, i) # {} THEN d[i] = LET hit == CHOOSE hit \in Hits(m, i) : TRUE
                                          IN  hit[1].px[hit[2]]
           ELSE d[i] = c.data[i]
  OBVIOUS
<1> HIDE DEF c, d
<1>5. BlitFrame(pic, m) = [w |-> c.w, h |-> c.h, data |-> d]
  BY <1>1, <1>3 DEF IsPicture
<1>6. BlitFrame(pic, m).w = c.w /\ BlitFrame(pic, m).h = c.h /\ BlitFrame(pic, m).data = d
  BY <1>5
<1>7. IsPicture(BlitFrame(pic, m)) /\ SameSize(BlitFrame(pic, m), m)
  BY <1>1, <1>4, <1>5, <1>6 DEF IsPicture, SameSize
<1> QED
  BY <1>2, <1>4, <1>6, <1>7

LEMMA StartCaptureKeeps ==
    ASSUME IInv, NEW size \in Sizes, StartCapture(size), [Next]_vars
    PROVE  IInv'
<1>1. /\ cap \in 0 .. MaxCaptures /\ cap < MaxCaptures /\ cap' = cap + 1
      /\ dims' = size /\ prev' = NoFrame
      /\ quiet' = [i \in Indices(size.w, size.h) |-> 0]
      /\ UNCHANGED <<frames, log, position, viewer>>
  BY DEF IInv, HostOK, StartCapture
<1>2. cap' \in 0 .. MaxCaptures
  BY <1>1, BoundAssumption
<1>3. HostOK'
  BY <1>1, <1>2 DEF IInv, HostOK
<1>4. LogOK'
  <2>1. \A k \in 1 .. Len(log) : log[k].cap \in Nat /\ log[k].cap <= cap
    <3>1. \A k \in 1 .. Len(log) : log[k] \in Entries
      BY DEF IInv, LogOK
    <3> QED
      BY <3>1 DEF IInv, LogOK, Entries
  <2>2. \A k \in 1 .. Len(log) : log[k].cap <= cap' /\ log[k].cap # cap'
    BY <1>1, <2>1
  <2>3. log' = log
    BY <1>1
  <2> QED
    BY <2>2, <2>3 DEF IInv, LogOK
<1>5. ViewersOK'
  BY <1>1, ViewersSame
<1> QED
  BY <1>3, <1>4, <1>5 DEF IInv

LEMMA StopCaptureKeeps ==
    ASSUME IInv, StopCapture, [Next]_vars
    PROVE  IInv'
<1>1. /\ dims' = [w |-> 0, h |-> 0]
      /\ UNCHANGED <<cap, prev, frames, quiet, log, position, viewer>>
  BY DEF StopCapture
<1>2. HostOK'
  <2>1. ~(dims'.w > 0)
    BY <1>1
  <2> QED
    BY <1>1, <2>1 DEF IInv, HostOK
<1>3. LogOK'
  BY <1>1, LogSame DEF IInv
<1>4. ViewersOK'
  BY <1>1, ViewersSame
<1> QED
  BY <1>2, <1>3, <1>4 DEF IInv

\* What capturing a frame does.
LEMMA CaptureFrameDoes ==
    ASSUME IInv, dims.w > 0, NEW frame \in NextFrames, CaptureFrame(frame)
    PROVE  /\ frame \in Regions /\ SameSize(frame, dims) /\ prev' = frame
           /\ DirtyRects(frame) \in SUBSET Tiles(frame)
           /\ quiet \in [Indices(frame.w, frame.h) -> Nat]
           /\ \/ /\ log' = Append(log, [cap |-> cap,
                                        msg |-> EncodeVideoFrame(DirtyRects(frame), frame)])
                 /\ unsent' = unsent \ Pixels(DirtyRects(frame), frame)
                 /\ quiet' = [i \in DOMAIN quiet |->
                                IF i \in Pixels(DirtyRects(frame), frame) THEN 0
                                ELSE quiet[i] + 1]
              \/ /\ log' = log
                 /\ unsent' = unsent \cup Pixels(DirtyRects(frame), frame)
                 /\ quiet' = [i \in DOMAIN quiet |-> quiet[i] + 1]
           /\ UNCHANGED <<cap, dims, position, viewer>>
<1>1. frame \in Regions /\ SameSize(frame, dims)
  BY NextFramesAre DEF IInv
<1>2. DirtyRects(frame) \in SUBSET Tiles(frame)
  BY <1>1, RegionIs, DirtyRectsIs
<1>3. quiet \in [Indices(frame.w, frame.h) -> Nat]
  BY <1>1 DEF IInv, HostOK, SameSize
<1> QED
  BY <1>1, <1>2, <1>3 DEF CaptureFrame, Feed

LEMMA CaptureFrameKeeps ==
    ASSUME IInv, dims.w > 0, NEW frame \in NextFrames, CaptureFrame(frame), [Next]_vars
    PROVE  IInv'
<1> DEFINE m == EncodeVideoFrame(DirtyRects(frame), frame)
           e == [cap |-> cap, msg |-> m]
<1>1. /\ frame \in Regions /\ SameSize(frame, dims) /\ prev' = frame
      /\ DirtyRects(frame) \in SUBSET Tiles(frame)
      /\ quiet \in [Indices(frame.w, frame.h) -> Nat]
      /\ quiet' \in [Indices(frame.w, frame.h) -> Nat]
      /\ log' = log \/ log' = Append(log, e)
      /\ UNCHANGED <<cap, dims, position, viewer>>
  <2>1. ASSUME NEW s
        PROVE  /\ [i \in DOMAIN quiet |-> IF i \in s THEN 0 ELSE quiet[i] + 1]
                      \in [DOMAIN quiet -> Nat]
               /\ [i \in DOMAIN quiet |-> quiet[i] + 1] \in [DOMAIN quiet -> Nat]
    <3>1. \A i \in DOMAIN quiet : quiet[i] \in Nat
      BY CaptureFrameDoes
    <3> QED
      BY <3>1
  <2> QED
    BY <2>1, CaptureFrameDoes
<1>2. HasSize(frame) /\ frame # NoFrame
  BY <1>1, RegionIs
<1>3. frames' \in 0 .. MaxFrames
  BY BoundAssumption DEF IInv, HostOK, CaptureFrame
<1>4. HostOK'
  BY <1>1, <1>2, <1>3 DEF IInv, HostOK, SameSize
<1>5. e \in Entries /\ e.cap = cap /\ SameSize(e.msg, frame)
  <2>1. m \in Messages /\ m.w = frame.w /\ m.h = frame.h
    <3>1. m \in Messages
      BY <1>1 DEF Messages
    <3> QED
      BY <3>1 DEF EncodeVideoFrame
  <2>2. cap \in Nat
    BY DEF IInv, HostOK
  <2> QED
    BY <2>1, <2>2 DEF Entries, SameSize
<1> HIDE DEF m, e
<1>6. LogOK'
  <2>1. \A k \in 1 .. Len(log) :
            log[k].cap \in Nat /\ (log[k].cap = cap => SameSize(log[k].msg, frame))
    <3>1. \A k \in 1 .. Len(log) : log[k] \in Entries
      BY DEF IInv, LogOK
    <3>2. prev # NoFrame => SameSize(prev, dims)
      BY DEF IInv, HostOK
    <3> QED
      BY <1>1, <3>1, <3>2 DEF IInv, LogOK, Entries, SameSize
  <2>2. CASE log' = log
    BY <1>1, <1>2, <2>1, <2>2 DEF IInv, LogOK
  <2>3. CASE log' = Append(log, e)
    <3>1. PICK n \in Nat : n = Len(log)
      BY DEF IInv, LogOK
    <3>2. /\ log' \in Seq(Entries) /\ Len(log') = n + 1 /\ log'[n + 1] = e
          /\ \A k \in 1 .. n : log'[k] = log[k]
      BY <1>5, <2>3, <3>1 DEF IInv, LogOK
    <3>3. /\ \A k \in 1 .. n + 1 : k \in 1 .. n \/ k = n + 1
          /\ \A k \in 1 .. n : ~(n + 1 <= k)
      OBVIOUS
    <3>4. /\ \A k \in 1 .. n : log'[k].cap <= cap /\ log'[k].cap \in Nat
          /\ \A k \in 1 .. n : log'[k].cap = cap => SameSize(log'[k].msg, frame)
          /\ \A j, k \in 1 .. n : j <= k => log'[j].cap <= log'[k].cap
          /\ \A j, k \in 1 .. n : log'[j].cap = log'[k].cap => SameSize(log'[j].msg, log'[k].msg)
      BY <2>1, <3>1, <3>2 DEF IInv, LogOK
    <3>5. cap \in Nat /\ cap <= cap
      BY DEF IInv, HostOK
    <3>6. \A k \in 1 .. n + 1 : log'[k].cap <= cap
      BY <1>5, <3>2, <3>3, <3>4, <3>5
    <3>7. \A j, k \in 1 .. n + 1 : j <= k => log'[j].cap <= log'[k].cap
      BY <1>5, <3>2, <3>3, <3>4, <3>5
    <3>8. \A k \in 1 .. n + 1 : log'[k].cap = cap => SameSize(log'[k].msg, frame)
      BY <1>5, <3>2, <3>3, <3>4
    <3>9. \A j, k \in 1 .. n + 1 : log'[j].cap = log'[k].cap => SameSize(log'[j].msg, log'[k].msg)
      BY <1>5, <3>2, <3>3, <3>4, <3>8 DEF SameSize
    <3> QED
      BY <1>1, <1>2, <3>2, <3>6, <3>7, <3>8, <3>9 DEF LogOK
  <2> QED
    BY <1>1, <2>2, <2>3
<1>7. ViewersOK'
  BY <1>1, ViewersSame
<1> QED
  BY <1>4, <1>6, <1>7 DEF IInv
LEMMA JoinKeeps ==
    ASSUME IInv, NEW v \in Viewers, Join(v)
    PROVE  IInv'
<1>1. /\ v \notin joined /\ joined' = joined \cup {v}
      /\ UNCHANGED <<capture, log, video_queue, shown>>
  BY DEF Join
<1>2. PICK n \in Nat : n = Len(log)
  BY DEF IInv, LogOK
<1>3. PICK p \in Nat : p = (IF n > Capacity THEN n - Capacity ELSE 0) /\ p <= n
  <2>1. Capacity \in Nat
    BY StreamAssumption
  <2>2. CASE n > Capacity
    <3>1. n - Capacity \in Nat /\ n - Capacity <= n
      BY <2>1, <2>2
    <3> QED
      BY <2>2, <3>1
  <2>3. CASE ~(n > Capacity)
    BY <2>3
  <2> QED
    BY <2>2, <2>3
<1>4. position' = [position EXCEPT ![v] = p]
  BY <1>2, <1>3 DEF Join, SnapshotTail
<1>5. position'[v] = p
  BY <1>4 DEF IInv, ViewersOK
<1>6. lost' = [lost EXCEPT ![v] = 1 .. p]
  BY <1>5 DEF Join
<1>7. picture' = [picture EXCEPT ![v] = Black(dims.w, dims.h)]
  BY DEF Join
<1>8. shown[v] = 0 /\ video_queue[v] = <<>>
  BY <1>1 DEF IInv, ViewersOK, ViewerOK
<1>9. video_queue' = [video_queue EXCEPT ![v] = <<>>] /\ shown' = [shown EXCEPT ![v] = 0]
  BY <1>1, <1>8 DEF IInv, ViewersOK
<1>10. Window(p, 1 .. p, <<>>, 0)
  BY WindowStarts
<1>11. IsPicture(Black(dims.w, dims.h))
  BY BlackIs
<1>12. joined' \subseteq Viewers /\ joined \subseteq joined'
  BY <1>1 DEF IInv, ViewersOK
<1>13. 1 .. p \in SUBSET Nat /\ <<>> \in Seq(Nat) /\ 0 \in Nat /\ p <= Len(log)
  BY <1>2, <1>3
<1>14. ViewersOK'
  BY <1>1, <1>4, <1>6, <1>7, <1>9, <1>10, <1>11, <1>12, <1>13, ViewerMoves
<1>15. HostOK' /\ LogOK'
  BY <1>1, HostSame, LogSame DEF IInv, capture
<1> QED
  BY <1>14, <1>15 DEF IInv

LEMMA LappedKeeps ==
    ASSUME IInv, NEW v \in Viewers, Lapped(v)
    PROVE  IInv'
<1>1. /\ v \in joined
      /\ position[v] + Capacity < Len(log)
      /\ position' = [position EXCEPT ![v] = Len(log) - Capacity]
      /\ lost' = [lost EXCEPT ![v] = @ \cup (position[v] + 1 .. position'[v])]
      /\ UNCHANGED <<capture, log, joined, video_queue, shown, picture>>
  BY DEF Lapped, Ring!JumpForward
<1>2. PICK n \in Nat : n = Len(log)
  BY DEF IInv, LogOK
<1>3. /\ position[v] \in Nat /\ lost[v] \in SUBSET Nat /\ shown[v] \in Nat
      /\ video_queue[v] \in Seq(Nat) /\ Capacity \in Nat
      /\ ViewerOK(v)
  BY StreamAssumption DEF IInv, ViewersOK
<1>4. PICK b \in Nat : b = n - Capacity /\ position[v] <= b /\ b <= n
  <2>1. n - Capacity \in Nat /\ position[v] <= n - Capacity /\ n - Capacity <= n
    BY <1>1, <1>2, <1>3
  <2> QED
    BY <2>1
<1>5. position' = [position EXCEPT ![v] = b]
  BY <1>1, <1>2, <1>4
<1>6. position'[v] = b
  BY <1>5 DEF IInv, ViewersOK
<1>7. PICK l \in SUBSET Nat : l = lost[v] \cup (position[v] + 1 .. b)
  <2>1. \A k \in position[v] + 1 .. b : k \in Nat
    BY <1>3
  <2>2. lost[v] \cup (position[v] + 1 .. b) \in SUBSET Nat
    BY <1>3, <2>1
  <2> QED
    BY <2>2
<1>8. lost' = [lost EXCEPT ![v] = l]
  BY <1>1, <1>6, <1>7
<1>9. /\ video_queue' = [video_queue EXCEPT ![v] = video_queue[v]]
      /\ shown' = [shown EXCEPT ![v] = shown[v]]
      /\ picture' = [picture EXCEPT ![v] = picture[v]]
  BY <1>1 DEF IInv, ViewersOK
<1>10. Window(b, l, video_queue[v], shown[v])
  BY <1>3, <1>4, <1>7, WindowJumps DEF ViewerOK
<1>11. /\ IsPicture(picture[v])
       /\ shown[v] # 0 => SameSize(picture[v], log[shown[v]].msg)
  BY <1>3 DEF ViewerOK, PictureOK
<1>12. joined' \subseteq Viewers /\ joined \subseteq joined' /\ v \in joined'
  BY <1>1 DEF IInv, ViewersOK
<1>13. b <= Len(log)
  BY <1>2, <1>4
<1>14. ViewersOK'
  <2>1. UNCHANGED log /\ b \in Nat /\ l \in SUBSET Nat
    BY <1>1, <1>4, <1>7
  <2>2. video_queue[v] \in Seq(Nat) /\ shown[v] \in Nat
    BY <1>3
  <2> QED
    BY <1>5, <1>8, <1>9, <1>10, <1>11, <1>12, <1>13, <2>1, <2>2, ViewerMoves
<1>15. HostOK' /\ LogOK'
  BY <1>1, HostSame, LogSame DEF IInv, capture
<1> QED
  BY <1>14, <1>15 DEF IInv

LEMMA ReceiveKeeps ==
    ASSUME IInv, NEW v \in Viewers, Receive(v)
    PROVE  IInv'
<1> DEFINE q == video_queue[v]
           p == position[v] + 1
<1>1. /\ v \in joined
      /\ position[v] < Len(log)
      /\ position' = [position EXCEPT ![v] = p]
      /\ UNCHANGED <<capture, log, joined, shown, picture>>
  BY DEF Receive, Ring!Deliver
<1>2. /\ position[v] \in Nat /\ lost[v] \in SUBSET Nat /\ shown[v] \in Nat
      /\ q \in Seq(Nat) /\ Len(q) \in Nat /\ QueueCap \in Nat \ {0}
      /\ Len(log) \in Nat
      /\ ViewerOK(v)
  BY StreamAssumption DEF IInv, LogOK, ViewersOK
<1>3. position'[v] = p /\ p \in Nat /\ p <= Len(log)
  BY <1>1, <1>2 DEF IInv, ViewersOK
<1>4. Window(position[v], lost[v], q, shown[v])
  BY <1>2 DEF ViewerOK
<1>5. /\ shown' = [shown EXCEPT ![v] = shown[v]]
      /\ picture' = [picture EXCEPT ![v] = picture[v]]
  BY <1>1 DEF IInv, ViewersOK
<1>6. /\ IsPicture(picture[v])
      /\ shown[v] # 0 => SameSize(picture[v], log[shown[v]].msg)
  BY <1>2 DEF ViewerOK, PictureOK
<1>7. joined' \subseteq Viewers /\ joined \subseteq joined' /\ v \in joined'
  BY <1>1 DEF IInv, ViewersOK
<1> HIDE DEF q, p
<1>8. ASSUME Len(q) >= QueueCap
      PROVE  ViewersOK'
  <2> DEFINE t == Append(Tail(q), p)
             l == lost[v] \cup {Head(q)}
  <2>1. q # <<>>
    BY <1>2, <1>8
  <2>2. /\ video_queue' = [video_queue EXCEPT ![v] = t]
        /\ lost' = [lost EXCEPT ![v] = l]
    <3>1. /\ video_queue' = [video_queue EXCEPT ![v] = Append(Tail(@), position'[v])]
          /\ lost' = [lost EXCEPT ![v] = @ \cup {Head(video_queue[v])}]
      BY <1>8 DEF Receive, q
    <3> QED
      BY <1>3, <3>1 DEF q
  <2>3. /\ Window(position[v], l, Tail(q), shown[v])
        /\ Head(q) \in Nat /\ Len(Tail(q)) < Len(q) /\ Len(q) <= QueueCap
        /\ Tail(q) \in Seq(Nat)
    <3>1. Window(position[v], l, Tail(q), shown[v])
      BY <1>4, <2>1, WindowDrops
    <3>2. Head(q) \in Nat /\ Len(Tail(q)) < Len(q)
      BY <1>4, <2>1, WindowMoves
    <3>3. Len(q) <= QueueCap
      BY <1>4 DEF Window
    <3>4. Tail(q) \in Seq(Nat)
      BY <1>2, <2>1
    <3> QED
      BY <3>1, <3>2, <3>3, <3>4
  <2>4. Len(Tail(q)) < QueueCap
    BY <1>2, <2>3
  <2>5. Window(p, l, t, shown[v])
    BY <2>3, <2>4, WindowTakes DEF p
  <2>6. l \in SUBSET Nat /\ t \in Seq(Nat)
    BY <1>2, <1>3, <2>3
  <2> HIDE DEF t, l
  <2> QED
    BY <1>1, <1>2, <1>3, <1>5, <1>6, <1>7, <2>2, <2>5, <2>6, ViewerMoves
<1>9. ASSUME ~(Len(q) >= QueueCap)
      PROVE  ViewersOK'
  <2> DEFINE t == Append(q, p)
  <2>1. /\ video_queue' = [video_queue EXCEPT ![v] = t]
        /\ lost' = [lost EXCEPT ![v] = lost[v]]
    <3>1. /\ video_queue' = [video_queue EXCEPT ![v] = Append(@, position'[v])]
          /\ lost' = lost
      BY <1>9 DEF Receive, q
    <3> QED
      BY <1>3, <3>1 DEF q, IInv, ViewersOK
  <2>2. Len(q) < QueueCap
    BY <1>2, <1>9
  <2>3. Window(p, lost[v], t, shown[v])
    BY <1>4, <2>2, WindowTakes DEF p
  <2>4. t \in Seq(Nat)
    BY <1>2, <1>3
  <2> HIDE DEF t
  <2> QED
    BY <1>1, <1>2, <1>3, <1>5, <1>6, <1>7, <2>1, <2>3, <2>4, ViewerMoves
<1>10. HostOK' /\ LogOK'
  BY <1>1, HostSame, LogSame DEF IInv, capture
<1> QED
  BY <1>8, <1>9, <1>10 DEF IInv

\* What showing an entry does.
LEMMA ShowDoes ==
    ASSUME IInv, NEW v \in Viewers, Show(v)
    PROVE  /\ video_queue[v] # <<>>
           /\ \E n \in Nat :
                /\ n = Head(video_queue[v])
                /\ picture' = [picture EXCEPT ![v] = BlitFrame(picture[v], log[n].msg)]
                /\ shown' = [shown EXCEPT ![v] = n]
                /\ video_queue' = [video_queue EXCEPT ![v] = Tail(video_queue[v])]
                /\ shown[v] < n /\ n <= position[v] /\ n \in 1 .. Len(log)
                /\ Window(position[v], lost[v], Tail(video_queue[v]), n)
                /\ \A k \in Nat : shown[v] < k /\ k < n => k \in lost[v]
           /\ UNCHANGED <<capture, log, position, joined, lost>>
<1> DEFINE q == video_queue[v]
<1>1. /\ q # <<>>
      /\ picture' = [picture EXCEPT ![v] = BlitFrame(@, log[Head(q)].msg)]
      /\ shown' = [shown EXCEPT ![v] = Head(q)]
      /\ video_queue' = [video_queue EXCEPT ![v] = Tail(@)]
      /\ UNCHANGED <<capture, log, position, joined, lost>>
  BY DEF Show
<1>2. /\ Window(position[v], lost[v], q, shown[v])
      /\ position[v] \in Nat /\ shown[v] \in Nat /\ position[v] <= Len(log) /\ Len(log) \in Nat
  BY DEF IInv, LogOK, ViewersOK, ViewerOK
<1>3. /\ Head(q) \in Nat /\ shown[v] < Head(q) /\ Head(q) <= position[v]
      /\ Window(position[v], lost[v], Tail(q), Head(q))
      /\ \A k \in Nat : shown[v] < k /\ k < Head(q) => k \in lost[v]
  BY <1>1, <1>2, WindowMoves
<1>4. PICK n \in Nat : n = Head(q)
  BY <1>3
<1>5. n \in 1 .. Len(log)
  BY <1>2, <1>3, <1>4
<1>6. picture' = [picture EXCEPT ![v] = BlitFrame(picture[v], log[n].msg)]
  BY <1>1, <1>4
<1> QED
  BY <1>1, <1>3, <1>4, <1>5, <1>6

LEMMA ShowKeeps ==
    ASSUME IInv, NEW v \in Viewers, Show(v)
    PROVE  IInv'
<1>1. PICK n \in Nat :
                /\ n = Head(video_queue[v])
                /\ picture' = [picture EXCEPT ![v] = BlitFrame(picture[v], log[n].msg)]
                /\ shown' = [shown EXCEPT ![v] = n]
                /\ video_queue' = [video_queue EXCEPT ![v] = Tail(video_queue[v])]
                /\ shown[v] < n /\ n <= position[v] /\ n \in 1 .. Len(log)
                /\ Window(position[v], lost[v], Tail(video_queue[v]), n)
                /\ \A k \in Nat : shown[v] < k /\ k < n => k \in lost[v]
  BY ShowDoes
<1>2. /\ UNCHANGED <<capture, log, position, joined, lost>>
      /\ video_queue[v] # <<>>
  BY ShowDoes
<1>3. /\ position[v] \in Nat /\ lost[v] \in SUBSET Nat /\ video_queue[v] \in Seq(Nat)
      /\ position[v] <= Len(log)
      /\ IsPicture(picture[v])
      /\ v \notin joined => video_queue[v] = <<>>
  BY DEF IInv, ViewersOK, ViewerOK, PictureOK
<1>4. PICK pic : pic = BlitFrame(picture[v], log[n].msg)
  OBVIOUS
<1>5. IsPicture(pic) /\ SameSize(pic, log[n].msg)
  BY <1>3, <1>4, BlitIs
<1>6. PICK t \in Seq(Nat) : t = Tail(video_queue[v])
  <2>1. Tail(video_queue[v]) \in Seq(Nat)
    BY <1>2, <1>3
  <2> QED
    BY <2>1
<1>7. /\ position' = [position EXCEPT ![v] = position[v]]
      /\ lost' = [lost EXCEPT ![v] = lost[v]]
  BY <1>2 DEF IInv, ViewersOK
<1>8. joined' \subseteq Viewers /\ joined \subseteq joined' /\ v \in joined'
  BY <1>2, <1>3 DEF IInv, ViewersOK
<1>9. ViewersOK'
  BY <1>1, <1>2, <1>3, <1>4, <1>5, <1>6, <1>7, <1>8, ViewerMoves
<1>10. HostOK' /\ LogOK'
  BY <1>2, HostSame, LogSame DEF IInv, capture
<1> QED
  BY <1>9, <1>10 DEF IInv

LEMMA IInvInductive ==
    ASSUME IInv, [Next]_vars
    PROVE  IInv'
<1>1. CASE UNCHANGED vars
  <2>1. UNCHANGED <<capture, log, position, viewer>>
    BY <1>1 DEF vars
  <2>2. HostOK' /\ LogOK'
    BY <2>1, HostSame, LogSame DEF IInv, capture
  <2> QED
    BY <2>1, <2>2, ViewersSame DEF IInv
<1>2. CASE \E size \in Sizes : StartCapture(size)
  BY <1>2, StartCaptureKeeps
<1>3. CASE StopCapture
  BY <1>3, StopCaptureKeeps
<1>4. CASE \E frame \in NextFrames : CaptureFrame(frame)
  BY <1>4, CaptureFrameKeeps DEF CaptureFrame
<1>5. CASE \E v \in Viewers : Join(v) \/ Lapped(v) \/ Receive(v) \/ Show(v)
  BY <1>5, JoinKeeps, LappedKeeps, ReceiveKeeps, ShowKeeps
<1> QED
  BY <1>1, <1>2, <1>3, <1>4, <1>5 DEF Next
--------------------------------------------------------------------------------
(* Theorems.                                                                     *)

LEMMA Invariant == Spec => []IInv
<1>1. Init => IInv
  BY InitHolds
<1>2. IInv /\ [Next]_vars => IInv'
  BY IInvInductive
<1> QED
  BY <1>1, <1>2, PTL DEF Spec

\* The pixels a viewer shows are as many as its picture is large, and the entries in its
\* queue are between the last one shown and its place in the log.
THEOREM TypeCorrect == Spec => []TypeOK
<1>1. ASSUME IInv
      PROVE  TypeOK
  <2>1. prev = NoFrame \/ \E size \in Sizes : prev \in Frames(size)
    BY <1>1 DEF IInv, HostOK, Regions
  <2>2. ASSUME NEW v \in Viewers
        PROVE  /\ position[v] \in 0 .. Len(log)
               /\ lost[v] \subseteq 1 .. position[v]
               /\ Len(video_queue[v]) <= QueueCap
               /\ \A i \in DOMAIN video_queue[v] : video_queue[v][i] \in shown[v] + 1 .. position[v]
               /\ shown[v] \in 0 .. position[v]
               /\ DOMAIN picture[v].data = Indices(picture[v].w, picture[v].h)
    <3>1. /\ position[v] \in Nat /\ position[v] <= Len(log) /\ Len(log) \in Nat
          /\ Window(position[v], lost[v], video_queue[v], shown[v])
          /\ IsPicture(picture[v])
      BY <1>1 DEF IInv, LogOK, ViewersOK, ViewerOK, PictureOK
    <3>2. /\ shown[v] \in 0 .. position[v] /\ lost[v] \subseteq 1 .. position[v]
          /\ video_queue[v] \in Seq(Nat) /\ Len(video_queue[v]) <= QueueCap
          /\ \A i \in 1 .. Len(video_queue[v]) :
               shown[v] < video_queue[v][i] /\ video_queue[v][i] <= position[v]
      BY <3>1 DEF Window
    <3>3. ASSUME NEW i \in DOMAIN video_queue[v]
          PROVE  video_queue[v][i] \in shown[v] + 1 .. position[v]
      <4>1. i \in 1 .. Len(video_queue[v]) /\ video_queue[v][i] \in Nat
        BY <3>2
      <4>2. shown[v] < video_queue[v][i] /\ video_queue[v][i] <= position[v]
        BY <3>2, <4>1
      <4> QED
        BY <3>1, <3>2, <4>1, <4>2
    <3> QED
      BY <3>1, <3>2, <3>3 DEF IsPicture
  <2> QED
    BY <1>1, <2>1, <2>2 DEF IInv, HostOK, ViewersOK, TypeOK
<1> QED
  BY <1>1, Invariant, PTL

\* The detector's rectangles cover each pixel that changed by more than the noise floor,
\* once, are inside the frame, each has a change in it, and none is larger than the
\* threshold allows; a pixel at the noise floor does not count.
THEOREM DetectorCorrect == Spec => []DetectorExact
<1>1. ASSUME IInv
      PROVE  DetectorExact
  <2>1. SUFFICES ASSUME dims.w > 0, NEW pixels \in SUBSET Indices(dims.w, dims.h)
                 PROVE  LET before == Black(dims.w, dims.h)
                            after == [before EXCEPT !.data =
                                        [i \in DOMAIN @ |-> IF i \in pixels THEN NoiseFloor + 1
                                                            ELSE NoiseFloor]]
                            rects == Subdivide(after, before)
                        IN  /\ Changed(after, before, Whole(after)) = pixels
                            /\ IsDirtyCover(rects, after, before)
                            /\ IsTight(rects, after, before)
    BY DEF DetectorExact
  <2> DEFINE before == Black(dims.w, dims.h)
             after == [before EXCEPT !.data =
                         [i \in DOMAIN @ |-> IF i \in pixels THEN NoiseFloor + 1
                                             ELSE NoiseFloor]]
  <2>2. dims.w \in Nat \ {0} /\ dims.h \in Nat \ {0}
    <3>1. dims # [w |-> 0, h |-> 0]
      BY <2>1
    <3>2. dims \in Sizes
      BY <1>1, <3>1 DEF IInv, HostOK
    <3> QED
      BY <3>2, PictureAssumption
  <2>3. /\ after.w = dims.w /\ after.h = dims.h
        /\ \A i \in Indices(dims.w, dims.h) :
             /\ before.data[i] = 0
             /\ after.data[i] = IF i \in pixels THEN NoiseFloor + 1 ELSE NoiseFloor
    BY DEF Black
  <2> HIDE DEF before, after
  <2>4. HasSize(after)
    BY <2>2, <2>3 DEF HasSize
  <2>5. \A i \in Indices(dims.w, dims.h) :
            Differs(after.data[i], before.data[i]) <=> i \in pixels
    BY <2>3, NoiseAssumption DEF Differs
  <2>6. Inside(after.w, Whole(after)) = Indices(dims.w, dims.h)
    BY <2>3, <2>4, WholeIs
  <2>7. Changed(after, before, Whole(after)) = pixels
    BY <2>5, <2>6 DEF Changed
  <2>8. /\ IsDirtyCover(Subdivide(after, before), after, before)
        /\ IsTight(Subdivide(after, before), after, before)
    BY <2>4, SubdivideCorrect
  <2> QED
    BY <2>7, <2>8 DEF before, after
<1> QED
  BY <1>1, Invariant, PTL

--------------------------------------------------------------------------------
(* What the viewers see.                                                         *)

\* A set of numbers up to n has a greatest one, which Latest returns.
LEMMA GreatestIs ==
    ASSUME NEW n \in Nat, NEW S \in SUBSET (1 .. n), S # {}
    PROVE  \E k \in S : \A j \in S : j <= k
<1> DEFINE Has(T) == T # {} => \E k \in T : \A j \in T : j <= k
           A == {m \in Nat : \A T \in SUBSET (1 .. m) : Has(T)}
<1>1. 0 \in A
  <2>1. 1 .. 0 = {}
    OBVIOUS
  <2> QED
    BY <2>1
<1>2. ASSUME NEW m \in Nat, m \in A
      PROVE  m + 1 \in A
  <2>1. SUFFICES ASSUME NEW T \in SUBSET (1 .. m + 1)
                 PROVE  Has(T)
    OBVIOUS
  <2>2. CASE m + 1 \in T
    BY <2>2
  <2>3. CASE m + 1 \notin T
    <3>1. \A j \in 1 .. m + 1 : j \in 1 .. m \/ j = m + 1
      OBVIOUS
    <3>2. T \in SUBSET (1 .. m)
      BY <2>3, <3>1
    <3> QED
      BY <1>2, <3>2
  <2> QED
    BY <2>2, <2>3
<1> HIDE DEF A
<1>3. n \in A
  BY <1>1, <1>2, AllNumbers
<1> QED
  BY <1>3 DEF A

LEMMA LatestIs ==
    ASSUME NEW n \in Nat, NEW S \in SUBSET (1 .. n), NEW k \in S, \A j \in S : j <= k
    PROVE  Latest(S) = k
<1>1. Latest(S) \in S /\ \A j \in S : j <= Latest(S)
  BY DEF Latest
<1>2. Latest(S) \in Nat /\ k \in Nat
  <2>1. \A j \in S : j \in Nat
    OBVIOUS
  <2> QED
    BY <1>1, <2>1
<1>3. Latest(S) <= k /\ k <= Latest(S)
  BY <1>1, <1>2
<1> QED
  BY <1>2, <1>3

\* Entries do not change once they are in the log.
LEMMA SourcesSame ==
    ASSUME Extends(log, log'), Len(log) \in Nat, NEW n \in 1 .. Len(log), NEW i
    PROVE  /\ Sources(n, i)' = Sources(n, i)
           /\ \A k \in 1 .. n : Sent(k, i)' = Sent(k, i)
<1>1. \A k \in 1 .. n : log'[k] = log[k]
  BY DEF Extends
<1>2. Sources(n, i)' = Sources(n, i)
  BY <1>1 DEF Sources
<1>3. ASSUME NEW k \in 1 .. n
      PROVE  Sent(k, i)' = Sent(k, i)
  BY <1>1 DEF Sent
<1> QED
  BY <1>2, <1>3

\* A viewer's picture is as it was sent where the entry was not lost.
Fresh(v) ==
    shown[v] # 0 =>
        \A i \in DOMAIN picture[v].data :
            Sources(shown[v], i) # {} /\ Latest(Sources(shown[v], i)) \notin lost[v]
                => picture[v].data[i] = Sent(Latest(Sources(shown[v], i)), i)
LEMMA FreshSame ==
    ASSUME IInv, [Next]_vars, NEW v \in Viewers, Fresh(v),
           shown'[v] = shown[v], shown[v] # 0 => picture'[v] = picture[v],
           lost[v] \subseteq lost'[v]
    PROVE  Fresh(v)'
<1>1. CASE shown[v] = 0
  BY <1>1 DEF Fresh
<1>2. CASE shown[v] # 0
  <2>1. PICK n \in 1 .. Len(log) : n = shown[v]
    <3>1. shown[v] \in Nat /\ shown[v] <= position[v] /\ position[v] <= Len(log)
          /\ position[v] \in Nat /\ Len(log) \in Nat
      BY DEF IInv, LogOK, ViewersOK, ViewerOK, Window
    <3>2. shown[v] \in 1 .. Len(log)
      BY <1>2, <3>1
    <3> QED
      BY <3>2
  <2>2. PICK pic : pic = picture[v]
    OBVIOUS
  <2>3. ASSUME NEW i \in DOMAIN pic.data,
               Sources(n, i)' # {}, Latest(Sources(n, i)') \notin lost'[v]
        PROVE  pic.data[i] = Sent(Latest(Sources(n, i)), i)'
    <3>1. /\ Sources(n, i)' = Sources(n, i)
          /\ \A k \in 1 .. n : Sent(k, i)' = Sent(k, i)
      BY LogExtended, SourcesSame
    <3>2. n \in Nat /\ Sources(n, i) \in SUBSET (1 .. n)
      BY DEF Sources, IInv, LogOK
    <3>3. PICK k \in Sources(n, i) : \A j \in Sources(n, i) : j <= k
      BY <2>3, <3>1, <3>2, GreatestIs
    <3>4. Latest(Sources(n, i)) = k
      BY <3>2, <3>3, LatestIs
    <3>5. k \notin lost[v]
      BY <2>3, <3>1, <3>4
    <3>6. pic.data[i] = Sent(k, i)
      BY <1>2, <2>1, <2>2, <3>3, <3>4, <3>5 DEF Fresh
    <3>7. Latest(Sources(n, i)') = k
      BY <3>1, <3>4
    <3>8. Sent(k, i)' = Sent(k, i)
      BY <3>1, <3>2, <3>3
    <3> QED
      BY <3>6, <3>7, <3>8
  <2>4. /\ shown'[v] = n /\ picture'[v] = pic
    BY <1>2, <2>1, <2>2
  <2> QED
    BY <2>3, <2>4 DEF Fresh
<1> QED
  BY <1>1, <1>2
\* Showing an entry: a pixel that it does not carry was as the source that is now the latest
\* one left it, for what was skipped over was lost.
LEMMA FreshShown ==
    ASSUME IInv, [Next]_vars, NEW v \in Viewers, Fresh(v), Show(v)
    PROVE  Fresh(v)'
<1>1. PICK n \in Nat :
                /\ n = Head(video_queue[v])
                /\ picture' = [picture EXCEPT ![v] = BlitFrame(picture[v], log[n].msg)]
                /\ shown' = [shown EXCEPT ![v] = n]
                /\ video_queue' = [video_queue EXCEPT ![v] = Tail(video_queue[v])]
                /\ shown[v] < n /\ n <= position[v] /\ n \in 1 .. Len(log)
                /\ Window(position[v], lost[v], Tail(video_queue[v]), n)
                /\ \A k \in Nat : shown[v] < k /\ k < n => k \in lost[v]
  BY ShowDoes
<1>2. log' = log /\ lost' = lost
  BY ShowDoes
<1>3. PICK s \in Nat : s = shown[v]
  BY DEF IInv, ViewersOK
<1>4. PICK pic : pic = picture[v]
  OBVIOUS
<1>5. PICK m : m = log[n].msg
  OBVIOUS
<1>6. PICK new : new = BlitFrame(pic, m)
  OBVIOUS
<1>7. /\ IsPicture(pic)
      /\ s # 0 => SameSize(pic, log[s].msg)
  BY <1>3, <1>4 DEF IInv, ViewersOK, ViewerOK, PictureOK
<1>8. /\ IsPicture(new) /\ SameSize(new, m)
      /\ \A i \in DOMAIN new.data :
           /\ Hits(m, i) # {} => new.data[i] = LET hit == CHOOSE hit \in Hits(m, i) : TRUE
                                               IN  hit[1].px[hit[2]]
           /\ Hits(m, i) = {} /\ SameSize(pic, m) => new.data[i] = pic.data[i]
  BY <1>6, <1>7, BlitIs
<1>9. shown'[v] = n /\ picture'[v] = new
  BY <1>1, <1>4, <1>5, <1>6 DEF IInv, ViewersOK
<1>10. \A k \in 1 .. Len(log) : log[k].cap \in Nat /\ log[k].msg \in Messages
  <2>1. \A k \in 1 .. Len(log) : log[k] \in Entries
    BY DEF IInv, LogOK
  <2> QED
    BY <2>1 DEF Entries
<1>11. m \in Messages
  BY <1>1, <1>5, <1>10
<1>12. \A i : i \in Covered(m) => Hits(m, i) # {}
  BY <1>11, EntryIs DEF Carries
<1>13. \A i : Hits(m, i) # {} => i \in Covered(m)
  BY <1>11, EntryIs DEF Carries
<1>14. ASSUME NEW i \in DOMAIN new.data,
              Sources(n, i) # {}, Latest(Sources(n, i)) \notin lost[v]
       PROVE  new.data[i] = Sent(Latest(Sources(n, i)), i)
  <2> DEFINE S == Sources(n, i)
  <2>1. /\ S \in SUBSET (1 .. n)
        /\ \A k \in 1 .. n : k \in S <=> log[k].cap = log[n].cap /\ i \in Covered(log[k].msg)
    BY DEF Sources
  <2> HIDE DEF S
  <2>2. S # {} /\ Latest(S) \notin lost[v]
    BY <1>14 DEF S
  <2>3. PICK k \in S : \A j \in S : j <= k
    BY <1>1, <2>1, <2>2, GreatestIs
  <2>4. Latest(S) = k
    BY <1>1, <2>1, <2>3, LatestIs
  <2>5. k \in Nat /\ k \in 1 .. n /\ k \in 1 .. Len(log) /\ n \in 1 .. n
    BY <1>1, <2>1
  <2>6. CASE k = n
    <3>1. i \in Covered(m)
      BY <1>5, <2>1, <2>3, <2>5, <2>6
    <3>2. new.data[i] = LET hit == CHOOSE hit \in Hits(m, i) : TRUE
                        IN  hit[1].px[hit[2]]
      BY <1>8, <1>12, <3>1
    <3>3. new.data[i] = Sent(n, i)
      BY <1>5, <3>2 DEF Sent
    <3> QED
      BY <2>4, <2>6, <3>3 DEF S
  <2>7. CASE k # n
    <3>1. k < n
      BY <1>1, <2>5, <2>7
    <3>2. n \notin S
      BY <1>1, <2>3, <2>5, <3>1
    <3>3. Hits(m, i) = {}
      BY <1>5, <1>13, <2>1, <2>5, <3>2
    <3>4. k <= s
      BY <1>1, <1>3, <2>2, <2>4, <2>5, <3>1
    <3>5. s \in 1 .. Len(log) /\ s \in 1 .. n /\ s < n /\ s # 0
      BY <1>1, <1>3, <2>5, <3>4
    <3>6. log[k].cap = log[s].cap /\ log[s].cap = log[n].cap
      <4>1. log[k].cap <= log[s].cap /\ log[s].cap <= log[n].cap
        BY <1>1, <2>5, <3>4, <3>5 DEF IInv, LogOK
      <4>2. log[k].cap = log[n].cap
        BY <2>1, <2>3, <2>5
      <4>3. log[k].cap \in Nat /\ log[s].cap \in Nat /\ log[n].cap \in Nat
        BY <1>1, <1>10, <2>5, <3>5
      <4> QED
        BY <4>1, <4>2, <4>3
    <3>7. SameSize(log[s].msg, m)
      BY <1>1, <1>5, <3>5, <3>6 DEF IInv, LogOK
    <3>8. SameSize(pic, m)
      BY <1>7, <3>5, <3>7 DEF SameSize
    <3>9. new.data[i] = pic.data[i]
      BY <1>8, <3>3, <3>8
    <3>10. i \in DOMAIN pic.data
      BY <1>7, <1>8, <3>8 DEF IsPicture, SameSize
    <3>11. /\ Sources(s, i) \in SUBSET (1 .. s)
           /\ k \in Sources(s, i)
           /\ \A j \in Sources(s, i) : j \in S
      <4>1. \A j \in 1 .. s : j \in 1 .. n
        BY <1>1, <3>5
      <4>2. k \in 1 .. s
        BY <2>5, <3>4
      <4> QED
        BY <2>1, <2>3, <2>5, <3>6, <4>1, <4>2 DEF Sources
    <3>12. Latest(Sources(s, i)) = k
      BY <2>3, <3>11, LatestIs
    <3>13. pic.data[i] = Sent(k, i)
      BY <1>3, <1>4, <2>2, <2>4, <3>5, <3>10, <3>11, <3>12 DEF Fresh
    <3> QED
      BY <2>4, <3>9, <3>13 DEF S
  <2> QED
    BY <2>6, <2>7
<1>15. ASSUME NEW i \in DOMAIN new.data,
              Sources(n, i)' # {}, Latest(Sources(n, i)') \notin lost'[v]
       PROVE  new.data[i] = Sent(Latest(Sources(n, i)), i)'
  <2>1. /\ Sources(n, i)' = Sources(n, i)
        /\ \A k \in 1 .. n : Sent(k, i)' = Sent(k, i)
    <3>1. Len(log) \in Nat /\ Extends(log, log')
      BY LogExtended
    <3> QED
      BY <1>1, <3>1, SourcesSame
  <2>2. Sources(n, i) \in SUBSET (1 .. n)
    BY DEF Sources
  <2>3. PICK k \in Sources(n, i) : \A j \in Sources(n, i) : j <= k
    BY <1>15, <2>1, <2>2, GreatestIs
  <2>4. Latest(Sources(n, i)) = k
    BY <2>2, <2>3, LatestIs
  <2>5. new.data[i] = Sent(k, i)
    BY <1>2, <1>14, <1>15, <2>1, <2>3, <2>4
  <2>6. Latest(Sources(n, i)') = k
    BY <2>1, <2>4
  <2>7. Sent(k, i)' = Sent(k, i)
    BY <2>1, <2>2, <2>3
  <2> QED
    BY <2>5, <2>6, <2>7
<1> QED
  BY <1>9, <1>15 DEF Fresh

LEMMA FreshInductive ==
    ASSUME IInv, [Next]_vars, NEW v \in Viewers, Fresh(v)
    PROVE  Fresh(v)'
<1>1. CASE UNCHANGED viewer
  <2>1. shown' = shown /\ picture' = picture /\ lost' = lost
    BY <1>1 DEF viewer
  <2> QED
    BY <2>1, FreshSame
<1>2. ASSUME NEW u \in Viewers, Join(u)
      PROVE  Fresh(v)'
  <2>1. /\ shown' = shown /\ u \notin joined
        /\ picture' = [picture EXCEPT ![u] = Black(dims.w, dims.h)]
        /\ lost' = [lost EXCEPT ![u] = 1 .. position'[u]]
    BY <1>2 DEF Join
  <2>2. shown[u] = 0
    BY <2>1 DEF IInv, ViewersOK, ViewerOK
  <2>3. CASE u = v
    BY <2>1, <2>2, <2>3 DEF Fresh
  <2>4. CASE u # v
    <3>1. picture'[v] = picture[v] /\ lost'[v] = lost[v]
      BY <2>1, <2>4 DEF IInv, ViewersOK
    <3> QED
      BY <2>1, <3>1, FreshSame
  <2> QED
    BY <2>3, <2>4
<1>3. ASSUME NEW u \in Viewers, Lapped(u)
      PROVE  Fresh(v)'
  <2>1. /\ shown' = shown /\ picture' = picture
        /\ lost' = [lost EXCEPT ![u] = @ \cup (position[u] + 1 .. position'[u])]
    BY <1>3 DEF Lapped
  <2>2. lost[v] \subseteq lost'[v]
    BY <2>1 DEF IInv, ViewersOK
  <2> QED
    BY <2>1, <2>2, FreshSame
<1>4. ASSUME NEW u \in Viewers, Receive(u)
      PROVE  Fresh(v)'
  <2>1. /\ shown' = shown /\ picture' = picture
        /\ lost' = lost \/ lost' = [lost EXCEPT ![u] = @ \cup {Head(video_queue[u])}]
    BY <1>4 DEF Receive
  <2>2. lost[v] \subseteq lost'[v]
    BY <2>1 DEF IInv, ViewersOK
  <2> QED
    BY <2>1, <2>2, FreshSame
<1>5. ASSUME NEW u \in Viewers, Show(u)
      PROVE  Fresh(v)'
  <2>1. CASE u = v
    BY <1>5, <2>1, FreshShown
  <2>2. CASE u # v
    <3>1. shown'[v] = shown[v] /\ picture'[v] = picture[v] /\ lost'[v] = lost[v]
      BY <1>5, <2>2, ShowDoes DEF IInv, ViewersOK
    <3> QED
      BY <3>1, FreshSame
  <2> QED
    BY <2>1, <2>2
<1>6. CASE UNCHANGED vars
  BY <1>1, <1>6 DEF vars
<1>7. CASE \E size \in Sizes : StartCapture(size)
  BY <1>1, <1>7 DEF StartCapture
<1>8. CASE StopCapture
  BY <1>1, <1>8 DEF StopCapture
<1>9. CASE \E frame \in NextFrames : CaptureFrame(frame)
  BY <1>1, <1>9 DEF CaptureFrame
<1> QED
  BY <1>2, <1>3, <1>4, <1>5, <1>6, <1>7, <1>8, <1>9 DEF Next

LEMMA AllFresh == Spec => [](\A v \in Viewers : Fresh(v))
<1>1. Init => \A v \in Viewers : Fresh(v)
  BY DEF Init, Fresh
<1>2. IInv /\ [Next]_vars /\ (\A v \in Viewers : Fresh(v)) => (\A v \in Viewers : Fresh(v))'
  BY FreshInductive
<1> QED
  BY <1>1, <1>2, Invariant, PTL DEF Spec

\* A pixel is as the entry that changed it last sent it, unless the viewer lost that very
\* entry: what the ring and the queue drop, joining in the middle of a capture and the
\* picture of another capture do no harm to it.
THEOREM StaleOnlyIfLost == Spec => []StaleOnlyWhereLost
<1>1. ASSUME \A v \in Viewers : Fresh(v)
      PROVE  StaleOnlyWhereLost
  BY <1>1 DEF StaleOnlyWhereLost, Fresh
<1> QED
  BY <1>1, AllFresh, PTL
--------------------------------------------------------------------------------
(* The host's screen.                                                            *)

Close(a, b, d) == a <= b + d /\ b <= a + d

\* The entries of the present capture that cover a pixel.
Present(i) == {k \in 1 .. Len(log) : log[k].cap = cap /\ i \in Covered(log[k].msg)}

\* Each pixel whose last change was pushed is, as last sent, off by no more than the noise
\* floor for every frame since.
PixelTracked(i) ==
    \E k \in Present(i) : /\ \A j \in Present(i) : j <= k
                          /\ Sent(k, i) \in Nat
                          /\ Close(Sent(k, i), prev.data[i], NoiseFloor * quiet[i])
Tracked == prev # NoFrame => \A i \in Indices(prev.w, prev.h) \ unsent : PixelTracked(i)

LEMMA StaysClose ==
    ASSUME NEW a \in Nat, NEW b \in Nat, NEW c \in Nat, NEW q \in Nat,
           Close(a, b, NoiseFloor * q), ~Differs(c, b)
    PROVE  Close(a, c, NoiseFloor * (q + 1))
<1>1. NoiseFloor \in Nat /\ NoiseFloor * q \in Nat
  BY NoiseAssumption
<1>2. NoiseFloor * (q + 1) = NoiseFloor * q + NoiseFloor
  BY NoiseAssumption
<1>3. PICK d \in Nat, n \in Nat : d = NoiseFloor * q /\ n = NoiseFloor
  BY <1>1
<1>4. a <= b + d /\ b <= a + d /\ c <= b + n /\ b <= c + n
  BY <1>3 DEF Close, Differs
<1>5. a <= c + (d + n) /\ c <= a + (d + n)
  BY <1>4
<1> QED
  BY <1>2, <1>3, <1>5 DEF Close

\* A pixel that the next frame does not send, whether or not other pixels are.
LEMMA TrackedOn ==
    ASSUME IInv, [Next]_vars, NEW i, PixelTracked(i), cap' = cap,
           \A k \in 1 .. Len(log') : k \in 1 .. Len(log) \/ i \notin Covered(log'[k].msg),
           prev.data[i] \in Nat, prev'.data[i] \in Nat, quiet[i] \in Nat,
           ~Differs(prev'.data[i], prev.data[i]), quiet'[i] = quiet[i] + 1
    PROVE  PixelTracked(i)'
<1>1. Extends(log, log') /\ Len(log) \in Nat /\ Len(log') \in Nat
  BY LogExtended
<1>2. PICK k \in Present(i) : /\ \A j \in Present(i) : j <= k
                              /\ Sent(k, i) \in Nat
                              /\ Close(Sent(k, i), prev.data[i], NoiseFloor * quiet[i])
  BY DEF PixelTracked
<1>3. Present(i)' = Present(i)
  <2>1. /\ \A j \in 1 .. Len(log) : j \in 1 .. Len(log')
        /\ \A j \in 1 .. Len(log) : log'[j] = log[j]
    BY <1>1 DEF Extends
  <2>2. \A j : j \in Present(i)' <=>
                   j \in 1 .. Len(log') /\ log'[j].cap = cap /\ i \in Covered(log'[j].msg)
    BY DEF Present
  <2>3. \A j : j \in Present(i) <=>
                   j \in 1 .. Len(log) /\ log[j].cap = cap /\ i \in Covered(log[j].msg)
    BY DEF Present
  <2>4. \A j : j \in Present(i)' <=> j \in Present(i)
    BY <2>1, <2>2, <2>3
  <2> QED
    BY <2>4
<1>4. k \in 1 .. Len(log)
  BY DEF Present
<1>5. Sent(k, i)' = Sent(k, i)
  <2>1. k \in 1 .. k
    BY <1>4
  <2> QED
    BY <1>1, <1>4, <2>1, SourcesSame
<1>6. PICK a \in Nat : a = Sent(k, i)
  BY <1>2
<1>7. Close(a, prev'.data[i], NoiseFloor * quiet'[i])
  BY <1>2, <1>6, StaysClose
<1>8. Sent(k, i)' \in Nat /\ Close(Sent(k, i)', prev'.data[i], NoiseFloor * quiet'[i])
  BY <1>5, <1>6, <1>7
<1>9. /\ k \in Present(i)' /\ \A j \in Present(i)' : j <= k
      /\ (Sent(k, i) \in Nat)'
      /\ Close(Sent(k, i), prev.data[i], NoiseFloor * quiet[i])'
  BY <1>2, <1>3, <1>8
<1> QED
  BY <1>9 DEF PixelTracked

\* A pixel that is sent.
LEMMA TrackedAnew ==
    ASSUME IInv, NEW f \in Regions, NEW rects \in SUBSET Tiles(f), NEW i \in Pixels(rects, f),
           log' = Append(log, [cap |-> cap, msg |-> EncodeVideoFrame(rects, f)]),
           cap' = cap, prev' = f, quiet'[i] = 0
    PROVE  PixelTracked(i)'
<1> DEFINE m == EncodeVideoFrame(rects, f)
<1>1. HasSize(f) /\ f.data \in [Indices(f.w, f.h) -> Nat]
  BY RegionIs
<1>2. Carries(m, f, Pixels(rects, f)) /\ Pixels(rects, f) \subseteq Indices(f.w, f.h)
  BY <1>1, MessageIs
<1> HIDE DEF m
<1>3. PICK n \in Nat : n = Len(log)
  BY DEF IInv, LogOK
<1>4. /\ Len(log') = n + 1 /\ log'[n + 1].cap = cap' /\ log'[n + 1].msg = m
  BY <1>3 DEF IInv, LogOK, m
<1>5. n + 1 \in Present(i)' /\ \A j \in Present(i)' : j <= n + 1
  <2>1. i \in Covered(m)
    BY <1>2 DEF Carries
  <2>2. \A j : j \in Present(i)' <=>
                   j \in 1 .. Len(log') /\ log'[j].cap = cap' /\ i \in Covered(log'[j].msg)
    BY DEF Present
  <2>3. n + 1 \in 1 .. n + 1 /\ \A j \in 1 .. n + 1 : j <= n + 1
    OBVIOUS
  <2> QED
    BY <1>4, <2>1, <2>2, <2>3
<1>6. Sent(n + 1, i)' = f.data[i]
  <2>1. PICK a : a = LET hit == CHOOSE hit \in Hits(m, i) : TRUE IN hit[1].px[hit[2]]
    OBVIOUS
  <2>2. a = f.data[i]
    BY <1>2, <2>1 DEF Carries
  <2>3. Sent(n + 1, i)' = a
    BY <1>4, <2>1 DEF Sent
  <2> QED
    BY <2>2, <2>3
<1>7. f.data[i] \in Nat
  BY <1>1, <1>2
<1>8. Close(f.data[i], f.data[i], NoiseFloor * 0)
  <2>1. NoiseFloor * 0 = 0
    BY NoiseAssumption
  <2> QED
    BY <1>7, <2>1 DEF Close
<1>9. /\ (Sent(n + 1, i) \in Nat)'
      /\ Close(Sent(n + 1, i), prev.data[i], NoiseFloor * quiet[i])'
  BY <1>6, <1>7, <1>8
<1> QED
  BY <1>5, <1>9 DEF PixelTracked

LEMMA TrackedInductive ==
    ASSUME IInv, Tracked, [Next]_vars
    PROVE  Tracked'
<1>1. CASE UNCHANGED <<cap, prev, unsent, quiet, log>>
  <2>1. ASSUME NEW i
        PROVE  PixelTracked(i)' <=> PixelTracked(i)
    <3>1. \A k : Sent(k, i)' = Sent(k, i)
      BY <1>1 DEF Sent
    <3>2. Present(i)' = Present(i)
      BY <1>1 DEF Present
    <3> QED
      BY <1>1, <3>1, <3>2 DEF PixelTracked
  <2> QED
    BY <1>1, <2>1 DEF Tracked
<1>2. ASSUME NEW size \in Sizes, StartCapture(size)
      PROVE  Tracked'
  BY <1>2 DEF StartCapture, Tracked
<1>3. ASSUME NEW frame \in NextFrames, CaptureFrame(frame)
      PROVE  Tracked'
  <2> DEFINE rects == DirtyRects(frame)
             sent == Pixels(rects, frame)
  <2>1. /\ frame \in Regions /\ SameSize(frame, dims) /\ prev' = frame
        /\ rects \in SUBSET Tiles(frame)
        /\ quiet \in [Indices(frame.w, frame.h) -> Nat]
        /\ cap' = cap
        /\ \/ /\ log' = Append(log, [cap |-> cap, msg |-> EncodeVideoFrame(rects, frame)])
              /\ unsent' = unsent \ sent
              /\ quiet' = [i \in DOMAIN quiet |-> IF i \in sent THEN 0 ELSE quiet[i] + 1]
           \/ /\ log' = log
              /\ unsent' = unsent \cup sent
              /\ quiet' = [i \in DOMAIN quiet |-> quiet[i] + 1]
    <3>1. dims.w > 0
      BY <1>3 DEF CaptureFrame
    <3> QED
      BY <1>3, <3>1, CaptureFrameDoes
  <2>2. /\ HasSize(frame) /\ frame.data \in [Indices(frame.w, frame.h) -> Nat]
        /\ Carries(EncodeVideoFrame(rects, frame), frame, sent)
    BY <2>1, RegionIs, MessageIs
  <2>3. /\ prev = NoFrame => sent = Indices(frame.w, frame.h)
        /\ prev # NoFrame => \A i \in Indices(frame.w, frame.h) \ sent :
                                 ~Differs(frame.data[i], prev.data[i])
    BY <2>2, DirtyRectsIs
  <2> HIDE DEF rects, sent
  <2>4. ASSUME NEW i \in Indices(frame.w, frame.h), i \notin unsent, i \notin sent
        PROVE  PixelTracked(i)'
    <3>1. prev # NoFrame
      BY <2>3, <2>4
    <3>2. prev \in Regions /\ prev.w = frame.w /\ prev.h = frame.h
      <4>1. dims.w > 0
        BY <1>3 DEF CaptureFrame
      <4> QED
        BY <2>1, <3>1, <4>1 DEF IInv, HostOK, SameSize
    <3>3. prev.data[i] \in Nat
      BY <2>4, <3>2, RegionIs
    <3>4. PixelTracked(i)
      BY <2>4, <3>1, <3>2 DEF Tracked
    <3>5. frame.data[i] \in Nat /\ quiet[i] \in Nat /\ ~Differs(frame.data[i], prev.data[i])
      BY <2>1, <2>2, <2>3, <2>4, <3>1
    <3>6. quiet'[i] = quiet[i] + 1
      BY <2>1, <2>4
    <3>7. \A k \in 1 .. Len(log') : k \in 1 .. Len(log) \/ i \notin Covered(log'[k].msg)
      <4>1. CASE log' = log
        BY <4>1
      <4>2. CASE log' = Append(log, [cap |-> cap, msg |-> EncodeVideoFrame(rects, frame)])
        <5>1. PICK n \in Nat : n = Len(log)
          BY DEF IInv, LogOK
        <5>2. PICK m : m = EncodeVideoFrame(rects, frame)
          OBVIOUS
        <5>3. Len(log') = n + 1 /\ log'[n + 1].msg = m
          BY <4>2, <5>1, <5>2 DEF IInv, LogOK
        <5>4. i \notin Covered(m)
          BY <2>2, <2>4, <5>2 DEF Carries
        <5>5. \A k \in 1 .. n + 1 : k \in 1 .. n \/ k = n + 1
          OBVIOUS
        <5> QED
          BY <5>1, <5>3, <5>4, <5>5
      <4> QED
        BY <2>1, <4>1, <4>2
    <3> QED
      BY <2>1, <3>3, <3>4, <3>5, <3>6, <3>7, TrackedOn
  <2>5. CASE /\ log' = Append(log, [cap |-> cap, msg |-> EncodeVideoFrame(rects, frame)])
             /\ unsent' = unsent \ sent
             /\ quiet' = [i \in DOMAIN quiet |-> IF i \in sent THEN 0 ELSE quiet[i] + 1]
    <3>1. ASSUME NEW i \in Indices(frame.w, frame.h), i \in sent
          PROVE  PixelTracked(i)'
      <4>1. quiet'[i] = 0
        BY <2>1, <2>5, <3>1
      <4>2. i \in Pixels(rects, frame)
        BY <3>1 DEF sent
      <4> QED
        BY <2>1, <2>5, <4>1, <4>2, TrackedAnew
    <3>2. \A i \in Indices(frame.w, frame.h) \ unsent' : PixelTracked(i)'
      BY <2>4, <2>5, <3>1
    <3> QED
      BY <2>1, <3>2 DEF Tracked
  <2>6. CASE unsent' = unsent \cup sent
    <3>1. \A i \in Indices(frame.w, frame.h) \ unsent' : PixelTracked(i)'
      BY <2>4, <2>6
    <3> QED
      BY <2>1, <3>1 DEF Tracked
  <2> QED
    BY <2>1, <2>5, <2>6
<1>4. CASE StopCapture
  BY <1>1, <1>4 DEF StopCapture
<1>5. CASE \E v \in Viewers : Join(v) \/ Lapped(v) \/ Receive(v) \/ Show(v)
  BY <1>1, <1>5 DEF Join, Lapped, Receive, Show, capture
<1>6. CASE UNCHANGED vars
  BY <1>1, <1>6 DEF vars, capture
<1> QED
  BY <1>2, <1>3, <1>4, <1>5, <1>6 DEF Next

LEMMA AlwaysTracked == Spec => []Tracked
<1>1. Init => Tracked
  BY DEF Init, Tracked
<1>2. IInv /\ [Next]_vars /\ Tracked => Tracked'
  BY TrackedInductive
<1> QED
  BY <1>1, <1>2, Invariant, PTL DEF Spec

\* A viewer that has shown everything and lost nothing of a capture sees the host's screen:
\* each pixel is off by no more than the noise floor for every frame since it was last sent.
THEOREM CaughtUpSeesScreen == Spec => []CaughtUpPicture
<1>1. ASSUME IInv, Tracked, \A v \in Viewers : Fresh(v)
      PROVE  CaughtUpPicture
  <2>1. SUFFICES ASSUME NEW v \in Viewers, log # <<>>, shown[v] = Len(log),
                        log[Len(log)].cap = cap, \A k \in lost[v] : log[k].cap # cap
                 PROVE  /\ picture[v].w = prev.w /\ picture[v].h = prev.h
                        /\ \A i \in DOMAIN prev.data \ unsent :
                             /\ picture[v].data[i] <= prev.data[i] + NoiseFloor * quiet[i]
                             /\ prev.data[i] <= picture[v].data[i] + NoiseFloor * quiet[i]
    BY DEF CaughtUpPicture
  <2>2. PICK n \in Nat : n = Len(log) /\ n \in 1 .. Len(log) /\ n # 0
    <3>1. log \in Seq(Entries)
      BY <1>1 DEF IInv, LogOK
    <3>2. Len(log) \in Nat /\ Len(log) # 0
      BY <2>1, <3>1
    <3> QED
      BY <3>2
  <2>3. prev # NoFrame /\ SameSize(log[n].msg, prev)
    BY <1>1, <2>1, <2>2 DEF IInv, LogOK
  <2>4. SameSize(picture[v], log[n].msg) /\ IsPicture(picture[v])
    BY <1>1, <2>1, <2>2 DEF IInv, ViewersOK, ViewerOK, PictureOK
  <2>5. picture[v].w = prev.w /\ picture[v].h = prev.h
    BY <2>3, <2>4 DEF SameSize
  <2>6. prev.data \in [Indices(prev.w, prev.h) -> Nat]
    BY <1>1, <2>3, RegionIs DEF IInv, HostOK
  <2>7. ASSUME NEW i \in DOMAIN prev.data \ unsent
        PROVE  Close(picture[v].data[i], prev.data[i], NoiseFloor * quiet[i])
    <3>1. i \in Indices(prev.w, prev.h) /\ i \notin unsent
      BY <2>6, <2>7
    <3>2. PICK k \in Present(i) : /\ \A j \in Present(i) : j <= k
                                  /\ Close(Sent(k, i), prev.data[i], NoiseFloor * quiet[i])
      BY <1>1, <2>3, <3>1 DEF Tracked, PixelTracked
    <3>3. Sources(n, i) = Present(i) /\ Sources(n, i) \in SUBSET (1 .. n)
      BY <2>1, <2>2 DEF Sources, Present
    <3>4. Latest(Sources(n, i)) = k
      BY <2>2, <3>2, <3>3, LatestIs
    <3>5. k \notin lost[v]
      BY <2>1, <3>2 DEF Present
    <3>6. i \in DOMAIN picture[v].data
      BY <2>4, <2>5, <3>1 DEF IsPicture
    <3>7. picture[v].data[i] = Sent(k, i)
      <4>1. shown[v] = n /\ shown[v] # 0 /\ Fresh(v)
        BY <1>1, <2>1, <2>2
      <4>2. Sources(n, i) # {}
        BY <3>2, <3>3
      <4> QED
        BY <3>4, <3>5, <3>6, <4>1, <4>2 DEF Fresh
    <3> QED
      BY <3>2, <3>7
  <2> QED
    BY <2>5, <2>7 DEF Close
<1> QED
  BY <1>1, Invariant, AllFresh, AlwaysTracked, PTL
--------------------------------------------------------------------------------
(* The ring.                                                                     *)

Absent == \A v \in Viewers \ joined : position[v] = 0

LEMMA AbsentInductive ==
    ASSUME IInv, Absent, [Next]_vars
    PROVE  Absent'
<1>1. CASE UNCHANGED <<joined, position>>
  BY <1>1 DEF Absent
<1>2. ASSUME NEW v \in Viewers, Join(v)
      PROVE  Absent'
  BY <1>2 DEF Join, SnapshotTail, Absent, IInv, ViewersOK
<1>3. ASSUME NEW v \in Viewers, Lapped(v)
      PROVE  Absent'
  BY <1>3 DEF Lapped, Ring!JumpForward, Absent, IInv, ViewersOK
<1>4. ASSUME NEW v \in Viewers, Receive(v)
      PROVE  Absent'
  BY <1>4 DEF Receive, Ring!Deliver, Absent, IInv, ViewersOK
<1>5. ASSUME NEW v \in Viewers, Show(v)
      PROVE  Absent'
  BY <1>1, <1>5 DEF Show
<1>6. CASE \/ UNCHANGED vars
           \/ \E size \in Sizes : StartCapture(size)
           \/ StopCapture
           \/ \E frame \in NextFrames : CaptureFrame(frame)
  BY <1>1, <1>6 DEF vars, viewer, StartCapture, StopCapture, CaptureFrame
<1> QED
  BY <1>2, <1>3, <1>4, <1>5, <1>6 DEF Next

\* Each step is one of the log or none of its business: pushing publishes, and a viewer
\* that joins at the ring's tail is one that was lapped before it took anything.
LEMMA RingStep ==
    ASSUME IInv, Absent, [Next]_vars
    PROVE  [Ring!Next]_(Ring!vars)
<1>1. CASE UNCHANGED <<log, position>>
  BY <1>1 DEF Ring!vars
<1>2. ASSUME NEW frame \in NextFrames, CaptureFrame(frame)
      PROVE  [Ring!Next]_(Ring!vars)
  <2>1. position' = position /\ (log' = log \/ \E e : log' = Append(log, e))
    BY <1>2 DEF CaptureFrame
  <2>2. log' = log \/ Len(log') = Len(log) + 1
    BY <2>1 DEF IInv, LogOK
  <2> QED
    BY <1>1, <2>1, <2>2 DEF Ring!Next, Ring!Publish
<1>3. ASSUME NEW v \in Viewers, Join(v)
      PROVE  [Ring!Next]_(Ring!vars)
  <2>1. /\ position' = [position EXCEPT ![v] =
                          IF Len(log) > Capacity THEN Len(log) - Capacity ELSE 0]
        /\ log' = log
    BY <1>3 DEF Join, SnapshotTail
  <2>2. position[v] = 0 /\ position \in [Viewers -> Nat] /\ Len(log) \in Nat /\ Capacity \in Nat
    BY <1>3, StreamAssumption DEF Join, Absent, IInv, LogOK, ViewersOK
  <2>3. CASE Len(log) > Capacity
    <3>1. position[v] + Capacity < Len(log)
      BY <2>2, <2>3
    <3>2. position' = [position EXCEPT ![v] = Len(log) - Capacity]
      BY <2>1, <2>3
    <3> QED
      BY <2>1, <3>1, <3>2 DEF Ring!Next, Ring!JumpForward
  <2>4. CASE ~(Len(log) > Capacity)
    <3>1. position' = position
      BY <2>1, <2>2, <2>4
    <3> QED
      BY <1>1, <2>1, <3>1
  <2> QED
    BY <2>3, <2>4
<1>4. CASE \E v \in Viewers : Lapped(v) \/ Receive(v)
  BY <1>4 DEF Lapped, Receive, Ring!Next
<1>5. CASE \/ UNCHANGED vars
           \/ \E size \in Sizes : StartCapture(size)
           \/ StopCapture
           \/ \E v \in Viewers : Show(v)
  BY <1>1, <1>5 DEF vars, StartCapture, StopCapture, Show
<1> QED
  BY <1>2, <1>3, <1>4, <1>5 DEF Next

\* What the capture thread pushes and the viewers take, wherever in the ring they join, is
\* the log that StreamCache implements: in order, without repetition, and with no loss but
\* of what is a whole ring behind.
THEOREM StreamFollowsLog == Spec => Ring!Spec
<1>1. Init => Ring!Init /\ Absent
  BY DEF Init, Ring!Init, Absent
<1>2. IInv /\ Absent /\ [Next]_vars => Absent'
  BY AbsentInductive
<1>3. IInv /\ Absent /\ [Next]_vars => [Ring!Next]_(Ring!vars)
  BY RingStep
<1> QED
  BY <1>1, <1>2, <1>3, Invariant, PTL DEF Spec, Ring!Spec
================================================================================
