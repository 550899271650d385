---------------------------- MODULE StreamKProofs ----------------------------
(***************************************************************************)
(* The Stream-K reduction is correct for every shape that is accepted, any *)
(* number of waves and any number of launches.  The first part is about    *)
(* the division of the work (StreamKPartition), the second about the       *)
(* kernel.                                                                 *)
(***************************************************************************)
EXTENDS StreamK, FiniteSetTheorems, TLAPS

-----------------------------------------------------------------------------
(* The division of the work, for every shape that is accepted. *)

IsShape(s) ==
    /\ s.m \in Nat \ {0} /\ s.n \in Nat \ {0} /\ s.k \in Nat \ {0}
    /\ s.workers \in Nat
    /\ Valid(s)

-----------------------------------------------------------------------------
(* Arithmetic that the provers need in small pieces. *)

LEMMA Product == ASSUME NEW a \in Nat, NEW b \in Nat PROVE a * b \in Nat
OBVIOUS

LEMMA Monotone ==
    ASSUME NEW a \in Nat, NEW b \in Nat, NEW c \in Nat, a <= b
    PROVE  a * c <= b * c
OBVIOUS

LEMMA Successor ==
    ASSUME NEW a \in Int, NEW c \in Int
    PROVE  (a + 1) * c = a * c + c
OBVIOUS

(* Quotients are determined by the interval they lie in. *)
LEMMA Division ==
    ASSUME NEW x \in Nat, NEW c \in Nat \ {0}
    PROVE  /\ x \div c \in Nat
           /\ x % c \in 0..(c - 1)
           /\ x = ((x \div c) * c) + (x % c)
OBVIOUS

LEMMA DivisionBounds ==
    ASSUME NEW x \in Nat, NEW c \in Nat \ {0}, NEW q, q = x \div c
    PROVE  q \in Nat /\ q * c <= x /\ x < q * c + c
BY Division

LEMMA QuotientUnique ==
    ASSUME NEW x \in Nat, NEW c \in Nat \ {0}, NEW q \in Nat,
           q * c <= x, x < (q + 1) * c
    PROVE  x \div c = q
<1>1. /\ x \div c \in Nat /\ x % c \in 0..(c - 1)
      /\ x = ((x \div c) * c) + (x % c)
  BY Division
<1> DEFINE d == x \div c
<1> HIDE DEF d
<1>2. d \in Nat /\ d * c <= x /\ x < d * c + c
  BY <1>1 DEF d
<1>3. CASE d < q
  <2>1. (d + 1) * c <= q * c
    BY <1>2, <1>3, Monotone
  <2>2. (d + 1) * c = d * c + c
    BY <1>2, Successor
  <2>3. q * c \in Nat /\ d * c \in Nat
    BY <1>2, Product
  <2> QED BY <1>2, <2>1, <2>2, <2>3
<1>4. CASE q < d
  <2>1. (q + 1) * c <= d * c
    BY <1>2, <1>4, Monotone
  <2>3. (q + 1) * c \in Nat /\ d * c \in Nat
    BY <1>2, Product
  <2> QED BY <1>2, <2>1, <2>3
<1> QED BY <1>2, <1>3, <1>4 DEF d

-----------------------------------------------------------------------------
(* Facts about a shape, with the terms the provers should not look into. *)

LEMMA ShapeFacts ==
    ASSUME NEW s, IsShape(s)
    PROVE  /\ TileCount(s) \in Nat \ {0}
           /\ Total(s) \in Nat \ {0}
           /\ s.workers \in Nat \ {0} /\ s.workers <= Total(s)
           /\ Quotient(s) \in Nat \ {0}
           /\ Remainder(s) \in 0..(s.workers - 1)
           /\ Total(s) = (s.workers * Quotient(s)) + Remainder(s)
<1>1. TileCount(s) \in Nat \ {0}
  BY DEF IsShape, TileCount
<1>2. Total(s) \in Nat \ {0}
  BY <1>1 DEF IsShape, Total
<1>3. s.workers \in Nat \ {0} /\ s.workers <= Total(s)
  BY <1>2 DEF IsShape, Valid
<1>4. /\ Quotient(s) \in Nat /\ Remainder(s) \in 0..(s.workers - 1)
      /\ Total(s) = (Quotient(s) * s.workers) + Remainder(s)
  BY <1>2, <1>3, Division DEF Quotient, Remainder
<1>5. Quotient(s) # 0
  BY <1>2, <1>3, <1>4
<1>6. Quotient(s) * s.workers = s.workers * Quotient(s)
  BY <1>3, <1>4
<1> QED BY <1>1, <1>2, <1>3, <1>4, <1>5, <1>6

LEMMA BeginFacts ==
    ASSUME NEW s, IsShape(s), NEW p \in Nat
    PROVE  /\ WorkerBegin(s, p) \in Nat
           /\ WorkerEnd(s, p) \in Nat
           /\ WorkerBegin(s, p) < WorkerEnd(s, p)
           /\ WorkerBegin(s, p + 1) = WorkerEnd(s, p)
<1> DEFINE Q == Quotient(s)
           R == Remainder(s)
<1>1. Q \in Nat \ {0} /\ R \in Nat
  BY ShapeFacts
<1>2. WorkerBegin(s, p) = p * Q + (IF p < R THEN p ELSE R)
  BY DEF WorkerBegin
<1>3. WorkerBegin(s, p + 1) = (p + 1) * Q + (IF p + 1 < R THEN p + 1 ELSE R)
  BY DEF WorkerBegin
<1>4. WorkerEnd(s, p) = WorkerBegin(s, p) + Q + (IF p < R THEN 1 ELSE 0)
  BY DEF WorkerEnd
<1> HIDE DEF Q, R
<1>5. p * Q \in Nat /\ (p + 1) * Q = p * Q + Q
  BY <1>1, Product, Successor
<1> QED BY <1>1, <1>2, <1>3, <1>4, <1>5

(* The intervals of _streamk_partition follow one another without a gap or   *)
(* an overlap, none is empty, and together they are all the iterations.      *)
THEOREM IntervalsPartition ==
    ASSUME NEW s, IsShape(s)
    PROVE  /\ WorkerBegin(s, 0) = 0
           /\ WorkerEnd(s, s.workers - 1) = Total(s)
           /\ \A p \in Workers(s) :
                 /\ WorkerBegin(s, p) < WorkerEnd(s, p)
                 /\ WorkerBegin(s, p + 1) = WorkerEnd(s, p)
<1> DEFINE W == s.workers
           Q == Quotient(s)
           R == Remainder(s)
<1>1. /\ W \in Nat \ {0} /\ Q \in Nat \ {0} /\ R \in 0..(W - 1)
      /\ Total(s) = (W * Q) + R
  BY ShapeFacts
<1>2. WorkerBegin(s, 0) = 0
  BY <1>1 DEF WorkerBegin
<1>3. WorkerEnd(s, W - 1) = WorkerBegin(s, W)
  <2>1. W - 1 \in Nat /\ (W - 1) + 1 = W
    BY <1>1
  <2>2. WorkerBegin(s, (W - 1) + 1) = WorkerEnd(s, W - 1)
    BY <2>1, BeginFacts
  <2> QED BY <2>1, <2>2
<1>4. WorkerBegin(s, W) = (W * Q) + R
  BY <1>1 DEF WorkerBegin
<1>5. \A p \in Workers(s) : WorkerBegin(s, p) < WorkerEnd(s, p)
                            /\ WorkerBegin(s, p + 1) = WorkerEnd(s, p)
  BY <1>1, BeginFacts DEF Workers
<1> QED BY <1>1, <1>2, <1>3, <1>4, <1>5

(* _streamk_owner inverts _streamk_worker_begin: the worker it names is the  *)
(* one whose interval holds the iteration.                                   *)
THEOREM OwnerExact ==
    ASSUME NEW s, IsShape(s), NEW p \in Workers(s),
           NEW x \in WorkerBegin(s, p)..(WorkerEnd(s, p) - 1)
    PROVE  Owner(s, x) = p
<1> DEFINE Q == Quotient(s)
           R == Remainder(s)
           large == R * (Q + 1)
<1>1. Q \in Nat \ {0} /\ R \in Nat /\ p \in Nat
  BY ShapeFacts DEF Workers
<1>2. /\ WorkerBegin(s, p) = p * Q + (IF p < R THEN p ELSE R)
      /\ WorkerEnd(s, p) = WorkerBegin(s, p) + Q + (IF p < R THEN 1 ELSE 0)
      /\ WorkerBegin(s, p) \in Nat /\ WorkerEnd(s, p) \in Nat
  BY BeginFacts, <1>1 DEF WorkerBegin, WorkerEnd
<1>3. Owner(s, x) = IF x < large THEN x \div (Q + 1) ELSE R + ((x - large) \div Q)
  BY DEF Owner
<1>4. x \in Nat /\ WorkerBegin(s, p) <= x /\ x < WorkerEnd(s, p)
  BY <1>2
<1> HIDE DEF Q, R
<1>5. CASE p < R
  <2>1. p * (Q + 1) = p * Q + p
    BY <1>1
  <2>2. (p + 1) * (Q + 1) = p * Q + p + Q + 1
    BY <1>1
  <2>3. (p + 1) * (Q + 1) <= R * (Q + 1)
    BY <1>1, <1>5, Monotone
  <2>4. p * (Q + 1) <= x /\ x < (p + 1) * (Q + 1)
    BY <1>1, <1>2, <1>4, <1>5, <2>1, <2>2, Product
  <2>5. x < large
    BY <1>1, <1>4, <2>3, <2>4, Product
  <2>6. x \div (Q + 1) = p
    BY <1>1, <1>4, <2>4, QuotientUnique
  <2> QED BY <1>3, <2>5, <2>6
<1>6. CASE p >= R
  <2>1. PICK d \in Nat : p = R + d
    <3>1. p - R \in Nat /\ p = R + (p - R)
      BY <1>1, <1>6
    <3> QED BY <3>1
  <2>2. p * Q + R = (R * (Q + 1)) + (d * Q)
    BY <1>1, <2>1
  <2>3. large \in Nat /\ d * Q \in Nat /\ p * Q \in Nat
    BY <1>1, <2>1, Product
  <2>4. (d + 1) * Q = d * Q + Q
    BY <1>1, <2>1, Successor
  <2>5. /\ x - large \in Nat
        /\ d * Q <= x - large
        /\ x - large < (d + 1) * Q
    BY <1>1, <1>2, <1>4, <1>6, <2>2, <2>3, <2>4
  <2>6. (x - large) \div Q = d
    BY <1>1, <2>1, <2>5, QuotientUnique
  <2>7. ~(x < large)
    BY <1>4, <2>3, <2>5
  <2> QED BY <1>3, <2>1, <2>6, <2>7
<1> QED BY <1>1, <1>5, <1>6

-----------------------------------------------------------------------------
(* The workers of a tile. *)

LEMMA QuotientBounds ==
    ASSUME NEW x \in Nat, NEW c \in Nat \ {0}, NEW t \in Nat
    PROVE  /\ x \div c <= t <=> x < (t + 1) * c
           /\ t <= x \div c <=> t * c <= x
<1> DEFINE d == x \div c
<1>1. d \in Nat /\ d * c <= x /\ x < d * c + c
  BY Division
<1> HIDE DEF d
<1>2. d * c \in Nat /\ t * c \in Nat /\ (t + 1) * c = t * c + c /\ (d + 1) * c = d * c + c
  BY <1>1, Product, Successor
<1>3. d <= t => d * c <= t * c
  BY <1>1, Monotone
<1>4. t <= d => t * c <= d * c
  BY <1>1, Monotone
<1>5. t < d => (t + 1) * c <= d * c
  BY <1>1, Monotone
<1>6. d < t => (d + 1) * c <= t * c
  BY <1>1, Monotone
<1>7. (d <= t <=> x < (t + 1) * c) /\ (t <= d <=> t * c <= x)
  BY <1>1, <1>2, <1>3, <1>4, <1>5, <1>6
<1> QED BY <1>7 DEF d

LEMMA Ordered ==
    ASSUME NEW s, IsShape(s), NEW p \in Nat, NEW q \in Nat, p < q
    PROVE  WorkerEnd(s, p) <= WorkerBegin(s, q)
<1> DEFINE Q == Quotient(s)
           R == Remainder(s)
<1>1. Q \in Nat \ {0} /\ R \in Nat
  BY ShapeFacts
<1>2. WorkerEnd(s, p) = (p + 1) * Q + (IF p + 1 < R THEN p + 1 ELSE R)
  BY BeginFacts DEF WorkerBegin
<1>3. WorkerBegin(s, q) = q * Q + (IF q < R THEN q ELSE R)
  BY DEF WorkerBegin
<1> HIDE DEF Q, R
<1>4. (p + 1) * Q <= q * Q /\ (p + 1) * Q \in Nat /\ q * Q \in Nat
  BY <1>1, Monotone, Product
<1> QED BY <1>1, <1>2, <1>3, <1>4

(* Every iteration lies in the interval of the worker _streamk_owner names. *)
LEMMA OwnerHolds ==
    ASSUME NEW s, IsShape(s), NEW x \in 0..(Total(s) - 1)
    PROVE  /\ Owner(s, x) \in Workers(s)
           /\ WorkerBegin(s, Owner(s, x)) <= x /\ x < WorkerEnd(s, Owner(s, x))
<1> DEFINE W == s.workers
           Q == Quotient(s)
           R == Remainder(s)
           large == R * (Q + 1)
           o == Owner(s, x)
<1>1. /\ Q \in Nat \ {0} /\ R \in 0..(W - 1) /\ W \in Nat \ {0} /\ x \in Nat
      /\ Total(s) = (W * Q) + R /\ Total(s) \in Nat
  BY ShapeFacts
<1>2. o = IF x < large THEN x \div (Q + 1) ELSE R + ((x - large) \div Q)
  BY DEF Owner
<1>3. ASSUME o \in Nat
      PROVE  /\ WorkerBegin(s, o) = o * Q + (IF o < R THEN o ELSE R)
             /\ WorkerEnd(s, o) = WorkerBegin(s, o) + Q + (IF o < R THEN 1 ELSE 0)
  BY DEF WorkerBegin, WorkerEnd
<1>4. x < (W * Q) + R
  BY <1>1
<1>5. Workers(s) = 0..(W - 1)
  BY DEF Workers
<1> SUFFICES o \in Workers(s) /\ WorkerBegin(s, o) <= x /\ x < WorkerEnd(s, o)
  OBVIOUS
<1> HIDE DEF W, Q, R, o
<1>6. CASE x < large
  <2>1. o \in Nat /\ o * (Q + 1) <= x /\ x < (o * (Q + 1)) + Q + 1
    <3>1. Q + 1 \in Nat \ {0} /\ o = x \div (Q + 1)
      BY <1>1, <1>2, <1>6
    <3>2. o \in Nat /\ o * (Q + 1) <= x /\ x < o * (Q + 1) + (Q + 1)
      BY <1>1, <3>1, DivisionBounds
    <3> QED BY <1>1, <3>2, Product
  <2>2. o < R
    <3>1. R <= o => R * (Q + 1) <= o * (Q + 1)
      BY <1>1, <2>1, Monotone
    <3>2. R * (Q + 1) \in Nat /\ o * (Q + 1) \in Nat
      BY <1>1, <2>1, Product
    <3> QED BY <1>1, <1>6, <2>1, <3>1, <3>2
  <2>3. o * (Q + 1) = o * Q + o /\ o * Q \in Nat
    BY <1>1, <2>1
  <2> QED BY <1>1, <1>3, <1>5, <2>1, <2>2, <2>3
<1>7. CASE ~(x < large)
  <2>1. large \in Nat /\ x - large \in Nat
    BY <1>1, <1>7, Product
  <2>2. PICK d \in Nat : /\ o = R + d
                         /\ d * Q <= x - large /\ x - large < (d * Q) + Q
    <3> DEFINE e == (x - large) \div Q
    <3>1. o = R + e
      BY <1>2, <1>7
    <3>2. e \in Nat /\ e * Q <= x - large /\ x - large < e * Q + Q
      <4> DEFINE y == x - large
      <4>1. y \in Nat /\ e = y \div Q
        BY <2>1
      <4> HIDE DEF y, e
      <4>2. e \in Nat /\ e * Q <= y /\ y < e * Q + Q
        BY <1>1, <4>1, DivisionBounds
      <4> QED BY <4>2 DEF y
    <3> QED BY <3>1, <3>2
  <2>3. o \in Nat /\ ~(o < R)
    BY <1>1, <2>2
  <2>4. o * Q + R = large + (d * Q) /\ o * Q \in Nat /\ d * Q \in Nat
    BY <1>1, <2>2
  <2>5. o * Q + R <= x /\ x < o * Q + R + Q
    BY <1>1, <2>1, <2>2, <2>4
  <2>6. o < W
    <3>1. W <= o => W * Q <= o * Q
      BY <1>1, <2>3, Monotone
    <3> QED BY <1>1, <1>4, <2>3, <2>4, <2>5, <3>1, Product
  <2> QED BY <1>1, <1>3, <1>5, <2>3, <2>4, <2>5, <2>6
<1> QED BY <1>6, <1>7

(* The first and the last iteration of a tile. *)
LEMMA TileEnds ==
    ASSUME NEW s, IsShape(s), NEW t \in Tiles(s)
    PROVE  /\ t \in Nat /\ t * s.k \in Nat /\ s.k \in Nat \ {0}
           /\ (t + 1) * s.k = t * s.k + s.k
           /\ t * s.k \in 0..(Total(s) - 1)
           /\ (t + 1) * s.k - 1 \in 0..(Total(s) - 1)
<1>1. /\ t \in Nat /\ TileCount(s) \in Nat /\ t + 1 <= TileCount(s)
      /\ s.k \in Nat \ {0} /\ Total(s) \in Nat
      /\ Total(s) = TileCount(s) * s.k
  BY ShapeFacts DEF Tiles, IsShape, Total
<1>2. /\ t * s.k \in Nat
      /\ (t + 1) * s.k = t * s.k + s.k
      /\ (t + 1) * s.k <= TileCount(s) * s.k
  <2>1. t * s.k \in Nat
    BY <1>1, Product
  <2>2. t \in Int /\ s.k \in Int
    BY <1>1
  <2>4. (t + 1) * s.k = t * s.k + s.k
    BY <2>2, Successor
  <2>3. (t + 1) * s.k <= TileCount(s) * s.k
    BY <1>1, Monotone
  <2> QED BY <2>1, <2>3, <2>4
<1> QED BY <1>1, <1>2

(* The owners of a tile, from the first to the last, are exactly the workers *)
(* whose loop visits it: the arrival counter of the tile is raised as often  *)
(* as the last arrival expects (_streamk_tile_owners, _emit_streamk_kernel). *)
THEOREM OwnersVisit ==
    ASSUME NEW s, IsShape(s), NEW t \in Tiles(s), NEW p \in Workers(s)
    PROVE  p \in FirstOwner(s, t)..LastOwner(s, t)
             <=> t \in FirstTile(s, p)..LastTile(s, p)
<1> DEFINE a == t * s.k
           b == (t + 1) * s.k - 1
           fo == FirstOwner(s, t)
           lo == LastOwner(s, t)
           beg == WorkerBegin(s, p)
           end == WorkerEnd(s, p)
<1>1. t \in Nat /\ a \in 0..(Total(s) - 1) /\ b \in 0..(Total(s) - 1)
      /\ s.k \in Nat \ {0} /\ p \in Nat /\ Total(s) \in Nat
  BY TileEnds, ShapeFacts DEF Workers
<1>2. /\ fo \in Workers(s) /\ WorkerBegin(s, fo) <= a /\ a < WorkerEnd(s, fo)
      /\ lo \in Workers(s) /\ WorkerBegin(s, lo) <= b /\ b < WorkerEnd(s, lo)
  BY <1>1, OwnerHolds DEF FirstOwner, LastOwner
<1>3. fo \in Nat /\ lo \in Nat
  BY <1>2, ShapeFacts DEF Workers
<1>4. beg \in Nat /\ end \in Nat /\ beg < end
  BY <1>1, BeginFacts
<1>5. /\ WorkerBegin(s, fo) \in Nat /\ WorkerEnd(s, fo) \in Nat
      /\ WorkerBegin(s, lo) \in Nat /\ WorkerEnd(s, lo) \in Nat
  BY <1>3, BeginFacts
<1>6. /\ p < fo => end <= WorkerBegin(s, fo)
      /\ fo < p => WorkerEnd(s, fo) <= beg
      /\ p < lo => end <= WorkerBegin(s, lo)
      /\ lo < p => WorkerEnd(s, lo) <= beg
      /\ p = fo => end = WorkerEnd(s, fo)
      /\ p = lo => beg = WorkerBegin(s, lo)
  BY <1>1, <1>3, Ordered
<1>7. FirstTile(s, p) <= t <=> beg < (t + 1) * s.k
  BY <1>1, <1>4, QuotientBounds DEF FirstTile
<1>8. t <= LastTile(s, p) <=> a <= end - 1
  BY <1>1, <1>4, QuotientBounds DEF LastTile
<1>9. FirstTile(s, p) \in Nat /\ LastTile(s, p) \in Nat
  <2>1. end - 1 \in Nat
    BY <1>4
  <2>2. beg \div s.k \in Nat /\ (end - 1) \div s.k \in Nat
    BY <1>1, <1>4, <2>1, Division
  <2> QED BY <2>2 DEF FirstTile, LastTile
<1>10. (t + 1) * s.k = b + 1
  BY <1>1, Product
<1> HIDE DEF a, b, fo, lo, beg, end
<1>11. fo <= p <=> a < end
  BY <1>1, <1>2, <1>3, <1>4, <1>5, <1>6
<1>12. p <= lo <=> beg <= b
  BY <1>1, <1>2, <1>3, <1>4, <1>5, <1>6
<1>13. FirstTile(s, p) <= t <=> beg <= b
  BY <1>1, <1>4, <1>7, <1>10
<1>14. t <= LastTile(s, p) <=> a < end
  BY <1>1, <1>4, <1>8
<1>15. p \in fo..lo <=> t \in FirstTile(s, p)..LastTile(s, p)
  BY <1>1, <1>3, <1>9, <1>11, <1>12, <1>13, <1>14
<1> QED BY <1>15 DEF fo, lo

-----------------------------------------------------------------------------
(* The parts of a tile. *)

(* A worker's part of a tile is its interval, cut off at the tile's ends. *)
LEMMA PartClipped ==
    ASSUME NEW s, IsShape(s), NEW t \in Tiles(s), NEW p \in Workers(s),
           t \in FirstTile(s, p)..LastTile(s, p)
    PROVE  /\ KBegin(s, p, t) = IF WorkerBegin(s, p) > t * s.k
                                  THEN WorkerBegin(s, p) - t * s.k ELSE 0
           /\ KEnd(s, p, t) = IF WorkerEnd(s, p) < (t + 1) * s.k
                                THEN WorkerEnd(s, p) - t * s.k ELSE s.k
<1> DEFINE a == t * s.k
           c == (t + 1) * s.k
           beg == WorkerBegin(s, p)
           end == WorkerEnd(s, p)
           first == FirstTile(s, p)
           last == LastTile(s, p)
<1>1. t \in Nat /\ a \in Nat /\ s.k \in Nat \ {0} /\ c = a + s.k
  BY TileEnds
<1>2. p \in Nat /\ beg \in Nat /\ end - 1 \in Nat /\ end \in Nat
  <2>1. p \in Nat
    BY ShapeFacts DEF Workers
  <2> QED BY <2>1, BeginFacts
<1>3. /\ first <= t <=> beg < c
      /\ t <= first <=> a <= beg
  BY <1>1, <1>2, QuotientBounds DEF FirstTile
<1>4. /\ last <= t <=> end - 1 < c
      /\ t <= last <=> a <= end - 1
  BY <1>1, <1>2, QuotientBounds DEF LastTile
<1>5. first \in Nat /\ last \in Nat
  BY <1>1, <1>2, Division DEF FirstTile, LastTile
<1>6. first <= t /\ t <= last
  BY <1>1, <1>5
<1>7. /\ KBegin(s, p, t) = IF t = first THEN beg - a ELSE 0
      /\ KEnd(s, p, t) = IF t = last THEN end - a ELSE s.k
  BY DEF KBegin, KEnd
<1> HIDE DEF a, c, beg, end, first, last
<1>8. KBegin(s, p, t) = IF beg > a THEN beg - a ELSE 0
  BY <1>1, <1>2, <1>3, <1>5, <1>6, <1>7
<1>9. KEnd(s, p, t) = IF end < c THEN end - a ELSE s.k
  BY <1>1, <1>2, <1>4, <1>5, <1>6, <1>7
<1> QED BY <1>8, <1>9 DEF a, c, beg, end

(* The parts of a tile fit together: the first owner begins at 0, each owner *)
(* begins where the one before it ends, and the last one ends at k.  With    *)
(* them the reducer, which loads the parts from the first owner to the last, *)
(* adds up every k iteration of the tile once (_streamk_partition,           *)
(* _emit_streamk_kernel, _reduce_and_store_streamk_partials).                *)
THEOREM PartsFit ==
    ASSUME NEW s, IsShape(s), NEW t \in Tiles(s)
    PROVE  /\ KBegin(s, FirstOwner(s, t), t) = 0
           /\ KEnd(s, LastOwner(s, t), t) = s.k
           /\ \A p \in FirstOwner(s, t)..(LastOwner(s, t) - 1) :
                 KEnd(s, p, t) = KBegin(s, p + 1, t)
<1> DEFINE a == t * s.k
           c == (t + 1) * s.k
           fo == FirstOwner(s, t)
           lo == LastOwner(s, t)
<1>1. /\ t \in Nat /\ a \in Nat /\ s.k \in Nat \ {0} /\ c = a + s.k
      /\ a \in 0..(Total(s) - 1) /\ c - 1 \in 0..(Total(s) - 1)
  BY TileEnds
<1>2. /\ fo \in Workers(s) /\ WorkerBegin(s, fo) <= a /\ a < WorkerEnd(s, fo)
      /\ lo \in Workers(s) /\ WorkerBegin(s, lo) <= c - 1 /\ c - 1 < WorkerEnd(s, lo)
  BY <1>1, OwnerHolds DEF FirstOwner, LastOwner
<1>3. fo \in Nat /\ lo \in Nat /\ lo < s.workers /\ s.workers \in Nat
  BY <1>2, ShapeFacts DEF Workers
<1>4. ASSUME NEW p \in fo..lo
      PROVE  /\ p \in Workers(s) /\ p \in Nat
             /\ KBegin(s, p, t) = IF WorkerBegin(s, p) > a
                                    THEN WorkerBegin(s, p) - a ELSE 0
             /\ KEnd(s, p, t) = IF WorkerEnd(s, p) < c
                                  THEN WorkerEnd(s, p) - a ELSE s.k
             /\ WorkerBegin(s, p) \in Nat /\ WorkerEnd(s, p) \in Nat
  <2>1. p \in Workers(s) /\ p \in Nat
    BY <1>3 DEF Workers
  <2>2. t \in FirstTile(s, p)..LastTile(s, p)
    BY <2>1, OwnersVisit
  <2> QED BY <2>1, <2>2, PartClipped, BeginFacts
<1>5. fo <= lo
  <2>1. WorkerEnd(s, lo) \in Nat /\ WorkerBegin(s, fo) \in Nat
    BY <1>3, BeginFacts
  <2>2. lo < fo => WorkerEnd(s, lo) <= WorkerBegin(s, fo)
    BY <1>3, Ordered
  <2> HIDE DEF fo, lo, a, c
  <2> QED BY <1>1, <1>2, <1>3, <2>1, <2>2
<1>6. fo \in fo..lo /\ lo \in fo..lo
  BY <1>3, <1>5
<1>7. KBegin(s, fo, t) = 0
  <2> HIDE DEF fo, lo, a, c
  <2> QED BY <1>1, <1>2, <1>4, <1>6
<1>8. KEnd(s, lo, t) = s.k
  <2> HIDE DEF fo, lo, a, c
  <2> QED BY <1>1, <1>2, <1>4, <1>6
<1>9. ASSUME NEW p \in fo..(lo - 1)
      PROVE  KEnd(s, p, t) = KBegin(s, p + 1, t)
  <2>1. p \in fo..lo /\ p + 1 \in fo..lo /\ p \in Nat
    BY <1>3
  <2>2. WorkerEnd(s, p) = WorkerBegin(s, p + 1)
    BY <2>1, BeginFacts
  <2>3. p # fo => WorkerEnd(s, fo) <= WorkerBegin(s, p)
    BY <1>3, <2>1, Ordered
  <2>4. p + 1 # lo => WorkerEnd(s, p + 1) <= WorkerBegin(s, lo)
    BY <1>3, <2>1, Ordered
  <2>5. /\ WorkerBegin(s, p) < WorkerEnd(s, p)
        /\ WorkerBegin(s, p + 1) < WorkerEnd(s, p + 1)
        /\ WorkerEnd(s, fo) \in Nat /\ WorkerBegin(s, lo) \in Nat
        /\ WorkerEnd(s, p + 1) \in Nat /\ WorkerBegin(s, p) \in Nat
    BY <1>3, <2>1, BeginFacts
  <2> HIDE DEF fo, lo, a, c
  <2>6. WorkerEnd(s, p) > a /\ WorkerEnd(s, p) \in Nat
    BY <1>1, <1>2, <1>4, <2>1, <2>3, <2>5
  <2>7. WorkerBegin(s, p + 1) < c
    BY <1>1, <1>2, <1>4, <2>1, <2>4, <2>5
  <2> QED BY <1>1, <1>4, <2>1, <2>2, <2>6, <2>7
<1> QED BY <1>7, <1>8, <1>9

(* Two slots of scratch memory per worker are enough: of the tiles a worker  *)
(* visits only the first and the last can be partial, they get different     *)
(* slots, and the reducer looks for each part where it was stored            *)
(* (_emit_streamk_tile, _streamk_owner_slot).                                *)
THEOREM TwoSlotsSuffice ==
    ASSUME NEW s, IsShape(s), NEW p \in Workers(s),
           NEW t \in FirstTile(s, p)..LastTile(s, p),
           NEW u \in FirstTile(s, p)..LastTile(s, p),
           ~IsWhole(s, p, t), ~IsWhole(s, p, u),
           StoreSlot(s, p, t) = OwnerSlot(s, p, u)
    PROVE  t = u
<1>1. /\ t \in {FirstTile(s, p), LastTile(s, p)}
      /\ u \in {FirstTile(s, p), LastTile(s, p)}
  BY DEF IsWhole, KBegin, KEnd
<1>2. /\ t = FirstTile(s, p) => StoreSlot(s, p, t) = 0
      /\ t # FirstTile(s, p) => StoreSlot(s, p, t) = 1
      /\ u = FirstTile(s, p) => OwnerSlot(s, p, u) = 0
      /\ u # FirstTile(s, p) => OwnerSlot(s, p, u) = 1
  BY DEF StoreSlot, OwnerSlot, FirstTile
<1> QED BY <1>1, <1>2

-----------------------------------------------------------------------------
(* Remainders. *)

(* A number is put together from a quotient and a remainder in one way. *)
LEMMA Compose ==
    ASSUME NEW c \in Nat \ {0}, NEW q \in Nat, NEW r \in 0..(c - 1)
    PROVE  /\ (q * c) + r \in Nat
           /\ ((q * c) + r) \div c = q
           /\ ((q * c) + r) % c = r
<1> DEFINE x == (q * c) + r
           d == x \div c
<1>1. q * c \in Nat /\ r \in Nat /\ r < c /\ x \in Nat
  BY Product
<1>2. (q + 1) * c = q * c + c
  BY Successor
<1>3. d = q
  BY <1>1, <1>2, QuotientUnique
<1>4. x % c \in 0..(c - 1) /\ x = (d * c) + (x % c)
  BY <1>1, Division
<1> HIDE DEF d
<1>5. x % c = r
  BY <1>1, <1>3, <1>4
<1> QED BY <1>1, <1>3, <1>5 DEF d

(* It lies below a multiple of c when its quotient does. *)
LEMMA ComposeBound ==
    ASSUME NEW c \in Nat \ {0}, NEW d \in Nat, NEW q \in 0..(d - 1), NEW r \in 0..(c - 1)
    PROVE  (q * c) + r < d * c
<1>1. q \in Nat /\ q + 1 <= d /\ r < c /\ r \in Nat
  OBVIOUS
<1>2. (q + 1) * c <= d * c
  BY <1>1, Monotone
<1>3. (q + 1) * c = q * c + c
  BY <1>1, Successor
<1>4. q * c \in Nat /\ d * c \in Nat
  BY <1>1, Product
<1> QED BY <1>1, <1>2, <1>3, <1>4

LEMMA QuotientBelow ==
    ASSUME NEW c \in Nat \ {0}, NEW d \in Nat, NEW x \in 0..((d * c) - 1)
    PROVE  x \div c \in 0..(d - 1)
<1> DEFINE q == x \div c
<1>1. d * c \in Nat
  BY Product
<1>2. x \in Nat /\ x < d * c
  BY <1>1
<1>3. q \in Nat /\ q * c <= x
  BY <1>2, Division
<1> HIDE DEF q
<1>4. d <= q => d * c <= q * c
  BY <1>3, Monotone
<1>5. q * c \in Nat
  BY <1>3, Product
<1> QED BY <1>1, <1>2, <1>3, <1>4, <1>5 DEF q

(* Numbers with the same remainder are at least c apart. *)
LEMMA SameRemainder ==
    ASSUME NEW c \in Nat \ {0}, NEW x \in Nat
    PROVE  /\ (x + c) % c = x % c
           /\ \A y \in Nat : x % c = y % c /\ x < y => x + c <= y
<1> DEFINE q == x \div c
           r == x % c
<1>1. q \in Nat /\ r \in 0..(c - 1) /\ x = (q * c) + r
  BY Division
<1> HIDE DEF q, r
<1>2. q * c \in Nat /\ (q + 1) * c = q * c + c
  BY <1>1, Product, Successor
<1>3. x + c = ((q + 1) * c) + r
  BY <1>1, <1>2
<1>4. (((q + 1) * c) + r) % c = r
  BY <1>1, Compose
<1>5. ASSUME NEW y \in Nat, y % c = r, x < y
      PROVE  x + c <= y
  <2> DEFINE h == y \div c
  <2>1. h \in Nat /\ y = (h * c) + r
    BY <1>5, Division
  <2> HIDE DEF h
  <2>2. h * c \in Nat
    BY <2>1, Product
  <2>3. h <= q => h * c <= q * c
    BY <1>1, <2>1, Monotone
  <2>4. q < h => (q + 1) * c <= h * c
    BY <1>1, <2>1, Monotone
  <2> QED BY <1>1, <1>2, <1>5, <2>1, <2>2, <2>3, <2>4
<1> QED BY <1>3, <1>4, <1>5 DEF r

-----------------------------------------------------------------------------
(* The tiles a worker's loop visits. *)
Mine(s, p) ==
    IF Aligned(s) THEN {t \in Tiles(s) : t % s.workers = p}
    ELSE FirstTile(s, p)..LastTile(s, p)

LEMMA Bounds ==
    ASSUME NEW s, IsShape(s), NEW p \in Workers(s)
    PROVE  /\ p \in Nat
           /\ FirstTile(s, p) \in Nat /\ LastTile(s, p) \in Nat
           /\ FirstTile(s, p) <= LastTile(s, p)
           /\ LastTile(s, p) < TileCount(s)
<1> DEFINE beg == WorkerBegin(s, p)
           end == WorkerEnd(s, p)
           T == TileCount(s)
           k == s.k
           last == LastTile(s, p)
           first == FirstTile(s, p)
<1>1. /\ p \in Nat /\ s.workers - 1 \in Nat /\ p <= s.workers - 1
      /\ k \in Nat \ {0} /\ T \in Nat /\ T - 1 \in Nat /\ T * k = Total(s)
  BY ShapeFacts DEF Workers, IsShape, Total
<1>2. beg \in Nat /\ end \in Nat /\ beg < end /\ end - 1 \in Nat
  BY <1>1, BeginFacts
<1>3. end <= T * k
  <2>1. WorkerEnd(s, s.workers - 1) = T * k
    BY <1>1, IntervalsPartition
  <2>2. p < s.workers - 1 => end <= WorkerBegin(s, s.workers - 1)
    BY <1>1, Ordered
  <2>3. /\ WorkerBegin(s, s.workers - 1) < WorkerEnd(s, s.workers - 1)
        /\ WorkerBegin(s, s.workers - 1) \in Nat
        /\ WorkerEnd(s, s.workers - 1) \in Nat
    BY <1>1, BeginFacts
  <2>4. CASE p = s.workers - 1
    BY <2>1, <2>4, <1>2
  <2>5. CASE p < s.workers - 1
    BY <1>2, <2>1, <2>2, <2>3, <2>5
  <2>6. p = s.workers - 1 \/ p < s.workers - 1
    BY <1>1
  <2> HIDE DEF end, T, k
  <2> QED BY <2>4, <2>5, <2>6
<1>4. first \in Nat /\ last \in Nat
  BY <1>1, <1>2, Division DEF FirstTile, LastTile
<1>5. last <= T - 1
  <2>1. (T - 1) + 1 = T
    BY <1>1
  <2>2. last <= T - 1 <=> end - 1 < ((T - 1) + 1) * k
    BY <1>1, <1>2, QuotientBounds DEF LastTile
  <2>3. T * k \in Nat
    BY <1>1, Product
  <2> HIDE DEF end, last
  <2> QED BY <1>2, <1>3, <2>1, <2>2, <2>3
<1>6. first <= last
  <2>1. first * k <= beg
    BY <1>1, <1>2, DivisionBounds DEF FirstTile
  <2>2. first * k \in Nat
    BY <1>1, <1>4, Product
  <2>3. first <= last <=> first * k <= end - 1
    BY <1>1, <1>2, <1>4, QuotientBounds DEF LastTile
  <2> HIDE DEF beg, end, first, last
  <2> QED BY <1>2, <2>1, <2>2, <2>3
<1> QED BY <1>1, <1>4, <1>5, <1>6

LEMMA MineTiles ==
    ASSUME NEW s, IsShape(s), NEW p \in Workers(s)
    PROVE  Mine(s, p) \subseteq Tiles(s) /\ Tiles(s) \subseteq Nat
<1>1. TileCount(s) \in Nat
  BY ShapeFacts
<1>2. CASE Aligned(s)
  BY <1>1, <1>2 DEF Mine, Tiles
<1>3. CASE ~Aligned(s)
  BY <1>1, <1>3, Bounds DEF Mine, Tiles
<1> QED BY <1>2, <1>3

(* The loop starts at the first of the worker's tiles *)
LEMMA EntryFirst ==
    ASSUME NEW s, IsShape(s), NEW p \in Workers(s)
    PROVE  EntryTile(s, p) \in Mine(s, p) /\ \A u \in Mine(s, p) : EntryTile(s, p) <= u
<1>1. /\ TileCount(s) \in Nat \ {0} /\ s.workers \in Nat \ {0}
      /\ p \in 0..(s.workers - 1)
  BY ShapeFacts DEF Workers
<1>2. CASE Aligned(s)
  <2> DEFINE W == s.workers
             T == TileCount(s)
             d == T \div W
  <2>1. d \in Nat /\ T = (d * W) + 0
    BY <1>1, <1>2, Division DEF Aligned
  <2> HIDE DEF d
  <2>2. d >= 1
    BY <1>1, <2>1
  <2>3. 1 * W <= d * W /\ d * W \in Nat
    BY <1>1, <2>1, <2>2, Monotone, Product
  <2>4. W <= T
    BY <1>1, <2>1, <2>3
  <2>5. p % W = p
    <3>1. ((0 * W) + p) % W = p
      BY <1>1, Compose
    <3> QED BY <1>1, <3>1
  <2>6. p \in Mine(s, p)
    BY <1>1, <1>2, <2>4, <2>5 DEF Mine, Tiles
  <2>7. ASSUME NEW u \in Mine(s, p) PROVE p <= u
    <3>1. u \in Nat /\ u % W = p
      BY <1>1, <1>2, <2>7 DEF Mine, Tiles
    <3>2. u \div W \in Nat /\ u = ((u \div W) * W) + (u % W)
      BY <1>1, <3>1, Division
    <3>3. (u \div W) * W \in Nat
      BY <1>1, <3>2, Product
    <3> QED BY <1>1, <3>1, <3>2, <3>3
  <2> QED BY <1>2, <2>6, <2>7 DEF EntryTile
<1>3. CASE ~Aligned(s)
  BY <1>3, Bounds DEF Mine, EntryTile
<1> QED BY <1>2, <1>3

(* and goes from each to the next until there is none.                       *)
LEMMA NextTile ==
    ASSUME NEW s, IsShape(s), NEW p \in Workers(s), NEW t \in Mine(s, p)
    PROVE  /\ t \in Nat /\ TileStep(s) \in Nat \ {0}
           /\ HasNext(s, p, t) =>
                /\ t + TileStep(s) \in Mine(s, p)
                /\ \A u \in Mine(s, p) : u < t + TileStep(s) <=> u <= t
           /\ ~HasNext(s, p, t) => \A u \in Mine(s, p) : u <= t
<1>1. TileCount(s) \in Nat \ {0} /\ s.workers \in Nat \ {0}
  BY ShapeFacts
<1>2. Mine(s, p) \subseteq Nat
  BY MineTiles
<1>3. CASE Aligned(s)
  <2> DEFINE W == s.workers
  <2>1. TileStep(s) = W
    BY <1>3 DEF TileStep
  <2>2. t \in Nat /\ t % W = p /\ t < TileCount(s)
    BY <1>1, <1>3 DEF Mine, Tiles
  <2>3. ASSUME NEW u \in Mine(s, p)
        PROVE  u \in Nat /\ u < TileCount(s) /\ (t < u => t + W <= u)
    <3>1. u \in Nat /\ u < TileCount(s) /\ u % W = p
      BY <1>1, <1>3, <2>3 DEF Mine, Tiles
    <3> QED BY <1>1, <2>2, <3>1, SameRemainder
  <2>4. (t + W) % W = p
    BY <1>1, <2>2, SameRemainder
  <2>5. HasNext(s, p, t) <=> t + W < TileCount(s)
    BY <1>3, <2>1 DEF HasNext
  <2>6. HasNext(s, p, t) => t + W \in Mine(s, p)
    BY <1>1, <1>3, <2>2, <2>4, <2>5 DEF Mine, Tiles
  <2>7. HasNext(s, p, t) => \A u \in Mine(s, p) : u < t + W <=> u <= t
    BY <1>1, <2>2, <2>3
  <2>8. ~HasNext(s, p, t) => \A u \in Mine(s, p) : u <= t
    BY <1>1, <2>2, <2>3, <2>5
  <2> QED BY <1>1, <2>1, <2>2, <2>6, <2>7, <2>8
<1>4. CASE ~Aligned(s)
  <2>1. TileStep(s) = 1 /\ (HasNext(s, p, t) <=> t < LastTile(s, p))
    BY <1>4 DEF TileStep, HasNext
  <2>2. Mine(s, p) = FirstTile(s, p)..LastTile(s, p)
    BY <1>4 DEF Mine
  <2>3. t \in FirstTile(s, p)..LastTile(s, p)
    BY <2>2
  <2>4. FirstTile(s, p) \in Nat /\ LastTile(s, p) \in Nat
    BY Bounds
  <2>5. HasNext(s, p, t) => t + 1 \in Mine(s, p)
    BY <2>1, <2>2, <2>3, <2>4
  <2>6. HasNext(s, p, t) => \A u \in Mine(s, p) : u < t + 1 <=> u <= t
    BY <2>2, <2>3, <2>4
  <2>7. ~HasNext(s, p, t) => \A u \in Mine(s, p) : u <= t
    BY <2>1, <2>2, <2>3, <2>4
  <2> QED BY <2>1, <2>3, <2>4, <2>5, <2>6, <2>7
<1> QED BY <1>3, <1>4

-----------------------------------------------------------------------------
(* Whole and shared tiles. *)

(* Worker p computes a part of tile t and must hand it over. *)
Shared(s, p, t) == t \in Mine(s, p) /\ ~IsWholeTile(s, p, t)

Owners(s, t) == FirstOwner(s, t)..LastOwner(s, t)

LEMMA OwnersFacts ==
    ASSUME NEW s, IsShape(s), NEW t \in Tiles(s)
    PROVE  /\ FirstOwner(s, t) \in Nat /\ LastOwner(s, t) \in Nat
           /\ FirstOwner(s, t) <= LastOwner(s, t)
           /\ FirstOwner(s, t) \in Workers(s)
           /\ Owners(s, t) \subseteq Workers(s)
           /\ Parts(s, t) \in Nat \ {0}
           /\ Parts(s, t) = LastOwner(s, t) - FirstOwner(s, t) + 1
<1> DEFINE a == t * s.k
           b == (t + 1) * s.k - 1
           fo == FirstOwner(s, t)
           lo == LastOwner(s, t)
<1>1. /\ t \in Nat /\ a \in 0..(Total(s) - 1) /\ b \in 0..(Total(s) - 1)
      /\ Total(s) \in Nat /\ a <= b
  <2>1. /\ t \in Nat /\ a \in 0..(Total(s) - 1) /\ b \in 0..(Total(s) - 1)
        /\ Total(s) \in Nat /\ a \in Nat /\ (t + 1) * s.k = a + s.k /\ s.k \in Nat \ {0}
    BY TileEnds, ShapeFacts
  <2> QED BY <2>1
<1>2. /\ fo \in Workers(s) /\ WorkerBegin(s, fo) <= a /\ a < WorkerEnd(s, fo)
      /\ lo \in Workers(s) /\ WorkerBegin(s, lo) <= b /\ b < WorkerEnd(s, lo)
  BY <1>1, OwnerHolds DEF FirstOwner, LastOwner
<1>3. fo \in Nat /\ lo \in Nat /\ lo < s.workers /\ s.workers \in Nat
  BY <1>2, ShapeFacts DEF Workers
<1>4. fo <= lo
  <2>1. WorkerEnd(s, lo) \in Nat /\ WorkerBegin(s, fo) \in Nat
    BY <1>3, BeginFacts
  <2>2. lo < fo => WorkerEnd(s, lo) <= WorkerBegin(s, fo)
    BY <1>3, Ordered
  <2> HIDE DEF fo, lo, a, b
  <2> QED BY <1>1, <1>2, <1>3, <2>1, <2>2
<1>5. Parts(s, t) = lo - fo + 1
  BY DEF Parts
<1>6. Parts(s, t) \in Nat \ {0}
  BY <1>3, <1>4, <1>5
<1>7. Owners(s, t) \subseteq Workers(s)
  BY <1>3 DEF Owners, Workers
<1> QED BY <1>2, <1>3, <1>4, <1>5, <1>6, <1>7

(* Every tile is visited by some worker. *)
LEMMA Visited ==
    ASSUME NEW s, IsShape(s), NEW t \in Tiles(s)
    PROVE  \E p \in Workers(s) : t \in Mine(s, p)
<1>1. CASE Aligned(s)
  <2>1. t \in Nat /\ s.workers \in Nat \ {0}
    BY TileEnds, ShapeFacts
  <2>2. t % s.workers \in Workers(s)
    BY <2>1, Division DEF Workers
  <2> QED BY <1>1, <2>2 DEF Mine
<1>2. CASE ~Aligned(s)
  <2>1. FirstOwner(s, t) \in Workers(s) /\ FirstOwner(s, t) \in FirstOwner(s, t)..LastOwner(s, t)
    BY OwnersFacts
  <2> QED BY <1>2, <2>1, OwnersVisit DEF Mine
<1> QED BY <1>1, <1>2

(* A worker that computes a whole tile is the only one to visit it. *)
LEMMA WholeAlone ==
    ASSUME NEW s, IsShape(s), NEW p \in Workers(s), NEW q \in Workers(s),
           NEW t \in Mine(s, p), t \in Mine(s, q), IsWholeTile(s, p, t)
    PROVE  p = q
<1>1. CASE Aligned(s)
  BY <1>1 DEF Mine
<1>2. CASE ~Aligned(s)
  <2> DEFINE a == t * s.k
             c == (t + 1) * s.k
  <2>1. /\ t \in FirstTile(s, p)..LastTile(s, p) /\ t \in FirstTile(s, q)..LastTile(s, q)
        /\ KBegin(s, p, t) = 0 /\ KEnd(s, p, t) = s.k
    BY <1>2 DEF Mine, IsWholeTile, IsWhole
  <2>2. t \in Tiles(s)
    BY MineTiles
  <2>3. /\ t \in Nat /\ a \in Nat /\ s.k \in Nat \ {0} /\ c = a + s.k
    BY <2>2, TileEnds
  <2>4. /\ p \in Nat /\ q \in Nat
        /\ WorkerBegin(s, p) \in Nat /\ WorkerEnd(s, p) \in Nat
        /\ WorkerBegin(s, q) \in Nat /\ WorkerEnd(s, q) \in Nat
        /\ WorkerEnd(s, q) - 1 \in Nat
    <3>1. p \in Nat /\ q \in Nat
      BY Bounds
    <3> QED BY <3>1, BeginFacts
  <2>5. WorkerBegin(s, p) <= a /\ WorkerEnd(s, p) >= c
    <3>1. /\ KBegin(s, p, t) = IF WorkerBegin(s, p) > a THEN WorkerBegin(s, p) - a ELSE 0
          /\ KEnd(s, p, t) = IF WorkerEnd(s, p) < c THEN WorkerEnd(s, p) - a ELSE s.k
      BY <2>1, <2>2, PartClipped
    <3> HIDE DEF a, c
    <3> QED BY <2>1, <2>3, <2>4, <3>1
  <2>6. FirstTile(s, q) <= t /\ t <= LastTile(s, q)
    BY <2>1, <2>3, Bounds
  <2>7. WorkerBegin(s, q) < c
    BY <2>3, <2>4, <2>6, QuotientBounds DEF FirstTile
  <2>8. a <= WorkerEnd(s, q) - 1
    BY <2>3, <2>4, <2>6, QuotientBounds DEF LastTile
  <2>9. /\ q < p => WorkerEnd(s, q) <= WorkerBegin(s, p)
        /\ p < q => WorkerEnd(s, p) <= WorkerBegin(s, q)
    BY <2>4, Ordered
  <2> HIDE DEF a, c
  <2> QED BY <2>3, <2>4, <2>5, <2>7, <2>8, <2>9
<1> QED BY <1>1, <1>2

(* The workers of a shared tile are its owners, and each of them hands its   *)
(* part over.                                                                *)
LEMMA SharedOwners ==
    ASSUME NEW s, IsShape(s), NEW p \in Workers(s), NEW t, Shared(s, p, t)
    PROVE  /\ t \in Tiles(s) /\ ~Aligned(s)
           /\ \A q \in Workers(s) : Shared(s, q, t) <=> q \in Owners(s, t)
<1>1. t \in Mine(s, p) /\ ~Aligned(s) /\ ~IsWholeTile(s, p, t)
  BY DEF Shared, IsWholeTile
<1>2. t \in Tiles(s)
  BY <1>1, MineTiles
<1>3. ASSUME NEW q \in Workers(s)
      PROVE  Shared(s, q, t) <=> q \in Owners(s, t)
  <2>1. t \in Mine(s, q) <=> q \in Owners(s, t)
    BY <1>1, <1>2, OwnersVisit DEF Mine, Owners
  <2>2. t \in Mine(s, q) => ~IsWholeTile(s, q, t)
    BY <1>1, WholeAlone
  <2> QED BY <2>1, <2>2 DEF Shared
<1> QED BY <1>1, <1>2, <1>3

(* A worker's shared tiles have a slot each, where the reducer looks. *)
LEMMA SharedSlots ==
    ASSUME NEW s, IsShape(s), NEW p \in Workers(s), NEW t, NEW u,
           Shared(s, p, t), Shared(s, p, u), StoreSlot(s, p, t) = StoreSlot(s, p, u)
    PROVE  t = u
<1>1. /\ t \in FirstTile(s, p)..LastTile(s, p) /\ u \in FirstTile(s, p)..LastTile(s, p)
      /\ ~IsWhole(s, p, t) /\ ~IsWhole(s, p, u)
  BY DEF Shared, Mine, IsWholeTile
<1>2. StoreSlot(s, p, u) = OwnerSlot(s, p, u)
  BY DEF StoreSlot, OwnerSlot, FirstTile
<1> QED BY <1>1, <1>2, TwoSlotsSuffice

-----------------------------------------------------------------------------
(* The places of the tiles. *)

(* The order in which the XCDs take the tiles, _emit_cta_coords_from_raw. *)
Pid(s, t) == (t % s.xcds) * (TileCount(s) \div s.xcds) + (t \div s.xcds)

Grouped(s, pid) ==
    LET span == s.group * s.n
        within == pid % span
    IN  <<(pid \div span) * s.group + (within % s.group), within \div s.group>>

LEMMA PidPermutes ==
    ASSUME NEW s, IsShape(s), s.xcds \in Nat
    PROVE  /\ \A t \in Tiles(s) : Pid(s, t) \in Tiles(s)
           /\ \A t, u \in Tiles(s) : Pid(s, t) = Pid(s, u) => t = u
           /\ \A x \in Tiles(s) : \E t \in Tiles(s) : Pid(s, t) = x
<1> DEFINE X == s.xcds
           T == TileCount(s)
           D == T \div X
<1>1. X \in Nat \ {0} /\ T \in Nat \ {0} /\ T % X = 0
  BY ShapeFacts DEF IsShape, Valid
<1>2. D \in Nat /\ T = (D * X) + 0
  BY <1>1, Division
<1>3. Tiles(s) = 0..(T - 1)
  BY DEF Tiles
<1>4. \A t : Pid(s, t) = (t % X) * D + (t \div X)
  BY DEF Pid
<1> HIDE DEF D, X, T
<1>5. D \in Nat \ {0} /\ T = D * X /\ T = X * D
  BY <1>1, <1>2
<1>6. ASSUME NEW t \in Tiles(s)
      PROVE  /\ t \in Nat /\ t % X \in 0..(X - 1) /\ t \div X \in 0..(D - 1)
             /\ t = ((t \div X) * X) + (t % X)
             /\ Pid(s, t) \in Tiles(s)
             /\ Pid(s, t) \div D = t % X /\ Pid(s, t) % D = t \div X
  <2>1. t \in 0..((D * X) - 1) /\ t \in Nat
    BY <1>1, <1>3, <1>5
  <2>2. t % X \in 0..(X - 1) /\ t = ((t \div X) * X) + (t % X)
    BY <1>1, <2>1, Division
  <2>3. t \div X \in 0..(D - 1)
    BY <1>1, <1>5, <2>1, QuotientBelow
  <2> DEFINE q == t % X
             r == t \div X
  <2>4. Pid(s, t) = (q * D) + r
    BY <1>4
  <2>5. q \in 0..(X - 1) /\ r \in 0..(D - 1) /\ q \in Nat
    BY <1>1, <2>2, <2>3
  <2> HIDE DEF q, r
  <2>6. (q * D) + r \in Nat /\ ((q * D) + r) \div D = q /\ ((q * D) + r) % D = r
    BY <1>5, <2>5, Compose
  <2>7. (q * D) + r < X * D
    BY <1>1, <1>5, <2>5, ComposeBound
  <2>8. Pid(s, t) \in Tiles(s)
    <3>1. Pid(s, t) \in Nat /\ Pid(s, t) < T
      BY <1>5, <2>4, <2>6, <2>7
    <3> QED BY <1>1, <1>3, <3>1
  <2> QED BY <2>1, <2>2, <2>3, <2>4, <2>6, <2>8 DEF q, r
<1>7. ASSUME NEW t \in Tiles(s), NEW u \in Tiles(s), Pid(s, t) = Pid(s, u)
      PROVE  t = u
  <2>1. t % X = u % X /\ t \div X = u \div X
    BY <1>6, <1>7
  <2> QED BY <1>6, <2>1
<1>8. ASSUME NEW x \in Tiles(s)
      PROVE  \E t \in Tiles(s) : Pid(s, t) = x
  <2> DEFINE r == x \div D
             q == x % D
             t == (q * X) + r
  <2>1. x \in 0..((X * D) - 1) /\ x \in Nat
    BY <1>1, <1>3, <1>5
  <2>2. q \in 0..(D - 1) /\ x = (r * D) + q /\ r \in Nat
    BY <1>5, <2>1, Division
  <2>3. r \in 0..(X - 1)
    BY <1>1, <1>5, <2>1, QuotientBelow
  <2> HIDE DEF q, r
  <2>4. t \in Nat /\ t \div X = q /\ t % X = r
    <3>1. q \in Nat /\ X \in Nat \ {0}
      BY <1>1, <1>5, <2>2
    <3> QED BY <2>3, <3>1, Compose
  <2>5. t < D * X
    BY <1>1, <1>5, <2>2, <2>3, ComposeBound
  <2> HIDE DEF t
  <2>6. t \in Tiles(s)
    <3>1. t < T
      BY <1>5, <2>5
    <3> QED BY <1>1, <1>3, <2>4, <3>1
  <2>7. Pid(s, t) = x
    BY <1>4, <2>2, <2>4
  <2> QED BY <2>6, <2>7
<1> QED BY <1>6, <1>7, <1>8

LEMMA GroupedBijective ==
    ASSUME NEW s, IsShape(s), s.group \in Nat
    PROVE  /\ \A x \in Tiles(s) : Grouped(s, x) \in Places(s)
           /\ \A x, y \in Tiles(s) : Grouped(s, x) = Grouped(s, y) => x = y
           /\ \A c \in Places(s) : \E x \in Tiles(s) : Grouped(s, x) = c
<1> DEFINE G == s.group
           H == s.m \div G
           n == s.n
           span == G * n
           T == TileCount(s)
<1>1. G \in Nat \ {0} /\ n \in Nat \ {0} /\ s.m \in Nat /\ s.m % G = 0
  BY DEF IsShape, Valid
<1>2. H \in Nat /\ s.m = (H * G) + 0
  BY <1>1, Division
<1>3. Tiles(s) = 0..(T - 1) /\ T = s.m * n /\ T \in Nat
  BY ShapeFacts DEF Tiles, TileCount
<1>4. Places(s) = (0..(s.m - 1)) \X (0..(n - 1))
  BY DEF Places
<1>5. \A x : Grouped(s, x) =
        <<(x \div span) * G + ((x % span) % G), (x % span) \div G>>
  BY DEF Grouped
<1> HIDE DEF G, H, n, T
<1>6. s.m = H * G /\ span \in Nat \ {0} /\ span = n * G
  BY <1>1, <1>2
<1>7. T = H * span
  BY <1>1, <1>2, <1>3, <1>6
<1> HIDE DEF span
<1>9. ASSUME NEW x \in Tiles(s)
      PROVE  \E a \in 0..(H - 1), b \in 0..(n - 1), c \in 0..(G - 1) :
                /\ x = (a * span) + ((b * G) + c)
                /\ Grouped(s, x) = <<(a * G) + c, b>>
  <2> DEFINE a == x \div span
             w == x % span
             b == w \div G
             c == w % G
  <2>1. x \in Nat /\ x \in 0..((H * span) - 1)
    BY <1>3, <1>7
  <2>2. a \in 0..(H - 1)
    BY <1>2, <1>6, <2>1, QuotientBelow
  <2>3. w \in 0..(span - 1) /\ x = (a * span) + w
    BY <1>6, <2>1, Division
  <2>6. Grouped(s, x) = <<(a * G) + c, b>>
    BY <1>5
  <2> HIDE DEF w, a
  <2>4. w \in 0..((n * G) - 1) /\ w \in Nat
    BY <1>6, <2>3
  <2>5. b \in 0..(n - 1) /\ c \in 0..(G - 1) /\ w = (b * G) + c
    BY <1>1, <2>4, QuotientBelow, Division
  <2> HIDE DEF b, c
  <2> QED BY <2>2, <2>3, <2>5, <2>6
<1>10. ASSUME NEW a \in 0..(H - 1), NEW b \in 0..(n - 1), NEW c \in 0..(G - 1)
       PROVE  /\ (a * G) + c \in 0..(s.m - 1)
              /\ ((a * G) + c) \div G = a /\ ((a * G) + c) % G = c
  <2>1. a \in Nat
    BY <1>2
  <2>2. /\ (a * G) + c \in Nat
        /\ ((a * G) + c) \div G = a /\ ((a * G) + c) % G = c
    BY <1>1, <2>1, Compose
  <2>3. (a * G) + c < H * G
    BY <1>1, <1>2, ComposeBound
  <2>4. (a * G) + c < s.m
    BY <1>6, <2>3
  <2> QED BY <1>1, <2>2, <2>4
<1>11. ASSUME NEW x \in Tiles(s) PROVE Grouped(s, x) \in Places(s)
  <2>1. PICK a \in 0..(H - 1), b \in 0..(n - 1), c \in 0..(G - 1) :
           Grouped(s, x) = <<(a * G) + c, b>>
    BY <1>9, <1>11
  <2>2. (a * G) + c \in 0..(s.m - 1)
    BY <1>10
  <2> QED BY <1>4, <2>1, <2>2
<1>12. ASSUME NEW x \in Tiles(s), NEW y \in Tiles(s), Grouped(s, x) = Grouped(s, y)
       PROVE  x = y
  <2>1. PICK a \in 0..(H - 1), b \in 0..(n - 1), c \in 0..(G - 1) :
           /\ x = (a * span) + ((b * G) + c) /\ Grouped(s, x) = <<(a * G) + c, b>>
    BY <1>9, <1>12
  <2>2. PICK d \in 0..(H - 1), e \in 0..(n - 1), f \in 0..(G - 1) :
           /\ y = (d * span) + ((e * G) + f) /\ Grouped(s, y) = <<(d * G) + f, e>>
    BY <1>9, <1>12
  <2>3. b = e /\ (a * G) + c = (d * G) + f
    BY <1>12, <2>1, <2>2
  <2>4. a = d /\ c = f
    <3>1. ((a * G) + c) \div G = a /\ ((a * G) + c) % G = c
      BY <1>10
    <3>2. ((d * G) + f) \div G = d /\ ((d * G) + f) % G = f
      BY <1>10
    <3> QED BY <2>3, <3>1, <3>2
  <2> QED BY <2>1, <2>2, <2>3, <2>4
<1>13. ASSUME NEW z \in Places(s)
       PROVE  \E x \in Tiles(s) : Grouped(s, x) = z
  <2>1. PICK i \in 0..(s.m - 1), b \in 0..(n - 1) : z = <<i, b>>
    BY <1>4, <1>13
  <2> DEFINE a == i \div G
             c == i % G
             w == (b * G) + c
             x == (a * span) + w
  <2>2. i \in Nat /\ i \in 0..((H * G) - 1) /\ b \in Nat
    BY <1>1, <1>6
  <2>3. a \in 0..(H - 1) /\ c \in 0..(G - 1) /\ i = (a * G) + c /\ a \in Nat
    <3>1. a \in 0..(H - 1)
      BY <1>1, <1>2, <2>2, QuotientBelow
    <3>2. a \in Nat /\ c \in 0..(G - 1) /\ i = (a * G) + c
      BY <1>1, <2>2, Division
    <3> QED BY <3>1, <3>2
  <2> HIDE DEF a, c
  <2>4. w \in Nat /\ w \div G = b /\ w % G = c
    <3>1. G \in Nat \ {0} /\ b \in Nat /\ c \in 0..(G - 1)
      BY <1>1, <2>2, <2>3
    <3> QED BY <3>1, Compose
  <2>5. w < n * G
    BY <1>1, <2>3, ComposeBound
  <2> HIDE DEF w
  <2>6. w \in 0..(span - 1)
    <3>1. w < span
      BY <1>6, <2>5
    <3> QED BY <1>6, <2>4, <3>1
  <2>7. x \in Nat /\ x \div span = a /\ x % span = w
    BY <1>6, <2>3, <2>6, Compose
  <2>8. x < H * span
    BY <1>2, <1>6, <2>3, <2>6, ComposeBound
  <2> HIDE DEF x
  <2>9. x \in Tiles(s)
    <3>1. x < T
      BY <1>7, <2>8
    <3> QED BY <1>3, <2>7, <3>1
  <2>10. Grouped(s, x) = z
    BY <1>5, <2>1, <2>3, <2>4, <2>7
  <2> QED BY <2>9, <2>10
<1> QED BY <1>11, <1>12, <1>13

(* The tiles and the places of the output correspond one to one, whatever    *)
(* the XCD count and the group size: no tile of the output is computed twice *)
(* and none is left out (_streamk_raw_tile_coords,                           *)
(* _emit_cta_coords_from_raw).                                               *)
THEOREM PlacesBijective ==
    ASSUME NEW s, IsShape(s), s.xcds \in Nat, s.group \in Nat
    PROVE  /\ \A t \in Tiles(s) : Place(s, t) \in Places(s)
           /\ \A t, u \in Tiles(s) : Place(s, t) = Place(s, u) => t = u
           /\ \A x \in Places(s) : \E t \in Tiles(s) : Place(s, t) = x
<1>1. CASE s.xcds = 1 /\ s.group = 1
  <2> DEFINE m == s.m
             n == s.n
  <2>1. m \in Nat \ {0} /\ n \in Nat \ {0}
    BY DEF IsShape
  <2>2. Tiles(s) = 0..((n * m) - 1) /\ n * m \in Nat
    BY <2>1 DEF Tiles, TileCount
  <2>3. Places(s) = (0..(m - 1)) \X (0..(n - 1))
    BY DEF Places
  <2>4. \A t : Place(s, t) = <<t % m, t \div m>>
    BY <1>1 DEF Place
  <2> HIDE DEF m, n
  <2>5. ASSUME NEW t \in Tiles(s)
        PROVE  /\ t \in Nat /\ t % m \in 0..(m - 1) /\ t \div m \in 0..(n - 1)
               /\ t = ((t \div m) * m) + (t % m)
    <3>1. t \in Nat /\ t \in 0..((n * m) - 1)
      BY <2>2
    <3>2. t \div m \in 0..(n - 1)
      BY <2>1, <3>1, QuotientBelow
    <3>3. t % m \in 0..(m - 1) /\ t = ((t \div m) * m) + (t % m)
      BY <2>1, <3>1, Division
    <3> QED BY <3>1, <3>2, <3>3
  <2>6. \A t \in Tiles(s) : Place(s, t) \in Places(s)
    BY <2>3, <2>4, <2>5
  <2>7. ASSUME NEW t \in Tiles(s), NEW u \in Tiles(s), Place(s, t) = Place(s, u)
        PROVE  t = u
    <3>1. t % m = u % m /\ t \div m = u \div m
      BY <2>4, <2>7
    <3> QED BY <2>5, <3>1
  <2>8. ASSUME NEW x \in Places(s) PROVE \E t \in Tiles(s) : Place(s, t) = x
    <3>1. PICK a \in 0..(m - 1), b \in 0..(n - 1) : x = <<a, b>>
      BY <2>3
    <3> DEFINE t == (b * m) + a
    <3>2. b \in Nat
      BY <2>1
    <3>3. t \in Nat /\ t \div m = b /\ t % m = a
      BY <2>1, <3>2, Compose
    <3>4. t < n * m
      BY <2>1, ComposeBound
    <3> HIDE DEF t
    <3>5. t \in Tiles(s)
      BY <2>2, <3>3, <3>4
    <3> QED BY <2>4, <3>1, <3>3, <3>5
  <2> QED BY <2>6, <2>7, <2>8
<1>2. CASE ~(s.xcds = 1 /\ s.group = 1)
  <2>1. \A t : Place(s, t) = Grouped(s, Pid(s, t))
    BY <1>2 DEF Place, Grouped, Pid
  <2> QED BY <2>1, PidPermutes, GroupedBijective
<1> QED BY <1>1, <1>2

-----------------------------------------------------------------------------
(* The constants, the waves and the fragments. *)

LEMMA ShapesAccepted ==
    ASSUME NEW s \in Shapes
    PROVE  /\ IsShape(s) /\ s.xcds \in Nat /\ s.group \in Nat
           /\ s.k \in Nat \ {0} /\ s.workers \in Nat
BY StreamKAssumption DEF IsShape

LEMMA WaveFacts ==
    ASSUME NEW s \in Shapes
    PROVE  /\ 0 \in WaveIds
           /\ WaveIds \subseteq Nat
           /\ \A p \in Workers(s) : p \in Nat
           /\ \A w \in Waves(s) :
                w[1] \in Workers(s) /\ w[2] \in WaveIds /\ w = <<w[1], w[2]>>
           /\ \A p \in Workers(s), v \in WaveIds :
                <<p, v>> \in Waves(s) /\ <<p, v>>[1] = p /\ <<p, v>>[2] = v
<1>1. NumWaves \in Nat \ {0}
  BY StreamKAssumption
<1>2. s.workers \in Nat
  BY ShapesAccepted
<1> QED BY <1>1, <1>2 DEF WaveIds, Waves, Workers

(* The wave of worker p that runs the atomics. *)
Lead(p) == <<p, 0>>

LEMMA LeadFacts ==
    ASSUME NEW s \in Shapes
    PROVE  /\ \A p \in Workers(s) : /\ Lead(p) \in Waves(s) /\ IsLead(Lead(p))
                                    /\ Lead(p)[1] = p
           /\ \A w \in Waves(s) : IsLead(w) <=> w = Lead(w[1])
BY WaveFacts DEF Lead, IsLead

-----------------------------------------------------------------------------
(* Type correctness.  The values are of their types because every wave works *)
(* on a tile of its worker.                                                  *)
InLoop == \A w \in Waves(shape) : tile[w] \in Mine(shape, w[1])

LEMMA PartBounds ==
    ASSUME NEW s, IsShape(s), NEW p \in Workers(s), NEW t, Shared(s, p, t)
    PROVE  KBegin(s, p, t) \in Nat /\ KEnd(s, p, t) \in Nat
<1>1. t \in FirstTile(s, p)..LastTile(s, p) /\ t \in Tiles(s)
  BY SharedOwners DEF Shared, Mine
<1>2. p \in Nat
  BY Bounds
<1>3. /\ WorkerBegin(s, p) \in Nat /\ WorkerEnd(s, p) \in Nat
      /\ WorkerBegin(s, p) < WorkerEnd(s, p)
  BY <1>2, BeginFacts
<1>4. t \in Nat /\ t * s.k \in Nat /\ s.k \in Nat \ {0}
  BY <1>1, TileEnds
<1>5. t <= LastTile(s, p)
  BY <1>1, <1>4, Bounds
<1>6. t * s.k <= WorkerEnd(s, p) - 1
  BY <1>3, <1>4, <1>5, QuotientBounds DEF LastTile
<1>7. /\ KBegin(s, p, t) = IF WorkerBegin(s, p) > t * s.k
                             THEN WorkerBegin(s, p) - t * s.k ELSE 0
      /\ KEnd(s, p, t) = IF WorkerEnd(s, p) < (t + 1) * s.k
                           THEN WorkerEnd(s, p) - t * s.k ELSE s.k
  BY <1>1, PartClipped
<1> DEFINE a == t * s.k
           c == (t + 1) * s.k
<1> HIDE DEF a, c
<1>8. KBegin(s, p, t) = IF WorkerBegin(s, p) > a THEN WorkerBegin(s, p) - a ELSE 0
  BY <1>7 DEF a
<1>9. KEnd(s, p, t) = IF WorkerEnd(s, p) < c THEN WorkerEnd(s, p) - a ELSE s.k
  BY <1>7 DEF a, c
<1>10. a \in Nat /\ a <= WorkerEnd(s, p) - 1
  BY <1>4, <1>6 DEF a
<1> QED BY <1>3, <1>4, <1>8, <1>9, <1>10

LEMMA AdvanceStep ==
    ASSUME TypeOK, InLoop, shape' = shape, NEW ws \in SUBSET Waves(shape), Advance(ws)
    PROVE  /\ pc' \in [Waves(shape) -> Steps] /\ tile' \in [Waves(shape) -> Nat]
           /\ InLoop'
<1> USE ShapesAccepted, WaveFacts DEF TypeOK
<1>1. ASSUME NEW w \in Waves(shape)
      PROVE  tile'[w] \in Mine(shape, w[1]) /\ tile'[w] \in Nat
  <2>1. w[1] \in Workers(shape) /\ tile[w] \in Mine(shape, w[1]) /\ IsShape(shape)
    BY DEF InLoop
  <2>2. /\ Mine(shape, w[1]) \subseteq Nat
        /\ HasNext(shape, w[1], tile[w]) =>
              tile[w] + TileStep(shape) \in Mine(shape, w[1])
    <3>1. Mine(shape, w[1]) \subseteq Nat
      BY <2>1, MineTiles
    <3>2. HasNext(shape, w[1], tile[w]) =>
              tile[w] + TileStep(shape) \in Mine(shape, w[1])
      BY <2>1, NextTile
    <3> QED BY <3>1, <3>2
  <2>3. tile'[w] = IF w \in ws /\ HasNext(shape, w[1], tile[w])
                     THEN tile[w] + TileStep(shape) ELSE tile[w]
    BY DEF Advance
  <2> QED BY <2>1, <2>2, <2>3
<1>2. tile' \in [Waves(shape) -> Nat]
  <2>1. tile' = [w \in Waves(shape) |-> tile'[w]]
    BY DEF Advance
  <2> QED BY <1>1, <2>1
<1>3. pc' \in [Waves(shape) -> Steps]
  BY DEF Advance, Steps
<1> QED BY <1>1, <1>2, <1>3 DEF InLoop

(* The step of one wave, without Advance. *)
LEMMA TypeStep ==
    ASSUME TypeOK, InLoop, [Next]_vars
    PROVE  TypeOK' /\ InLoop'
<1>0. /\ IsShape(shape) /\ shape.k \in Nat \ {0} /\ launch \in Nat /\ Launches \in Nat
      /\ shape \in Shapes
  BY ShapesAccepted, StreamKAssumption DEF TypeOK
<1>1. \A w \in Waves(shape) : /\ w[1] \in Workers(shape) /\ w[2] \in WaveIds
                              /\ w[1] \in Nat /\ tile[w] \in Nat
                              /\ tile[w] \in Tiles(shape) /\ tile[w] \in Mine(shape, w[1])
  <2> TAKE w \in Waves(shape)
  <2>1. w[1] \in Workers(shape) /\ w[2] \in WaveIds /\ w[1] \in Nat
    BY <1>0, WaveFacts
  <2>2. tile[w] \in Mine(shape, w[1])
    BY DEF InLoop
  <2> QED BY <1>0, <2>1, <2>2, MineTiles
<1>2. Stale \in Partial
  BY <1>0 DEF Stale, Partial
<1>3. ASSUME NEW w \in Waves(shape), NEW x \in Nat, NEW y \in Nat
      PROVE  Computed(w, x, y) \in Partial
  BY <1>0, <1>1 DEF Computed, Partial, TypeOK
<1>4. ASSUME NEW w \in Waves(shape), NEW step \in Steps, Goto(w, step)
      PROVE  pc' \in [Waves(shape) -> Steps]
  BY <1>4 DEF Goto, TypeOK
<1>5. ASSUME NEW w \in Waves(shape), NEW x \in Int, AtomicAdd(w, x)
      PROVE  /\ counter' \in [Tiles(shape) -> Int]
             /\ released' \in [Tiles(shape) -> SUBSET Fragments(shape)]
             /\ fresh' \in [Waves(shape) -> SUBSET Fragments(shape)]
  <2>1. Publishes(w) \subseteq Fragments(shape)
    BY DEF Publishes, TypeOK
  <2>2. released[tile[w]] \subseteq Fragments(shape)
    BY <1>1 DEF TypeOK
  <2>3. counter' \in [Tiles(shape) -> Int]
    <3>1. counter' = [counter EXCEPT ![tile[w]] = @ + x]
      BY <1>5 DEF AtomicAdd
    <3>2. counter \in [Tiles(shape) -> Int]
      BY DEF TypeOK
    <3>3. tile[w] \in Tiles(shape) /\ counter[tile[w]] + x \in Int
      BY <1>1, <3>2
    <3> QED BY <3>1, <3>2, <3>3
  <2>4. released' \in [Tiles(shape) -> SUBSET Fragments(shape)]
    BY <1>5, <2>1 DEF AtomicAdd, TypeOK
  <2>5. fresh' \in [Waves(shape) -> SUBSET Fragments(shape)]
    BY <1>5, <2>2 DEF AtomicAdd, TypeOK
  <2> QED BY <2>3, <2>4, <2>5
<1>6. ASSUME NEW w \in Waves(shape), NEW sums \in Seq(Partial), WriteOutput(w, sums)
      PROVE  output' \in [Places(shape) -> [WaveIds -> Seq(Partial)]]
  BY <1>6 DEF WriteOutput, TypeOK
<1>7. ASSUME UNCHANGED <<shape, tile>> PROVE InLoop'
  BY <1>7 DEF InLoop
<1>8. ASSUME NEW w \in Waves(shape), WholeTile(w) PROVE TypeOK' /\ InLoop'
  <2>1. <<Computed(w, 0, shape.k)>> \in Seq(Partial)
    <3>1. Computed(w, 0, shape.k) \in Partial
      BY <1>0, <1>3
    <3> QED BY <3>1
  <2>2. output' \in [Places(shape) -> [WaveIds -> Seq(Partial)]]
    BY <1>6, <1>8, <2>1 DEF WholeTile
  <2>3. pc' \in [Waves(shape) -> Steps]
    BY <1>4, <1>8 DEF WholeTile, Steps
  <2> QED BY <1>7, <1>8, <2>2, <2>3 DEF WholeTile, TypeOK
<1>9. ASSUME NEW w \in Waves(shape), StorePartial(w) PROVE TypeOK' /\ InLoop'
  <2>1. Shared(shape, w[1], tile[w])
    BY <1>1, <1>9 DEF StorePartial, Shared
  <2>2. Computed(w, KBegin(shape, w[1], tile[w]), KEnd(shape, w[1], tile[w])) \in Partial
    BY <1>0, <1>1, <1>3, <2>1, PartBounds
  <2>3. scratch' \in [Fragments(shape) -> Partial]
    BY <1>9, <2>2 DEF StorePartial, TypeOK
  <2>4. fresh' \in [Waves(shape) -> SUBSET Fragments(shape)]
    <3>1. <<w[1], StoreSlot(shape, w[1], tile[w]), w[2]>> \in Fragments(shape)
      BY <1>1 DEF StoreSlot, Slots, Fragments
    <3> QED BY <1>9, <3>1 DEF StorePartial, TypeOK
  <2>5. released' \in [Tiles(shape) -> SUBSET Fragments(shape)]
    BY <1>9 DEF StorePartial, TypeOK
  <2>6. pc' \in [Waves(shape) -> Steps]
    BY <1>4, <1>9 DEF StorePartial, Steps
  <2> QED BY <1>7, <1>9, <2>3, <2>4, <2>5, <2>6 DEF StorePartial, TypeOK
<1>10. ASSUME NEW w \in Waves(shape), Publish(w) PROVE TypeOK' /\ InLoop'
  <2>1. /\ counter' \in [Tiles(shape) -> Int]
        /\ released' \in [Tiles(shape) -> SUBSET Fragments(shape)]
        /\ fresh' \in [Waves(shape) -> SUBSET Fragments(shape)]
    BY <1>5, <1>10 DEF Publish
  <2>2. pc' \in [Waves(shape) -> Steps]
    BY <1>4, <1>10 DEF Publish, Steps
  <2>3. count' \in [Waves(shape) -> Int]
    BY <1>1, <1>10 DEF Publish, TypeOK
  <2> QED BY <1>7, <1>10, <2>1, <2>2, <2>3 DEF Publish, TypeOK
<1>11. ASSUME NEW w \in Waves(shape), Mail(w) PROVE TypeOK' /\ InLoop'
  <2>1. pc' \in [Waves(shape) -> Steps]
    BY <1>4, <1>11 DEF Mail, Steps
  <2>2. mailbox' \in [Workers(shape) -> Int]
    BY <1>11 DEF Mail, TypeOK
  <2> QED BY <1>7, <1>11, <2>1, <2>2 DEF Mail, TypeOK
<1>12. ASSUME NEW w \in Waves(shape), Elect(w) PROVE TypeOK' /\ InLoop'
  <2>1. count' \in [Waves(shape) -> Int]
    BY <1>1, <1>12 DEF Elect, ArrivalCount, TypeOK
  <2>2. /\ pc' \in [Waves(shape) -> Steps] /\ tile' \in [Waves(shape) -> Nat]
        /\ InLoop'
    <3>1. CASE IsLast(ArrivalCount(w), tile[w])
      <4>1. Goto(w, "acquire") /\ UNCHANGED <<shape, tile>>
        BY <1>12, <3>1 DEF Elect
      <4> QED BY <1>4, <1>7, <4>1 DEF Steps, TypeOK
    <3>2. CASE ~IsLast(ArrivalCount(w), tile[w])
      <4>1. Advance({w}) /\ shape' = shape
        BY <1>12, <3>2 DEF Elect
      <4> QED BY <4>1, AdvanceStep
    <3> QED BY <3>1, <3>2
  <2> QED BY <1>12, <2>1, <2>2 DEF Elect, TypeOK
<1>13. ASSUME NEW w \in Waves(shape), Acquire(w) PROVE TypeOK' /\ InLoop'
  <2>1. /\ counter' \in [Tiles(shape) -> Int]
        /\ released' \in [Tiles(shape) -> SUBSET Fragments(shape)]
        /\ fresh' \in [Waves(shape) -> SUBSET Fragments(shape)]
    BY <1>5, <1>13 DEF Acquire
  <2>2. pc' \in [Waves(shape) -> Steps]
    BY <1>4, <1>13 DEF Acquire, Steps
  <2>3. acc' \in [Waves(shape) -> Seq(Partial)]
    BY <1>13 DEF Acquire, TypeOK
  <2> QED BY <1>7, <1>13, <2>1, <2>2, <2>3 DEF Acquire, TypeOK
<1>14. ASSUME NEW w \in Waves(shape), Reduce(w) PROVE TypeOK' /\ InLoop'
  <2>1. PICK value : /\ acc' = [acc EXCEPT ![w] = Append(@, value)]
                     /\ value \in Partial
    <3> DEFINE owner == FirstOwner(shape, tile[w]) + Len(acc[w])
               f == <<owner, OwnerSlot(shape, owner, tile[w]), w[2]>>
               value == IF f \in fresh[w] THEN scratch[f] ELSE Stale
    <3>1. acc' = [acc EXCEPT ![w] = Append(@, value)]
      BY <1>14 DEF Reduce
    <3>2. value \in Partial
      BY <1>2 DEF TypeOK
    <3> QED BY <3>1, <3>2
  <2>2. acc' \in [Waves(shape) -> Seq(Partial)]
    BY <2>1 DEF TypeOK
  <2> QED BY <1>7, <1>14, <2>2 DEF Reduce, TypeOK
<1>15. ASSUME NEW w \in Waves(shape), StoreReduced(w) PROVE TypeOK' /\ InLoop'
  <2>1. output' \in [Places(shape) -> [WaveIds -> Seq(Partial)]]
    <3>1. acc[w] \in Seq(Partial)
      BY DEF TypeOK
    <3> QED BY <1>6, <1>15, <3>1 DEF StoreReduced
  <2>2. pc' \in [Waves(shape) -> Steps]
    BY <1>4, <1>15 DEF StoreReduced, Steps
  <2>3. acc' \in [Waves(shape) -> Seq(Partial)]
    BY <1>15 DEF StoreReduced, TypeOK
  <2> QED BY <1>7, <1>15, <2>1, <2>2, <2>3 DEF StoreReduced, TypeOK
<1>16. ASSUME NEW w \in Waves(shape), Reset(w) PROVE TypeOK' /\ InLoop'
  <2>1. ResetValue(w) \in Int
    <3>1. Parts(shape, tile[w]) \in Nat
      BY <1>0, <1>1, OwnersFacts
    <3> QED BY <3>1 DEF ResetValue
  <2>2. /\ counter' \in [Tiles(shape) -> Int]
        /\ released' \in [Tiles(shape) -> SUBSET Fragments(shape)]
        /\ fresh' \in [Waves(shape) -> SUBSET Fragments(shape)]
    BY <1>5, <1>16, <2>1 DEF Reset
  <2>3. pc' \in [Waves(shape) -> Steps]
    BY <1>4, <1>16 DEF Reset, Steps
  <2> QED BY <1>7, <1>16, <2>2, <2>3 DEF Reset, TypeOK
<1>17. ASSUME NEW p \in Workers(shape), Workgroup(p) PROVE TypeOK' /\ InLoop'
  <2>1. ASSUME NEW step \in {"stored", "mailed", "reduced"}, Barrier(p, step)
        PROVE  TypeOK' /\ InLoop'
    <3>1. \A w : AfterBarrier(step, w) \in Steps
      BY DEF AfterBarrier, Steps
    <3>2. pc' \in [Waves(shape) -> Steps]
      BY <2>1, <3>1 DEF Barrier, TypeOK
    <3> QED BY <1>7, <2>1, <3>2 DEF Barrier, TypeOK
  <2>2. ASSUME NEW step \in {"written", "resetdone"}, TileBarrier(p, step)
        PROVE  TypeOK' /\ InLoop'
    <3>1. /\ pc' \in [Waves(shape) -> Steps] /\ tile' \in [Waves(shape) -> Nat]
          /\ InLoop'
      BY <2>2, AdvanceStep DEF TileBarrier
    <3> QED BY <2>2, <3>1 DEF TileBarrier, TypeOK
  <2> QED BY <1>17, <2>1, <2>2 DEF Workgroup
<1>20. ASSUME NEW w \in Waves(shape), LeaveTile(w) PROVE TypeOK' /\ InLoop'
  <2>1. /\ pc' \in [Waves(shape) -> Steps] /\ tile' \in [Waves(shape) -> Nat]
        /\ InLoop'
    BY <1>20, AdvanceStep DEF LeaveTile
  <2> QED BY <1>20, <2>1 DEF LeaveTile, TypeOK
<1>18. CASE Relaunch
  <2>1. launch' \in 1..Launches
    <3>1. launch \in 1..Launches /\ launch < Launches /\ launch' = launch + 1
      BY <1>18 DEF Relaunch, TypeOK
    <3> QED BY <1>0, <3>1
  <2>2. ASSUME NEW w \in Waves(shape) PROVE EntryTile(shape, w[1]) \in Mine(shape, w[1])
    BY <1>0, <1>1, EntryFirst
  <2>3. ASSUME NEW w \in Waves(shape) PROVE EntryTile(shape, w[1]) \in Nat
    BY <1>0, <1>1, <2>2, MineTiles
  <2>4. tile' \in [Waves(shape) -> Nat] /\ InLoop'
    BY <1>18, <2>2, <2>3 DEF Relaunch, KernelEntry, InLoop
  <2>5. /\ pc' \in [Waves(shape) -> Steps] /\ count' \in [Waves(shape) -> Int]
        /\ fresh' \in [Waves(shape) -> SUBSET Fragments(shape)]
        /\ acc' \in [Waves(shape) -> Seq(Partial)]
        /\ released' \in [Tiles(shape) -> SUBSET Fragments(shape)]
    BY <1>18 DEF Relaunch, KernelEntry, Steps
  <2> QED BY <1>18, <2>1, <2>4, <2>5 DEF Relaunch, TypeOK
<1>19. CASE UNCHANGED vars
  BY <1>19 DEF vars, TypeOK, InLoop
<1> QED
  BY <1>8, <1>9, <1>10, <1>11, <1>12, <1>13, <1>14, <1>15, <1>16, <1>17, <1>18, <1>19,
     <1>20 DEF Next, Wave, Finished

LEMMA TypeInit ==
    ASSUME Init
    PROVE  TypeOK /\ InLoop
<1>0. IsShape(shape) /\ Launches \in Nat \ {0} /\ shape \in Shapes
  BY ShapesAccepted, StreamKAssumption DEF Init
<1>1. \A w \in Waves(shape) : w[1] \in Workers(shape)
  BY <1>0, WaveFacts
<1>2. \A w \in Waves(shape) : /\ EntryTile(shape, w[1]) \in Mine(shape, w[1])
                              /\ EntryTile(shape, w[1]) \in Nat
  BY <1>0, <1>1, EntryFirst, MineTiles
<1>3. Stale \in Partial
  BY <1>0 DEF Stale, Partial
<1> QED BY <1>0, <1>2, <1>3 DEF Init, TypeOK, InLoop, Steps

(* Every variable keeps its type, for every shape, number of waves and       *)
(* number of launches (_emit_streamk_kernel, _emit_aligned_streamk_kernel).  *)
THEOREM TypeCorrect == Spec => []TypeOK
<1>1. Init => TypeOK /\ InLoop
  BY TypeInit
<1>2. TypeOK /\ InLoop /\ [Next]_vars => (TypeOK /\ InLoop)'
  BY TypeStep
<1> QED BY <1>1, <1>2, PTL DEF Spec

-----------------------------------------------------------------------------
(* The waves of a workgroup stay together.                                   *)
(*                                                                           *)
(* Between two barriers the waves of a workgroup are in the same phase of    *)
(* the same tile.  Only the branch after the mailbox was read lets a wave    *)
(* run ahead of the others, into the next tile, and then all of them will    *)
(* follow it, because they read the same mailbox.  In the pipelined kernel   *)
(* they need not stay together: no tile of it is shared.                     *)

Phase(st) ==
    IF st \in {"tile", "stored", "written"} THEN "compute"
    ELSE IF st \in {"publish", "mail", "mailed"} THEN "arrive"
    ELSE IF st \in {"elect", "acquire", "reduce", "reduced"} THEN "sum"
    ELSE IF st \in {"reset", "resetdone"} THEN "clear" ELSE "done"

Reducer == {"acquire", "reduce", "reduced", "reset", "resetdone"}

Level(u, w) == tile[u] = tile[w] /\ Phase(pc[u]) = Phase(pc[w])

Ahead(u, w) ==
    /\ pc[w] = "elect" /\ ~IsLast(mailbox[w[1]], tile[w])
    /\ IF HasNext(shape, w[1], tile[w])
         THEN tile[u] = tile[w] + TileStep(shape) /\ Phase(pc[u]) = "compute"
         ELSE tile[u] = tile[w] /\ pc[u] = "done"

WaveInv ==
    \A w \in Waves(shape) :
        /\ tile[w] \in Mine(shape, w[1])
        /\ pc[w] \in {"publish", "mail", "reset"} => IsLead(w)
        /\ pc[w] = "written" => IsWholeTile(shape, w[1], tile[w])
        /\ pc[w] \notin {"tile", "written", "done"} => ~IsWholeTile(shape, w[1], tile[w])
        /\ pc[w] = "done" => ~HasNext(shape, w[1], tile[w])
        /\ pc[w] \in Reducer => IsLast(mailbox[w[1]], tile[w])

SyncInv ==
    \A u, w \in Waves(shape) :
        u[1] = w[1] /\ ~Pipelined(shape) => Level(u, w) \/ Ahead(u, w) \/ Ahead(w, u)

Control == TypeOK /\ WaveInv /\ SyncInv

LEMMA NotPipelined ==
    ASSUME Control, NEW w \in Waves(shape), pc[w] \notin {"tile", "written", "done"}
    PROVE  ~Pipelined(shape)
BY DEF Control, WaveInv, Pipelined, IsWholeTile

(* The step of one wave inside its phase. *)
LEMMA MoveControl ==
    ASSUME Control, NEW w \in Waves(shape), NEW step \in Steps, Goto(w, step),
           UNCHANGED <<shape, tile, mailbox>>, Phase(step) = Phase(pc[w]),
           pc[w] # "elect", step # "elect",
           step \in {"publish", "mail", "reset"} => IsLead(w),
           step = "written" => IsWholeTile(shape, w[1], tile[w]),
           step \notin {"tile", "written", "done"} => ~IsWholeTile(shape, w[1], tile[w]),
           step # "done",
           step \in Reducer => pc[w] \in Reducer
    PROVE  WaveInv' /\ SyncInv'
<1>1. pc \in [Waves(shape) -> Steps] /\ pc' = [pc EXCEPT ![w] = step]
  BY DEF Goto, Control, TypeOK
<1>2. pc'[w] = step /\ \A u \in Waves(shape) : u # w => pc'[u] = pc[u]
  BY <1>1
<1>3. WaveInv'
  BY <1>2 DEF Control, WaveInv, IsLast
<1>4. ASSUME NEW u \in Waves(shape), NEW x \in Waves(shape), u[1] = x[1],
             ~Pipelined(shape)
      PROVE  (Level(u, x) \/ Ahead(u, x) \/ Ahead(x, u))'
  <2>1. /\ Phase(pc'[u]) = Phase(pc[u]) /\ Phase(pc'[x]) = Phase(pc[x])
        /\ pc[u] = "elect" <=> pc'[u] = "elect"
        /\ pc[x] = "elect" <=> pc'[x] = "elect"
        /\ pc[u] = "done" => pc'[u] = "done"
        /\ pc[x] = "done" => pc'[x] = "done"
    <3>1. Phase(pc[w]) # "done"
      BY DEF Phase, Steps
    <3>2. pc[w] # "done"
      BY <3>1 DEF Phase
    <3> QED BY <1>2, <3>2
  <2>2. Level(u, x) \/ Ahead(u, x) \/ Ahead(x, u)
    BY <1>4 DEF Control, SyncInv
  <2> QED BY <2>1, <2>2 DEF Level, Ahead, IsLast
<1>5. SyncInv'
  BY <1>4 DEF SyncInv
<1> QED BY <1>3, <1>5

(* The waves of a workgroup at one of its barriers are at the same tile. *)
LEMMA AtBarrier ==
    ASSUME Control, ~Pipelined(shape),
           NEW p \in Workers(shape), NEW step \in Steps, step # "elect",
           \A w \in Waves(shape) : w[1] = p => pc[w] = step
    PROVE  \A u, w \in Waves(shape) : u[1] = p /\ w[1] = p => tile[u] = tile[w]
BY DEF Control, SyncInv, Level, Ahead

LEMMA BarrierControl ==
    ASSUME Control, NEW p \in Workers(shape), NEW step \in {"stored", "mailed", "reduced"},
           Barrier(p, step)
    PROVE  WaveInv' /\ SyncInv'
<1>1. \A w \in Waves(shape) : w[1] = p => pc[w] = step
  BY DEF Barrier
<1>2. UNCHANGED <<shape, tile, mailbox>>
  BY DEF Barrier
<1>3. \A w \in Waves(shape) : pc'[w] = IF w[1] = p THEN AfterBarrier(step, w) ELSE pc[w]
  BY DEF Barrier
<1>0. ~Pipelined(shape)
  <2>1. Lead(p) \in Waves(shape) /\ pc[Lead(p)] = step
    BY <1>1, LeadFacts DEF Control, TypeOK
  <2> QED BY <2>1, NotPipelined
<1>4. \A u, w \in Waves(shape) : u[1] = p /\ w[1] = p => tile[u] = tile[w]
  BY <1>0, <1>1, AtBarrier DEF Steps
<1>5. WaveInv'
  <2> SUFFICES ASSUME NEW w \in Waves(shape)
               PROVE  /\ tile'[w] \in Mine(shape', w[1])
                      /\ pc'[w] \in {"publish", "mail", "reset"} => IsLead(w)
                      /\ pc'[w] = "written" => IsWholeTile(shape', w[1], tile'[w])
                      /\ pc'[w] \notin {"tile", "written", "done"}
                           => ~IsWholeTile(shape', w[1], tile'[w])
                      /\ pc'[w] = "done" => ~HasNext(shape', w[1], tile'[w])
                      /\ pc'[w] \in Reducer => mailbox'[w[1]] = Parts(shape', tile'[w])
    BY <1>2 DEF WaveInv, IsLast
  <2>1. CASE w[1] # p
    BY <1>2, <1>3, <2>1 DEF Control, WaveInv, IsLast
  <2>2. CASE w[1] = p
    <3>1. pc[w] = step /\ pc'[w] = AfterBarrier(step, w)
      BY <1>1, <1>3, <2>2
    <3>2. /\ pc'[w] \notin {"mail", "written", "tile", "done"}
          /\ pc'[w] \in {"publish", "reset"} => IsLead(w)
          /\ pc'[w] \in Reducer => pc[w] \in Reducer
      BY <3>1 DEF AfterBarrier, Reducer
    <3> QED BY <1>2, <3>1, <3>2 DEF Control, WaveInv, IsLast
  <2> QED BY <2>1, <2>2
<1>6. ASSUME NEW u \in Waves(shape), NEW w \in Waves(shape), u[1] = w[1]
      PROVE  (Level(u, w) \/ Ahead(u, w) \/ Ahead(w, u))'
  <2>1. CASE w[1] # p
    <3>1. Level(u, w) \/ Ahead(u, w) \/ Ahead(w, u)
      BY <1>0, <1>6 DEF Control, SyncInv
    <3> QED BY <1>2, <1>3, <1>6, <2>1, <3>1 DEF Level, Ahead, IsLast
  <2>2. CASE w[1] = p
    <3>1. Phase(AfterBarrier(step, u)) = Phase(AfterBarrier(step, w))
      BY DEF Phase, AfterBarrier
    <3> QED BY <1>2, <1>3, <1>4, <1>6, <2>2, <3>1 DEF Level
  <2> QED BY <2>1, <2>2
<1>7. SyncInv'
  BY <1>2, <1>6 DEF SyncInv
<1> QED BY <1>5, <1>7

LEMMA TileBarrierControl ==
    ASSUME Control, NEW p \in Workers(shape), NEW step \in {"written", "resetdone"},
           TileBarrier(p, step)
    PROVE  WaveInv' /\ SyncInv'
<1>1. \A w \in Waves(shape) : w[1] = p => pc[w] = step
  BY DEF TileBarrier
<1>2. UNCHANGED <<shape, mailbox>>
  BY DEF TileBarrier
<1>3. \A w \in Waves(shape) :
        /\ pc'[w] = IF w[1] # p THEN pc[w]
                    ELSE IF HasNext(shape, p, tile[w]) THEN "tile" ELSE "done"
        /\ tile'[w] = IF w[1] = p /\ HasNext(shape, p, tile[w])
                        THEN tile[w] + TileStep(shape) ELSE tile[w]
  BY DEF TileBarrier, Advance
<1>0. ~Pipelined(shape)
  <2>1. Lead(p) \in Waves(shape) /\ pc[Lead(p)] = step
    BY <1>1, LeadFacts DEF Control, TypeOK
  <2>2. step = "written" => ~Pipelined(shape)
    BY DEF TileBarrier
  <2> QED BY <2>1, <2>2, NotPipelined
<1>4. \A u, w \in Waves(shape) : u[1] = p /\ w[1] = p => tile[u] = tile[w]
  BY <1>0, <1>1, AtBarrier DEF Steps
<1>5. InLoop'
  <2>1. TypeOK /\ InLoop
    BY DEF Control, WaveInv, InLoop
  <2>2. shape' = shape /\ Advance({w \in Waves(shape) : w[1] = p})
    BY DEF TileBarrier
  <2> QED BY <2>1, <2>2, AdvanceStep
<1>6. WaveInv'
  <2> SUFFICES ASSUME NEW w \in Waves(shape)
               PROVE  /\ pc'[w] \in {"publish", "mail", "reset"} => IsLead(w)
                      /\ pc'[w] = "written" => IsWholeTile(shape', w[1], tile'[w])
                      /\ pc'[w] \notin {"tile", "written", "done"}
                           => ~IsWholeTile(shape', w[1], tile'[w])
                      /\ pc'[w] = "done" => ~HasNext(shape', w[1], tile'[w])
                      /\ pc'[w] \in Reducer => mailbox'[w[1]] = Parts(shape', tile'[w])
    BY <1>2, <1>5 DEF WaveInv, InLoop, IsLast
  <2>1. CASE w[1] # p
    BY <1>2, <1>3, <2>1 DEF Control, WaveInv, IsLast
  <2>2. CASE w[1] = p
    BY <1>2, <1>3, <2>2 DEF Reducer
  <2> QED BY <2>1, <2>2
<1>7. ASSUME NEW u \in Waves(shape), NEW w \in Waves(shape), u[1] = w[1]
      PROVE  (Level(u, w) \/ Ahead(u, w) \/ Ahead(w, u))'
  <2>1. CASE w[1] # p
    <3>1. Level(u, w) \/ Ahead(u, w) \/ Ahead(w, u)
      BY <1>0, <1>7 DEF Control, SyncInv
    <3> QED BY <1>2, <1>3, <1>7, <2>1, <3>1 DEF Level, Ahead, IsLast
  <2>2. CASE w[1] = p
    BY <1>3, <1>4, <1>7, <2>2 DEF Level
  <2> QED BY <2>1, <2>2
<1>8. SyncInv'
  BY <1>2, <1>7 DEF SyncInv
<1> QED BY <1>6, <1>8

LEMMA LeaveControl ==
    ASSUME Control, NEW w \in Waves(shape), LeaveTile(w)
    PROVE  WaveInv' /\ SyncInv'
<1>1. Pipelined(shape) /\ UNCHANGED <<shape, mailbox>> /\ Advance({w})
  BY DEF LeaveTile
<1>2. \A u \in Waves(shape) :
        /\ pc'[u] = IF u # w THEN pc[u]
                    ELSE IF HasNext(shape, w[1], tile[w]) THEN "tile" ELSE "done"
        /\ tile'[u] = IF u = w /\ HasNext(shape, w[1], tile[w])
                        THEN tile[w] + TileStep(shape) ELSE tile[u]
  BY <1>1 DEF Advance
<1>3. InLoop'
  <2>1. TypeOK /\ InLoop
    BY DEF Control, WaveInv, InLoop
  <2> QED BY <1>1, <2>1, AdvanceStep
<1>4. WaveInv'
  <2> SUFFICES ASSUME NEW u \in Waves(shape)
               PROVE  /\ pc'[u] \in {"publish", "mail", "reset"} => IsLead(u)
                      /\ pc'[u] = "written" => IsWholeTile(shape', u[1], tile'[u])
                      /\ pc'[u] \notin {"tile", "written", "done"}
                           => ~IsWholeTile(shape', u[1], tile'[u])
                      /\ pc'[u] = "done" => ~HasNext(shape', u[1], tile'[u])
                      /\ pc'[u] \in Reducer => mailbox'[u[1]] = Parts(shape', tile'[u])
    BY <1>1, <1>3 DEF WaveInv, InLoop, IsLast
  <2>1. CASE u # w
    BY <1>1, <1>2, <2>1 DEF Control, WaveInv, IsLast
  <2>2. CASE u = w
    BY <1>1, <1>2, <2>2 DEF Reducer
  <2> QED BY <2>1, <2>2
<1>5. SyncInv'
  BY <1>1 DEF SyncInv
<1> QED BY <1>4, <1>5

LEMMA ElectControl ==
    ASSUME Control, NEW w \in Waves(shape), Elect(w)
    PROVE  WaveInv' /\ SyncInv'
<1>1. pc[w] = "elect" /\ UNCHANGED <<shape, mailbox>> /\ pc \in [Waves(shape) -> Steps]
  BY DEF Elect, Control, TypeOK
<1>0. ~Pipelined(shape)
  BY <1>1, NotPipelined
<1>2. CASE IsLast(mailbox[w[1]], tile[w])
  <2>1. tile' = tile /\ pc' = [pc EXCEPT ![w] = "acquire"]
    BY <1>2 DEF Elect, ArrivalCount, Goto
  <2>2. pc'[w] = "acquire" /\ \A u \in Waves(shape) : u # w => pc'[u] = pc[u]
    BY <1>1, <2>1
  <2>3. WaveInv'
    BY <1>1, <1>2, <2>1, <2>2 DEF Control, WaveInv, IsLast
  <2>4. ASSUME NEW u \in Waves(shape), NEW x \in Waves(shape), u[1] = x[1]
        PROVE  (Level(u, x) \/ Ahead(u, x) \/ Ahead(x, u))'
    <3>1. Level(u, x) \/ Ahead(u, x) \/ Ahead(x, u)
      BY <1>0, <2>4 DEF Control, SyncInv
    <3>2. Phase(pc'[u]) = Phase(pc[u]) /\ Phase(pc'[x]) = Phase(pc[x])
      BY <1>1, <2>2 DEF Phase
    <3>3. Level(u, x) => Level(u, x)'
      BY <2>1, <3>2 DEF Level
    <3>4. ASSUME NEW a \in Waves(shape), NEW b \in Waves(shape), Ahead(a, b)
          PROVE  Ahead(a, b)'
      <4>1. b # w
        BY <1>2, <3>4 DEF Ahead
      <4>2. a # w
        BY <1>1, <3>4 DEF Ahead, Phase
      <4> QED BY <1>1, <2>1, <2>2, <3>4, <4>1, <4>2 DEF Ahead, IsLast
    <3> QED BY <3>1, <3>3, <3>4
  <2>5. SyncInv'
    BY <1>1, <2>4 DEF SyncInv
  <2> QED BY <2>3, <2>5
<1>3. CASE ~IsLast(mailbox[w[1]], tile[w])
  <2>1. \A u \in Waves(shape) :
        /\ pc'[u] = IF u # w THEN pc[u]
                    ELSE IF HasNext(shape, w[1], tile[w]) THEN "tile" ELSE "done"
        /\ tile'[u] = IF u = w /\ HasNext(shape, w[1], tile[w])
                        THEN tile[w] + TileStep(shape) ELSE tile[u]
    BY <1>3 DEF Elect, ArrivalCount, Advance
  <2>2. InLoop'
    <3>1. TypeOK /\ InLoop
      BY DEF Control, WaveInv, InLoop
    <3>2. Advance({w})
      BY <1>3 DEF Elect, ArrivalCount
    <3> QED BY <1>1, <3>1, <3>2, AdvanceStep
  <2>3. WaveInv'
    <3> SUFFICES ASSUME NEW u \in Waves(shape)
                 PROVE  /\ pc'[u] \in {"publish", "mail", "reset"} => IsLead(u)
                        /\ pc'[u] = "written" => IsWholeTile(shape', u[1], tile'[u])
                        /\ pc'[u] \notin {"tile", "written", "done"}
                             => ~IsWholeTile(shape', u[1], tile'[u])
                        /\ pc'[u] = "done" => ~HasNext(shape', u[1], tile'[u])
                        /\ pc'[u] \in Reducer => mailbox'[u[1]] = Parts(shape', tile'[u])
      BY <1>1, <2>2 DEF WaveInv, InLoop, IsLast
    <3>1. CASE u # w
      BY <1>1, <2>1, <3>1 DEF Control, WaveInv, IsLast
    <3>2. CASE u = w
      BY <1>1, <2>1, <3>2 DEF Reducer
    <3> QED BY <3>1, <3>2
  <2>4. ASSUME NEW u \in Waves(shape), u # w, u[1] = w[1]
        PROVE  (Level(u, w) \/ Ahead(w, u))'
    <3>1. Level(u, w) \/ Ahead(u, w) \/ Ahead(w, u)
      BY <1>0, <2>4 DEF Control, SyncInv
    <3>2. ~Ahead(w, u)
      BY <1>1 DEF Ahead, Phase
    <3>3. CASE Ahead(u, w)
      BY <1>1, <2>1, <2>4, <3>3 DEF Ahead, Level, Phase
    <3>4. CASE Level(u, w)
      <4>1. pc[u] \in Steps /\ pc[u] \notin Reducer
        BY <1>1, <1>3, <2>4, <3>4 DEF Control, TypeOK, WaveInv, Level, IsLast
      <4>2. pc[u] = "elect"
        BY <1>1, <3>4, <4>1 DEF Level, Phase, Reducer, Steps
      <4>3. /\ pc'[u] = "elect" /\ tile'[u] = tile[w] /\ mailbox'[u[1]] = mailbox[w[1]]
        BY <1>1, <2>1, <2>4, <3>4, <4>2 DEF Level
      <4>4. (~IsLast(mailbox[u[1]], tile[u]))'
        BY <1>1, <1>3, <4>3 DEF IsLast
      <4> QED BY <1>1, <2>1, <2>4, <4>3, <4>4 DEF Ahead, Phase
    <3> QED BY <3>1, <3>2, <3>3, <3>4
  <2>5. ASSUME NEW u \in Waves(shape), NEW x \in Waves(shape), u[1] = x[1], u # w, x # w
        PROVE  (Level(u, x) \/ Ahead(u, x) \/ Ahead(x, u))'
    <3>1. Level(u, x) \/ Ahead(u, x) \/ Ahead(x, u)
      BY <1>0, <2>5 DEF Control, SyncInv
    <3> QED BY <1>1, <2>1, <2>5, <3>1 DEF Level, Ahead, IsLast
  <2>6. Level(w, w)'
    BY DEF Level
  <2>7. SyncInv'
    <3>1. ASSUME NEW u \in Waves(shape), NEW x \in Waves(shape), u[1] = x[1]
          PROVE  (Level(u, x) \/ Ahead(u, x) \/ Ahead(x, u))'
      <4>1. CASE u # w /\ x # w
        BY <2>5, <3>1, <4>1
      <4>2. CASE u = w /\ x = w
        BY <2>6, <4>2
      <4>3. CASE u # w /\ x = w
        BY <2>4, <3>1, <4>3
      <4>4. CASE u = w /\ x # w
        <5>1. (Level(x, w) \/ Ahead(w, x))'
          BY <2>4, <3>1, <4>4
        <5>2. Level(x, w)' => Level(w, x)'
          BY DEF Level
        <5> QED BY <4>4, <5>1, <5>2
      <4> QED BY <4>1, <4>2, <4>3, <4>4
    <3> QED BY <1>1, <3>1 DEF SyncInv
  <2> QED BY <2>3, <2>7
<1> QED BY <1>2, <1>3

LEMMA MailControl ==
    ASSUME Control, NEW w \in Waves(shape), Mail(w)
    PROVE  WaveInv' /\ SyncInv'
<1>1. /\ pc[w] = "mail" /\ UNCHANGED <<shape, tile>>
      /\ pc' = [pc EXCEPT ![w] = "mailed"] /\ pc \in [Waves(shape) -> Steps]
      /\ mailbox' = [mailbox EXCEPT ![w[1]] = count[w]]
      /\ mailbox \in [Workers(shape) -> Int]
  BY DEF Mail, Goto, Control, TypeOK
<1>0. ~Pipelined(shape)
  BY <1>1, NotPipelined
<1>2. pc'[w] = "mailed" /\ \A u \in Waves(shape) : u # w => pc'[u] = pc[u]
  BY <1>1
<1>3. \A u \in Waves(shape) : u[1] # w[1] => mailbox'[u[1]] = mailbox[u[1]]
  BY <1>1
<1>4. ASSUME NEW u \in Waves(shape), u[1] = w[1]
      PROVE  /\ pc[u] \in {"publish", "mail", "mailed"} /\ tile[u] = tile[w]
             /\ Phase(pc'[u]) = "arrive"
  <2>1. Level(u, w) \/ Ahead(u, w) \/ Ahead(w, u)
    BY <1>0, <1>4 DEF Control, SyncInv
  <2>2. Level(u, w)
    BY <1>1, <2>1 DEF Ahead, Phase
  <2>3. pc[u] \in {"publish", "mail", "mailed"} /\ tile[u] = tile[w]
    BY <1>1, <2>2 DEF Level, Phase
  <2> QED BY <1>2, <2>3 DEF Phase
<1>5. WaveInv'
  <2> SUFFICES ASSUME NEW u \in Waves(shape)
               PROVE  /\ tile[u] \in Mine(shape, u[1])
                      /\ pc'[u] \in {"publish", "mail", "reset"} => IsLead(u)
                      /\ pc'[u] = "written" => IsWholeTile(shape, u[1], tile[u])
                      /\ pc'[u] \notin {"tile", "written", "done"}
                           => ~IsWholeTile(shape, u[1], tile[u])
                      /\ pc'[u] = "done" => ~HasNext(shape, u[1], tile[u])
                      /\ pc'[u] \in Reducer => mailbox'[u[1]] = Parts(shape, tile[u])
    BY <1>1 DEF WaveInv, IsLast
  <2>1. pc'[u] \in Reducer => pc[u] \in Reducer /\ u # w /\ u[1] # w[1]
    BY <1>2, <1>4 DEF Reducer
  <2>2. pc'[u] \in Reducer => mailbox'[u[1]] = Parts(shape, tile[u])
    BY <1>3, <2>1 DEF Control, WaveInv, IsLast
  <2>3. CASE u = w
    BY <1>1, <1>2, <2>2, <2>3 DEF Control, WaveInv
  <2>4. CASE u # w
    BY <1>2, <2>2, <2>4 DEF Control, WaveInv
  <2> QED BY <2>3, <2>4
<1>6. ASSUME NEW u \in Waves(shape), NEW x \in Waves(shape), u[1] = x[1]
      PROVE  (Level(u, x) \/ Ahead(u, x) \/ Ahead(x, u))'
  <2>1. CASE u[1] = w[1]
    <3>1. Phase(pc'[u]) = "arrive" /\ Phase(pc'[x]) = "arrive" /\ tile[u] = tile[x]
      BY <1>4, <1>6, <2>1
    <3> QED BY <1>1, <3>1 DEF Level
  <2>2. CASE u[1] # w[1]
    <3>1. Level(u, x) \/ Ahead(u, x) \/ Ahead(x, u)
      BY <1>0, <1>6 DEF Control, SyncInv
    <3>2. pc'[u] = pc[u] /\ pc'[x] = pc[x]
      BY <1>2, <1>6, <2>2
    <3> QED BY <1>1, <1>3, <1>6, <2>2, <3>1, <3>2 DEF Level, Ahead, IsLast
  <2> QED BY <2>1, <2>2
<1>7. SyncInv'
  BY <1>1, <1>6 DEF SyncInv
<1> QED BY <1>5, <1>7

LEMMA ControlStep ==
    ASSUME Control, [Next]_vars
    PROVE  Control'
<1>0. shape \in Shapes /\ pc \in [Waves(shape) -> Steps]
  BY DEF Control, TypeOK
<1>1. TypeOK'
  <2>1. TypeOK /\ InLoop
    BY DEF Control, WaveInv, InLoop
  <2> QED BY <2>1, TypeStep
<1> SUFFICES WaveInv' /\ SyncInv'
  BY <1>1 DEF Control
<1>2. ASSUME NEW w \in Waves(shape), Wave(w) PROVE WaveInv' /\ SyncInv'
  <2>0. /\ pc[w] \in {"publish", "mail", "reset"} => IsLead(w)
        /\ pc[w] \notin {"tile", "written", "done"} => ~IsWholeTile(shape, w[1], tile[w])
    BY DEF Control, WaveInv
  <2>1. CASE WholeTile(w)
    BY <2>1, MoveControl DEF WholeTile, Phase, Steps, Reducer
  <2>2. CASE StorePartial(w)
    BY <2>2, MoveControl DEF StorePartial, Phase, Steps, Reducer
  <2>10. CASE LeaveTile(w)
    BY <2>10, LeaveControl
  <2>3. CASE Publish(w)
    BY <2>0, <2>3, MoveControl DEF Publish, Phase, Steps, Reducer
  <2>4. CASE Mail(w)
    BY <2>4, MailControl
  <2>5. CASE Elect(w)
    BY <2>5, ElectControl
  <2>6. CASE Acquire(w)
    BY <2>0, <2>6, MoveControl DEF Acquire, Phase, Steps, Reducer
  <2>7. CASE Reduce(w)
    <3>1. UNCHANGED <<shape, tile, pc, mailbox>>
      BY <2>7 DEF Reduce
    <3> QED BY <3>1 DEF Control, WaveInv, SyncInv, Level, Ahead, IsLast
  <2>8. CASE StoreReduced(w)
    BY <2>0, <2>8, MoveControl DEF StoreReduced, Phase, Steps, Reducer
  <2>9. CASE Reset(w)
    BY <2>0, <2>9, MoveControl DEF Reset, Phase, Steps, Reducer
  <2> QED BY <1>2, <2>1, <2>2, <2>3, <2>4, <2>5, <2>6, <2>7, <2>8, <2>9, <2>10 DEF Wave
<1>3. ASSUME NEW p \in Workers(shape), Workgroup(p) PROVE WaveInv' /\ SyncInv'
  BY <1>3, BarrierControl, TileBarrierControl DEF Workgroup
<1>4. CASE Relaunch
  <2>1. /\ shape' = shape
        /\ \A w \in Waves(shape) : pc'[w] = "tile" /\ tile'[w] = EntryTile(shape, w[1])
    BY <1>4 DEF Relaunch, KernelEntry
  <2>2. InLoop'
    <3>1. TypeOK /\ InLoop
      BY DEF Control, WaveInv, InLoop
    <3> QED BY <1>4, <3>1, TypeStep DEF Next
  <2>3. WaveInv'
    BY <2>1, <2>2 DEF WaveInv, InLoop, Reducer
  <2>4. SyncInv'
    BY <2>1 DEF SyncInv, Level
  <2> QED BY <2>3, <2>4
<1>5. CASE UNCHANGED vars
  BY <1>5 DEF vars, Control, WaveInv, SyncInv, Level, Ahead, IsLast
<1> QED BY <1>2, <1>3, <1>4, <1>5 DEF Next, Finished

LEMMA ControlInit ==
    ASSUME Init
    PROVE  Control
<1>1. TypeOK /\ InLoop
  BY TypeInit
<1>2. \A w \in Waves(shape) : pc[w] = "tile" /\ tile[w] = EntryTile(shape, w[1])
  BY DEF Init
<1>3. WaveInv
  BY <1>1, <1>2 DEF WaveInv, InLoop, Reducer
<1>4. SyncInv
  BY <1>2 DEF SyncInv, Level
<1> QED BY <1>1, <1>3, <1>4 DEF Control

-----------------------------------------------------------------------------
(* What a wave has done to a tile, from where it is in its loop. *)

Past(k, st, t) == t < k \/ st = "done"
StoredAt(k, st, t) == Past(k, st, t) \/ (t = k /\ st # "tile")
WrittenAt(k, st, t) == Past(k, st, t) \/ (t = k /\ st = "written")
ArrivedAt(k, st, t) ==
    Past(k, st, t) \/ (t = k /\ st \notin {"tile", "stored", "publish"})

HasStored(w, t) == StoredAt(tile[w], pc[w], t)
HasWritten(w, t) == WrittenAt(tile[w], pc[w], t)

(* Worker p has raised the arrival counter of tile t. *)
Arrived(p, t) ==
    Shared(shape, p, t) /\ ArrivedAt(tile[Lead(p)], pc[Lead(p)], t)
Arrivals(t) == {p \in Workers(shape) : Arrived(p, t)}
Complete(t) == Arrivals(t) = Owners(shape, t)

(* Worker p holds the arrival count it got at tile t, *)
Knows == {"mail", "mailed", "elect"} \union Reducer
At(p, t) == tile[Lead(p)] = t /\ pc[Lead(p)] \in Knows
Got(p) == IF pc[Lead(p)] = "mail" THEN count[Lead(p)] ELSE mailbox[p]

(* and is the last one, and has not taken the arrivals back. *)
Reducing(p, t) == At(p, t) /\ IsLast(Got(p), t) /\ pc[Lead(p)] # "resetdone"

(* The steps of a wave through its loop. *)
Advances(w) ==
    /\ pc[w] \in {"written", "resetdone", "elect"}
    /\ pc[w] = "elect" => ~IsLast(mailbox[w[1]], tile[w])
    /\ IF HasNext(shape, w[1], tile[w])
         THEN tile'[w] = tile[w] + TileStep(shape) /\ pc'[w] = "tile"
         ELSE tile'[w] = tile[w] /\ pc'[w] = "done"

Continues(w) ==
    /\ tile'[w] = tile[w]
    /\ \/ pc[w] = "stored" /\ pc'[w] = (IF IsLead(w) THEN "publish" ELSE "mailed")
       \/ pc[w] = "mail" /\ pc'[w] = "mailed"
       \/ pc[w] = "mailed" /\ pc'[w] = "elect"
       \/ pc[w] = "elect" /\ pc'[w] = "acquire" /\ IsLast(mailbox[w[1]], tile[w])
       \/ pc[w] = "acquire" /\ pc'[w] = "reduce"
       \/ pc[w] = "reduce" /\ pc'[w] = "reduced"
       \/ pc[w] = "reduced" /\ pc'[w] = (IF IsLead(w) THEN "reset" ELSE "resetdone")

LEMMA WaveMoves ==
    ASSUME Control, [Next]_vars, ~Relaunch, NEW w \in Waves(shape)
    PROVE  \/ tile'[w] = tile[w] /\ pc'[w] = pc[w]
           \/ /\ WholeTile(w) /\ IsWholeTile(shape, w[1], tile[w])
              /\ pc[w] = "tile" /\ pc'[w] = "written" /\ tile'[w] = tile[w]
           \/ /\ StorePartial(w) /\ ~IsWholeTile(shape, w[1], tile[w])
              /\ pc[w] = "tile" /\ pc'[w] = "stored" /\ tile'[w] = tile[w]
           \/ /\ Publish(w)
              /\ pc[w] = "publish" /\ pc'[w] = "mail" /\ tile'[w] = tile[w]
           \/ /\ Reset(w)
              /\ pc[w] = "reset" /\ pc'[w] = "resetdone" /\ tile'[w] = tile[w]
           \/ Advances(w)
           \/ Continues(w)
<1> DEFINE Goal == \/ tile'[w] = tile[w] /\ pc'[w] = pc[w]
                   \/ /\ WholeTile(w) /\ IsWholeTile(shape, w[1], tile[w])
                      /\ pc[w] = "tile" /\ pc'[w] = "written" /\ tile'[w] = tile[w]
                   \/ /\ StorePartial(w) /\ ~IsWholeTile(shape, w[1], tile[w])
                      /\ pc[w] = "tile" /\ pc'[w] = "stored" /\ tile'[w] = tile[w]
                   \/ /\ Publish(w)
                      /\ pc[w] = "publish" /\ pc'[w] = "mail" /\ tile'[w] = tile[w]
                   \/ /\ Reset(w)
                      /\ pc[w] = "reset" /\ pc'[w] = "resetdone" /\ tile'[w] = tile[w]
                   \/ Advances(w)
                   \/ Continues(w)
<1> SUFFICES Goal OBVIOUS
<1>0. pc \in [Waves(shape) -> Steps] /\ tile \in [Waves(shape) -> Nat]
  BY DEF Control, TypeOK
<1>1. ASSUME NEW u \in Waves(shape), NEW step, Goto(u, step)
      PROVE  pc'[w] = IF w = u THEN step ELSE pc[w]
  BY <1>0, <1>1 DEF Goto
<1>2. ASSUME NEW ws, Advance(ws)
      PROVE  /\ pc'[w] = IF w \notin ws THEN pc[w]
                         ELSE IF HasNext(shape, w[1], tile[w]) THEN "tile" ELSE "done"
             /\ tile'[w] = IF w \in ws /\ HasNext(shape, w[1], tile[w])
                             THEN tile[w] + TileStep(shape) ELSE tile[w]
  BY <1>2 DEF Advance
<1>3. ASSUME NEW u \in Waves(shape), Wave(u) PROVE Goal
  <2>1. CASE WholeTile(u)
    <3>1. pc[u] = "tile" /\ tile' = tile /\ Goto(u, "written") /\ IsWholeTile(shape, u[1], tile[u])
      BY <2>1 DEF WholeTile
    <3> QED BY <1>1, <2>1, <3>1
  <2>2. CASE StorePartial(u)
    <3>1. pc[u] = "tile" /\ tile' = tile /\ Goto(u, "stored") /\ ~IsWholeTile(shape, u[1], tile[u])
      BY <2>2 DEF StorePartial
    <3> QED BY <1>1, <2>2, <3>1
  <2>3. CASE Publish(u)
    <3>1. pc[u] = "publish" /\ tile' = tile /\ Goto(u, "mail")
      BY <2>3 DEF Publish
    <3> QED BY <1>1, <2>3, <3>1
  <2>4. CASE Mail(u)
    BY <1>1, <2>4 DEF Mail, Continues
  <2>5. CASE Elect(u)
    <3>1. CASE IsLast(mailbox[u[1]], tile[u])
      BY <1>1, <2>5, <3>1 DEF Elect, ArrivalCount, Continues
    <3>2. CASE ~IsLast(mailbox[u[1]], tile[u])
      <4>1. Advance({u}) /\ pc[u] = "elect"
        BY <2>5, <3>2 DEF Elect, ArrivalCount
      <4> QED BY <1>2, <3>2, <4>1 DEF Advances
    <3> QED BY <3>1, <3>2
  <2>6. CASE Acquire(u)
    BY <1>1, <2>6 DEF Acquire, Continues
  <2>7. CASE Reduce(u)
    BY <2>7 DEF Reduce
  <2>8. CASE StoreReduced(u)
    BY <1>1, <2>8 DEF StoreReduced, Continues
  <2>9. CASE Reset(u)
    <3>1. pc[u] = "reset" /\ tile' = tile /\ Goto(u, "resetdone")
      BY <2>9 DEF Reset
    <3> QED BY <1>1, <2>9, <3>1
  <2>10. CASE LeaveTile(u)
    <3>1. Advance({u}) /\ pc[u] = "written"
      BY <2>10 DEF LeaveTile
    <3> QED BY <1>2, <3>1 DEF Advances
  <2> QED BY <1>3, <2>1, <2>2, <2>3, <2>4, <2>5, <2>6, <2>7, <2>8, <2>9, <2>10 DEF Wave
<1>4. ASSUME NEW p \in Workers(shape), Workgroup(p) PROVE Goal
  <2>1. ASSUME NEW step \in {"stored", "mailed", "reduced"}, Barrier(p, step) PROVE Goal
    <3>1. tile' = tile /\ pc'[w] = IF w[1] = p THEN AfterBarrier(step, w) ELSE pc[w]
      BY <2>1 DEF Barrier
    <3>2. w[1] = p => pc[w] = step
      BY <2>1 DEF Barrier
    <3> QED BY <3>1, <3>2 DEF AfterBarrier, Continues
  <2>2. ASSUME NEW step \in {"written", "resetdone"}, TileBarrier(p, step) PROVE Goal
    <3>1. Advance({u \in Waves(shape) : u[1] = p}) /\ (w[1] = p => pc[w] = step)
      BY <2>2 DEF TileBarrier
    <3> QED BY <1>2, <3>1 DEF Advances
  <2> QED BY <1>4, <2>1, <2>2 DEF Workgroup
<1>5. CASE UNCHANGED vars
  BY <1>5 DEF vars
<1> HIDE DEF Goal
<1> QED BY <1>3, <1>4, <1>5 DEF Next, Finished

(* Going on to the next tile changes nothing about the earlier ones. *)
LEMMA AdvanceKeeps ==
    ASSUME NEW s, IsShape(s), NEW p \in Workers(s), NEW k \in Mine(s, p), NEW st,
           st \in {"written", "resetdone", "elect"},
           st = "written" <=> IsWholeTile(s, p, k),
           NEW j, NEW nx,
           IF HasNext(s, p, k) THEN j = k + TileStep(s) /\ nx = "tile"
                               ELSE j = k /\ nx = "done",
           NEW t \in Mine(s, p)
    PROVE  /\ StoredAt(j, nx, t) <=> StoredAt(k, st, t)
           /\ ArrivedAt(j, nx, t) <=> ArrivedAt(k, st, t)
           /\ IsWholeTile(s, p, t) => (WrittenAt(j, nx, t) <=> WrittenAt(k, st, t))
<1>0. t \in Nat /\ k \in Nat /\ TileStep(s) \in Nat
  BY NextTile
<1>1. CASE HasNext(s, p, k)
  <2>1. (t < j <=> t <= k) /\ nx = "tile" /\ (t = j => ~(t <= k)) /\ j \in Nat
    <3>1. j = k + TileStep(s) /\ (t < j <=> t <= k)
      BY <1>1, NextTile
    <3> QED BY <1>0, <1>1, <3>1
  <2> QED BY <1>0, <2>1 DEF StoredAt, ArrivedAt, WrittenAt, Past
<1>2. CASE ~HasNext(s, p, k)
  <2>1. t <= k /\ nx = "done" /\ j = k
    BY <1>2, NextTile
  <2> QED BY <1>0, <2>1 DEF StoredAt, ArrivedAt, WrittenAt, Past
<1> QED BY <1>1, <1>2

(* What a step changes of the history of the tiles. *)
LEMMA StoredEffect ==
    ASSUME Control, [Next]_vars, ~Relaunch, NEW w \in Waves(shape), NEW t,
           Shared(shape, w[1], t)
    PROVE  HasStored(w, t)' <=> HasStored(w, t) \/ (StorePartial(w) /\ t = tile[w])
<1>0. IsShape(shape) /\ w[1] \in Workers(shape) /\ tile[w] \in Mine(shape, w[1])
  BY ShapesAccepted, WaveFacts DEF Control, TypeOK, WaveInv
<1>1. t \in Mine(shape, w[1]) /\ ~IsWholeTile(shape, w[1], t)
  BY DEF Shared
<1>2. /\ StorePartial(w) => pc[w] = "tile" /\ pc'[w] = "stored" /\ tile'[w] = tile[w]
      /\ pc[w] \in {"written", "resetdone", "elect"} =>
            (pc[w] = "written" <=> IsWholeTile(shape, w[1], tile[w]))
  BY DEF StorePartial, Goto, Control, TypeOK, WaveInv
<1>3. CASE Advances(w)
  <2>1. StoredAt(tile'[w], pc'[w], t) <=> StoredAt(tile[w], pc[w], t)
    BY <1>0, <1>1, <1>2, <1>3, AdvanceKeeps DEF Advances
  <2>2. ~StorePartial(w)
    BY <1>2, <1>3 DEF Advances
  <2> QED BY <2>1, <2>2 DEF HasStored
<1>4. CASE Continues(w)
  BY <1>2, <1>4 DEF Continues, HasStored, StoredAt, Past
<1>5. CASE tile'[w] = tile[w] /\ pc'[w] = pc[w]
  BY <1>2, <1>5 DEF HasStored
<1>6. CASE StorePartial(w)
  BY <1>2, <1>6 DEF HasStored, StoredAt, Past
<1>7. CASE /\ IsWholeTile(shape, w[1], tile[w])
           /\ pc[w] = "tile" /\ pc'[w] = "written" /\ tile'[w] = tile[w]
  BY <1>1, <1>2, <1>7 DEF HasStored, StoredAt, Past
<1>8. CASE /\ pc[w] \in {"publish", "reset"} /\ pc'[w] \in {"mail", "resetdone"}
           /\ tile'[w] = tile[w]
  BY <1>2, <1>8 DEF HasStored, StoredAt, Past
<1> QED BY <1>3, <1>4, <1>5, <1>6, <1>7, <1>8, WaveMoves

LEMMA WrittenEffect ==
    ASSUME Control, [Next]_vars, ~Relaunch, NEW w \in Waves(shape),
           NEW t \in Mine(shape, w[1]), IsWholeTile(shape, w[1], t)
    PROVE  HasWritten(w, t)' <=> HasWritten(w, t) \/ (WholeTile(w) /\ t = tile[w])
<1>0. IsShape(shape) /\ w[1] \in Workers(shape) /\ tile[w] \in Mine(shape, w[1])
  BY ShapesAccepted, WaveFacts DEF Control, TypeOK, WaveInv
<1>2. /\ WholeTile(w) => pc[w] = "tile" /\ pc'[w] = "written" /\ tile'[w] = tile[w]
      /\ pc[w] \in {"written", "resetdone", "elect"} =>
            (pc[w] = "written" <=> IsWholeTile(shape, w[1], tile[w]))
  BY DEF WholeTile, Goto, Control, TypeOK, WaveInv
<1>3. CASE Advances(w)
  <2>1. WrittenAt(tile'[w], pc'[w], t) <=> WrittenAt(tile[w], pc[w], t)
    BY <1>0, <1>2, <1>3, AdvanceKeeps DEF Advances
  <2>2. ~WholeTile(w)
    BY <1>2, <1>3 DEF Advances
  <2> QED BY <2>1, <2>2 DEF HasWritten
<1>4. CASE Continues(w)
  BY <1>2, <1>4 DEF Continues, HasWritten, WrittenAt, Past
<1>5. CASE tile'[w] = tile[w] /\ pc'[w] = pc[w]
  BY <1>2, <1>5 DEF HasWritten
<1>6. CASE WholeTile(w)
  BY <1>2, <1>6 DEF HasWritten, WrittenAt, Past
<1>7. CASE /\ pc[w] \in {"tile", "publish", "reset"}
           /\ pc'[w] \in {"stored", "mail", "resetdone"}
           /\ tile'[w] = tile[w]
  BY <1>2, <1>7 DEF HasWritten, WrittenAt, Past
<1> QED BY <1>3, <1>4, <1>5, <1>6, <1>7, WaveMoves

LEMMA ArrivedEffect ==
    ASSUME Control, [Next]_vars, ~Relaunch, NEW p \in Workers(shape), NEW t,
           shape' = shape
    PROVE  Arrived(p, t)' <=>
              Arrived(p, t) \/ (Publish(Lead(p)) /\ t = tile[Lead(p)])
<1> DEFINE w == Lead(p)
<1>0. /\ IsShape(shape) /\ w \in Waves(shape) /\ w[1] = p /\ IsLead(w)
      /\ tile[w] \in Mine(shape, p)
  BY ShapesAccepted, LeadFacts DEF Control, TypeOK, WaveInv
<1> HIDE DEF w
<1>2. /\ Publish(w) => pc[w] = "publish" /\ pc'[w] = "mail" /\ tile'[w] = tile[w]
      /\ pc[w] \notin {"tile", "written", "done"} => ~IsWholeTile(shape, p, tile[w])
      /\ pc[w] = "written" => IsWholeTile(shape, p, tile[w])
  BY <1>0 DEF Publish, Goto, Control, TypeOK, WaveInv
<1>3. CASE ~Shared(shape, p, t)
  <2>1. Publish(w) /\ t = tile[w] => Shared(shape, p, t)
    BY <1>0, <1>2 DEF Shared
  <2> QED BY <1>3, <2>1 DEF Arrived, w
<1>4. CASE Shared(shape, p, t)
  <2>0. t \in Mine(shape, p) /\ ~IsWholeTile(shape, p, t)
    BY <1>4 DEF Shared
  <2> DEFINE A == ArrivedAt(tile[w], pc[w], t)
             B == ArrivedAt(tile'[w], pc'[w], t)
  <2>1. CASE Advances(w)
    <3>1. B <=> A
      BY <1>0, <1>2, <2>0, <2>1, AdvanceKeeps DEF Advances
    <3>2. ~Publish(w)
      BY <1>2, <2>1 DEF Advances
    <3> QED BY <1>4, <3>1, <3>2 DEF Arrived, w
  <2>2. CASE Continues(w)
    <3>1. B <=> A
      BY <1>0, <2>2 DEF Continues, ArrivedAt, Past
    <3>2. ~Publish(w)
      BY <1>2, <2>2 DEF Continues
    <3> QED BY <1>4, <3>1, <3>2 DEF Arrived, w
  <2>3. CASE tile'[w] = tile[w] /\ pc'[w] = pc[w]
    BY <1>2, <1>4, <2>3 DEF Arrived, w
  <2>4. CASE Publish(w)
    <3>1. B <=> A \/ t = tile[w]
      BY <1>2, <2>4 DEF ArrivedAt, Past
    <3> QED BY <1>4, <2>4, <3>1 DEF Arrived, w
  <2>5. CASE /\ IsWholeTile(shape, p, tile[w])
             /\ pc[w] = "tile" /\ pc'[w] = "written" /\ tile'[w] = tile[w]
    <3>1. B <=> A
      BY <2>0, <2>5 DEF ArrivedAt, Past
    <3> QED BY <1>2, <1>4, <2>5, <3>1 DEF Arrived, w
  <2>6. CASE /\ \/ pc[w] = "tile" /\ pc'[w] = "stored"
                \/ pc[w] = "reset" /\ pc'[w] = "resetdone"
             /\ tile'[w] = tile[w]
    <3>1. B <=> A
      BY <2>6 DEF ArrivedAt, Past
    <3> QED BY <1>2, <1>4, <2>6, <3>1 DEF Arrived, w
  <2> QED BY <1>0, <2>1, <2>2, <2>3, <2>4, <2>5, <2>6, WaveMoves
<1> QED BY <1>3, <1>4

(* A worker keeps the count it got until it leaves the tile; it is the       *)
(* reducer from its arrival until it takes the arrivals back.                *)
LEMMA GotEffect ==
    ASSUME Control, [Next]_vars, ~Relaunch, NEW p \in Workers(shape), NEW t,
           ~Publish(Lead(p)), shape' = shape
    PROVE  /\ At(p, t)' => At(p, t) /\ Got(p)' = Got(p)
           /\ ~Reset(Lead(p)) => (Reducing(p, t)' <=> Reducing(p, t))
<1> DEFINE w == Lead(p)
<1>0. /\ w \in Waves(shape) /\ w[1] = p /\ IsLead(w) /\ shape \in Shapes
      /\ pc \in [Waves(shape) -> Steps] /\ count \in [Waves(shape) -> Int]
      /\ mailbox \in [Workers(shape) -> Int]
  BY ShapesAccepted, LeadFacts DEF Control, TypeOK
<1> HIDE DEF w
<1>1. mailbox'[p] = mailbox[p] \/ Mail(w)
  <2>1. ASSUME NEW u \in Waves(shape), Mail(u) PROVE mailbox'[p] = mailbox[p] \/ u = w
    <3>1. IsLead(u) /\ mailbox' = [mailbox EXCEPT ![u[1]] = count[u]]
      BY <2>1 DEF Mail, Control, WaveInv
    <3>2. u = Lead(u[1])
      BY <1>0, <3>1, LeadFacts
    <3> QED BY <1>0, <3>1, <3>2 DEF w
  <2>2. mailbox' = mailbox \/ \E u \in Waves(shape) : Mail(u)
    BY DEF Next, Wave, Workgroup, Finished, vars, LeaveTile, WholeTile, StorePartial, Publish,
           Elect, Acquire, Reduce, StoreReduced, Reset, Barrier, TileBarrier
  <2> QED BY <2>1, <2>2
<1>2. Mail(w) => pc[w] = "mail" /\ pc'[w] = "mailed" /\ mailbox'[p] = count[w]
                 /\ tile'[w] = tile[w]
  BY <1>0 DEF Mail, Goto
<1>3. pc[w] = "mail" => count'[w] = count[w]
  <2>1. ASSUME NEW u \in Waves(shape), count' = [count EXCEPT ![u] = ArrivalCount(u)],
               pc[u] = "elect", pc[w] = "mail"
        PROVE  count'[w] = count[w]
    BY <1>0, <2>1
  <2>2. ASSUME NEW u \in Waves(shape), Publish(u), pc[w] = "mail"
        PROVE  count'[w] = count[w]
    BY <1>0, <2>2 DEF Publish
  <2>3. \/ count' = count
        \/ \E u \in Waves(shape) : Publish(u)
        \/ \E u \in Waves(shape) :
              count' = [count EXCEPT ![u] = ArrivalCount(u)] /\ pc[u] = "elect"
    BY DEF Next, Wave, Workgroup, Finished, vars, LeaveTile, WholeTile, StorePartial, Mail,
           Elect, Acquire, Reduce, StoreReduced, Reset, Barrier, TileBarrier
  <2> QED BY <2>1, <2>2, <2>3
<1>4. \/ tile'[w] = tile[w] /\ pc'[w] = pc[w]
      \/ Reset(w) /\ pc[w] = "reset" /\ pc'[w] = "resetdone" /\ tile'[w] = tile[w]
      \/ Advances(w)
      \/ Continues(w)
      \/ pc[w] = "tile" /\ pc'[w] \in {"stored", "written"}
  BY <1>0, WaveMoves DEF w
<1>5. At(p, t)' => At(p, t) /\ Got(p)' = Got(p)
  <2> SUFFICES ASSUME tile'[w] = t, pc'[w] \in Knows
               PROVE  /\ tile[w] = t /\ pc[w] \in Knows
                      /\ (IF pc'[w] = "mail" THEN count'[w] ELSE mailbox'[p]) =
                         (IF pc[w] = "mail" THEN count[w] ELSE mailbox[p])
    BY DEF At, Got, w
  <2>1. CASE Mail(w)
    BY <1>2, <2>1 DEF Knows
  <2>2. CASE ~Mail(w)
    <3>1. mailbox'[p] = mailbox[p]
      BY <1>1, <2>2
    <3>2. ~(pc[w] = "mail" /\ pc'[w] = "mailed")
      <4>1. ASSUME pc[w] = "mail", pc'[w] = "mailed" PROVE Mail(w)
        <5>1. \A u \in Waves(shape) : Wave(u) /\ u # w => pc'[w] = pc[w]
                                                          \/ pc'[w] # "mailed"
          BY <1>0, <4>1 DEF Wave, WholeTile, LeaveTile, StorePartial, Publish, Mail,
               Elect, Acquire, Reduce, StoreReduced, Reset, Goto, Advance
        <5>2. Wave(w) => Mail(w)
          BY <4>1 DEF Wave, WholeTile, LeaveTile, StorePartial, Publish, Elect,
               Acquire, Reduce, StoreReduced, Reset
        <5>3. ASSUME NEW q \in Workers(shape), Workgroup(q) PROVE FALSE
          <6>1. ASSUME NEW step \in {"stored", "mailed", "reduced"}, Barrier(q, step)
                PROVE  FALSE
            BY <1>0, <4>1, <6>1 DEF Barrier, AfterBarrier
          <6>2. ASSUME NEW step \in {"written", "resetdone"}, TileBarrier(q, step)
                PROVE  FALSE
            BY <1>0, <4>1, <6>2 DEF TileBarrier, Advance
          <6> QED BY <5>3, <6>1, <6>2 DEF Workgroup
        <5>4. ~UNCHANGED vars
          BY <4>1 DEF vars
        <5> QED BY <4>1, <5>1, <5>2, <5>3, <5>4 DEF Next, Finished
      <4> QED BY <2>2, <4>1
    <3>3. CASE tile'[w] = tile[w] /\ pc'[w] = pc[w]
      BY <1>3, <3>1, <3>3
    <3>4. CASE pc[w] = "reset" /\ pc'[w] = "resetdone" /\ tile'[w] = tile[w]
      BY <3>1, <3>4 DEF Knows, Reducer
    <3>5. CASE Advances(w)
      BY <3>5 DEF Advances, Knows, Reducer
    <3>6. CASE Continues(w)
      BY <1>0, <3>1, <3>2, <3>6 DEF Continues, Knows, Reducer
    <3>7. CASE pc[w] = "tile" /\ pc'[w] \in {"stored", "written"}
      BY <3>7 DEF Knows, Reducer
    <3> QED BY <1>4, <3>3, <3>4, <3>5, <3>6, <3>7
  <2> QED BY <2>1, <2>2
<1>6. ASSUME ~Reset(w) PROVE Reducing(p, t)' <=> Reducing(p, t)
  <2>1. Reducing(p, t)' => pc[w] # "resetdone"
    BY <1>4, <1>6 DEF Reducing, At, Advances, Continues, Knows, Reducer, w
  <2>2. Reducing(p, t)' => Reducing(p, t)
    BY <1>5, <2>1 DEF Reducing, IsLast, w
  <2>3. ASSUME Reducing(p, t) PROVE At(p, t)' /\ pc'[w] # "resetdone"
    <3>1. tile[w] = t /\ pc[w] \in Knows /\ IsLast(Got(p), t) /\ pc[w] # "resetdone"
      BY <2>3 DEF Reducing, At, w
    <3>2. ~Advances(w)
      <4>1. CASE pc[w] = "elect"
        BY <1>0, <3>1, <4>1 DEF Advances, Got, w
      <4>2. CASE pc[w] # "elect"
        BY <3>1, <4>2 DEF Advances, Knows, Reducer
      <4> QED BY <4>1, <4>2
    <3>3. tile'[w] = t /\ pc'[w] \in Knows /\ pc'[w] # "resetdone"
      BY <1>0, <1>4, <1>6, <3>1, <3>2 DEF Continues, Knows, Reducer
    <3> QED BY <3>3 DEF At, w
  <2>4. Reducing(p, t) => Reducing(p, t)'
    BY <1>5, <2>3 DEF Reducing, IsLast, w
  <2> QED BY <2>2, <2>4
<1> QED BY <1>5, <1>6 DEF w

-----------------------------------------------------------------------------
(* The arrival counters.                                                     *)
(*                                                                           *)
(* The count a worker gets at a tile is its number in the order of arrival;  *)
(* the counter holds the number of arrivals until the last worker has taken  *)
(* them back.                                                                *)
CountInv ==
    \A p \in Workers(shape), t \in Tiles(shape) : At(p, t) =>
        /\ Got(p) \in 1..Cardinality(Arrivals(t))
        /\ \A q \in Workers(shape) : At(q, t) /\ Got(q) = Got(p) => q = p

CounterInv ==
    \A t \in Tiles(shape) :
        counter[t] = IF Complete(t) /\ \A p \in Workers(shape) : ~Reducing(p, t)
                       THEN 0 ELSE Cardinality(Arrivals(t))

Protocol == Control /\ CountInv /\ CounterInv

LEMMA OwnersCount ==
    ASSUME NEW s, IsShape(s), NEW t \in Tiles(s)
    PROVE  IsFiniteSet(Owners(s, t)) /\ Cardinality(Owners(s, t)) = Parts(s, t)
<1>1. /\ FirstOwner(s, t) \in Nat /\ LastOwner(s, t) \in Nat
      /\ FirstOwner(s, t) <= LastOwner(s, t)
      /\ Parts(s, t) = LastOwner(s, t) - FirstOwner(s, t) + 1
  BY OwnersFacts
<1>2. ASSUME NEW a \in Nat, NEW b \in Nat, a <= b
      PROVE  IsFiniteSet(a..b) /\ Cardinality(a..b) = b - a + 1
  <2>1. a \in Int /\ b \in Int /\ ~(a > b)
    BY <1>2
  <2>2. IsFiniteSet(a..b) /\ Cardinality(a..b) = IF a > b THEN 0 ELSE b - a + 1
    BY <2>1, FS_Interval, Zenon
  <2> QED BY <2>1, <2>2
<1> QED BY <1>1, <1>2 DEF Owners

LEMMA ArrivalsFacts ==
    ASSUME TypeOK, NEW t \in Tiles(shape)
    PROVE  /\ IsFiniteSet(Arrivals(t)) /\ Cardinality(Arrivals(t)) \in Nat
           /\ \A p \in Workers(shape) : Shared(shape, p, t) =>
                /\ Arrivals(t) \subseteq Owners(shape, t)
                /\ Cardinality(Arrivals(t)) <= Parts(shape, t)
                /\ Complete(t) <=> Cardinality(Arrivals(t)) = Parts(shape, t)
<1>0. IsShape(shape) /\ shape.workers \in Nat
  BY ShapesAccepted DEF TypeOK
<1>1. IsFiniteSet(Workers(shape))
  <2>1. 0 \in Int /\ shape.workers - 1 \in Int
    BY <1>0
  <2>2. IsFiniteSet(0..(shape.workers - 1))
    BY <2>1, FS_Interval, Zenon
  <2> QED BY <2>2 DEF Workers
<1>2. Arrivals(t) \subseteq Workers(shape)
  BY DEF Arrivals
<1>3. IsFiniteSet(Arrivals(t)) /\ Cardinality(Arrivals(t)) \in Nat
  <2>1. IsFiniteSet(Arrivals(t))
    BY <1>1, <1>2, FS_Subset
  <2> QED BY <2>1, FS_CardinalityType
<1>4. IsFiniteSet(Owners(shape, t)) /\ Cardinality(Owners(shape, t)) = Parts(shape, t)
  BY <1>0, OwnersCount
<1>5. ASSUME NEW p \in Workers(shape), Shared(shape, p, t)
      PROVE  /\ Arrivals(t) \subseteq Owners(shape, t)
             /\ Cardinality(Arrivals(t)) <= Parts(shape, t)
             /\ Complete(t) <=> Cardinality(Arrivals(t)) = Parts(shape, t)
  <2>1. Arrivals(t) \subseteq Owners(shape, t)
    BY <1>0, <1>5, SharedOwners DEF Arrivals, Arrived
  <2>2. /\ Cardinality(Arrivals(t)) <= Cardinality(Owners(shape, t))
        /\ Cardinality(Owners(shape, t)) = Cardinality(Arrivals(t))
             => Owners(shape, t) = Arrivals(t)
    BY <1>4, <2>1, FS_Subset
  <2> QED BY <1>4, <2>1, <2>2 DEF Complete
<1> QED BY <1>3, <1>5

(* A tile that is not shared has no arrivals. *)
LEMMA NoArrivals ==
    ASSUME TypeOK, NEW t \in Tiles(shape),
           \A p \in Workers(shape) : ~Arrived(p, t)
    PROVE  /\ Arrivals(t) = {} /\ Cardinality(Arrivals(t)) = 0
           /\ ~Complete(t)
<1>1. Arrivals(t) = {}
  BY DEF Arrivals
<1>2. FirstOwner(shape, t) \in Owners(shape, t)
  BY ShapesAccepted, OwnersFacts DEF TypeOK, Owners
<1>3. Cardinality({}) = 0
  BY FS_EmptySet
<1> QED BY <1>1, <1>2, <1>3 DEF Complete

LEMMA AtFacts ==
    ASSUME Control, NEW p \in Workers(shape), NEW t, At(p, t)
    PROVE  /\ Shared(shape, p, t) /\ Arrived(p, t) /\ t \in Tiles(shape)
           /\ p \in Arrivals(t)
<1>1. IsShape(shape) /\ Lead(p) \in Waves(shape) /\ Lead(p)[1] = p
  BY ShapesAccepted, LeadFacts DEF Control, TypeOK
<1>2. /\ tile[Lead(p)] \in Mine(shape, p) /\ tile[Lead(p)] = t
      /\ ~IsWholeTile(shape, p, t)
      /\ pc[Lead(p)] \notin {"tile", "stored", "publish"}
  BY <1>1 DEF Control, WaveInv, At, Knows, Reducer
<1>3. Shared(shape, p, t) /\ Arrived(p, t)
  BY <1>2 DEF Shared, Arrived, ArrivedAt
<1>4. t \in Tiles(shape)
  BY <1>1, <1>3, SharedOwners
<1> QED BY <1>3, <1>4 DEF Arrivals

(* The worker that got the number of the owners is the last one to arrive. *)
LEMMA LastComplete ==
    ASSUME Control, CountInv, NEW p \in Workers(shape), NEW t, At(p, t),
           IsLast(Got(p), t)
    PROVE  Complete(t)
<1>1. Shared(shape, p, t) /\ t \in Tiles(shape)
  BY AtFacts
<1>2. Got(p) \in 1..Cardinality(Arrivals(t)) /\ Got(p) = Parts(shape, t)
  BY <1>1 DEF CountInv, IsLast
<1>3. /\ Cardinality(Arrivals(t)) \in Nat /\ Cardinality(Arrivals(t)) <= Parts(shape, t)
      /\ Complete(t) <=> Cardinality(Arrivals(t)) = Parts(shape, t)
  BY <1>1, ArrivalsFacts DEF Control
<1> QED BY <1>2, <1>3

LEMMA OneReducer ==
    ASSUME Control, CountInv, NEW p \in Workers(shape), NEW q \in Workers(shape), NEW t,
           Reducing(p, t), Reducing(q, t)
    PROVE  p = q
<1>1. At(p, t) /\ At(q, t) /\ Got(p) = Got(q)
  BY DEF Reducing, IsLast
<1>2. t \in Tiles(shape)
  BY <1>1, AtFacts
<1> QED BY <1>1, <1>2 DEF CountInv

(* Within a tile the waves of a worker that reduces have its lead with them. *)
LEMMA ReducerLead ==
    ASSUME Control, NEW w \in Waves(shape), pc[w] \in Reducer
    PROVE  /\ At(w[1], tile[w]) /\ IsLast(Got(w[1]), tile[w])
           /\ Phase(pc[Lead(w[1])]) = Phase(pc[w])
           /\ w[1] \in Workers(shape)
<1> DEFINE u == Lead(w[1])
<1>1. w[1] \in Workers(shape) /\ u \in Waves(shape) /\ u[1] = w[1]
  BY LeadFacts, WaveFacts DEF Control, TypeOK
<1>2. IsLast(mailbox[w[1]], tile[w])
  BY DEF Control, WaveInv
<1>3. Level(u, w) \/ Ahead(u, w) \/ Ahead(w, u)
  <2>1. ~Pipelined(shape)
    BY NotPipelined DEF Reducer
  <2> QED BY <1>1, <2>1 DEF Control, SyncInv
<1> HIDE DEF u
<1>4. Level(u, w)
  BY <1>3 DEF Ahead, Reducer, Phase
<1>5. pc[u] \in Knows /\ pc[u] # "mail" /\ tile[u] = tile[w]
  <2>1. pc[u] \in Steps
    BY <1>1 DEF Control, TypeOK
  <2> QED BY <1>4, <2>1 DEF Level, Phase, Knows, Reducer, Steps
<1> QED BY <1>1, <1>2, <1>4, <1>5 DEF At, Got, Level, u

LEMMA Unchanging ==
    ASSUME [Next]_vars
    PROVE  shape' = shape /\ (~Relaunch => launch' = launch)
BY DEF Next, Wave, Workgroup, Finished, vars, LeaveTile, WholeTile, StorePartial, Publish, Mail,
       Elect, Acquire, Reduce, StoreReduced, Reset, Barrier, TileBarrier, Relaunch

(* A worker arrives. *)
LEMMA PublishFacts ==
    ASSUME Control, [Next]_vars, NEW w \in Waves(shape), Publish(w)
    PROVE  /\ w[1] \in Workers(shape) /\ w = Lead(w[1]) /\ ~Relaunch
           /\ Shared(shape, w[1], tile[w]) /\ tile[w] \in Tiles(shape)
           /\ ~Arrived(w[1], tile[w])
           /\ tile' = tile /\ pc[w] = "publish" /\ pc'[w] = "mail"
           /\ Got(w[1])' = counter[tile[w]] + 1
           /\ \A q \in Workers(shape) : Publish(Lead(q)) => q = w[1]
           /\ \A q \in Workers(shape) : ~Reset(Lead(q))
           /\ \A t \in Tiles(shape) :
                counter'[t] = IF t = tile[w] THEN counter[t] + 1 ELSE counter[t]
           /\ \A t : Arrivals(t)' = IF t = tile[w] THEN Arrivals(t) \union {w[1]}
                                                   ELSE Arrivals(t)
<1>1. /\ pc[w] = "publish" /\ tile' = tile /\ pc' = [pc EXCEPT ![w] = "mail"]
      /\ count' = [count EXCEPT ![w] = counter[tile[w]] + 1]
      /\ counter' = [counter EXCEPT ![tile[w]] = @ + 1]
  BY DEF Publish, Goto, AtomicAdd
<1>2. /\ shape \in Shapes /\ pc \in [Waves(shape) -> Steps]
      /\ count \in [Waves(shape) -> Int] /\ counter \in [Tiles(shape) -> Int]
      /\ tile \in [Waves(shape) -> Nat]
  BY DEF Control, TypeOK
<1>3. w[1] \in Workers(shape) /\ w = Lead(w[1])
  <2>1. IsLead(w)
    BY <1>1 DEF Control, WaveInv
  <2> QED BY <1>2, <2>1, WaveFacts, LeadFacts
<1>4. Shared(shape, w[1], tile[w])
  BY <1>1 DEF Control, WaveInv, Shared
<1>5. tile[w] \in Tiles(shape)
  BY <1>2, <1>3, <1>4, ShapesAccepted, SharedOwners
<1>6. ~Arrived(w[1], tile[w])
  <2>1. ~ArrivedAt(tile[w], "publish", tile[w])
    BY <1>2 DEF ArrivedAt, Past
  <2> QED BY <1>1, <1>3, <2>1 DEF Arrived
<1>7. pc'[w] = "mail" /\ count'[w] = counter[tile[w]] + 1
  BY <1>1, <1>2
<1>8. ~Relaunch
  <2>1. Relaunch => pc'[w] = "tile"
    BY DEF Relaunch, KernelEntry
  <2> QED BY <1>7, <2>1
<1>9. Got(w[1])' = counter[tile[w]] + 1
  BY <1>3, <1>7 DEF Got
<1>10. ASSUME NEW q \in Workers(shape), Publish(Lead(q)) \/ Reset(Lead(q))
       PROVE  q = w[1] /\ ~Reset(Lead(q))
  <2> DEFINE u == Lead(q)
  <2>1. u \in Waves(shape) /\ u[1] = q
    BY <1>2, LeadFacts
  <2>2. /\ Publish(u) => pc[u] = "publish" /\ pc' = [pc EXCEPT ![u] = "mail"]
        /\ Reset(u) => pc[u] = "reset" /\ pc' = [pc EXCEPT ![u] = "resetdone"]
    BY DEF Publish, Reset, Goto
  <2> HIDE DEF u
  <2>3. pc'[u] # pc[u]
    BY <1>2, <1>10, <2>1, <2>2 DEF u
  <2>4. u = w
    BY <1>1, <1>2, <2>1, <2>3
  <2> QED BY <1>1, <2>1, <2>2, <2>4 DEF u
<1>11. \A t \in Tiles(shape) :
          counter'[t] = IF t = tile[w] THEN counter[t] + 1 ELSE counter[t]
  BY <1>1, <1>2
<1>12. ASSUME NEW t
       PROVE  Arrivals(t)' = IF t = tile[w] THEN Arrivals(t) \union {w[1]}
                                            ELSE Arrivals(t)
  <2>1. shape' = shape
    BY Unchanging
  <2>2. \A p \in Workers(shape) : Publish(Lead(p)) <=> p = w[1]
    BY <1>3, <1>10
  <2>3. \A p \in Workers(shape) :
          Arrived(p, t)' <=> Arrived(p, t) \/ (p = w[1] /\ t = tile[w])
    BY <1>3, <1>8, <2>1, <2>2, ArrivedEffect
  <2> QED BY <1>3, <2>1, <2>3 DEF Arrivals
<1> QED BY <1>1, <1>3, <1>4, <1>5, <1>6, <1>7, <1>8, <1>9, <1>10, <1>11, <1>12

LEMMA ArrivalsKept ==
    ASSUME Control, [Next]_vars, ~Relaunch, NEW t,
           \A w \in Waves(shape) : ~Publish(w)
    PROVE  Arrivals(t)' = Arrivals(t) /\ (Complete(t)' <=> Complete(t))
<1>1. shape' = shape
  BY Unchanging
<1>2. \A p \in Workers(shape) : ~Publish(Lead(p))
  BY LeadFacts DEF Control, TypeOK
<1>3. \A p \in Workers(shape) : Arrived(p, t)' <=> Arrived(p, t)
  BY <1>1, <1>2, ArrivedEffect
<1>4. Arrivals(t)' = Arrivals(t)
  BY <1>1, <1>3 DEF Arrivals
<1> QED BY <1>1, <1>4 DEF Complete

(* When a launch ends, every worker has done all it has to do, *)
LEMMA DoneFacts ==
    ASSUME TypeOK, AllDone
    PROVE  /\ \A w \in Waves(shape) : \A t : HasStored(w, t) /\ HasWritten(w, t)
           /\ \A p \in Workers(shape) : \A t :
                /\ Arrived(p, t) <=> Shared(shape, p, t)
                /\ ~At(p, t) /\ ~Reducing(p, t)
<1>1. \A w \in Waves(shape) : pc[w] = "done"
  BY DEF AllDone
<1>2. \A p \in Workers(shape) : Lead(p) \in Waves(shape)
  BY LeadFacts DEF TypeOK
<1> QED BY <1>1, <1>2 DEF HasStored, HasWritten, StoredAt, WrittenAt, Past, Arrived,
             ArrivedAt, At, Reducing, Knows, Reducer

(* and when the next one starts, none has done anything. *)
LEMMA RelaunchFacts ==
    ASSUME Control, Relaunch
    PROVE  /\ shape' = shape /\ launch' = launch + 1
           /\ \A w \in Waves(shape) : pc'[w] = "tile"
           /\ \A w \in Waves(shape) : \A t \in Mine(shape, w[1]) :
                ~HasStored(w, t)' /\ ~HasWritten(w, t)'
           /\ \A p \in Workers(shape) : \A t :
                ~Arrived(p, t)' /\ ~At(p, t)' /\ ~Reducing(p, t)'
<1>0. shape \in Shapes /\ IsShape(shape)
  BY ShapesAccepted DEF Control, TypeOK
<1>1. shape' = shape /\ launch' = launch + 1
  BY DEF Relaunch
<1>2. ASSUME NEW w \in Waves(shape)
      PROVE  pc'[w] = "tile" /\ tile'[w] = EntryTile(shape, w[1])
  BY DEF Relaunch, KernelEntry
<1>3. ASSUME NEW p \in Workers(shape) PROVE Lead(p) \in Waves(shape) /\ Lead(p)[1] = p
  BY <1>0, LeadFacts
<1>4. ASSUME NEW w \in Waves(shape), NEW t \in Mine(shape, w[1])
      PROVE  ~(t < tile'[w])
  <2>1. EntryTile(shape, w[1]) <= t /\ EntryTile(shape, w[1]) \in Mine(shape, w[1])
    BY <1>0, WaveFacts, EntryFirst
  <2>2. EntryTile(shape, w[1]) \in Nat /\ t \in Nat
    BY <1>0, <2>1, WaveFacts, MineTiles
  <2> QED BY <1>2, <2>1, <2>2
<1>5. \A p \in Workers(shape) : \A t : ~At(p, t)' /\ ~Reducing(p, t)'
  BY <1>2, <1>3 DEF At, Reducing, Knows, Reducer
<1>6. \A w \in Waves(shape) : \A t \in Mine(shape, w[1]) :
                ~HasStored(w, t)' /\ ~HasWritten(w, t)'
  BY <1>2, <1>4 DEF HasStored, HasWritten, StoredAt, WrittenAt, Past
<1>7. ASSUME NEW p \in Workers(shape), NEW t
      PROVE  ~Arrived(p, t)'
  <2>1. Shared(shape, p, t) => ~(t < tile'[Lead(p)])
    BY <1>3, <1>4 DEF Shared
  <2> QED BY <1>1, <1>2, <1>3, <2>1 DEF Arrived, ArrivedAt, Past
<1> QED BY <1>1, <1>2, <1>5, <1>6, <1>7

LEMMA ProtocolPublish ==
    ASSUME Protocol, [Next]_vars, NEW w \in Waves(shape), Publish(w)
    PROVE  CountInv' /\ CounterInv'
<1> DEFINE p == w[1]
<1>k. PICK k : k = tile[w]
  OBVIOUS
<1>n. PICK n : n = Cardinality(Arrivals(k))
  OBVIOUS
<1>0. Control /\ CountInv /\ CounterInv /\ TypeOK
  BY DEF Protocol, Control
<1>1. /\ p \in Workers(shape) /\ w = Lead(p) /\ ~Relaunch
      /\ Shared(shape, p, k) /\ k \in Tiles(shape)
      /\ ~Arrived(p, k) /\ pc'[w] = "mail" /\ tile' = tile
      /\ Got(p)' = counter[k] + 1
      /\ \A q \in Workers(shape) : Publish(Lead(q)) => q = p
      /\ \A q \in Workers(shape) : ~Reset(Lead(q))
      /\ \A t \in Tiles(shape) : counter'[t] = IF t = k THEN counter[t] + 1 ELSE counter[t]
      /\ \A t : Arrivals(t)' = IF t = k THEN Arrivals(t) \union {p} ELSE Arrivals(t)
  BY <1>0, <1>k, PublishFacts
<1>2. shape' = shape
  BY Unchanging
<1>3. \A q \in Workers(shape) : \A t : q # p =>
        /\ At(q, t)' => At(q, t) /\ Got(q)' = Got(q)
        /\ Reducing(q, t)' <=> Reducing(q, t)
  BY <1>0, <1>1, <1>2, GotEffect
<1> HIDE DEF p
<1>4. IsFiniteSet(Arrivals(k)) /\ n \in Nat /\ p \notin Arrivals(k) /\ p \in Owners(shape, k)
  <2>1. p \in Owners(shape, k)
    BY <1>0, <1>1, ShapesAccepted, SharedOwners DEF TypeOK
  <2> QED BY <1>0, <1>1, <1>n, <2>1, ArrivalsFacts DEF Arrivals
<1>5. counter[k] = n
  <2>1. ~Complete(k)
    BY <1>4 DEF Complete
  <2> QED BY <1>0, <1>1, <1>n, <2>1 DEF CounterInv
<1>6. Cardinality(Arrivals(k))' = n + 1
  <2>1. Cardinality(Arrivals(k) \union {p}) = n + 1
    <3>1. Cardinality(Arrivals(k) \union {p}) =
             IF p \in Arrivals(k) THEN Cardinality(Arrivals(k)) ELSE Cardinality(Arrivals(k)) + 1
      BY <1>4, FS_AddElement, Zenon
    <3> QED BY <1>4, <1>n, <3>1
  <2>2. Arrivals(k)' = Arrivals(k) \union {p}
    BY <1>1
  <2> QED BY <2>1, <2>2
<1>7. At(p, k)' /\ \A t : At(p, t)' => t = k
  BY <1>1, <1>2, <1>k DEF At, Knows, p
<1>8. \A q \in Workers(shape) : q # p /\ At(q, k) => Got(q) \in 1..n
  BY <1>0, <1>1, <1>n DEF CountInv
<1>9. CountInv'
  <2> SUFFICES ASSUME NEW q \in Workers(shape), NEW t \in Tiles(shape), At(q, t)'
               PROVE  /\ Got(q)' \in 1..Cardinality(Arrivals(t))'
                      /\ \A r \in Workers(shape) : At(r, t)' /\ Got(r)' = Got(q)' => r = q
    BY <1>2 DEF CountInv
  <2>1. CASE t # k
    <3>1. Arrivals(t)' = Arrivals(t) /\ \A r \in Workers(shape) : At(r, t)' => r # p
      BY <1>1, <1>7, <2>1
    <3> QED BY <1>0, <1>3, <3>1 DEF CountInv
  <2>2. CASE t = k /\ q = p
    <3>1. Got(q)' \in 1..Cardinality(Arrivals(t))'
      BY <1>1, <1>4, <1>5, <1>6, <2>2
    <3>2. ASSUME NEW r \in Workers(shape), At(r, t)', Got(r)' = Got(q)', r # p
          PROVE  FALSE
      <4>1. Got(r) \in 1..n /\ Got(r)' = Got(r)
        BY <1>3, <1>8, <2>2, <3>2
      <4> QED BY <1>1, <1>4, <1>5, <2>2, <3>2, <4>1
    <3> QED BY <2>2, <3>1, <3>2
  <2>3. CASE t = k /\ q # p
    <3>1. At(q, t) /\ Got(q)' = Got(q) /\ Got(q) \in 1..n
      BY <1>3, <1>8, <2>3
    <3>2. ASSUME NEW r \in Workers(shape), At(r, t)', Got(r)' = Got(q)'
          PROVE  r = q
      <4>1. CASE r = p
        BY <1>1, <1>4, <1>5, <3>1, <3>2, <4>1
      <4>2. CASE r # p
        BY <1>0, <1>3, <3>1, <3>2, <4>2 DEF CountInv
      <4> QED BY <4>1, <4>2
    <3>3. Got(q)' \in 1..Cardinality(Arrivals(t))'
      BY <1>4, <1>6, <2>3, <3>1
    <3> QED BY <3>2, <3>3
  <2> QED BY <2>1, <2>2, <2>3
<1>10. CounterInv'
  <2> SUFFICES ASSUME NEW t \in Tiles(shape)
               PROVE  counter'[t] =
                        IF Complete(t)' /\ \A q \in Workers(shape) : ~Reducing(q, t)'
                          THEN 0 ELSE Cardinality(Arrivals(t))'
    BY <1>2 DEF CounterInv
  <2>1. CASE t # k
    <3>1. Arrivals(t)' = Arrivals(t) /\ counter'[t] = counter[t]
      BY <1>1, <2>1
    <3>2. Complete(t)' <=> Complete(t)
      BY <1>2, <3>1 DEF Complete
    <3>3. ~Reducing(p, t)'
      BY <1>7, <2>1 DEF Reducing
    <3>4. ~Reducing(p, t)
      <4>1. Reducing(p, t) => t = k
        BY <1>1, <1>k DEF Reducing, At, p
      <4> QED BY <2>1, <4>1
    <3>5. \A q \in Workers(shape) : Reducing(q, t)' <=> Reducing(q, t)
      BY <1>3, <3>3, <3>4
    <3> QED BY <1>0, <3>1, <3>2, <3>5 DEF CounterInv
  <2>2. CASE t = k
    <3>1. counter'[t] = Cardinality(Arrivals(t))'
      BY <1>1, <1>5, <1>6, <2>2
    <3>2. Complete(t)' => Reducing(p, t)'
      <4>1. Cardinality(Owners(shape, k)) = Parts(shape, k)
        BY <1>0, <1>1, ShapesAccepted, OwnersCount DEF TypeOK
      <4>2. Complete(k)' => n + 1 = Parts(shape, k)
        BY <1>2, <1>6, <4>1 DEF Complete
      <4> QED BY <1>1, <1>2, <1>5, <1>7, <2>2, <4>2 DEF Reducing, IsLast
    <3> QED BY <1>1, <2>2, <3>1, <3>2
  <2> QED BY <2>1, <2>2
<1> QED BY <1>9, <1>10

(* The last worker takes the arrivals back. *)
LEMMA ResetFacts ==
    ASSUME Control, CountInv, [Next]_vars, NEW w \in Waves(shape), Reset(w)
    PROVE  /\ w[1] \in Workers(shape) /\ w = Lead(w[1]) /\ ~Relaunch
           /\ tile[w] \in Tiles(shape)
           /\ Reducing(w[1], tile[w]) /\ Complete(tile[w])
           /\ \A t : ~Reducing(w[1], t)'
           /\ \A u \in Waves(shape) : ~Publish(u)
           /\ \A q \in Workers(shape) : Reset(Lead(q)) => q = w[1]
           /\ \A t \in Tiles(shape) :
                counter'[t] = IF t = tile[w] THEN counter[t] - Parts(shape, t) ELSE counter[t]
<1>1. /\ pc[w] = "reset" /\ tile' = tile /\ pc' = [pc EXCEPT ![w] = "resetdone"]
      /\ counter' = [counter EXCEPT ![tile[w]] = @ + (0 - Parts(shape, tile[w]))]
  BY DEF Reset, Goto, AtomicAdd, ResetValue
<1>2. /\ shape \in Shapes /\ pc \in [Waves(shape) -> Steps]
      /\ counter \in [Tiles(shape) -> Int] /\ IsShape(shape)
  BY ShapesAccepted DEF Control, TypeOK
<1>3. w[1] \in Workers(shape) /\ w = Lead(w[1])
  <2>1. IsLead(w)
    BY <1>1 DEF Control, WaveInv
  <2> QED BY <1>2, <2>1, WaveFacts, LeadFacts
<1>4. At(w[1], tile[w]) /\ IsLast(Got(w[1]), tile[w])
  BY <1>1, ReducerLead DEF Reducer
<1>5. tile[w] \in Tiles(shape)
  BY <1>3, <1>4, AtFacts
<1>6. Reducing(w[1], tile[w]) /\ Complete(tile[w])
  BY <1>1, <1>3, <1>4, LastComplete DEF Reducing
<1>7. pc'[w] = "resetdone" /\ \A u \in Waves(shape) : u # w => pc'[u] = pc[u]
  BY <1>1, <1>2
<1>8. ~Relaunch
  <2>1. Relaunch => pc'[w] = "tile"
    BY DEF Relaunch, KernelEntry
  <2> QED BY <1>7, <2>1
<1>9. \A t : ~Reducing(w[1], t)'
  BY <1>3, <1>7 DEF Reducing
<1>10. ASSUME NEW u \in Waves(shape), Publish(u) PROVE FALSE
  <2>1. pc[u] = "publish" /\ pc'[u] = "mail"
    BY <1>2, <1>10 DEF Publish, Goto
  <2> QED BY <1>1, <1>7, <2>1
<1>11. ASSUME NEW q \in Workers(shape), Reset(Lead(q)) PROVE q = w[1]
  <2>1. Lead(q) \in Waves(shape) /\ Lead(q)[1] = q
    BY <1>2, LeadFacts
  <2>2. pc[Lead(q)] = "reset" /\ pc'[Lead(q)] = "resetdone"
    BY <1>2, <1>11, <2>1 DEF Reset, Goto
  <2> QED BY <1>7, <2>1, <2>2
<1>12. ASSUME NEW t \in Tiles(shape)
       PROVE  counter'[t] = IF t = tile[w] THEN counter[t] - Parts(shape, t) ELSE counter[t]
  <2>1. Parts(shape, t) \in Nat /\ counter[t] \in Int
    BY <1>2, OwnersFacts
  <2> QED BY <1>1, <1>2, <2>1
<1> QED BY <1>3, <1>5, <1>6, <1>8, <1>9, <1>10, <1>11, <1>12

LEMMA ProtocolReset ==
    ASSUME Protocol, [Next]_vars, NEW w \in Waves(shape), Reset(w)
    PROVE  CountInv' /\ CounterInv'
<1> DEFINE p == w[1]
<1>k. PICK k : k = tile[w]
  OBVIOUS
<1>0. Control /\ CountInv /\ CounterInv /\ TypeOK /\ IsShape(shape)
  BY ShapesAccepted DEF Protocol, Control, TypeOK
<1>1. /\ p \in Workers(shape) /\ w = Lead(p) /\ ~Relaunch /\ k \in Tiles(shape)
      /\ Reducing(p, k) /\ Complete(k) /\ \A t : ~Reducing(p, t)'
      /\ \A u \in Waves(shape) : ~Publish(u)
      /\ \A q \in Workers(shape) : Reset(Lead(q)) => q = p
      /\ \A t \in Tiles(shape) :
            counter'[t] = IF t = k THEN counter[t] - Parts(shape, t) ELSE counter[t]
  BY <1>0, <1>k, ResetFacts
<1>2. shape' = shape
  BY Unchanging
<1>3. \A t : Arrivals(t)' = Arrivals(t) /\ (Complete(t)' <=> Complete(t))
  BY <1>0, <1>1, ArrivalsKept
<1>4. \A q \in Workers(shape) : ~Publish(Lead(q))
  BY <1>0, <1>1, LeadFacts DEF TypeOK
<1>5. \A q \in Workers(shape) : \A t :
        /\ At(q, t)' => At(q, t) /\ Got(q)' = Got(q)
        /\ q # p => (Reducing(q, t)' <=> Reducing(q, t))
  BY <1>0, <1>1, <1>2, <1>4, GotEffect
<1> HIDE DEF p
<1>6. CountInv'
  BY <1>0, <1>2, <1>3, <1>5 DEF CountInv
<1>7. CounterInv'
  <2> SUFFICES ASSUME NEW t \in Tiles(shape)
               PROVE  counter'[t] =
                        IF Complete(t)' /\ \A q \in Workers(shape) : ~Reducing(q, t)'
                          THEN 0 ELSE Cardinality(Arrivals(t))'
    BY <1>2 DEF CounterInv
  <2>1. CASE t # k
    <3>1. ~Reducing(p, t)
      BY <1>1, <1>k, <2>1 DEF Reducing, At, p
    <3>2. \A q \in Workers(shape) : Reducing(q, t)' <=> Reducing(q, t)
      BY <1>1, <1>5, <3>1
    <3> QED BY <1>0, <1>1, <1>3, <2>1, <3>2 DEF CounterInv
  <2>2. CASE t = k
    <3>1. \A q \in Workers(shape) : ~Reducing(q, t)'
      BY <1>0, <1>1, <1>5, <2>2, OneReducer
    <3>2. counter[t] = Cardinality(Arrivals(t))
      BY <1>0, <1>1, <2>2 DEF CounterInv
    <3>3. Cardinality(Arrivals(t)) = Parts(shape, t) /\ Parts(shape, t) \in Nat
      BY <1>0, <1>1, <2>2, OwnersCount, OwnersFacts DEF Complete
    <3> QED BY <1>1, <1>3, <2>2, <3>1, <3>2, <3>3
  <2> QED BY <2>1, <2>2
<1> QED BY <1>6, <1>7

(* Only the atomics of wave 0 change a counter. *)
LEMMA CounterKept ==
    ASSUME Control, [Next]_vars, NEW t \in Tiles(shape),
           \A w \in Waves(shape) : ~Publish(w) /\ ~Reset(w)
    PROVE  counter'[t] = counter[t]
<1>1. counter \in [Tiles(shape) -> Int]
  BY DEF Control, TypeOK
<1>2. ASSUME NEW w \in Waves(shape), Acquire(w) PROVE counter'[t] = counter[t]
  <2>1. counter' = [counter EXCEPT ![tile[w]] = @ + 0]
    BY <1>2 DEF Acquire, AtomicAdd
  <2> QED BY <1>1, <2>1
<1>3. counter' = counter \/ \E w \in Waves(shape) : Acquire(w)
  BY DEF Next, Wave, Workgroup, Finished, vars, LeaveTile, WholeTile, StorePartial, Mail,
         Elect, Reduce, StoreReduced, Barrier, TileBarrier, Relaunch
<1> QED BY <1>2, <1>3

LEMMA DoneCounters ==
    ASSUME Protocol, AllDone
    PROVE  /\ \A p \in Workers(shape), t \in Tiles(shape) : Shared(shape, p, t) => Complete(t)
           /\ \A t \in Tiles(shape) : counter[t] = 0
<1>0. Control /\ CountInv /\ CounterInv /\ TypeOK /\ IsShape(shape)
  BY ShapesAccepted DEF Protocol, Control, TypeOK
<1>1. \A p \in Workers(shape) : \A t :
        (Arrived(p, t) <=> Shared(shape, p, t)) /\ ~Reducing(p, t)
  BY <1>0, DoneFacts
<1>2. ASSUME NEW p \in Workers(shape), NEW t \in Tiles(shape), Shared(shape, p, t)
      PROVE  Complete(t)
  <2>1. \A q \in Workers(shape) : Arrived(q, t) <=> q \in Owners(shape, t)
    BY <1>0, <1>1, <1>2, SharedOwners
  <2>2. Owners(shape, t) \subseteq Workers(shape)
    BY <1>0, OwnersFacts
  <2> QED BY <2>1, <2>2 DEF Arrivals, Complete
<1>3. ASSUME NEW t \in Tiles(shape) PROVE counter[t] = 0
  <2>1. CASE \E p \in Workers(shape) : Shared(shape, p, t)
    BY <1>0, <1>1, <1>2, <2>1 DEF CounterInv
  <2>2. CASE ~\E p \in Workers(shape) : Shared(shape, p, t)
    <3>1. Cardinality(Arrivals(t)) = 0 /\ ~Complete(t)
      BY <1>0, <1>1, <2>2, NoArrivals
    <3> QED BY <1>0, <3>1 DEF CounterInv
  <2> QED BY <2>1, <2>2
<1> QED BY <1>2, <1>3

LEMMA ProtocolRelaunch ==
    ASSUME Protocol, [Next]_vars, Relaunch
    PROVE  CountInv' /\ CounterInv'
<1>0. Control /\ AllDone /\ counter' = counter
  BY DEF Protocol, Relaunch
<1>1. /\ shape' = shape
      /\ \A p \in Workers(shape) : \A t :
                ~Arrived(p, t)' /\ ~At(p, t)' /\ ~Reducing(p, t)'
  BY <1>0, RelaunchFacts
<1>2. CountInv'
  BY <1>1 DEF CountInv
<1>3. \A t \in Tiles(shape) : counter'[t] = 0
  BY <1>0, DoneCounters
<1>4. ASSUME NEW t \in Tiles(shape)
      PROVE  Cardinality(Arrivals(t))' = 0
  <2>1. Arrivals(t)' = {}
    BY <1>1 DEF Arrivals
  <2>2. Cardinality({}) = 0
    BY FS_EmptySet
  <2> QED BY <2>1, <2>2
<1>5. CounterInv'
  BY <1>1, <1>3, <1>4 DEF CounterInv
<1> QED BY <1>2, <1>5

LEMMA ProtocolStep ==
    ASSUME Protocol, [Next]_vars
    PROVE  Protocol'
<1>0. Control /\ CountInv /\ CounterInv
  BY DEF Protocol
<1>1. Control'
  BY <1>0, ControlStep
<1> SUFFICES CountInv' /\ CounterInv'
  BY <1>1 DEF Protocol
<1>2. CASE Relaunch
  BY <1>2, ProtocolRelaunch
<1>3. CASE \E w \in Waves(shape) : Publish(w)
  BY <1>3, ProtocolPublish
<1>4. CASE \E w \in Waves(shape) : Reset(w)
  BY <1>4, ProtocolReset
<1>5. CASE ~Relaunch /\ \A w \in Waves(shape) : ~Publish(w) /\ ~Reset(w)
  <2>1. shape' = shape
    BY Unchanging
  <2>2. \A t : Arrivals(t)' = Arrivals(t) /\ (Complete(t)' <=> Complete(t))
    BY <1>0, <1>5, ArrivalsKept
  <2>3. \A p \in Workers(shape) : ~Publish(Lead(p)) /\ ~Reset(Lead(p))
    BY <1>0, <1>5, LeadFacts DEF Control, TypeOK
  <2>4. \A q \in Workers(shape) : \A t :
          /\ At(q, t)' => At(q, t) /\ Got(q)' = Got(q)
          /\ Reducing(q, t)' <=> Reducing(q, t)
    BY <1>0, <1>5, <2>1, <2>3, GotEffect
  <2>5. \A t \in Tiles(shape) : counter'[t] = counter[t]
    BY <1>0, <1>5, CounterKept
  <2>6. CountInv'
    BY <1>0, <2>1, <2>2, <2>4 DEF CountInv
  <2>7. CounterInv'
    BY <1>0, <2>1, <2>2, <2>4, <2>5 DEF CounterInv
  <2> QED BY <2>6, <2>7
<1> QED BY <1>2, <1>3, <1>4, <1>5

LEMMA ProtocolInit ==
    ASSUME Init
    PROVE  Protocol
<1>0. Control /\ TypeOK /\ shape \in Shapes /\ IsShape(shape)
  BY ControlInit, ShapesAccepted DEF Control, Init
<1>1. ASSUME NEW p \in Workers(shape)
      PROVE  /\ Lead(p) \in Waves(shape) /\ Lead(p)[1] = p
             /\ pc[Lead(p)] = "tile" /\ tile[Lead(p)] = EntryTile(shape, p)
  BY <1>0, LeadFacts DEF Init
<1>2. \A p \in Workers(shape) : \A t : ~At(p, t)
  BY <1>1 DEF At, Knows, Reducer
<1>3. ASSUME NEW p \in Workers(shape), NEW t, Arrived(p, t) PROVE FALSE
  <2>1. t \in Mine(shape, p) /\ t < EntryTile(shape, p)
    BY <1>1, <1>3 DEF Arrived, ArrivedAt, Past, Shared
  <2>2. /\ EntryTile(shape, p) \in Mine(shape, p) /\ EntryTile(shape, p) <= t
        /\ Mine(shape, p) \subseteq Nat
    BY <1>0, <2>1, EntryFirst, MineTiles
  <2> QED BY <2>1, <2>2
<1>4. CountInv
  BY <1>2 DEF CountInv
<1>5. CounterInv
  <2>1. \A t \in Tiles(shape) : Cardinality(Arrivals(t)) = 0 /\ counter[t] = 0
    BY <1>0, <1>3, NoArrivals DEF Init
  <2> QED BY <2>1 DEF CounterInv
<1> QED BY <1>0, <1>4, <1>5 DEF Protocol

(* The counters are all zero again when a launch ends: "Last reducers reset  *)
(* their counters", and no arrival is left over, whatever the order in which *)
(* the workers arrive (_publish_streamk_partial, _finish_streamk_reduction,  *)
(* checkStreamKCounters).                                                    *)
THEOREM CountersAreReset == Spec => []CountersReset
<1>1. Init => Protocol
  BY ProtocolInit
<1>2. Protocol /\ [Next]_vars => Protocol'
  BY ProtocolStep
<1>3. Protocol => CountersReset
  BY DoneCounters DEF CountersReset
<1> QED BY <1>1, <1>2, <1>3, PTL DEF Spec

-----------------------------------------------------------------------------
(* The partial sums.                                                         *)
(*                                                                           *)
(* The fragment of a shared tile holds the part of this launch from the time *)
(* it is stored; an arrival releases the fragments of the whole workgroup;   *)
(* and the waves of the last worker have acquired those of all the owners,   *)
(* and read them in order.                                                   *)
Part(p, t) == [launch |-> launch, by |-> p, tile |-> t,
               from |-> KBegin(shape, p, t), to |-> KEnd(shape, p, t)]
Fragment(w, t) == <<w[1], StoreSlot(shape, w[1], t), w[2]>>

ScratchInv ==
    \A w \in Waves(shape) : \A t \in Tiles(shape) : Shared(shape, w[1], t) =>
        IF HasStored(w, t) THEN scratch[Fragment(w, t)] = Part(w[1], t)
        ELSE scratch[Fragment(w, t)].launch < launch

ReleasedInv ==
    \A w \in Waves(shape) : \A t \in Tiles(shape) :
        Arrived(w[1], t) => Fragment(w, t) \in released[t]

FreshInv ==
    \A w \in Waves(shape) : pc[w] = "reduce" =>
        \A p \in Owners(shape, tile[w]) : Fragment(<<p, w[2]>>, tile[w]) \in fresh[w]

AccInv ==
    \A w \in Waves(shape) : pc[w] = "reduce" =>
        /\ Len(acc[w]) <= Parts(shape, tile[w])
        /\ \A i \in 1..Len(acc[w]) :
              acc[w][i] = Part(FirstOwner(shape, tile[w]) + i - 1, tile[w])

Handover == Protocol /\ ScratchInv /\ ReleasedInv /\ FreshInv /\ AccInv

LEMMA FragmentFacts ==
    ASSUME shape \in Shapes, NEW w \in Waves(shape), NEW t
    PROVE  /\ Fragment(w, t) \in Fragments(shape)
           /\ \A u \in Waves(shape) : \A x :
                /\ Shared(shape, w[1], t) /\ Shared(shape, u[1], x)
                /\ Fragment(w, t) = Fragment(u, x)
                => u = w /\ x = t
<1>1. IsShape(shape) /\ w[1] \in Workers(shape) /\ w[2] \in WaveIds /\ w = <<w[1], w[2]>>
  BY ShapesAccepted, WaveFacts
<1>2. StoreSlot(shape, w[1], t) \in Slots
  BY DEF StoreSlot, Slots
<1>3. ASSUME NEW u \in Waves(shape), NEW x, Shared(shape, w[1], t), Shared(shape, u[1], x),
             Fragment(w, t) = Fragment(u, x)
      PROVE  u = w /\ x = t
  <2>1. u = <<u[1], u[2]>>
    BY WaveFacts
  <2>2. w[1] = u[1] /\ w[2] = u[2] /\ StoreSlot(shape, w[1], t) = StoreSlot(shape, u[1], x)
    BY <1>3 DEF Fragment
  <2>3. u = w
    BY <1>1, <2>1, <2>2
  <2>4. x = t
    BY <1>1, <1>3, <2>2, SharedSlots
  <2> QED BY <2>3, <2>4
<1> QED BY <1>1, <1>2, <1>3 DEF Fragment, Fragments

(* A worker arrives after all its waves have stored. *)
LEMMA ArrivedStored ==
    ASSUME Control, NEW w \in Waves(shape), NEW t, Arrived(w[1], t)
    PROVE  HasStored(w, t)
<1> DEFINE u == Lead(w[1])
           p == w[1]
<1>1. /\ p \in Workers(shape) /\ u \in Waves(shape) /\ u[1] = p /\ IsShape(shape)
      /\ pc[w] \in Steps /\ pc[u] \in Steps
  BY LeadFacts, WaveFacts, ShapesAccepted DEF Control, TypeOK
<1>2. /\ tile[u] \in Mine(shape, p) /\ tile[w] \in Mine(shape, p)
      /\ t \in Mine(shape, p) /\ ~IsWholeTile(shape, p, t)
      /\ pc[u] = "written" => IsWholeTile(shape, p, tile[u])
      /\ ArrivedAt(tile[u], pc[u], t)
  BY <1>1 DEF Control, WaveInv, Arrived, Shared
<1>3. t \in Nat /\ tile[u] \in Nat /\ tile[w] \in Nat /\ TileStep(shape) \in Nat \ {0}
  BY <1>1, <1>2, NextTile
<1>4. Level(u, w) \/ Ahead(u, w) \/ Ahead(w, u)
  <2>1. ~Pipelined(shape)
    BY <1>2 DEF Pipelined, IsWholeTile
  <2> QED BY <1>1, <2>1 DEF Control, SyncInv
<1>5. /\ HasNext(shape, p, tile[w]) => (t < tile[w] + TileStep(shape) <=> t <= tile[w])
      /\ ~HasNext(shape, p, tile[w]) => t <= tile[w]
  BY <1>1, <1>2, NextTile
<1> HIDE DEF u, p
<1>6. CASE Level(u, w)
  <2>1. tile[u] = tile[w] /\ Phase(pc[u]) = Phase(pc[w])
    BY <1>6 DEF Level
  <2>2. pc[u] = "done" => pc[w] = "done"
    BY <1>1, <2>1 DEF Phase, Steps
  <2>3. t = tile[u] /\ pc[u] \notin {"tile", "stored", "publish"} => pc[w] # "tile"
    BY <1>1, <1>2, <2>1 DEF Phase, Steps
  <2> QED BY <1>2, <2>1, <2>2, <2>3 DEF ArrivedAt, HasStored, StoredAt, Past
<1>7. CASE Ahead(u, w)
  <2>1. pc[w] = "elect"
    BY <1>7 DEF Ahead
  <2>2. CASE HasNext(shape, p, tile[w])
    <3>1. tile[u] = tile[w] + TileStep(shape) /\ Phase(pc[u]) = "compute"
      BY <1>7, <2>2 DEF Ahead, p
    <3>2. pc[u] \in {"tile", "stored", "written"}
      BY <3>1 DEF Phase
    <3>3. t < tile[u]
      BY <1>2, <3>2 DEF ArrivedAt, Past
    <3>4. t <= tile[w]
      BY <1>5, <2>2, <3>1, <3>3
    <3> QED BY <1>3, <2>1, <3>4 DEF HasStored, StoredAt, Past
  <2>3. CASE ~HasNext(shape, p, tile[w])
    BY <1>3, <1>5, <2>1, <2>3 DEF HasStored, StoredAt, Past
  <2> QED BY <2>2, <2>3
<1>8. CASE Ahead(w, u)
  <2>1. /\ pc[u] = "elect"
        /\ pc[w] = "done" \/ tile[w] = tile[u] + TileStep(shape)
    BY <1>8 DEF Ahead
  <2>2. t <= tile[u]
    BY <1>2, <1>3, <2>1 DEF ArrivedAt, Past
  <2> QED BY <1>3, <2>1, <2>2 DEF HasStored, StoredAt, Past
<1> QED BY <1>4, <1>6, <1>7, <1>8

(* The owners of a tile that is being reduced have all arrived. *)
LEMMA ReducerComplete ==
    ASSUME Control, CountInv, NEW w \in Waves(shape), pc[w] \in Reducer
    PROVE  /\ tile[w] \in Tiles(shape) /\ Complete(tile[w])
           /\ Shared(shape, w[1], tile[w])
           /\ \A p \in Owners(shape, tile[w]) :
                /\ p \in Workers(shape) /\ Arrived(p, tile[w])
                /\ Shared(shape, p, tile[w])
                /\ <<p, w[2]>> \in Waves(shape)
<1>1. w[1] \in Workers(shape) /\ At(w[1], tile[w]) /\ IsLast(Got(w[1]), tile[w])
  BY ReducerLead
<1>2. tile[w] \in Tiles(shape) /\ Shared(shape, w[1], tile[w])
  BY <1>1, AtFacts
<1>3. Complete(tile[w])
  BY <1>1, LastComplete
<1>4. ASSUME NEW p \in Owners(shape, tile[w])
      PROVE  /\ p \in Workers(shape) /\ Arrived(p, tile[w])
             /\ Shared(shape, p, tile[w])
  BY <1>3 DEF Complete, Arrivals, Arrived
<1>5. w[2] \in WaveIds /\ shape \in Shapes
  BY WaveFacts DEF Control, TypeOK
<1> QED BY <1>2, <1>3, <1>4, <1>5, WaveFacts

(* Storing a partial sum touches one fragment, *)
LEMMA StorePartialFacts ==
    ASSUME Control, NEW w \in Waves(shape), StorePartial(w)
    PROVE  /\ pc[w] = "tile" /\ pc'[w] = "stored" /\ tile[w] \in Tiles(shape)
           /\ Shared(shape, w[1], tile[w]) /\ ~HasStored(w, tile[w])
           /\ shape' = shape /\ launch' = launch /\ tile' = tile /\ acc' = acc
           /\ ~Relaunch /\ \A u \in Waves(shape) : ~Publish(u)
           /\ \A u \in Waves(shape) : StorePartial(u) => u = w
           /\ \A u \in Waves(shape) : u # w => pc'[u] = pc[u]
           /\ scratch' = [scratch EXCEPT ![Fragment(w, tile[w])] = Part(w[1], tile[w])]
           /\ \A t \in Tiles(shape) : released'[t] = released[t] \ {Fragment(w, tile[w])}
           /\ \A u \in Waves(shape) : u # w => fresh'[u] = fresh[u] \ {Fragment(w, tile[w])}
<1>0. /\ pc \in [Waves(shape) -> Steps] /\ tile \in [Waves(shape) -> Nat]
      /\ shape \in Shapes /\ w[1] \in Workers(shape)
  BY WaveFacts DEF Control, TypeOK
<1>1. /\ pc[w] = "tile" /\ pc' = [pc EXCEPT ![w] = "stored"]
      /\ shape' = shape /\ launch' = launch /\ tile' = tile /\ acc' = acc
  BY DEF StorePartial, Goto
<1>2. pc'[w] = "stored" /\ \A u \in Waves(shape) : u # w => pc'[u] = pc[u]
  BY <1>0, <1>1
<1>3. Shared(shape, w[1], tile[w])
  BY DEF StorePartial, Shared, Control, WaveInv
<1>4. tile[w] \in Tiles(shape)
  BY <1>0, <1>3, ShapesAccepted, SharedOwners
<1>5. ~HasStored(w, tile[w])
  BY <1>0, <1>1 DEF HasStored, StoredAt, Past
<1>6. Relaunch => pc'[w] = "tile"
  BY DEF Relaunch, KernelEntry
<1>7. ASSUME NEW u \in Waves(shape), Publish(u) \/ StorePartial(u)
      PROVE  u = w /\ ~Publish(u)
  <2>1. /\ Publish(u) => pc[u] = "publish" /\ pc'[u] = "mail"
        /\ StorePartial(u) => pc[u] = "tile" /\ pc'[u] = "stored"
    BY <1>0 DEF Publish, StorePartial, Goto
  <2> QED BY <1>1, <1>2, <1>7, <2>1
<1>8. scratch' = [scratch EXCEPT ![Fragment(w, tile[w])] = Part(w[1], tile[w])]
  BY DEF StorePartial, Fragment, Part, Computed
<1>9. /\ \A t \in Tiles(shape) : released'[t] = released[t] \ {Fragment(w, tile[w])}
      /\ \A u \in Waves(shape) : u # w => fresh'[u] = fresh[u] \ {Fragment(w, tile[w])}
  BY DEF StorePartial, Fragment
<1> QED BY <1>1, <1>2, <1>3, <1>4, <1>5, <1>6, <1>7, <1>8, <1>9

(* and no other step takes anything back. *)
LEMMA MemoryKept ==
    ASSUME Control, [Next]_vars, ~Relaunch, \A w \in Waves(shape) : ~StorePartial(w)
    PROVE  /\ scratch' = scratch
           /\ \A t \in Tiles(shape) : released[t] \subseteq released'[t]
           /\ \A w \in Waves(shape) : fresh[w] \subseteq fresh'[w]
<1>0. /\ released \in [Tiles(shape) -> SUBSET Fragments(shape)]
      /\ fresh \in [Waves(shape) -> SUBSET Fragments(shape)]
  BY DEF Control, TypeOK
<1>1. ASSUME NEW w \in Waves(shape), NEW value, AtomicAdd(w, value)
      PROVE  /\ \A t \in Tiles(shape) : released[t] \subseteq released'[t]
             /\ \A u \in Waves(shape) : fresh[u] \subseteq fresh'[u]
  BY <1>0, <1>1 DEF AtomicAdd
<1>2. \/ UNCHANGED <<released, fresh>>
      \/ \E w \in Waves(shape) : \E value : AtomicAdd(w, value)
  BY DEF Next, Wave, Workgroup, Finished, vars, LeaveTile, WholeTile, Mail, Publish, Acquire, Reset,
         Elect, Reduce, StoreReduced, Barrier, TileBarrier
<1>3. scratch' = scratch
  BY DEF Next, Wave, Workgroup, Finished, vars, LeaveTile, WholeTile, Mail, Publish, Acquire, Reset,
         Elect, Reduce, StoreReduced, Barrier, TileBarrier
<1> QED BY <1>1, <1>2, <1>3

LEMMA ScratchStep ==
    ASSUME Handover, [Next]_vars
    PROVE  ScratchInv'
<1>0. Control /\ ScratchInv /\ shape \in Shapes /\ IsShape(shape) /\ launch \in Nat
      /\ scratch \in [Fragments(shape) -> Partial]
  BY ShapesAccepted DEF Handover, Protocol, Control, TypeOK
<1>1. shape' = shape /\ (~Relaunch => launch' = launch)
  BY Unchanging
<1> SUFFICES ASSUME NEW w \in Waves(shape), NEW t \in Tiles(shape), Shared(shape, w[1], t)
             PROVE  IF HasStored(w, t)' THEN scratch'[Fragment(w, t)] = Part(w[1], t)'
                    ELSE scratch'[Fragment(w, t)].launch < launch'
  BY <1>1 DEF ScratchInv, Fragment
<1>2. IF HasStored(w, t) THEN scratch[Fragment(w, t)] = Part(w[1], t)
      ELSE scratch[Fragment(w, t)].launch < launch
  BY <1>0 DEF ScratchInv
<1>3. ~Relaunch => Part(w[1], t)' = Part(w[1], t)
  BY <1>1 DEF Part
<1>4. CASE Relaunch
  <2>1. HasStored(w, t) /\ ~HasStored(w, t)' /\ launch' = launch + 1 /\ scratch' = scratch
    <3>1. AllDone /\ scratch' = scratch /\ TypeOK /\ t \in Mine(shape, w[1])
      BY <1>0, <1>4 DEF Relaunch, Control, Shared
    <3> QED BY <1>0, <1>4, <3>1, DoneFacts, RelaunchFacts
  <2>2. scratch[Fragment(w, t)].launch = launch
    BY <1>2, <2>1 DEF Part
  <2> QED BY <1>0, <2>1, <2>2
<1>5. ASSUME NEW u \in Waves(shape), StorePartial(u)
      PROVE  IF HasStored(w, t)' THEN scratch'[Fragment(w, t)] = Part(w[1], t)'
             ELSE scratch'[Fragment(w, t)].launch < launch'
  <2>1. /\ Shared(shape, u[1], tile[u]) /\ ~Relaunch
        /\ \A x \in Waves(shape) : StorePartial(x) => x = u
        /\ scratch' = [scratch EXCEPT ![Fragment(u, tile[u])] = Part(u[1], tile[u])]
    BY <1>0, <1>5, StorePartialFacts
  <2>2. Fragment(w, t) \in Fragments(shape) /\ Fragment(u, tile[u]) \in Fragments(shape)
    BY <1>0, FragmentFacts
  <2>3. HasStored(w, t)' <=> HasStored(w, t) \/ (StorePartial(w) /\ t = tile[w])
    BY <1>0, <2>1, StoredEffect
  <2>4. CASE w = u /\ t = tile[u]
    BY <1>0, <1>3, <1>5, <2>1, <2>2, <2>3, <2>4
  <2>5. CASE ~(w = u /\ t = tile[u])
    <3>1. Fragment(w, t) # Fragment(u, tile[u])
      BY <1>0, <2>1, <2>5, FragmentFacts
    <3>2. scratch'[Fragment(w, t)] = scratch[Fragment(w, t)]
      BY <1>0, <2>1, <2>2, <3>1
    <3>3. HasStored(w, t)' <=> HasStored(w, t)
      BY <2>1, <2>3, <2>5
    <3> QED BY <1>1, <1>2, <1>3, <2>1, <3>2, <3>3
  <2> QED BY <2>4, <2>5
<1>6. CASE ~Relaunch /\ \A u \in Waves(shape) : ~StorePartial(u)
  <2>1. scratch' = scratch
    BY <1>0, <1>6, MemoryKept
  <2>2. HasStored(w, t)' <=> HasStored(w, t)
    BY <1>0, <1>6, StoredEffect
  <2> QED BY <1>1, <1>2, <1>3, <1>6, <2>1, <2>2
<1> QED BY <1>4, <1>5, <1>6

LEMMA ReleasedStep ==
    ASSUME Handover, [Next]_vars
    PROVE  ReleasedInv'
<1>0. Control /\ ReleasedInv /\ shape \in Shapes
  BY DEF Handover, Protocol, Control, TypeOK
<1>1. shape' = shape
  BY Unchanging
<1> SUFFICES ASSUME NEW w \in Waves(shape), NEW t \in Tiles(shape), Arrived(w[1], t)'
             PROVE  Fragment(w, t) \in released'[t]
  BY <1>1 DEF ReleasedInv, Fragment
<1>2. w[1] \in Workers(shape)
  BY <1>0, WaveFacts
<1>3. ~Relaunch
  BY <1>0, <1>2, RelaunchFacts
<1>4. Arrived(w[1], t) \/ (Publish(Lead(w[1])) /\ t = tile[Lead(w[1])])
  BY <1>0, <1>1, <1>2, <1>3, ArrivedEffect
<1>5. CASE Arrived(w[1], t)
  <2>1. Fragment(w, t) \in released[t] /\ HasStored(w, t)
    BY <1>0, <1>5, ArrivedStored DEF ReleasedInv
  <2>2. ASSUME NEW u \in Waves(shape), StorePartial(u) PROVE Fragment(w, t) \in released'[t]
    <3>1. /\ Shared(shape, u[1], tile[u]) /\ ~HasStored(u, tile[u])
          /\ released'[t] = released[t] \ {Fragment(u, tile[u])}
      BY <1>0, <2>2, StorePartialFacts
    <3>2. Shared(shape, w[1], t)
      BY <1>5 DEF Arrived
    <3>3. Fragment(w, t) # Fragment(u, tile[u])
      <4>1. Fragment(w, t) = Fragment(u, tile[u]) => u = w /\ tile[u] = t
        BY <1>0, <3>1, <3>2, FragmentFacts
      <4> QED BY <2>1, <3>1, <4>1
    <3> QED BY <2>1, <3>1, <3>3
  <2>3. CASE \A u \in Waves(shape) : ~StorePartial(u)
    BY <1>0, <1>3, <2>1, <2>3, MemoryKept
  <2> QED BY <2>2, <2>3
<1>6. CASE Publish(Lead(w[1])) /\ t = tile[Lead(w[1])]
  <2> DEFINE u == Lead(w[1])
  <2>1. u \in Waves(shape) /\ u[1] = w[1]
    BY <1>0, <1>2, LeadFacts
  <2>2. Fragment(w, t) \in Publishes(u)
    <3>1. Fragment(w, t) \in Fragments(shape) /\ Fragment(w, t)[1] = u[1]
      BY <1>0, <2>1, FragmentFacts DEF Fragment
    <3> QED BY <3>1 DEF Publishes
  <2>3. released' = [released EXCEPT ![tile[u]] = @ \union Publishes(u)]
    BY <1>6 DEF Publish, AtomicAdd
  <2>4. released \in [Tiles(shape) -> SUBSET Fragments(shape)]
    BY <1>0 DEF Control, TypeOK
  <2> QED BY <1>6, <2>2, <2>3, <2>4
<1> QED BY <1>4, <1>5, <1>6

(* A wave starts to add up by acquiring, and adds up what it has loaded. *)
LEMMA ReduceFacts ==
    ASSUME Control, [Next]_vars, NEW w \in Waves(shape), pc'[w] = "reduce"
    PROVE  /\ ~Relaunch /\ shape' = shape /\ launch' = launch /\ tile'[w] = tile[w]
           /\ \/ Acquire(w) /\ pc[w] = "acquire" /\ acc'[w] = <<>>
              \/ pc[w] = "reduce" /\ (Reduce(w) \/ acc'[w] = acc[w])
<1>0. /\ pc \in [Waves(shape) -> Steps] /\ tile \in [Waves(shape) -> Nat]
      /\ acc \in [Waves(shape) -> Seq(Partial)]
  BY DEF Control, TypeOK
<1>1. ~Relaunch
  <2>1. Relaunch => pc'[w] = "tile"
    BY DEF Relaunch, KernelEntry
  <2> QED BY <2>1
<1>2. shape' = shape /\ launch' = launch
  BY <1>1, Unchanging
<1> DEFINE Goal == /\ tile'[w] = tile[w]
                   /\ \/ Acquire(w) /\ pc[w] = "acquire" /\ acc'[w] = <<>>
                      \/ pc[w] = "reduce" /\ (Reduce(w) \/ acc'[w] = acc[w])
<1>3. ASSUME NEW u \in Waves(shape), Wave(u) PROVE Goal
  <2>1. CASE Acquire(u)
    <3>1. /\ pc[u] = "acquire" /\ tile' = tile /\ pc' = [pc EXCEPT ![u] = "reduce"]
          /\ acc' = [acc EXCEPT ![u] = <<>>]
      BY <2>1 DEF Acquire, Goto
    <3> QED BY <1>0, <2>1, <3>1
  <2>2. CASE Reduce(u)
    <3>1. pc' = pc /\ tile' = tile /\ \E x : acc' = [acc EXCEPT ![u] = x]
      BY <2>2 DEF Reduce
    <3> QED BY <1>0, <2>2, <3>1
  <2>3. CASE StoreReduced(u)
    <3>1. /\ tile' = tile /\ pc' = [pc EXCEPT ![u] = "reduced"]
          /\ acc' = [acc EXCEPT ![u] = <<>>]
      BY <2>3 DEF StoreReduced, Goto
    <3>2. u # w /\ pc'[w] = pc[w]
      BY <1>0, <3>1
    <3> QED BY <1>0, <3>1, <3>2
  <2>4. CASE WholeTile(u) \/ StorePartial(u) \/ Publish(u) \/ Mail(u) \/ Reset(u)
    <3>1. /\ tile' = tile /\ acc' = acc
          /\ \E step \in Steps \ {"reduce"} : pc' = [pc EXCEPT ![u] = step]
      BY <2>4 DEF WholeTile, StorePartial, Publish, Mail, Reset, Goto, Steps
    <3> QED BY <1>0, <3>1
  <2>5. CASE Elect(u)
    <3>1. acc' = acc
      BY <2>5 DEF Elect
    <3>2. u # w /\ tile'[w] = tile[w] /\ pc'[w] = pc[w]
      <4>1. CASE IsLast(ArrivalCount(u), tile[u])
        <5>1. pc' = [pc EXCEPT ![u] = "acquire"] /\ tile' = tile
          BY <2>5, <4>1 DEF Elect, Goto
        <5> QED BY <1>0, <5>1
      <4>2. CASE ~IsLast(ArrivalCount(u), tile[u])
        <5>1. Advance({u})
          BY <2>5, <4>2 DEF Elect
        <5> QED BY <5>1 DEF Advance
      <4> QED BY <4>1, <4>2
    <3> QED BY <3>1, <3>2
  <2>6. CASE LeaveTile(u)
    BY <2>6 DEF LeaveTile, Advance
  <2> QED BY <1>3, <2>1, <2>2, <2>3, <2>4, <2>5, <2>6 DEF Wave
<1>4. ASSUME NEW p \in Workers(shape), Workgroup(p) PROVE Goal
  <2>1. ASSUME NEW step \in {"stored", "mailed", "reduced"}, Barrier(p, step) PROVE Goal
    <3>1. tile' = tile /\ acc' = acc
      BY <2>1 DEF Barrier
    <3>2. pc'[w] = pc[w]
      <4>1. pc'[w] = IF w[1] = p THEN AfterBarrier(step, w) ELSE pc[w]
        BY <2>1 DEF Barrier
      <4>2. AfterBarrier(step, w) # "reduce"
        BY DEF AfterBarrier
      <4> QED BY <4>1, <4>2
    <3> QED BY <3>1, <3>2
  <2>2. ASSUME NEW step \in {"written", "resetdone"}, TileBarrier(p, step) PROVE Goal
    BY <2>2 DEF TileBarrier, Advance
  <2> QED BY <1>4, <2>1, <2>2 DEF Workgroup
<1>5. ASSUME UNCHANGED vars PROVE Goal
  BY <1>5 DEF vars
<1>6. Goal
  BY <1>1, <1>3, <1>4, <1>5 DEF Next, Finished
<1> QED BY <1>1, <1>2, <1>6

LEMMA FreshStep ==
    ASSUME Handover, [Next]_vars
    PROVE  FreshInv'
<1>0. /\ Control /\ CountInv /\ FreshInv /\ ReleasedInv /\ shape \in Shapes
      /\ fresh \in [Waves(shape) -> SUBSET Fragments(shape)]
  BY DEF Handover, Protocol, Control, TypeOK
<1>1. shape' = shape
  BY Unchanging
<1> SUFFICES ASSUME NEW w \in Waves(shape), pc'[w] = "reduce", NEW t, t = tile[w],
                    NEW p \in Owners(shape, t)
             PROVE  Fragment(<<p, w[2]>>, t) \in fresh'[w]
  <2>1. \A w \in Waves(shape) : pc'[w] = "reduce" => tile'[w] = tile[w]
    BY <1>0, ReduceFacts
  <2> QED BY <1>1, <2>1 DEF FreshInv, Fragment
<1>2. /\ ~Relaunch
      /\ (Acquire(w) /\ pc[w] = "acquire") \/ pc[w] = "reduce"
  BY <1>0, ReduceFacts
<1>3. /\ t \in Tiles(shape) /\ p \in Workers(shape) /\ Arrived(p, t) /\ Shared(shape, p, t)
      /\ <<p, w[2]>> \in Waves(shape) /\ <<p, w[2]>>[1] = p
  <2>1. pc[w] \in Reducer
    BY <1>2 DEF Reducer
  <2> QED BY <1>0, <2>1, ReducerComplete
<1>4. CASE Acquire(w)
  <2>1. fresh' = [fresh EXCEPT ![w] = @ \union released[t]]
    BY <1>4 DEF Acquire, AtomicAdd
  <2>2. Fragment(<<p, w[2]>>, t) \in released[t]
    BY <1>0, <1>3 DEF ReleasedInv
  <2> QED BY <1>0, <2>1, <2>2
<1>5. CASE pc[w] = "reduce"
  <2>1. Fragment(<<p, w[2]>>, t) \in fresh[w]
    BY <1>0, <1>5 DEF FreshInv
  <2>2. ASSUME NEW u \in Waves(shape), StorePartial(u)
        PROVE  Fragment(<<p, w[2]>>, t) \in fresh'[w]
    <3>1. /\ Shared(shape, u[1], tile[u]) /\ ~HasStored(u, tile[u]) /\ pc[u] = "tile"
          /\ w # u => fresh'[w] = fresh[w] \ {Fragment(u, tile[u])}
      BY <1>0, <2>2, StorePartialFacts
    <3>2. Fragment(<<p, w[2]>>, t) # Fragment(u, tile[u])
      <4>1. HasStored(<<p, w[2]>>, t)
        BY <1>0, <1>3, ArrivedStored
      <4>2. Fragment(<<p, w[2]>>, t) = Fragment(u, tile[u]) => u = <<p, w[2]>> /\ tile[u] = t
        BY <1>0, <1>3, <3>1, FragmentFacts
      <4> QED BY <3>1, <4>1, <4>2
    <3> QED BY <1>5, <2>1, <3>1, <3>2
  <2>3. CASE \A u \in Waves(shape) : ~StorePartial(u)
    BY <1>0, <1>2, <2>1, <2>3, MemoryKept
  <2> QED BY <2>2, <2>3
<1> QED BY <1>2, <1>4, <1>5

LEMMA AccStep ==
    ASSUME Handover, [Next]_vars
    PROVE  AccInv'
<1>0. /\ Control /\ CountInv /\ FreshInv /\ ScratchInv /\ AccInv /\ shape \in Shapes
      /\ acc \in [Waves(shape) -> Seq(Partial)] /\ IsShape(shape)
  BY ShapesAccepted DEF Handover, Protocol, Control, TypeOK
<1>1. shape' = shape
  BY Unchanging
<1>2. \A w \in Waves(shape) : pc'[w] = "reduce" =>
         /\ ~Relaunch /\ launch' = launch /\ tile'[w] = tile[w]
         /\ \/ pc[w] = "acquire" /\ acc'[w] = <<>>
            \/ pc[w] = "reduce" /\ (Reduce(w) \/ acc'[w] = acc[w])
  BY <1>0, ReduceFacts
<1> SUFFICES ASSUME NEW w \in Waves(shape), pc'[w] = "reduce", NEW t, t = tile[w]
             PROVE  /\ Len(acc'[w]) <= Parts(shape, t)
                    /\ \A i \in 1..Len(acc'[w]) :
                          acc'[w][i] = Part(FirstOwner(shape, t) + i - 1, t)
  <2>1. \A w \in Waves(shape) : pc'[w] = "reduce" =>
           tile'[w] = tile[w] /\ \A p, t : Part(p, t)' = Part(p, t)
    BY <1>1, <1>2 DEF Part
  <2> QED BY <1>1, <2>1 DEF AccInv
<1>3. pc[w] \in Reducer
  BY <1>2 DEF Reducer
<1>4. /\ t \in Tiles(shape)
      /\ \A p \in Owners(shape, t) :
            /\ p \in Workers(shape) /\ Arrived(p, t) /\ Shared(shape, p, t)
            /\ <<p, w[2]>> \in Waves(shape)
  BY <1>0, <1>3, ReducerComplete
<1>5. /\ FirstOwner(shape, t) \in Nat /\ LastOwner(shape, t) \in Nat
      /\ Parts(shape, t) \in Nat
      /\ Parts(shape, t) = LastOwner(shape, t) - FirstOwner(shape, t) + 1
  BY <1>0, <1>4, OwnersFacts
<1>6. CASE pc[w] = "acquire" /\ acc'[w] = <<>>
  BY <1>5, <1>6
<1>7. CASE pc[w] = "reduce" /\ acc'[w] = acc[w]
  BY <1>0, <1>7 DEF AccInv
<1>8. CASE pc[w] = "reduce" /\ Reduce(w)
  <2> DEFINE owner == FirstOwner(shape, t) + Len(acc[w])
             f == <<owner, OwnerSlot(shape, owner, t), w[2]>>
             value == IF f \in fresh[w] THEN scratch[f] ELSE Stale
  <2>1. acc' = [acc EXCEPT ![w] = Append(@, value)] /\ owner <= LastOwner(shape, t)
    BY <1>8 DEF Reduce
  <2>2. acc[w] \in Seq(Partial) /\ Len(acc[w]) \in Nat
    BY <1>0
  <2>3. owner \in Owners(shape, t) /\ owner \in Nat
    BY <1>5, <2>1, <2>2 DEF Owners
  <2>4. f = Fragment(<<owner, w[2]>>, t)
    BY DEF Fragment, OwnerSlot, StoreSlot, FirstTile
  <2>5. f \in fresh[w]
    BY <1>0, <1>8, <2>3, <2>4 DEF FreshInv
  <2>6. HasStored(<<owner, w[2]>>, t)
    <3>1. <<owner, w[2]>> \in Waves(shape) /\ Arrived(<<owner, w[2]>>[1], t)
      BY <1>4, <2>3
    <3> QED BY <1>0, <3>1, ArrivedStored
  <2>7. scratch[f] = Part(owner, t)
    <3>1. <<owner, w[2]>> \in Waves(shape) /\ Shared(shape, <<owner, w[2]>>[1], t)
      BY <1>4, <2>3
    <3>2. scratch[Fragment(<<owner, w[2]>>, t)] = Part(<<owner, w[2]>>[1], t)
      BY <1>0, <1>4, <2>6, <3>1 DEF ScratchInv
    <3> QED BY <2>4, <3>2
  <2>8. value = Part(owner, t)
    BY <2>5, <2>7
  <2>9. /\ Len(acc[w]) <= Parts(shape, t)
        /\ \A i \in 1..Len(acc[w]) : acc[w][i] = Part(FirstOwner(shape, t) + i - 1, t)
    BY <1>0, <1>8 DEF AccInv
  <2> HIDE DEF value, f
  <2>10. acc'[w] = Append(acc[w], value)
    BY <1>0, <2>1
  <2>11. /\ Len(acc'[w]) = Len(acc[w]) + 1
         /\ acc'[w][Len(acc[w]) + 1] = value
         /\ \A i \in 1..Len(acc[w]) : acc'[w][i] = acc[w][i]
    BY <2>2, <2>10
  <2>12. FirstOwner(shape, t) + (Len(acc[w]) + 1) - 1 = owner
    BY <1>5, <2>2
  <2>13. Len(acc[w]) + 1 <= Parts(shape, t)
    BY <1>5, <2>1, <2>2
  <2>14. ASSUME NEW i \in 1..(Len(acc[w]) + 1)
         PROVE  acc'[w][i] = Part(FirstOwner(shape, t) + i - 1, t)
    <3>1. CASE i = Len(acc[w]) + 1
      BY <2>8, <2>11, <2>12, <3>1
    <3>2. CASE i # Len(acc[w]) + 1
      <4>1. i \in 1..Len(acc[w])
        BY <2>2, <3>2
      <4> QED BY <2>9, <2>11, <4>1
    <3> QED BY <3>1, <3>2
  <2> QED BY <2>11, <2>13, <2>14
<1> QED BY <1>2, <1>6, <1>7, <1>8

LEMMA HandoverStep ==
    ASSUME Handover, [Next]_vars
    PROVE  Handover'
<1>1. Protocol'
  BY ProtocolStep DEF Handover
<1> QED BY <1>1, ScratchStep, ReleasedStep, FreshStep, AccStep DEF Handover

LEMMA HandoverInit ==
    ASSUME Init
    PROVE  Handover
<1>0. Protocol /\ TypeOK /\ shape \in Shapes /\ IsShape(shape)
  BY ProtocolInit, ShapesAccepted DEF Protocol, Control, Init
<1>1. \A w \in Waves(shape) : pc[w] = "tile" /\ tile[w] = EntryTile(shape, w[1])
  BY DEF Init
<1>2. ASSUME NEW w \in Waves(shape), NEW t \in Mine(shape, w[1])
      PROVE  ~(t < tile[w])
  <2>1. EntryTile(shape, w[1]) <= t /\ EntryTile(shape, w[1]) \in Mine(shape, w[1])
    BY <1>0, WaveFacts, EntryFirst
  <2>2. EntryTile(shape, w[1]) \in Nat /\ t \in Nat
    BY <1>0, <2>1, WaveFacts, MineTiles
  <2> QED BY <1>1, <2>1, <2>2
<1>3. ScratchInv
  <2> SUFFICES ASSUME NEW w \in Waves(shape), NEW t \in Tiles(shape), Shared(shape, w[1], t)
               PROVE  ~HasStored(w, t) /\ scratch[Fragment(w, t)].launch < launch
    BY DEF ScratchInv
  <2>1. ~HasStored(w, t)
    BY <1>1, <1>2 DEF HasStored, StoredAt, Past, Shared
  <2>2. scratch[Fragment(w, t)] = Stale /\ launch = 1
    BY <1>0, FragmentFacts DEF Init
  <2> QED BY <2>1, <2>2 DEF Stale
<1>4. ReleasedInv
  <2>1. ASSUME NEW w \in Waves(shape), NEW t, Arrived(w[1], t) PROVE FALSE
    <3>1. /\ Lead(w[1]) \in Waves(shape) /\ Lead(w[1])[1] = w[1]
      BY <1>0, WaveFacts, LeadFacts
    <3> QED BY <1>1, <1>2, <2>1, <3>1 DEF Arrived, ArrivedAt, Past, Shared
  <2> QED BY <2>1 DEF ReleasedInv
<1>5. FreshInv /\ AccInv
  BY <1>1 DEF FreshInv, AccInv
<1> QED BY <1>0, <1>3, <1>4, <1>5 DEF Handover

-----------------------------------------------------------------------------
(* The output.                                                               *)
(*                                                                           *)
(* A fragment of the output is of an earlier launch until its tile is        *)
(* written: by the only worker of a whole tile, or by the waves of the last  *)
(* worker of a shared one, which write before the arrivals are taken back.   *)
Out(t, v) == output[Place(shape, t)][v]
Old(sums) == \A i \in DOMAIN sums : sums[i].launch < launch
WholeSum(p, t) ==
    <<[launch |-> launch, by |-> p, tile |-> t, from |-> 0, to |-> shape.k]>>
Sum(t) == [i \in 1..Parts(shape, t) |-> Part(FirstOwner(shape, t) + i - 1, t)]

WholeInv ==
    \A w \in Waves(shape) : \A t \in Mine(shape, w[1]) : IsWholeTile(shape, w[1], t) =>
        IF HasWritten(w, t) THEN Out(t, w[2]) = WholeSum(w[1], t) ELSE Old(Out(t, w[2]))

Reduced == {"reduced", "reset", "resetdone"}

SharedInv ==
    \A t \in Tiles(shape), p \in Workers(shape), v \in WaveIds : Shared(shape, p, t) =>
        /\ ~Complete(t) => Old(Out(t, v))
        /\ Complete(t) /\ (\A q \in Workers(shape) : ~Reducing(q, t)) => Out(t, v) = Sum(t)
        /\ Reducing(p, t) => IF pc[<<p, v>>] \in Reduced THEN Out(t, v) = Sum(t)
                                                         ELSE Old(Out(t, v))

IInv == Handover /\ WholeInv /\ SharedInv

LEMMA OutputWritten ==
    ASSUME Control, NEW w \in Waves(shape), NEW sums, WriteOutput(w, sums), shape' = shape
    PROVE  /\ tile[w] \in Tiles(shape) /\ w[2] \in WaveIds
           /\ \A t \in Tiles(shape), v \in WaveIds :
                Out(t, v)' = IF t = tile[w] /\ v = w[2] THEN sums ELSE Out(t, v)
<1>0. /\ shape \in Shapes /\ output \in [Places(shape) -> [WaveIds -> Seq(Partial)]]
      /\ IsShape(shape) /\ shape.xcds \in Nat /\ shape.group \in Nat
  BY ShapesAccepted DEF Control, TypeOK
<1>1. w[1] \in Workers(shape) /\ w[2] \in WaveIds /\ tile[w] \in Mine(shape, w[1])
  BY <1>0, WaveFacts DEF Control, WaveInv
<1>2. tile[w] \in Tiles(shape)
  BY <1>0, <1>1, MineTiles
<1>3. output' = [output EXCEPT ![Place(shape, tile[w])][w[2]] = sums]
  BY DEF WriteOutput
<1>4. ASSUME NEW t \in Tiles(shape), NEW v \in WaveIds
      PROVE  Out(t, v)' = IF t = tile[w] /\ v = w[2] THEN sums ELSE Out(t, v)
  <2>1. /\ Place(shape, t) \in Places(shape) /\ Place(shape, tile[w]) \in Places(shape)
        /\ Place(shape, t) = Place(shape, tile[w]) => t = tile[w]
    BY <1>0, <1>2, PlacesBijective
  <2>2. output'[Place(shape, t)][v] =
          IF Place(shape, t) = Place(shape, tile[w]) /\ v = w[2]
            THEN sums ELSE output[Place(shape, t)][v]
    BY <1>0, <1>1, <1>3, <2>1
  <2> QED BY <2>1, <2>2 DEF Out
<1> QED BY <1>1, <1>2, <1>4

LEMMA OutputKept ==
    ASSUME [Next]_vars, \A w \in Waves(shape) : ~WholeTile(w) /\ ~StoreReduced(w)
    PROVE  output' = output
BY DEF Next, Wave, Workgroup, Finished, vars, LeaveTile, StorePartial, Publish, Mail,
       Elect, Acquire, Reduce, Reset, Barrier, TileBarrier, Relaunch

(* The two steps that write output. *)
LEMMA WholeTileFacts ==
    ASSUME Control, [Next]_vars, NEW w \in Waves(shape), WholeTile(w)
    PROVE  /\ w[1] \in Workers(shape) /\ tile[w] \in Mine(shape, w[1])
           /\ IsWholeTile(shape, w[1], tile[w]) /\ ~HasWritten(w, tile[w])
           /\ WriteOutput(w, WholeSum(w[1], tile[w]))
           /\ ~Relaunch /\ shape' = shape /\ launch' = launch
           /\ \A u \in Waves(shape) : ~Publish(u) /\ ~Reset(u) /\ ~StoreReduced(u)
           /\ \A u \in Waves(shape) : WholeTile(u) => u = w
<1>0. /\ pc \in [Waves(shape) -> Steps] /\ shape \in Shapes /\ tile[w] \in Nat
  BY DEF Control, TypeOK
<1>1. /\ pc[w] = "tile" /\ pc' = [pc EXCEPT ![w] = "written"]
      /\ IsWholeTile(shape, w[1], tile[w])
  BY DEF WholeTile, Goto
<1>2. pc'[w] = "written" /\ \A u \in Waves(shape) : u # w => pc'[u] = pc[u]
  BY <1>0, <1>1
<1>3. ASSUME NEW u \in Waves(shape),
             Publish(u) \/ Reset(u) \/ StoreReduced(u) \/ WholeTile(u)
      PROVE  u = w /\ WholeTile(u) /\ ~Publish(u) /\ ~Reset(u) /\ ~StoreReduced(u)
  <2>1. /\ Publish(u) => pc[u] = "publish" /\ pc'[u] = "mail"
        /\ Reset(u) => pc[u] = "reset" /\ pc'[u] = "resetdone"
        /\ StoreReduced(u) => pc[u] = "reduce" /\ pc'[u] = "reduced"
        /\ WholeTile(u) => pc[u] = "tile" /\ pc'[u] = "written"
    BY <1>0 DEF Publish, Reset, StoreReduced, WholeTile, Goto
  <2> QED BY <1>1, <1>2, <1>3, <2>1
<1>4. Relaunch => pc'[w] = "tile"
  BY DEF Relaunch, KernelEntry
<1>5. w[1] \in Workers(shape) /\ tile[w] \in Mine(shape, w[1])
  BY <1>0, WaveFacts DEF Control, WaveInv
<1>6. ~HasWritten(w, tile[w])
  BY <1>0, <1>1 DEF HasWritten, WrittenAt, Past
<1>7. WriteOutput(w, WholeSum(w[1], tile[w])) /\ shape' = shape /\ launch' = launch
  BY DEF WholeTile, WholeSum, Computed
<1> QED BY <1>1, <1>2, <1>3, <1>4, <1>5, <1>6, <1>7

LEMMA StoreReducedFacts ==
    ASSUME Handover, [Next]_vars, NEW w \in Waves(shape), StoreReduced(w)
    PROVE  /\ w[1] \in Workers(shape) /\ tile[w] \in Tiles(shape)
           /\ Shared(shape, w[1], tile[w]) /\ Complete(tile[w])
           /\ Reducing(w[1], tile[w])
           /\ WriteOutput(w, Sum(tile[w]))
           /\ ~Relaunch /\ shape' = shape /\ launch' = launch
           /\ pc[w] = "reduce" /\ pc'[w] = "reduced"
           /\ \A u \in Waves(shape) : ~Publish(u) /\ ~Reset(u) /\ ~WholeTile(u)
           /\ \A u \in Waves(shape) : u # w => pc'[u] = pc[u]
<1>0. /\ Control /\ CountInv /\ AccInv /\ pc \in [Waves(shape) -> Steps] /\ shape \in Shapes
      /\ IsShape(shape) /\ acc \in [Waves(shape) -> Seq(Partial)]
  BY ShapesAccepted DEF Handover, Protocol, Control, TypeOK
<1>1. /\ pc[w] = "reduce" /\ pc' = [pc EXCEPT ![w] = "reduced"]
      /\ FirstOwner(shape, tile[w]) + Len(acc[w]) > LastOwner(shape, tile[w])
      /\ shape' = shape /\ launch' = launch /\ WriteOutput(w, acc[w])
  BY DEF StoreReduced, Goto
<1>2. pc'[w] = "reduced" /\ \A u \in Waves(shape) : u # w => pc'[u] = pc[u]
  BY <1>0, <1>1
<1>3. ASSUME NEW u \in Waves(shape), Publish(u) \/ Reset(u) \/ WholeTile(u) PROVE FALSE
  <2>1. /\ Publish(u) => pc[u] = "publish" /\ pc'[u] = "mail"
        /\ Reset(u) => pc[u] = "reset" /\ pc'[u] = "resetdone"
        /\ WholeTile(u) => pc[u] = "tile" /\ pc'[u] = "written"
    BY <1>0 DEF Publish, Reset, WholeTile, Goto
  <2> QED BY <1>1, <1>2, <1>3, <2>1
<1>4. Relaunch => pc'[w] = "tile"
  BY DEF Relaunch, KernelEntry
<1>5. /\ tile[w] \in Tiles(shape) /\ Complete(tile[w]) /\ Shared(shape, w[1], tile[w])
  BY <1>0, <1>1, ReducerComplete DEF Reducer
<1>6. /\ w[1] \in Workers(shape) /\ At(w[1], tile[w]) /\ IsLast(Got(w[1]), tile[w])
      /\ Phase(pc[Lead(w[1])]) = Phase(pc[w])
  BY <1>0, <1>1, ReducerLead DEF Reducer
<1>7. Reducing(w[1], tile[w])
  <2>1. pc[Lead(w[1])] # "resetdone"
    BY <1>1, <1>6 DEF Phase
  <2> QED BY <1>6, <2>1 DEF Reducing
<1>8. acc[w] = Sum(tile[w])
  <2>1. acc[w] \in Seq(Partial) /\ Len(acc[w]) \in Nat
    BY <1>0
  <2>2. /\ FirstOwner(shape, tile[w]) \in Nat /\ LastOwner(shape, tile[w]) \in Nat
        /\ Parts(shape, tile[w]) \in Nat
        /\ Parts(shape, tile[w]) = LastOwner(shape, tile[w]) - FirstOwner(shape, tile[w]) + 1
    BY <1>0, <1>5, OwnersFacts
  <2>3. /\ Len(acc[w]) <= Parts(shape, tile[w])
        /\ \A i \in 1..Len(acc[w]) :
              acc[w][i] = Part(FirstOwner(shape, tile[w]) + i - 1, tile[w])
    BY <1>0, <1>1 DEF AccInv
  <2>4. Len(acc[w]) = Parts(shape, tile[w])
    BY <1>1, <2>1, <2>2, <2>3
  <2>5. acc[w] = [i \in 1..Len(acc[w]) |-> acc[w][i]]
    BY <2>1
  <2> QED BY <2>3, <2>4, <2>5 DEF Sum
<1> QED BY <1>1, <1>2, <1>3, <1>4, <1>5, <1>6, <1>7, <1>8

LEMMA WholeStep ==
    ASSUME IInv, [Next]_vars
    PROVE  WholeInv'
<1>0. /\ Handover /\ Control /\ WholeInv /\ shape \in Shapes /\ IsShape(shape)
      /\ launch \in Nat /\ TypeOK
  BY ShapesAccepted DEF IInv, Handover, Protocol, Control, TypeOK
<1>1. shape' = shape /\ (~Relaunch => launch' = launch)
  BY Unchanging
<1> SUFFICES ASSUME NEW w \in Waves(shape), NEW t \in Mine(shape, w[1]),
                    IsWholeTile(shape, w[1], t)
             PROVE  IF HasWritten(w, t)' THEN Out(t, w[2])' = WholeSum(w[1], t)'
                    ELSE Old(Out(t, w[2]))'
  BY <1>1 DEF WholeInv
<1>2. IF HasWritten(w, t) THEN Out(t, w[2]) = WholeSum(w[1], t) ELSE Old(Out(t, w[2]))
  BY <1>0 DEF WholeInv
<1>3. /\ w[1] \in Workers(shape) /\ w[2] \in WaveIds /\ t \in Tiles(shape)
      /\ w = <<w[1], w[2]>>
  BY <1>0, WaveFacts, MineTiles
<1>4. ASSUME ~Relaunch, Out(t, w[2])' = Out(t, w[2]), HasWritten(w, t)' <=> HasWritten(w, t)
      PROVE  IF HasWritten(w, t)' THEN Out(t, w[2])' = WholeSum(w[1], t)'
             ELSE Old(Out(t, w[2]))'
  <2>1. WholeSum(w[1], t)' = WholeSum(w[1], t)
    BY <1>1, <1>4 DEF WholeSum
  <2>2. Old(Out(t, w[2]))' <=> Old(Out(t, w[2]))
    BY <1>1, <1>4 DEF Old
  <2> QED BY <1>2, <1>4, <2>1, <2>2
<1>5. CASE Relaunch
  <2>1. AllDone /\ output' = output
    BY <1>5 DEF Relaunch
  <2>2. HasWritten(w, t) /\ ~HasWritten(w, t)' /\ launch' = launch + 1
    BY <1>0, <1>5, <2>1, DoneFacts, RelaunchFacts
  <2>3. Out(t, w[2])' = WholeSum(w[1], t)
    BY <1>1, <1>2, <2>1, <2>2 DEF Out
  <2>4. Old(Out(t, w[2]))'
    BY <1>0, <2>2, <2>3 DEF Old, WholeSum
  <2> QED BY <2>2, <2>4
<1>6. ASSUME NEW u \in Waves(shape), WholeTile(u)
      PROVE  IF HasWritten(w, t)' THEN Out(t, w[2])' = WholeSum(w[1], t)'
             ELSE Old(Out(t, w[2]))'
  <2>1. /\ u[1] \in Workers(shape) /\ tile[u] \in Mine(shape, u[1]) /\ ~Relaunch
        /\ IsWholeTile(shape, u[1], tile[u]) /\ WriteOutput(u, WholeSum(u[1], tile[u]))
        /\ \A x \in Waves(shape) : WholeTile(x) => x = u
    BY <1>0, <1>6, WholeTileFacts
  <2>2. Out(t, w[2])' = IF t = tile[u] /\ w[2] = u[2] THEN WholeSum(u[1], tile[u])
                                                      ELSE Out(t, w[2])
    BY <1>0, <1>1, <1>3, <2>1, OutputWritten
  <2>3. HasWritten(w, t)' <=> HasWritten(w, t) \/ (WholeTile(w) /\ t = tile[w])
    BY <1>0, <2>1, WrittenEffect
  <2>4. CASE t = tile[u] /\ w[2] = u[2]
    <3>1. w[1] = u[1]
      BY <1>0, <1>3, <2>1, <2>4, WholeAlone
    <3>2. w = u
      BY <1>0, <1>3, <2>4, <3>1, WaveFacts
    <3>3. HasWritten(w, t)'
      BY <1>6, <2>3, <2>4, <3>2
    <3>4. WholeSum(w[1], t)' = WholeSum(w[1], t)
      BY <1>1, <2>1 DEF WholeSum
    <3> QED BY <2>2, <2>4, <3>2, <3>3, <3>4
  <2>5. CASE ~(t = tile[u] /\ w[2] = u[2])
    BY <1>4, <2>1, <2>2, <2>3, <2>5
  <2> QED BY <2>4, <2>5
<1>7. ASSUME NEW u \in Waves(shape), StoreReduced(u)
      PROVE  IF HasWritten(w, t)' THEN Out(t, w[2])' = WholeSum(w[1], t)'
             ELSE Old(Out(t, w[2]))'
  <2>1. /\ u[1] \in Workers(shape) /\ Shared(shape, u[1], tile[u]) /\ ~Relaunch
        /\ WriteOutput(u, Sum(tile[u])) /\ ~WholeTile(w)
    BY <1>0, <1>7, StoreReducedFacts
  <2>2. t # tile[u]
    BY <1>0, <1>3, <2>1, WholeAlone DEF Shared
  <2>3. Out(t, w[2])' = Out(t, w[2])
    BY <1>0, <1>1, <1>3, <2>1, <2>2, OutputWritten
  <2>4. HasWritten(w, t)' <=> HasWritten(w, t)
    BY <1>0, <2>1, WrittenEffect
  <2> QED BY <1>4, <2>1, <2>3, <2>4
<1>8. CASE ~Relaunch /\ \A u \in Waves(shape) : ~WholeTile(u) /\ ~StoreReduced(u)
  <2>1. Out(t, w[2])' = Out(t, w[2])
    BY <1>1, <1>8, OutputKept DEF Out
  <2>2. HasWritten(w, t)' <=> HasWritten(w, t)
    BY <1>0, <1>8, WrittenEffect
  <2> QED BY <1>4, <1>8, <2>1, <2>2
<1> QED BY <1>5, <1>6, <1>7, <1>8

(* A wave has written from the time it stores the sum until its workgroup    *)
(* leaves the tile.                                                          *)
LEMMA ReducedFacts ==
    ASSUME Control, [Next]_vars, ~Relaunch, NEW w \in Waves(shape)
    PROVE  \/ pc'[w] \in Reduced <=> pc[w] \in Reduced
           \/ StoreReduced(w)
           \/ pc[Lead(w[1])] = "resetdone"
<1> DEFINE Goal == \/ pc'[w] \in Reduced <=> pc[w] \in Reduced
                   \/ StoreReduced(w)
                   \/ pc[Lead(w[1])] = "resetdone"
<1> SUFFICES Goal OBVIOUS
<1>0. pc \in [Waves(shape) -> Steps] /\ shape \in Shapes
  BY DEF Control, TypeOK
<1>1. ASSUME NEW u \in Waves(shape), Wave(u) PROVE Goal
  <2>1. CASE StoreReduced(u)
    <3>1. pc' = [pc EXCEPT ![u] = "reduced"]
      BY <2>1 DEF StoreReduced, Goto
    <3> QED BY <1>0, <2>1, <3>1
  <2>2. CASE Reduce(u)
    BY <2>2 DEF Reduce
  <2>3. CASE WholeTile(u) \/ StorePartial(u) \/ Publish(u) \/ Mail(u) \/ Acquire(u)
    <3>1. /\ pc[u] \notin Reduced
          /\ \E step \in Steps \ Reduced : pc' = [pc EXCEPT ![u] = step]
      BY <2>3 DEF WholeTile, StorePartial, Publish, Mail, Acquire, Goto, Steps, Reduced
    <3> QED BY <1>0, <3>1
  <2>4. CASE Reset(u)
    <3>1. pc[u] = "reset" /\ pc' = [pc EXCEPT ![u] = "resetdone"]
      BY <2>4 DEF Reset, Goto
    <3> QED BY <1>0, <3>1 DEF Reduced
  <2>5. CASE Elect(u)
    <3>0. pc[u] \notin Reduced
      BY <2>5 DEF Elect, Reduced
    <3>1. CASE IsLast(ArrivalCount(u), tile[u])
      <4>1. pc' = [pc EXCEPT ![u] = "acquire"]
        BY <2>5, <3>1 DEF Elect, Goto
      <4> QED BY <1>0, <3>0, <4>1 DEF Reduced
    <3>2. CASE ~IsLast(ArrivalCount(u), tile[u])
      <4>1. Advance({u})
        BY <2>5, <3>2 DEF Elect
      <4>2. pc'[w] = IF w # u THEN pc[w] ELSE IF HasNext(shape, w[1], tile[w])
                                                THEN "tile" ELSE "done"
        BY <4>1 DEF Advance
      <4> QED BY <3>0, <4>2 DEF Reduced
    <3> QED BY <3>1, <3>2
  <2>6. CASE LeaveTile(u)
    BY <2>6 DEF LeaveTile, Advance, Reduced
  <2> QED BY <1>1, <2>1, <2>2, <2>3, <2>4, <2>5, <2>6 DEF Wave
<1>2. ASSUME NEW p \in Workers(shape), Workgroup(p) PROVE Goal
  <2>1. ASSUME NEW step \in {"stored", "mailed", "reduced"}, Barrier(p, step) PROVE Goal
    <3>1. /\ w[1] = p => pc[w] = step
          /\ pc'[w] = IF w[1] = p THEN AfterBarrier(step, w) ELSE pc[w]
      BY <2>1 DEF Barrier
    <3> QED BY <3>1 DEF AfterBarrier, Reduced
  <2>2. ASSUME NEW step \in {"written", "resetdone"}, TileBarrier(p, step) PROVE Goal
    <3>1. \A u \in Waves(shape) : u[1] = p => pc[u] = step
      BY <2>2 DEF TileBarrier
    <3>2. pc'[w] = IF w[1] # p THEN pc[w] ELSE IF HasNext(shape, w[1], tile[w])
                                                 THEN "tile" ELSE "done"
      BY <2>2 DEF TileBarrier, Advance
    <3>3. Lead(w[1]) \in Waves(shape) /\ Lead(w[1])[1] = w[1]
      BY <1>0, WaveFacts, LeadFacts
    <3> QED BY <3>1, <3>2, <3>3 DEF Reduced
  <2> QED BY <1>2, <2>1, <2>2 DEF Workgroup
<1>3. CASE UNCHANGED vars
  BY <1>3 DEF vars
<1> QED BY <1>1, <1>2, <1>3 DEF Next, Finished

LEMMA SharedPublish ==
    ASSUME IInv, [Next]_vars, NEW w \in Waves(shape), Publish(w),
           NEW t \in Tiles(shape), NEW p \in Workers(shape), NEW v \in WaveIds,
           Shared(shape, p, t)
    PROVE  /\ ~Complete(t)' => Old(Out(t, v))
           /\ Complete(t)' /\ (\A q \in Workers(shape) : ~Reducing(q, t)') => Out(t, v) = Sum(t)
           /\ Reducing(p, t)' => IF pc'[<<p, v>>] \in Reduced THEN Out(t, v) = Sum(t)
                                                              ELSE Old(Out(t, v))
<1>0. /\ Protocol /\ Control /\ CountInv /\ CounterInv /\ SharedInv /\ shape \in Shapes
      /\ IsShape(shape) /\ TypeOK /\ pc \in [Waves(shape) -> Steps]
  BY ShapesAccepted DEF IInv, Handover, Protocol, Control, TypeOK
<1>1. /\ w[1] \in Workers(shape) /\ w = Lead(w[1]) /\ ~Relaunch
      /\ Shared(shape, w[1], tile[w]) /\ tile[w] \in Tiles(shape)
      /\ ~Arrived(w[1], tile[w]) /\ tile' = tile
      /\ pc[w] = "publish" /\ pc'[w] = "mail"
      /\ \A q \in Workers(shape) : Publish(Lead(q)) => q = w[1]
      /\ \A q \in Workers(shape) : ~Reset(Lead(q))
      /\ counter'[tile[w]] = counter[tile[w]] + 1
      /\ \A x : Arrivals(x)' = IF x = tile[w] THEN Arrivals(x) \union {w[1]}
                                              ELSE Arrivals(x)
  BY <1>0, PublishFacts
<1>2. shape' = shape
  BY Unchanging
<1>3. \A u \in Waves(shape) : u # w => pc'[u] = pc[u]
  <2>1. pc' = [pc EXCEPT ![w] = "mail"]
    BY DEF Publish, Goto
  <2> QED BY <1>0, <2>1
<1>4. \A q \in Workers(shape) : q # w[1] => (Reducing(q, t)' <=> Reducing(q, t))
  BY <1>0, <1>1, <1>2, GotEffect
<1>5. <<p, v>> \in Waves(shape) /\ <<p, v>>[1] = p
  BY <1>0, WaveFacts
<1>6. /\ ~Complete(t) => Old(Out(t, v))
      /\ Complete(t) /\ (\A q \in Workers(shape) : ~Reducing(q, t)) => Out(t, v) = Sum(t)
      /\ Reducing(p, t) => IF pc[<<p, v>>] \in Reduced THEN Out(t, v) = Sum(t)
                                                       ELSE Old(Out(t, v))
  BY <1>0 DEF SharedInv
<1>7. CASE t # tile[w]
  <2>1. Complete(t)' <=> Complete(t)
    BY <1>1, <1>2, <1>7 DEF Complete
  <2>2. ~Reducing(w[1], t) /\ ~Reducing(w[1], t)'
    BY <1>1, <1>7 DEF Reducing, At
  <2>3. Reducing(p, t)' => <<p, v>> # w
    BY <1>5, <2>2
  <2> QED BY <1>3, <1>4, <1>5, <1>6, <2>1, <2>2, <2>3
<1>8. CASE t = tile[w]
  <2>1. ~Complete(t)
    <3>1. w[1] \in Owners(shape, t)
      BY <1>0, <1>1, <1>8, SharedOwners
    <3>2. w[1] \notin Arrivals(t)
      BY <1>1, <1>8 DEF Arrivals
    <3> QED BY <3>1, <3>2 DEF Complete
  <2>2. Old(Out(t, v))
    BY <1>6, <2>1
  <2>3. ~(Complete(t)' /\ \A q \in Workers(shape) : ~Reducing(q, t)')
    <3>1. Cardinality(Arrivals(t)) \in Nat
      BY <1>0, ArrivalsFacts
    <3>2. counter[t] = Cardinality(Arrivals(t))
      BY <1>0, <2>1 DEF CounterInv
    <3>3. counter'[t] # 0
      BY <1>1, <1>8, <3>1, <3>2
    <3>4. CounterInv'
      BY <1>0, ProtocolStep DEF Protocol
    <3> QED BY <1>2, <3>3, <3>4 DEF CounterInv
  <2>4. Reducing(p, t)' => pc'[<<p, v>>] \notin Reduced
    <3>1. CASE p = w[1]
      <4>1. CASE <<p, v>> = w
        BY <1>1, <4>1 DEF Reduced
      <4>2. CASE <<p, v>> # w
        <5>1. \/ Level(<<p, v>>, w) \/ Ahead(<<p, v>>, w) \/ Ahead(w, <<p, v>>)
          BY <1>0, <1>1, <1>5, <3>1, NotPipelined DEF Control, SyncInv
        <5>2. pc[<<p, v>>] \notin Reduced
          BY <1>1, <5>1 DEF Level, Ahead, Phase, Reduced
        <5> QED BY <1>3, <1>5, <4>2, <5>2
      <4> QED BY <4>1, <4>2
    <3>2. CASE p # w[1]
      <4>1. ~Reducing(p, t)
        BY <1>0, <2>1, LastComplete DEF Reducing
      <4> QED BY <1>4, <3>2, <4>1
    <3> QED BY <3>1, <3>2
  <2> QED BY <2>2, <2>3, <2>4
<1> QED BY <1>7, <1>8

LEMMA SharedStep ==
    ASSUME IInv, [Next]_vars
    PROVE  SharedInv'
<1>0. /\ Handover /\ Protocol /\ Control /\ CountInv /\ SharedInv /\ shape \in Shapes
      /\ IsShape(shape) /\ TypeOK /\ pc \in [Waves(shape) -> Steps] /\ launch \in Nat
  BY ShapesAccepted DEF IInv, Handover, Protocol, Control, TypeOK
<1>1. shape' = shape /\ (~Relaunch => launch' = launch)
  BY Unchanging
<1> SUFFICES ASSUME NEW t \in Tiles(shape), NEW p \in Workers(shape), NEW v \in WaveIds,
                    Shared(shape, p, t)
             PROVE  /\ ~Complete(t)' => Old(Out(t, v))'
                    /\ Complete(t)' /\ (\A q \in Workers(shape) : ~Reducing(q, t)')
                         => Out(t, v)' = Sum(t)'
                    /\ Reducing(p, t)' => IF pc'[<<p, v>>] \in Reduced
                                            THEN Out(t, v)' = Sum(t)'
                                            ELSE Old(Out(t, v))'
  BY <1>1 DEF SharedInv
<1> DEFINE Goal == /\ ~Complete(t)' => Old(Out(t, v))'
                   /\ Complete(t)' /\ (\A q \in Workers(shape) : ~Reducing(q, t)')
                        => Out(t, v)' = Sum(t)'
                   /\ Reducing(p, t)' => IF pc'[<<p, v>>] \in Reduced
                                           THEN Out(t, v)' = Sum(t)'
                                           ELSE Old(Out(t, v))'
<1>2. <<p, v>> \in Waves(shape) /\ <<p, v>>[1] = p /\ <<p, v>>[2] = v
  BY <1>0, WaveFacts
<1>3. /\ ~Complete(t) => Old(Out(t, v))
      /\ Complete(t) /\ (\A q \in Workers(shape) : ~Reducing(q, t)) => Out(t, v) = Sum(t)
      /\ Reducing(p, t) => IF pc[<<p, v>>] \in Reduced THEN Out(t, v) = Sum(t)
                                                       ELSE Old(Out(t, v))
  BY <1>0 DEF SharedInv
<1>4. ~Relaunch => Sum(t)' = Sum(t)
  BY <1>1 DEF Sum, Part
<1>5. ~Relaunch /\ Out(t, v)' = Out(t, v) => (Old(Out(t, v))' <=> Old(Out(t, v)))
  BY <1>1 DEF Old
<1>6. CASE Relaunch
  <2>1. AllDone /\ output' = output /\ launch' = launch + 1
    BY <1>6 DEF Relaunch
  <2>2. Complete(t) /\ \A q \in Workers(shape) : ~Reducing(q, t)
    BY <1>0, <2>1, DoneCounters, DoneFacts
  <2>3. Out(t, v)' = Sum(t)
    BY <1>1, <1>3, <2>1, <2>2 DEF Out
  <2>4. Old(Out(t, v))'
    BY <1>0, <2>1, <2>3 DEF Old, Sum, Part
  <2>5. \A q \in Workers(shape) : ~Reducing(q, t)' /\ ~Arrived(q, t)'
    BY <1>0, <1>6, RelaunchFacts
  <2>6. ~Complete(t)'
    <3>1. Arrivals(t)' = {}
      BY <1>1, <2>5 DEF Arrivals
    <3>2. FirstOwner(shape, t) \in Owners(shape, t)
      BY <1>0, OwnersFacts DEF Owners
    <3> QED BY <1>1, <3>1, <3>2 DEF Complete
  <2> QED BY <2>4, <2>5, <2>6
<1>7. ASSUME NEW w \in Waves(shape), Publish(w) PROVE Goal
  <2>1. ~Relaunch
    BY <1>0, <1>7, PublishFacts
  <2>2. Out(t, v)' = Out(t, v)
    BY <1>1, <1>7 DEF Publish, Out
  <2>3. /\ ~Complete(t)' => Old(Out(t, v))
        /\ Complete(t)' /\ (\A q \in Workers(shape) : ~Reducing(q, t)') => Out(t, v) = Sum(t)
        /\ Reducing(p, t)' => IF pc'[<<p, v>>] \in Reduced THEN Out(t, v) = Sum(t)
                                                           ELSE Old(Out(t, v))
    BY <1>7, SharedPublish
  <2> QED BY <1>4, <1>5, <2>1, <2>2, <2>3
<1>8. ASSUME NEW w \in Waves(shape), Reset(w) PROVE Goal
  <2>1. /\ w[1] \in Workers(shape) /\ w = Lead(w[1]) /\ ~Relaunch
        /\ Reducing(w[1], tile[w]) /\ Complete(tile[w])
        /\ \A x : ~Reducing(w[1], x)'
        /\ \A u \in Waves(shape) : ~Publish(u)
        /\ \A q \in Workers(shape) : Reset(Lead(q)) => q = w[1]
    BY <1>0, <1>8, ResetFacts
  <2>2. Out(t, v)' = Out(t, v)
    BY <1>1, <1>8 DEF Reset, Out
  <2>3. Complete(t)' <=> Complete(t)
    BY <1>0, <2>1, ArrivalsKept
  <2>4. \A q \in Workers(shape) : q # w[1] => (Reducing(q, t)' <=> Reducing(q, t))
    <3>1. \A q \in Workers(shape) : ~Publish(Lead(q))
      BY <1>0, <2>1, LeadFacts
    <3> QED BY <1>0, <1>1, <2>1, <3>1, GotEffect
  <2>5. pc[w] = "reset" /\ \A u \in Waves(shape) : u # w => pc'[u] = pc[u]
    <3>1. pc[w] = "reset" /\ pc' = [pc EXCEPT ![w] = "resetdone"]
      BY <1>8 DEF Reset, Goto
    <3> QED BY <1>0, <3>1
  <2>6. Complete(t)' /\ (\A q \in Workers(shape) : ~Reducing(q, t)') => Out(t, v)' = Sum(t)'
    <3>1. CASE t = tile[w]
      <4>1. <<w[1], v>> \in Waves(shape) /\ <<w[1], v>>[1] = w[1]
        BY <1>0, <2>1, WaveFacts
      <4>2. pc[<<w[1], v>>] \in Reduced
        <5>1. \/ Level(<<w[1], v>>, w) \/ Ahead(<<w[1], v>>, w) \/ Ahead(w, <<w[1], v>>)
          BY <1>0, <2>5, <4>1, NotPipelined DEF Control, SyncInv
        <5>2. pc[<<w[1], v>>] \in Steps
          BY <1>0, <4>1
        <5> QED BY <2>5, <5>1, <5>2 DEF Level, Ahead, Phase, Reduced, Steps
      <4>3. Shared(shape, w[1], t)
        BY <1>0, <2>1, <3>1, AtFacts DEF Reducing
      <4>4. Out(t, v) = Sum(t)
        BY <1>0, <2>1, <3>1, <4>2, <4>3 DEF SharedInv
      <4> QED BY <1>4, <2>1, <2>2, <4>4
    <3>2. CASE t # tile[w]
      <4>1. ~Reducing(w[1], t)
        BY <2>1, <3>2 DEF Reducing, At
      <4> QED BY <1>3, <1>4, <2>1, <2>2, <2>3, <2>4, <4>1
    <3> QED BY <3>1, <3>2
  <2>7. Reducing(p, t)' => Reducing(p, t) /\ pc'[<<p, v>>] = pc[<<p, v>>]
    <3>1. Reducing(p, t)' => p # w[1] /\ <<p, v>> # w
      BY <1>2, <2>1
    <3> QED BY <1>2, <2>4, <2>5, <3>1
  <2> QED BY <1>3, <1>4, <1>5, <2>1, <2>2, <2>3, <2>6, <2>7
<1>9. ASSUME ~Relaunch, \A w \in Waves(shape) : ~Publish(w) /\ ~Reset(w)
      PROVE  /\ Complete(t)' <=> Complete(t)
             /\ \A q \in Workers(shape) : Reducing(q, t)' <=> Reducing(q, t)
             /\ Reducing(p, t) => \/ pc'[<<p, v>>] \in Reduced <=> pc[<<p, v>>] \in Reduced
                                  \/ StoreReduced(<<p, v>>)
  <2>1. Complete(t)' <=> Complete(t)
    BY <1>0, <1>9, ArrivalsKept
  <2>2. \A q \in Workers(shape) : ~Publish(Lead(q)) /\ ~Reset(Lead(q))
    BY <1>0, <1>9, LeadFacts
  <2>3. \A q \in Workers(shape) : Reducing(q, t)' <=> Reducing(q, t)
    BY <1>0, <1>1, <1>9, <2>2, GotEffect
  <2>4. Reducing(p, t) => pc[Lead(p)] # "resetdone"
    BY DEF Reducing
  <2>5. \/ pc'[<<p, v>>] \in Reduced <=> pc[<<p, v>>] \in Reduced
        \/ StoreReduced(<<p, v>>)
        \/ pc[Lead(p)] = "resetdone"
    BY <1>0, <1>2, <1>9, ReducedFacts
  <2> QED BY <2>1, <2>3, <2>4, <2>5
<1>10. ASSUME NEW w \in Waves(shape), WholeTile(w) PROVE Goal
  <2>1. /\ w[1] \in Workers(shape) /\ tile[w] \in Mine(shape, w[1]) /\ ~Relaunch
        /\ IsWholeTile(shape, w[1], tile[w]) /\ WriteOutput(w, WholeSum(w[1], tile[w]))
        /\ \A u \in Waves(shape) : ~Publish(u) /\ ~Reset(u) /\ ~StoreReduced(u)
    BY <1>0, <1>10, WholeTileFacts
  <2>2. t # tile[w]
    BY <1>0, <2>1, WholeAlone DEF Shared
  <2>3. Out(t, v)' = Out(t, v)
    BY <1>0, <1>1, <2>1, <2>2, OutputWritten
  <2> QED BY <1>2, <1>3, <1>4, <1>5, <1>9, <2>1, <2>3
<1>11. ASSUME NEW w \in Waves(shape), StoreReduced(w) PROVE Goal
  <2>1. /\ w[1] \in Workers(shape) /\ tile[w] \in Tiles(shape)
        /\ Reducing(w[1], tile[w]) /\ Complete(tile[w])
        /\ WriteOutput(w, Sum(tile[w])) /\ ~Relaunch
        /\ pc[w] = "reduce" /\ pc'[w] = "reduced"
        /\ \A u \in Waves(shape) : ~Publish(u) /\ ~Reset(u)
        /\ \A u \in Waves(shape) : u # w => pc'[u] = pc[u]
    BY <1>0, <1>11, StoreReducedFacts
  <2>2. Out(t, v)' = IF t = tile[w] /\ v = w[2] THEN Sum(tile[w]) ELSE Out(t, v)
    BY <1>0, <1>1, <2>1, OutputWritten
  <2>3. CASE t = tile[w]
    <3>1. Complete(t)' /\ Reducing(w[1], t)'
      BY <1>9, <2>1, <2>3
    <3>2. Reducing(p, t)' => p = w[1]
      BY <1>0, <1>9, <2>1, <2>3, OneReducer
    <3>3. Reducing(p, t)' => IF pc'[<<p, v>>] \in Reduced THEN Out(t, v)' = Sum(t)'
                                                          ELSE Old(Out(t, v))'
      <4>1. CASE v = w[2]
        <5>1. Out(t, v)' = Sum(t)'
          BY <1>4, <2>1, <2>2, <2>3, <4>1
        <5>2. p = w[1] => <<p, v>> = w
          BY <1>0, <4>1, WaveFacts
        <5> QED BY <2>1, <3>2, <5>1, <5>2 DEF Reduced
      <4>2. CASE v # w[2]
        <5>1. <<p, v>> # w /\ Out(t, v)' = Out(t, v)
          BY <1>2, <2>2, <4>2
        <5> QED BY <1>2, <1>3, <1>4, <1>5, <1>9, <2>1, <5>1
      <4> QED BY <4>1, <4>2
    <3> QED BY <2>1, <3>1, <3>3
  <2>4. CASE t # tile[w]
    <3>1. Out(t, v)' = Out(t, v)
      BY <2>2, <2>4
    <3>2. Reducing(p, t) => p # w[1] /\ <<p, v>> # w
      <4>1. ~Reducing(w[1], t)
        BY <2>1, <2>4 DEF Reducing, At
      <4> QED BY <1>2, <4>1
    <3> QED BY <1>2, <1>3, <1>4, <1>5, <1>9, <2>1, <3>1, <3>2
  <2> QED BY <2>3, <2>4
<1>12. CASE /\ ~Relaunch
            /\ \A w \in Waves(shape) : /\ ~Publish(w) /\ ~Reset(w)
                                       /\ ~WholeTile(w) /\ ~StoreReduced(w)
  <2>1. Out(t, v)' = Out(t, v)
    BY <1>1, <1>12, OutputKept DEF Out
  <2> QED BY <1>2, <1>3, <1>4, <1>5, <1>9, <1>12, <2>1
<1> QED BY <1>6, <1>7, <1>8, <1>10, <1>11, <1>12

LEMMA IInvInit ==
    ASSUME Init
    PROVE  IInv
<1>0. /\ Handover /\ TypeOK /\ Control /\ shape \in Shapes /\ IsShape(shape)
      /\ shape.xcds \in Nat /\ shape.group \in Nat
  BY HandoverInit, ShapesAccepted DEF Handover, Protocol, Control, Init
<1>1. \A w \in Waves(shape) : pc[w] = "tile" /\ tile[w] = EntryTile(shape, w[1])
  BY DEF Init
<1>2. ASSUME NEW w \in Waves(shape), NEW t \in Mine(shape, w[1])
      PROVE  ~(t < tile[w])
  <2>1. EntryTile(shape, w[1]) <= t /\ EntryTile(shape, w[1]) \in Mine(shape, w[1])
    BY <1>0, WaveFacts, EntryFirst
  <2>2. EntryTile(shape, w[1]) \in Nat /\ t \in Nat
    BY <1>0, <2>1, WaveFacts, MineTiles
  <2> QED BY <1>1, <2>1, <2>2
<1>3. ASSUME NEW t \in Tiles(shape), NEW v \in WaveIds PROVE Old(Out(t, v))
  <2>1. Place(shape, t) \in Places(shape)
    BY <1>0, PlacesBijective
  <2>2. Out(t, v) = <<>>
    BY <2>1 DEF Init, Out
  <2> QED BY <2>2 DEF Old
<1>4. WholeInv
  <2> SUFFICES ASSUME NEW w \in Waves(shape), NEW t \in Mine(shape, w[1])
               PROVE  ~HasWritten(w, t) /\ Old(Out(t, w[2]))
    BY DEF WholeInv
  <2>1. ~HasWritten(w, t)
    BY <1>1, <1>2 DEF HasWritten, WrittenAt, Past
  <2>2. w[2] \in WaveIds /\ t \in Tiles(shape)
    BY <1>0, WaveFacts, MineTiles
  <2> QED BY <1>3, <2>1, <2>2
<1>5. SharedInv
  <2>1. ASSUME NEW p \in Workers(shape), NEW t PROVE ~Arrived(p, t) /\ ~Reducing(p, t)
    <3>1. Lead(p) \in Waves(shape) /\ Lead(p)[1] = p
      BY <1>0, LeadFacts
    <3> QED BY <1>1, <1>2, <3>1 DEF Arrived, ArrivedAt, Past, Shared, Reducing, At, Knows,
                                    Reducer
  <2>2. \A t \in Tiles(shape) : ~Complete(t)
    BY <1>0, <2>1, NoArrivals
  <2> QED BY <1>3, <2>1, <2>2 DEF SharedInv
<1> QED BY <1>0, <1>4, <1>5 DEF IInv

LEMMA IInvStep ==
    ASSUME IInv, [Next]_vars
    PROVE  IInv'
<1>1. Handover'
  BY HandoverStep DEF IInv
<1> QED BY <1>1, WholeStep, SharedStep DEF IInv

(* Both kinds of sum are the sum of the whole tile. *)
LEMMA WholeIsTileSum ==
    ASSUME NEW p, NEW t
    PROVE  IsTileSum(Place(shape, t), WholeSum(p, t))
BY DEF IsTileSum, WholeSum

LEMMA SumIsTileSum ==
    ASSUME shape \in Shapes, NEW t \in Tiles(shape), Sum(t) \in Seq(Partial)
    PROVE  IsTileSum(Place(shape, t), Sum(t))
<1> DEFINE n == Parts(shape, t)
           fo == FirstOwner(shape, t)
           lo == LastOwner(shape, t)
<1>1. /\ n \in Nat \ {0} /\ fo \in Nat /\ lo \in Nat /\ n = lo - fo + 1
  BY ShapesAccepted, OwnersFacts
<1>2. /\ KBegin(shape, fo, t) = 0
      /\ KEnd(shape, lo, t) = shape.k
      /\ \A p \in fo..(lo - 1) : KEnd(shape, p, t) = KBegin(shape, p + 1, t)
  BY ShapesAccepted, PartsFit
<1>3. DOMAIN Sum(t) = 1..n
  BY DEF Sum
<1>4. \A i \in 1..n : /\ Sum(t)[i].launch = launch /\ Sum(t)[i].tile = t
                      /\ Sum(t)[i].from = KBegin(shape, fo + i - 1, t)
                      /\ Sum(t)[i].to = KEnd(shape, fo + i - 1, t)
  BY DEF Sum, Part
<1> HIDE DEF n, fo, lo
<1>5. Len(Sum(t)) = n
  <2>1. Len(Sum(t)) \in Nat /\ DOMAIN Sum(t) = 1..Len(Sum(t))
    OBVIOUS
  <2> QED BY <1>1, <1>3, <2>1
<1>6. 1 \in 1..n /\ n \in 1..n
  BY <1>1
<1>7. Sum(t) # <<>>
  BY <1>1, <1>5
<1>8. Sum(t)[n].to = shape.k
  <2>1. fo + n - 1 = lo
    BY <1>1
  <2> QED BY <1>2, <1>4, <1>6, <2>1
<1>9. ASSUME NEW i \in 1..n
      PROVE  Sum(t)[i].from = IF i = 1 THEN 0 ELSE Sum(t)[i - 1].to
  <2>1. CASE i = 1
    <3>1. fo + i - 1 = fo
      BY <1>1, <2>1
    <3> QED BY <1>2, <1>4, <1>6, <2>1, <3>1
  <2>2. CASE i # 1
    <3>1. /\ i - 1 \in 1..n /\ fo + (i - 1) - 1 \in fo..(lo - 1)
          /\ (fo + (i - 1) - 1) + 1 = fo + i - 1
      BY <1>1, <2>2
    <3>2. KEnd(shape, fo + (i - 1) - 1, t) = KBegin(shape, fo + i - 1, t)
      BY <1>2, <3>1
    <3> QED BY <1>4, <2>2, <3>1, <3>2
  <2> QED BY <2>1, <2>2
<1> QED BY <1>3, <1>4, <1>5, <1>6, <1>7, <1>8, <1>9 DEF IsTileSum

(* When a launch ends, every fragment of the output holds the sum of all k   *)
(* iterations of the tile that belongs there, each of them once, of this     *)
(* launch and in the order of k: for every accepted shape, any number of     *)
(* workers, waves and launches and any interleaving                          *)
(* (_publish_streamk_partial, _finish_streamk_reduction,                     *)
(* _reduce_and_store_streamk_partials).                                      *)
THEOREM OutputIsExact == Spec => []OutputExact
<1>1. Init => IInv
  BY IInvInit
<1>2. IInv /\ [Next]_vars => IInv'
  BY IInvStep
<1>3. IInv => OutputExact
  <2> SUFFICES ASSUME IInv, AllDone, NEW x \in Places(shape), NEW v \in WaveIds
               PROVE  IsTileSum(x, output[x][v])
    BY DEF OutputExact
  <2>0. /\ Protocol /\ Control /\ WholeInv /\ SharedInv /\ shape \in Shapes
        /\ IsShape(shape) /\ TypeOK /\ shape.xcds \in Nat /\ shape.group \in Nat
    BY ShapesAccepted DEF IInv, Handover, Protocol, Control, TypeOK
  <2>1. PICK t \in Tiles(shape) : Place(shape, t) = x
    BY <2>0, PlacesBijective
  <2>2. PICK p \in Workers(shape) : t \in Mine(shape, p)
    BY <2>0, Visited
  <2>3. output[x][v] = Out(t, v) /\ output[x][v] \in Seq(Partial)
    BY <2>0, <2>1 DEF Out, TypeOK
  <2>4. CASE IsWholeTile(shape, p, t)
    <3>1. <<p, v>> \in Waves(shape) /\ <<p, v>>[1] = p /\ <<p, v>>[2] = v
      BY <2>0, WaveFacts
    <3>2. HasWritten(<<p, v>>, t)
      BY <2>0, <3>1, DoneFacts
    <3>3. Out(t, v) = WholeSum(p, t)
      BY <2>0, <2>2, <2>4, <3>1, <3>2 DEF WholeInv
    <3> QED BY <2>1, <2>3, <3>3, WholeIsTileSum
  <2>5. CASE ~IsWholeTile(shape, p, t)
    <3>1. Shared(shape, p, t)
      BY <2>2, <2>5 DEF Shared
    <3>2. Complete(t) /\ \A q \in Workers(shape) : ~Reducing(q, t)
      BY <2>0, <3>1, DoneCounters, DoneFacts
    <3>3. Out(t, v) = Sum(t)
      BY <2>0, <3>1, <3>2 DEF SharedInv
    <3> QED BY <2>0, <2>1, <2>3, <3>3, SumIsTileSum
  <2> QED BY <2>4, <2>5
<1> QED BY <1>1, <1>2, <1>3, PTL DEF Spec

(* A launch writes every fragment of the output and of the scratch memory at *)
(* most once: only one worker reduces a tile, each of its waves stores once, *)
(* and two slots are enough for the parts a worker has in flight             *)
(* (_store_streamk_partial, _emit_streamk_full_tile,                         *)
(* _reduce_and_store_streamk_partials).                                      *)
THEOREM NothingWrittenTwice == Spec => WrittenOnce
<1>1. Init => IInv
  BY IInvInit
<1>2. IInv /\ [Next]_vars => IInv'
  BY IInvStep
<1>3. IInv /\ [Next]_vars =>
        [/\ \A x \in Places(shape), v \in WaveIds :
              output'[x][v] # output[x][v] =>
                  \A i \in DOMAIN output[x][v] : output[x][v][i].launch < launch
         /\ \A f \in Fragments(shape) :
              scratch'[f] # scratch[f] => scratch[f].launch < launch]_vars
  <2> SUFFICES ASSUME IInv, [Next]_vars
               PROVE  /\ \A x \in Places(shape), v \in WaveIds :
                           output'[x][v] # output[x][v] => Old(output[x][v])
                      /\ \A f \in Fragments(shape) :
                           scratch'[f] # scratch[f] => scratch[f].launch < launch
    BY DEF Old
  <2>0. /\ Handover /\ Control /\ WholeInv /\ SharedInv /\ ScratchInv /\ shape \in Shapes
        /\ IsShape(shape) /\ TypeOK /\ shape.xcds \in Nat /\ shape.group \in Nat
        /\ scratch \in [Fragments(shape) -> Partial]
    BY ShapesAccepted DEF IInv, Handover, Protocol, Control, TypeOK
  <2>1. shape' = shape
    BY Unchanging
  <2>2. ASSUME NEW x \in Places(shape), NEW v \in WaveIds, output'[x][v] # output[x][v]
        PROVE  Old(output[x][v])
    <3>1. PICK t \in Tiles(shape) : Place(shape, t) = x
      BY <2>0, PlacesBijective
    <3>2. Out(t, v) = output[x][v] /\ Out(t, v)' = output'[x][v]
      BY <2>1, <3>1 DEF Out
    <3>3. ASSUME NEW w \in Waves(shape), WholeTile(w) PROVE Old(Out(t, v))
      <4>1. /\ tile[w] \in Mine(shape, w[1]) /\ IsWholeTile(shape, w[1], tile[w])
            /\ ~HasWritten(w, tile[w]) /\ WriteOutput(w, WholeSum(w[1], tile[w]))
        BY <2>0, <3>3, WholeTileFacts
      <4>2. t = tile[w] /\ v = w[2]
        BY <2>0, <2>1, <2>2, <3>2, <4>1, OutputWritten
      <4> QED BY <2>0, <4>1, <4>2 DEF WholeInv
    <3>4. ASSUME NEW w \in Waves(shape), StoreReduced(w) PROVE Old(Out(t, v))
      <4>1. /\ w[1] \in Workers(shape) /\ Shared(shape, w[1], tile[w])
            /\ Reducing(w[1], tile[w]) /\ pc[w] = "reduce"
            /\ WriteOutput(w, Sum(tile[w]))
        BY <2>0, <3>4, StoreReducedFacts
      <4>2. t = tile[w] /\ v = w[2]
        BY <2>0, <2>1, <2>2, <3>2, <4>1, OutputWritten
      <4>3. <<w[1], v>> = w
        BY <2>0, <4>2, WaveFacts
      <4> QED BY <2>0, <4>1, <4>2, <4>3 DEF SharedInv, Reduced
    <3>5. CASE \A w \in Waves(shape) : ~WholeTile(w) /\ ~StoreReduced(w)
      BY <2>2, <3>5, OutputKept
    <3> QED BY <3>2, <3>3, <3>4, <3>5
  <2>3. ASSUME NEW f \in Fragments(shape), scratch'[f] # scratch[f]
        PROVE  scratch[f].launch < launch
    <3>1. ~Relaunch
      BY <2>3 DEF Relaunch
    <3>2. PICK w \in Waves(shape) : StorePartial(w)
      BY <2>0, <2>3, <3>1, MemoryKept
    <3>3. /\ Shared(shape, w[1], tile[w]) /\ tile[w] \in Tiles(shape)
          /\ ~HasStored(w, tile[w])
          /\ scratch' = [scratch EXCEPT ![Fragment(w, tile[w])] = Part(w[1], tile[w])]
      BY <2>0, <3>2, StorePartialFacts
    <3>4. f = Fragment(w, tile[w])
      BY <2>0, <2>3, <3>3
    <3> QED BY <2>0, <3>3, <3>4 DEF ScratchInv
  <2> QED BY <2>2, <2>3
<1> QED BY <1>1, <1>2, <1>3, PTL DEF Spec, WrittenOnce

-----------------------------------------------------------------------------
(* Why a launch ends.  Three facts: a workgroup that is not done always has  *)
(* a step of its own to take, every step takes some wave forward and none    *)
(* back, and what a wave goes through is bounded.                            *)

(* The guards of the actions of Wave(w), Barrier and TileBarrier. *)
MayMove(w) ==
    \/ pc[w] = "tile" /\ IsWholeTile(shape, w[1], tile[w])
    \/ pc[w] = "tile" /\ ~IsWholeTile(shape, w[1], tile[w])
    \/ pc[w] = "written" /\ Pipelined(shape)
    \/ pc[w] \in {"publish", "mail", "elect", "acquire", "reset"}
    \/ pc[w] = "reduce" /\ FirstOwner(shape, tile[w]) + Len(acc[w]) <= LastOwner(shape, tile[w])
    \/ pc[w] = "reduce" /\ FirstOwner(shape, tile[w]) + Len(acc[w]) > LastOwner(shape, tile[w])
Barriers == {"stored", "mailed", "reduced", "written", "resetdone"}
MayPass(p) ==
    \E step \in Barriers : /\ step = "written" => ~Pipelined(shape)
                          /\ \A w \in Waves(shape) : w[1] = p => pc[w] = step

LEMMA WaveReady ==
    ASSUME Control, NEW w \in Waves(shape), pc[w] \notin Barriers, pc[w] # "done"
    PROVE  MayMove(w)
<1>1. /\ TypeOK /\ shape \in Shapes /\ IsShape(shape) /\ w[1] \in Workers(shape)
      /\ tile[w] \in Mine(shape, w[1]) /\ pc[w] \in Steps /\ acc[w] \in Seq(Partial)
  BY ShapesAccepted, WaveFacts DEF Control, WaveInv, TypeOK
<1>2. tile[w] \in Tiles(shape)
  BY <1>1, MineTiles
<1>3. FirstOwner(shape, tile[w]) \in Nat /\ LastOwner(shape, tile[w]) \in Nat
  BY <1>1, <1>2, OwnersFacts
<1>4. Len(acc[w]) \in Nat
  BY <1>1
<1>5. \/ FirstOwner(shape, tile[w]) + Len(acc[w]) <= LastOwner(shape, tile[w])
      \/ FirstOwner(shape, tile[w]) + Len(acc[w]) > LastOwner(shape, tile[w])
  BY <1>3, <1>4
<1>6. pc[w] \in {"tile", "publish", "mail", "elect", "acquire", "reduce", "reset"}
  BY <1>1 DEF Steps, Barriers
<1> QED BY <1>5, <1>6 DEF MayMove

(* No workgroup waits for another one: while one of its waves is not done, a *)
(* wave of it is not at a barrier, or all its waves are at the same one,     *)
(* whatever the other workgroups do (_emit_streamk_kernel,                   *)
(* _publish_streamk_partial).                                                *)
THEOREM NobodyWaits ==
    Spec => [](\A p \in Workers(shape) :
                  (\E v \in WaveIds : pc[<<p, v>>] # "done") =>
                      (\E v \in WaveIds : MayMove(<<p, v>>)) \/ MayPass(p))
<1>1. Init => Control
  BY ControlInit
<1>2. Control /\ [Next]_vars => Control'
  BY ControlStep
<1>3. Control => \A p \in Workers(shape) :
                    (\E v \in WaveIds : pc[<<p, v>>] # "done") =>
                        (\E v \in WaveIds : MayMove(<<p, v>>)) \/ MayPass(p)
  <2> SUFFICES ASSUME Control, NEW p \in Workers(shape), NEW v \in WaveIds,
                      pc[<<p, v>>] # "done", ~ \E x \in WaveIds : MayMove(<<p, x>>)
               PROVE  MayPass(p)
    OBVIOUS
  <2> DEFINE w == <<p, v>>
  <2>1. shape \in Shapes /\ WaveInv /\ SyncInv
    BY DEF Control, TypeOK
  <2>2. w \in Waves(shape) /\ w[1] = p
    BY <2>1, WaveFacts
  <2>3. \A u \in Waves(shape) : u[1] = p => ~MayMove(u)
    <3>1. \A u \in Waves(shape) : u[2] \in WaveIds /\ u = <<u[1], u[2]>>
      BY <2>1, WaveFacts
    <3> QED BY <3>1
  <2> HIDE DEF w
  <2>4. pc[w] \in Barriers
    BY <2>2, <2>3, WaveReady DEF w
  <2>6. ~Pipelined(shape)
    <3>1. pc[w] = "written" => ~Pipelined(shape)
      BY <2>2, <2>3 DEF MayMove
    <3> QED BY <2>2, <2>4, <3>1, NotPipelined DEF Barriers
  <2>5. ASSUME NEW u \in Waves(shape), u[1] = p PROVE pc[u] = pc[w]
    <3>1. pc[u] \in Barriers \/ pc[u] = "done"
      BY <2>3, <2>5, WaveReady
    <3>2. Level(u, w)
      BY <2>1, <2>2, <2>4, <2>5, <2>6, <3>1 DEF SyncInv, Ahead, Barriers
    <3>3. \A x \in {u, w} : /\ pc[x] = "written" => IsWholeTile(shape, p, tile[x])
                            /\ pc[x] = "stored" => ~IsWholeTile(shape, p, tile[x])
      BY <2>1, <2>2, <2>5 DEF WaveInv
    <3> QED BY <2>4, <3>1, <3>2, <3>3 DEF Level, Phase, Barriers
  <2> QED BY <2>4, <2>5, <2>6 DEF MayPass
<1> QED BY <1>1, <1>2, <1>3, PTL DEF Spec

(* The steps of a tile in the order in which a wave takes them. *)
Rank == [tile |-> 0, stored |-> 1, publish |-> 2, mail |-> 3, mailed |-> 4, elect |-> 5,
         acquire |-> 6, reduce |-> 7, reduced |-> 8, reset |-> 9, resetdone |-> 10,
         written |-> 11, done |-> 12]

Unmoved(w) == tile'[w] = tile[w] /\ pc'[w] = pc[w] /\ acc'[w] = acc[w]
Forward(w) ==
    \/ tile'[w] > tile[w]
    \/ tile'[w] = tile[w] /\ Rank[pc'[w]] > Rank[pc[w]]
    \/ tile'[w] = tile[w] /\ pc'[w] = pc[w] /\ Len(acc'[w]) > Len(acc[w])

(* A wave whose step or tile changes has gone forward. *)
LEMMA MovesForward ==
    ASSUME Control, [Next]_vars, ~Relaunch, NEW w \in Waves(shape),
           ~(tile'[w] = tile[w] /\ pc'[w] = pc[w])
    PROVE  Forward(w)
<1>1. /\ shape \in Shapes /\ IsShape(shape) /\ w[1] \in Workers(shape)
      /\ tile[w] \in Mine(shape, w[1]) /\ tile[w] \in Nat
      /\ pc[w] = "done" => ~HasNext(shape, w[1], tile[w])
  BY ShapesAccepted, WaveFacts DEF Control, WaveInv, TypeOK
<1>2. TileStep(shape) \in Nat \ {0}
  BY <1>1, NextTile
<1>3. CASE Advances(w)
  <2>1. CASE HasNext(shape, w[1], tile[w])
    <3>1. tile'[w] = tile[w] + TileStep(shape)
      BY <1>3, <2>1 DEF Advances
    <3> QED BY <1>1, <1>2, <3>1 DEF Forward
  <2>2. CASE ~HasNext(shape, w[1], tile[w])
    <3>1. tile'[w] = tile[w] /\ pc'[w] = "done" /\ pc[w] \in {"written", "resetdone", "elect"}
      BY <1>3, <2>2 DEF Advances
    <3> QED BY <3>1 DEF Forward, Rank
  <2> QED BY <2>1, <2>2
<1>4. CASE Continues(w)
  BY <1>4 DEF Continues, Forward, Rank
<1>5. CASE tile'[w] = tile[w] /\ \/ pc[w] = "tile" /\ pc'[w] \in {"written", "stored"}
                                 \/ pc[w] = "publish" /\ pc'[w] = "mail"
                                 \/ pc[w] = "reset" /\ pc'[w] = "resetdone"
  BY <1>5 DEF Forward, Rank
<1> QED BY <1>3, <1>4, <1>5, WaveMoves

(* A step of wave u, or of the waves of one workgroup, in which at least u   *)
(* moves and the sums of the others stay as they are.                        *)
LEMMA SomeForward ==
    ASSUME Control, [Next]_vars, ~Relaunch, NEW u \in Waves(shape),
           ~(tile'[u] = tile[u] /\ pc'[u] = pc[u]),
           \A w \in Waves(shape) : w # u => acc'[w] = acc[w]
    PROVE  /\ \A w \in Waves(shape) : Forward(w) \/ Unmoved(w)
           /\ \E w \in Waves(shape) : Forward(w)
<1>1. \A w \in Waves(shape) :
         ~(tile'[w] = tile[w] /\ pc'[w] = pc[w]) => Forward(w)
  BY MovesForward
<1> QED BY <1>1 DEF Unmoved

(* Every step takes some wave forward and none back: to a later tile, to a   *)
(* later step of its tile or, while it adds up, to the next partial sum; or  *)
(* all waves are done and the next launch begins.  No wave ever tries again  *)
(* what it has done, nor polls a counter (_emit_streamk_kernel,              *)
(* _publish_streamk_partial, _load_streamk_owner_registers).                 *)
THEOREM StepsGoForward ==
    Spec => [][\/ AllDone /\ launch' = launch + 1
               \/ /\ launch' = launch /\ shape' = shape
                  /\ \A w \in Waves(shape) : Forward(w) \/ Unmoved(w)
                  /\ \E w \in Waves(shape) : Forward(w)]_vars
<1>1. Init => Control
  BY ControlInit
<1>2. Control /\ [Next]_vars => Control'
  BY ControlStep
<1>3. Control /\ [Next]_vars =>
        [\/ AllDone /\ launch' = launch + 1
         \/ /\ launch' = launch /\ shape' = shape
            /\ \A w \in Waves(shape) : Forward(w) \/ Unmoved(w)
            /\ \E w \in Waves(shape) : Forward(w)]_vars
  <2> DEFINE Goal == /\ \A w \in Waves(shape) : Forward(w) \/ Unmoved(w)
                     /\ \E w \in Waves(shape) : Forward(w)
  <2>1. SUFFICES ASSUME Control, Next, ~Relaunch, ~(UNCHANGED vars)
                 PROVE  launch' = launch /\ shape' = shape /\ Goal
    BY DEF Relaunch
  <2>2. /\ TypeOK /\ shape \in Shapes /\ pc \in [Waves(shape) -> Steps]
        /\ acc \in [Waves(shape) -> Seq(Partial)]
    BY <2>1 DEF Control, TypeOK
  <2> HIDE DEF Goal
  <2>3. ASSUME NEW u \in Waves(shape), ~(tile'[u] = tile[u] /\ pc'[u] = pc[u]),
               \A w \in Waves(shape) : w # u => acc'[w] = acc[w]
        PROVE  Goal
    BY <2>1, <2>3, SomeForward DEF Goal
  <2>4. ASSUME NEW u \in Waves(shape), Wave(u)
        PROVE  launch' = launch /\ shape' = shape /\ Goal
    <3>1. ASSUME NEW step, Goto(u, step), pc[u] # step PROVE pc'[u] # pc[u]
      BY <2>2, <3>1 DEF Goto
    <3>2. CASE WholeTile(u)
      BY <2>3, <3>1, <3>2 DEF WholeTile
    <3>3. CASE StorePartial(u)
      BY <2>3, <3>1, <3>3 DEF StorePartial
    <3>4. CASE Publish(u)
      BY <2>3, <3>1, <3>4 DEF Publish
    <3>5. CASE Mail(u)
      BY <2>3, <3>1, <3>5 DEF Mail
    <3>6. CASE Elect(u)
      <4>1. pc'[u] # pc[u]
        <5>1. CASE IsLast(ArrivalCount(u), tile[u])
          BY <3>1, <3>6, <5>1 DEF Elect
        <5>2. CASE ~IsLast(ArrivalCount(u), tile[u])
          BY <3>6, <5>2 DEF Elect, Advance
        <5> QED BY <5>1, <5>2
      <4>2. acc' = acc /\ launch' = launch /\ shape' = shape
        BY <3>6 DEF Elect
      <4> QED BY <2>3, <4>1, <4>2
    <3>7. CASE Acquire(u)
      <4>1. pc'[u] # pc[u]
        BY <3>1, <3>7 DEF Acquire
      <4>2. /\ \A w \in Waves(shape) : w # u => acc'[w] = acc[w]
            /\ launch' = launch /\ shape' = shape
        BY <2>2, <3>7 DEF Acquire
      <4> QED BY <2>3, <4>1, <4>2
    <3>8. CASE Reduce(u)
      <4>1. /\ tile' = tile /\ pc' = pc /\ launch' = launch /\ shape' = shape
            /\ \E x : acc' = [acc EXCEPT ![u] = Append(@, x)]
        BY <3>8 DEF Reduce
      <4>2. PICK x : acc' = [acc EXCEPT ![u] = Append(@, x)]
        BY <4>1
      <4>3. acc'[u] = Append(acc[u], x) /\ \A w \in Waves(shape) : w # u => acc'[w] = acc[w]
        BY <2>2, <4>2
      <4>4. Len(acc'[u]) = Len(acc[u]) + 1 /\ Len(acc[u]) \in Nat
        <5>1. acc[u] \in Seq(Partial)
          BY <2>2
        <5> QED BY <4>3, <5>1
      <4>5. Forward(u)
        BY <4>1, <4>4 DEF Forward
      <4>6. \A w \in Waves(shape) : w # u => Unmoved(w)
        BY <4>1, <4>3 DEF Unmoved
      <4> QED BY <4>1, <4>5, <4>6 DEF Goal
    <3>9. CASE StoreReduced(u)
      <4>1. pc'[u] # pc[u]
        BY <3>1, <3>9 DEF StoreReduced
      <4>2. /\ \A w \in Waves(shape) : w # u => acc'[w] = acc[w]
            /\ launch' = launch /\ shape' = shape
        BY <2>2, <3>9 DEF StoreReduced
      <4> QED BY <2>3, <4>1, <4>2
    <3>10. CASE Reset(u)
      BY <2>3, <3>1, <3>10 DEF Reset
    <3>11. CASE LeaveTile(u)
      <4>1. pc'[u] # pc[u]
        BY <3>11 DEF LeaveTile, Advance
      <4>2. acc' = acc /\ launch' = launch /\ shape' = shape
        BY <3>11 DEF LeaveTile
      <4> QED BY <2>3, <4>1, <4>2
    <3> QED
      BY <2>4, <3>2, <3>3, <3>4, <3>5, <3>6, <3>7, <3>8, <3>9, <3>10, <3>11 DEF Wave
  <2>5. ASSUME NEW p \in Workers(shape), Workgroup(p)
        PROVE  launch' = launch /\ shape' = shape /\ Goal
    <3> DEFINE u == Lead(p)
    <3>1. u \in Waves(shape) /\ u[1] = p
      BY <2>2, LeadFacts
    <3> HIDE DEF u
    <3>2. ASSUME NEW step \in {"stored", "mailed", "reduced"}, Barrier(p, step)
          PROVE  launch' = launch /\ shape' = shape /\ Goal
      <4>1. pc[u] = step /\ pc'[u] = AfterBarrier(step, u)
        BY <3>1, <3>2 DEF Barrier
      <4>2. acc' = acc /\ launch' = launch /\ shape' = shape
        BY <3>2 DEF Barrier
      <4>3. pc'[u] # pc[u]
        BY <4>1 DEF AfterBarrier
      <4> QED BY <2>3, <3>1, <4>2, <4>3
    <3>3. ASSUME NEW step \in {"written", "resetdone"}, TileBarrier(p, step)
          PROVE  launch' = launch /\ shape' = shape /\ Goal
      <4>1. pc[u] = step /\ pc'[u] \in {"tile", "done"}
        BY <3>1, <3>3 DEF TileBarrier, Advance
      <4>2. acc' = acc /\ launch' = launch /\ shape' = shape
        BY <3>3 DEF TileBarrier
      <4> QED BY <2>3, <3>1, <4>1, <4>2
    <3> QED BY <2>5, <3>2, <3>3 DEF Workgroup
  <2> QED BY <2>1, <2>4, <2>5 DEF Next, Finished
<1> QED BY <1>1, <1>2, <1>3, PTL DEF Spec

(* What a wave goes through in a launch is finite: its tiles are tiles of    *)
(* the output, and a reducer adds up no more than the partial sums there are *)
(* (_streamk_partition, _load_streamk_owner_registers).                      *)
THEOREM WorkIsFinite ==
    Spec => [](\A w \in Waves(shape) :
                  /\ tile[w] \in Tiles(shape)
                  /\ pc[w] = "reduce" => Len(acc[w]) <= Parts(shape, tile[w]))
<1>1. Init => IInv
  BY IInvInit
<1>2. IInv /\ [Next]_vars => IInv'
  BY IInvStep
<1>3. IInv => \A w \in Waves(shape) :
                 /\ tile[w] \in Tiles(shape)
                 /\ pc[w] = "reduce" => Len(acc[w]) <= Parts(shape, tile[w])
  <2> SUFFICES ASSUME IInv, NEW w \in Waves(shape)
               PROVE  /\ tile[w] \in Tiles(shape)
                      /\ pc[w] = "reduce" => Len(acc[w]) <= Parts(shape, tile[w])
    OBVIOUS
  <2>1. Control /\ AccInv /\ shape \in Shapes
    BY DEF IInv, Handover, Protocol, Control, TypeOK
  <2>2. IsShape(shape) /\ w[1] \in Workers(shape) /\ tile[w] \in Mine(shape, w[1])
    BY <2>1, ShapesAccepted, WaveFacts DEF Control, WaveInv
  <2> QED BY <2>1, <2>2, MineTiles DEF AccInv
<1> QED BY <1>1, <1>2, <1>3, PTL DEF Spec
=============================================================================
