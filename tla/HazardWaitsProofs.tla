-------------------------- MODULE HazardWaitsProofs --------------------------
(***************************************************************************)
(* Proofs about HazardWaits, for all programs that HazardAssumption allows. *)
(***************************************************************************)
EXTENDS HazardWaits, WellFoundedInduction, TLAPS

-----------------------------------------------------------------------------
(* Numbers. *)

LEMMA LeastNumber ==
    ASSUME NEW T \in SUBSET Nat, T # {}
    PROVE  \E n \in T : \A k \in T : n <= k
<1> DEFINE R == OpToRel(<, Nat)
<1>1. \A x, y \in Nat : <<y, x>> \in R <=> y < x
  BY DEF OpToRel
<1>2. IsWellFoundedOn(R, Nat)
  BY NatLessThanWellFounded
<1>3. PICK n \in T : \A k \in T : ~(<<k, n>> \in R)
  <2> HIDE DEF R
  <2> QED BY <1>2, WFMin
<1>4. \A k \in T : ~(k < n)
  BY <1>1, <1>3
<1> QED BY <1>4

LEMMA MaxBounded ==
    ASSUME NEW n \in Nat, NEW T \in SUBSET (0..n), T # {}
    PROVE  Max(T) \in T /\ \A y \in T : y <= Max(T)
<1> DEFINE U == {n - y : y \in T}
<1>0. \A y \in T : n - y \in Nat
  OBVIOUS
<1>1. U \in SUBSET Nat /\ U # {}
  BY <1>0
<1>2. PICK m \in U : \A k \in U : m <= k
  <2> HIDE DEF U
  <2> QED BY <1>1, LeastNumber
<1>3. PICK x \in T : m = n - x
  OBVIOUS
<1>4. \A y \in T : x >= y
  <2>1. TAKE y \in T
  <2>2. n - y \in U
    OBVIOUS
  <2>3. n - x <= n - y
    BY <1>2, <1>3, <2>2
  <2> QED BY <2>3
<1>5. \E z \in T : \A y \in T : z >= y
  BY <1>4
<1>6. Max(T) \in T /\ \A y \in T : Max(T) >= y
  <2> HIDE DEF U
  <2> QED BY <1>5, Zenon DEF Max
<1> QED BY <1>6

LEMMA MinOfTwo ==
    ASSUME NEW a \in Int, NEW b \in Int
    PROVE  Min({a, b}) = IF a <= b THEN a ELSE b
<1>1. \E z \in {a, b} : \A y \in {a, b} : z <= y
  OBVIOUS
<1>2. Min({a, b}) \in {a, b} /\ \A y \in {a, b} : Min({a, b}) <= y
  BY <1>1, Zenon DEF Min
<1> QED BY <1>2

LEMMA LargerAbove ==
    \A a \in Int, b \in Int :
        Larger(a, b) \in {a, b} /\ a <= Larger(a, b) /\ b <= Larger(a, b)
  BY DEF Larger

-----------------------------------------------------------------------------
(* Hazards: merging and ageing. *)

LEMMA MergeHazard ==
    ASSUME NEW x \in Hazard, NEW y \in Hazard,
           x.remaining <= x.limit, y.remaining <= y.limit
    PROVE  /\ MergeEntry(x, y) \in Hazard
           /\ MergeEntry(x, y).limit = Larger(x.limit, y.limit)
           /\ MergeEntry(x, y).remaining = Larger(x.remaining, y.remaining)
           /\ MergeEntry(x, y).passes = Larger(x.passes, y.passes)
           /\ MergeEntry(x, y).remaining <= MergeEntry(x, y).limit
<1>1. DOMAIN x = {"limit", "remaining", "passes"}
  BY DEF Hazard
<1>2. MergeEntry(x, y) = [limit |-> Larger(x.limit, y.limit),
                          remaining |-> Larger(x.remaining, y.remaining),
                          passes |-> Larger(x.passes, y.passes)]
  BY <1>1 DEF MergeEntry
<1>3. x.limit \in 1..MostLimit /\ x.remaining \in 1..MostLimit /\ x.passes \in 0..MostPasses
      /\ y.limit \in 1..MostLimit /\ y.remaining \in 1..MostLimit /\ y.passes \in 0..MostPasses
  BY DEF Hazard
<1> QED BY <1>2, <1>3 DEF Hazard, Larger, MostLimit, MostPasses

MergedHazards(f, g, m) ==
    /\ IsHazards(m)
    /\ DOMAIN m = DOMAIN f \union DOMAIN g
    /\ \A k \in DOMAIN f \ DOMAIN g : m[k] = f[k]
    /\ \A k \in DOMAIN g \ DOMAIN f : m[k] = g[k]
    /\ \A k \in DOMAIN f \intersect DOMAIN g :
          /\ m[k].limit = Larger(f[k].limit, g[k].limit)
          /\ m[k].remaining = Larger(f[k].remaining, g[k].remaining)
          /\ m[k].passes = Larger(f[k].passes, g[k].passes)

LEMMA MergeHazards ==
    ASSUME NEW f, NEW g, IsHazards(f), IsHazards(g)
    PROVE  MergedHazards(f, g, Merge(f, g))
<1>1. DOMAIN Merge(f, g) = DOMAIN f \union DOMAIN g
  BY DEF Merge
<1>2. \A k \in DOMAIN f \ DOMAIN g : Merge(f, g)[k] = f[k]
  BY DEF Merge
<1>3. \A k \in DOMAIN g \ DOMAIN f : Merge(f, g)[k] = g[k]
  BY DEF Merge
<1>4. \A k \in DOMAIN f \intersect DOMAIN g : Merge(f, g)[k] = MergeEntry(f[k], g[k])
  BY DEF Merge
<1>5. \A k \in DOMAIN f : f[k] \in Hazard /\ f[k].remaining <= f[k].limit
  BY DEF IsHazards
<1>6. \A k \in DOMAIN g : g[k] \in Hazard /\ g[k].remaining <= g[k].limit
  BY DEF IsHazards
<1>7. \A k \in DOMAIN f \intersect DOMAIN g :
         /\ Merge(f, g)[k] \in Hazard /\ Merge(f, g)[k].remaining <= Merge(f, g)[k].limit
         /\ Merge(f, g)[k].limit = Larger(f[k].limit, g[k].limit)
         /\ Merge(f, g)[k].remaining = Larger(f[k].remaining, g[k].remaining)
         /\ Merge(f, g)[k].passes = Larger(f[k].passes, g[k].passes)
  BY <1>4, <1>5, <1>6, MergeHazard
<1>8. \A k \in DOMAIN f \union DOMAIN g :
         Merge(f, g)[k] \in Hazard /\ Merge(f, g)[k].remaining <= Merge(f, g)[k].limit
  BY <1>2, <1>3, <1>5, <1>6, <1>7
<1>9. Merge(f, g) = [k \in DOMAIN Merge(f, g) |-> Merge(f, g)[k]]
  BY DEF Merge
<1> QED BY <1>1, <1>2, <1>3, <1>4, <1>7, <1>8, <1>9 DEF IsHazards, MergedHazards

LEMMA AgedHazards ==
    ASSUME NEW f, IsHazards(f), NEW n \in Nat
    PROVE  /\ IsHazards(Aged(f, n))
           /\ DOMAIN Aged(f, n) = {k \in DOMAIN f : f[k].remaining > n}
           /\ \A k \in DOMAIN Aged(f, n) :
                 /\ Aged(f, n)[k].limit = f[k].limit
                 /\ Aged(f, n)[k].remaining = f[k].remaining - n
                 /\ Aged(f, n)[k].passes = f[k].passes
<1> DEFINE D == {k \in DOMAIN f : f[k].remaining > n}
<1>1. DOMAIN Aged(f, n) = D
  BY DEF Aged
<1>2. \A k \in DOMAIN f : f[k] \in Hazard /\ f[k].remaining <= f[k].limit
  BY DEF IsHazards
<1>3. \A k \in D : Aged(f, n)[k] = [f[k] EXCEPT !.remaining = @ - n]
  BY DEF Aged
<1>4. \A k \in D : Aged(f, n)[k] = [limit |-> f[k].limit, remaining |-> f[k].remaining - n,
                                    passes |-> f[k].passes]
  BY <1>2, <1>3 DEF Hazard
<1>5. \A k \in D : /\ f[k].limit \in 1..MostLimit /\ f[k].remaining \in 1..MostLimit
                   /\ f[k].passes \in 0..MostPasses /\ f[k].remaining - n \in 1..MostLimit
                   /\ f[k].remaining - n <= f[k].limit
  <2>1. TAKE k \in D
  <2>2. /\ f[k].limit \in 1..MostLimit /\ f[k].remaining \in 1..MostLimit
        /\ f[k].passes \in 0..MostPasses /\ f[k].remaining > n
        /\ f[k].remaining <= f[k].limit
    BY <1>2 DEF Hazard
  <2>3. \A l \in 1..MostLimit, r \in 1..MostLimit : r > n /\ r <= l =>
           r - n \in 1..MostLimit /\ r - n <= l
    BY DEF MostLimit, MostPasses
  <2> HIDE DEF D
  <2> QED BY <2>2, <2>3
<1>6. \A k \in D : /\ Aged(f, n)[k] \in Hazard
                   /\ Aged(f, n)[k].remaining <= Aged(f, n)[k].limit
                   /\ Aged(f, n)[k].limit = f[k].limit
                   /\ Aged(f, n)[k].remaining = f[k].remaining - n
                   /\ Aged(f, n)[k].passes = f[k].passes
  <2>1. TAKE k \in D
  <2>2. Aged(f, n)[k] = [limit |-> f[k].limit, remaining |-> f[k].remaining - n,
                         passes |-> f[k].passes]
    BY <1>4
  <2> HIDE DEF D
  <2> QED BY <2>2, <1>5 DEF Hazard
<1>7. Aged(f, n) = [k \in DOMAIN Aged(f, n) |-> Aged(f, n)[k]]
  BY DEF Aged
<1> HIDE DEF D
<1>8. IsHazards(Aged(f, n))
  BY <1>1, <1>6, <1>7 DEF IsHazards
<1> QED BY <1>1, <1>6, <1>8 DEF D

(* Two agings are one. *)
LEMMA AgedTwice ==
    ASSUME NEW f, IsHazards(f), NEW m \in Nat, NEW n \in Nat
    PROVE  Aged(Aged(f, m), n) = Aged(f, m + n)
<1> DEFINE a == Aged(f, m)
           b == Aged(a, n)
           c == Aged(f, m + n)
<1>0. \A k \in DOMAIN f : f[k] \in Hazard
  BY DEF IsHazards
<1>1. /\ IsHazards(a) /\ DOMAIN a = {k \in DOMAIN f : f[k].remaining > m}
      /\ \A k \in DOMAIN a : /\ a[k].limit = f[k].limit /\ a[k].remaining = f[k].remaining - m
                             /\ a[k].passes = f[k].passes
  BY AgedHazards
<1> HIDE DEF a
<1>2. /\ IsHazards(b) /\ DOMAIN b = {k \in DOMAIN a : a[k].remaining > n}
      /\ \A k \in DOMAIN b : /\ b[k].limit = a[k].limit /\ b[k].remaining = a[k].remaining - n
                             /\ b[k].passes = a[k].passes
  BY <1>1, AgedHazards
<1>3. /\ IsHazards(c) /\ DOMAIN c = {k \in DOMAIN f : f[k].remaining > m + n}
      /\ \A k \in DOMAIN c : /\ c[k].limit = f[k].limit
                             /\ c[k].remaining = f[k].remaining - (m + n)
                             /\ c[k].passes = f[k].passes
  <2>1. m + n \in Nat
    OBVIOUS
  <2> QED BY <2>1, AgedHazards
<1> HIDE DEF b, c
<1>4. \A k \in DOMAIN f : f[k].remaining \in Nat
  BY <1>0 DEF Hazard
<1>5. DOMAIN b = DOMAIN c
  BY <1>1, <1>2, <1>3, <1>4
<1>6. ASSUME NEW k \in DOMAIN b PROVE b[k] = c[k]
  <2>1. k \in DOMAIN a /\ k \in DOMAIN f /\ k \in DOMAIN c
    BY <1>1, <1>2, <1>5
  <2>2. b[k].limit = c[k].limit /\ b[k].remaining = c[k].remaining /\ b[k].passes = c[k].passes
    BY <2>1, <1>1, <1>2, <1>3, <1>4
  <2>3. b[k] \in Hazard /\ c[k] \in Hazard
    BY <1>2, <1>3, <2>1 DEF IsHazards
  <2> QED BY <2>2, <2>3 DEF Hazard
<1>7. b = [k \in DOMAIN b |-> b[k]] /\ c = [k \in DOMAIN c |-> c[k]]
  BY <1>2, <1>3 DEF IsHazards
<1>8. b = c
  BY <1>5, <1>6, <1>7
<1> QED BY <1>8 DEF a, b, c

(* No ageing is none. *)
LEMMA AgedByZero ==
    ASSUME NEW f, IsHazards(f)
    PROVE  Aged(f, 0) = f
<1> DEFINE c == Aged(f, 0)
<1>0. \A k \in DOMAIN f : f[k] \in Hazard
  BY DEF IsHazards
<1>1. /\ IsHazards(c) /\ DOMAIN c = {k \in DOMAIN f : f[k].remaining > 0}
      /\ \A k \in DOMAIN c : /\ c[k].limit = f[k].limit /\ c[k].remaining = f[k].remaining - 0
                             /\ c[k].passes = f[k].passes
  BY AgedHazards
<1> HIDE DEF c
<1>2. \A k \in DOMAIN f : f[k].remaining > 0 /\ f[k].remaining \in Nat
  BY <1>0 DEF Hazard
<1>3. DOMAIN c = DOMAIN f
  BY <1>1, <1>2
<1>4. ASSUME NEW k \in DOMAIN f PROVE c[k] = f[k]
  <2>1. c[k].limit = f[k].limit /\ c[k].remaining = f[k].remaining /\ c[k].passes = f[k].passes
    BY <1>1, <1>2, <1>3
  <2>2. c[k] \in Hazard /\ f[k] \in Hazard
    BY <1>0, <1>1, <1>3 DEF IsHazards
  <2> QED BY <2>1, <2>2 DEF Hazard
<1>5. f = [k \in DOMAIN f |-> f[k]] /\ c = [k \in DOMAIN c |-> c[k]]
  BY <1>1 DEF IsHazards
<1>6. c = f
  BY <1>3, <1>4, <1>5
<1> QED BY <1>6 DEF c

-----------------------------------------------------------------------------
(* Coexecution hazards: merging and ageing. *)

LEMMA MergeForwarding ==
    ASSUME NEW x \in Forwarding, NEW y \in Forwarding
    PROVE  /\ MergeEntry(x, y) \in Forwarding
           /\ MergeEntry(x, y).wmma = Larger(x.wmma, y.wmma)
           /\ MergeEntry(x, y).valu = Larger(x.valu, y.valu)
<1>1. DOMAIN x = {"wmma", "valu"}
  BY DEF Forwarding
<1>2. MergeEntry(x, y) = [wmma |-> Larger(x.wmma, y.wmma), valu |-> Larger(x.valu, y.valu)]
  BY <1>1 DEF MergeEntry
<1>3. x.wmma \in 0..MostLimit /\ x.valu \in 0..MostLimit
      /\ y.wmma \in 0..MostLimit /\ y.valu \in 0..MostLimit
  BY DEF Forwarding
<1> QED BY <1>2, <1>3 DEF Forwarding, Larger

MergedCoexec(f, g, m) ==
    /\ IsCoexec(m)
    /\ DOMAIN m = DOMAIN f \union DOMAIN g
    /\ \A k \in DOMAIN f \ DOMAIN g : m[k] = f[k]
    /\ \A k \in DOMAIN g \ DOMAIN f : m[k] = g[k]
    /\ \A k \in DOMAIN f \intersect DOMAIN g :
          /\ m[k].wmma = Larger(f[k].wmma, g[k].wmma)
          /\ m[k].valu = Larger(f[k].valu, g[k].valu)

LEMMA MergeCoexec ==
    ASSUME NEW f, NEW g, IsCoexec(f), IsCoexec(g)
    PROVE  MergedCoexec(f, g, Merge(f, g))
<1>1. DOMAIN Merge(f, g) = DOMAIN f \union DOMAIN g
  BY DEF Merge
<1>2. \A k \in DOMAIN f \ DOMAIN g : Merge(f, g)[k] = f[k]
  BY DEF Merge
<1>3. \A k \in DOMAIN g \ DOMAIN f : Merge(f, g)[k] = g[k]
  BY DEF Merge
<1>4. \A k \in DOMAIN f \intersect DOMAIN g : Merge(f, g)[k] = MergeEntry(f[k], g[k])
  BY DEF Merge
<1>5. (\A k \in DOMAIN f : f[k] \in Forwarding) /\ (\A k \in DOMAIN g : g[k] \in Forwarding)
  BY DEF IsCoexec
<1>6. \A k \in DOMAIN f \intersect DOMAIN g :
         /\ Merge(f, g)[k] \in Forwarding
         /\ Merge(f, g)[k].wmma = Larger(f[k].wmma, g[k].wmma)
         /\ Merge(f, g)[k].valu = Larger(f[k].valu, g[k].valu)
  BY <1>4, <1>5, MergeForwarding
<1>7. \A k \in DOMAIN f \union DOMAIN g : Merge(f, g)[k] \in Forwarding
  BY <1>2, <1>3, <1>5, <1>6
<1>8. Merge(f, g) = [k \in DOMAIN Merge(f, g) |-> Merge(f, g)[k]]
  BY DEF Merge
<1> QED BY <1>1, <1>2, <1>3, <1>6, <1>7, <1>8 DEF IsCoexec, MergedCoexec

LEMMA AgedForwarding ==
    ASSUME NEW f, IsCoexec(f), NEW n \in Nat
    PROVE  /\ IsCoexec(AgedCoexec(f, n))
           /\ DOMAIN AgedCoexec(f, n) = {k \in DOMAIN f : f[k].wmma > n \/ f[k].valu > n}
           /\ \A k \in DOMAIN AgedCoexec(f, n) :
                 /\ AgedCoexec(f, n)[k].wmma = Less(f[k].wmma, n)
                 /\ AgedCoexec(f, n)[k].valu = Less(f[k].valu, n)
<1> DEFINE D == {k \in DOMAIN f : f[k].wmma > n \/ f[k].valu > n}
<1>1. DOMAIN AgedCoexec(f, n) = D
  BY DEF AgedCoexec
<1>2. \A k \in D :
         AgedCoexec(f, n)[k] = [wmma |-> Less(f[k].wmma, n), valu |-> Less(f[k].valu, n)]
  BY DEF AgedCoexec
<1>3. \A m \in 0..MostLimit : Less(m, n) \in 0..MostLimit
  BY DEF MostLimit, MostPasses, Less
<1>4. \A k \in DOMAIN f : f[k].wmma \in 0..MostLimit /\ f[k].valu \in 0..MostLimit
  BY DEF IsCoexec, Forwarding
<1>5. AgedCoexec(f, n) = [k \in DOMAIN AgedCoexec(f, n) |-> AgedCoexec(f, n)[k]]
  BY DEF AgedCoexec
<1>6. \A k \in D : k \in DOMAIN f
  OBVIOUS
<1> HIDE DEF D
<1>7. ASSUME NEW k \in D PROVE AgedCoexec(f, n)[k] \in Forwarding
  <2>1. Less(f[k].wmma, n) \in 0..MostLimit /\ Less(f[k].valu, n) \in 0..MostLimit
    BY <1>3, <1>4, <1>6
  <2>2. [wmma |-> Less(f[k].wmma, n), valu |-> Less(f[k].valu, n)] \in Forwarding
    BY <2>1 DEF Forwarding
  <2> QED BY <1>2, <2>2
<1>8. IsCoexec(AgedCoexec(f, n))
  BY <1>1, <1>5, <1>7 DEF IsCoexec
<1>9. ASSUME NEW k \in D PROVE /\ AgedCoexec(f, n)[k].wmma = Less(f[k].wmma, n)
                                /\ AgedCoexec(f, n)[k].valu = Less(f[k].valu, n)
  <2> DEFINE w == Less(f[k].wmma, n)
             v == Less(f[k].valu, n)
  <2>1. AgedCoexec(f, n)[k] = [wmma |-> w, valu |-> v]
    BY <1>2
  <2> HIDE DEF w, v
  <2>2. AgedCoexec(f, n)[k].wmma = w /\ AgedCoexec(f, n)[k].valu = v
    BY <2>1
  <2> QED BY <2>2 DEF w, v
<1> QED BY <1>1, <1>8, <1>9 DEF D

-----------------------------------------------------------------------------
(* States: the order of the analysis, and joining. *)

HazardsBelow(f, g) ==
    \A k \in DOMAIN f :
        /\ k \in DOMAIN g
        /\ f[k].limit <= g[k].limit /\ f[k].remaining <= g[k].remaining
        /\ f[k].passes <= g[k].passes

CoexecBelow(f, g) ==
    \A k \in DOMAIN f :
        k \in DOMAIN g /\ f[k].wmma <= g[k].wmma /\ f[k].valu <= g[k].valu

Below(r, s) ==
    /\ r.lgkmToValu <= s.lgkmToValu /\ r.lgkmPending <= s.lgkmPending
    /\ HazardsBelow(r.hazards, s.hazards)
    /\ CoexecBelow(r.coexec, s.coexec)
    /\ \A b \in ScratchBases : r.scratchBase[b] <= s.scratchBase[b]

LEMMA MergeBases ==
    ASSUME NEW f \in [ScratchBases -> 0..ScratchBaseWrites],
           NEW g \in [ScratchBases -> 0..ScratchBaseWrites]
    PROVE  /\ MergeEntry(f, g) \in [ScratchBases -> 0..ScratchBaseWrites]
           /\ \A b \in ScratchBases : MergeEntry(f, g)[b] = Larger(f[b], g[b])
  BY DEF MergeEntry, Larger

LEMMA MergeHazardsAbove ==
    ASSUME NEW f, NEW g, IsHazards(f), IsHazards(g)
    PROVE  HazardsBelow(f, Merge(f, g)) /\ HazardsBelow(g, Merge(f, g))
<1> DEFINE m == Merge(f, g)
           Under(x, y) == x.limit <= y.limit /\ x.remaining <= y.remaining /\ x.passes <= y.passes
<1>1. \A x \in Hazard : Under(x, x)
  BY DEF Hazard
<1>2. \A x \in Hazard, y \in Hazard, z \in Hazard :
         z.limit = Larger(x.limit, y.limit) /\ z.remaining = Larger(x.remaining, y.remaining)
           /\ z.passes = Larger(x.passes, y.passes) => Under(x, z) /\ Under(y, z)
  <2>1. \A x \in Hazard : x.limit \in Int /\ x.remaining \in Int /\ x.passes \in Int
    BY DEF Hazard
  <2> QED BY <2>1, LargerAbove
<1>3. /\ DOMAIN m = DOMAIN f \union DOMAIN g
      /\ \A k \in DOMAIN f \ DOMAIN g : m[k] = f[k]
      /\ \A k \in DOMAIN g \ DOMAIN f : m[k] = g[k]
      /\ \A k \in DOMAIN f \intersect DOMAIN g :
            /\ m[k].limit = Larger(f[k].limit, g[k].limit)
            /\ m[k].remaining = Larger(f[k].remaining, g[k].remaining)
            /\ m[k].passes = Larger(f[k].passes, g[k].passes)
      /\ IsHazards(m)
  <2>1. MergedHazards(f, g, m)
    BY MergeHazards
  <2> HIDE DEF m
  <2> QED BY <2>1 DEF MergedHazards
<1> HIDE DEF m
<1>4. /\ \A k \in DOMAIN m : m[k] \in Hazard
      /\ \A k \in DOMAIN f : f[k] \in Hazard
      /\ \A k \in DOMAIN g : g[k] \in Hazard
  BY <1>3 DEF IsHazards
<1> HIDE DEF Under
<1>5. ASSUME NEW k \in DOMAIN f PROVE k \in DOMAIN m /\ Under(f[k], m[k])
  <2>0. k \in DOMAIN m
    BY <1>3
  <2>1. CASE k \in DOMAIN g
    BY <1>2, <1>3, <1>4, <2>0, <2>1
  <2>2. CASE k \notin DOMAIN g
    <3>1. m[k] = f[k]
      BY <1>3, <2>2
    <3> QED BY <1>1, <1>4, <2>0, <3>1
  <2> QED BY <2>1, <2>2
<1>6. ASSUME NEW k \in DOMAIN g PROVE k \in DOMAIN m /\ Under(g[k], m[k])
  <2>0. k \in DOMAIN m
    BY <1>3
  <2>1. CASE k \in DOMAIN f
    BY <1>2, <1>3, <1>4, <2>0, <2>1
  <2>2. CASE k \notin DOMAIN f
    <3>1. m[k] = g[k]
      BY <1>3, <2>2
    <3> QED BY <1>1, <1>4, <2>0, <3>1
  <2> QED BY <2>1, <2>2
<1> QED BY <1>5, <1>6 DEF HazardsBelow, m, Under

LEMMA MergeCoexecAbove ==
    ASSUME NEW f, NEW g, IsCoexec(f), IsCoexec(g)
    PROVE  CoexecBelow(f, Merge(f, g)) /\ CoexecBelow(g, Merge(f, g))
<1> DEFINE m == Merge(f, g)
           Under(x, y) == x.wmma <= y.wmma /\ x.valu <= y.valu
<1>1. \A x \in Forwarding : Under(x, x)
  BY DEF Forwarding
<1>2. \A x \in Forwarding, y \in Forwarding, z \in Forwarding :
         z.wmma = Larger(x.wmma, y.wmma) /\ z.valu = Larger(x.valu, y.valu) =>
            Under(x, z) /\ Under(y, z)
  <2>1. \A x \in Forwarding : x.wmma \in Int /\ x.valu \in Int
    BY DEF Forwarding
  <2> QED BY <2>1, LargerAbove
<1>3. /\ DOMAIN m = DOMAIN f \union DOMAIN g
      /\ \A k \in DOMAIN f \ DOMAIN g : m[k] = f[k]
      /\ \A k \in DOMAIN g \ DOMAIN f : m[k] = g[k]
      /\ \A k \in DOMAIN f \intersect DOMAIN g :
            m[k].wmma = Larger(f[k].wmma, g[k].wmma) /\ m[k].valu = Larger(f[k].valu, g[k].valu)
      /\ IsCoexec(m)
  <2>1. MergedCoexec(f, g, m)
    BY MergeCoexec
  <2> HIDE DEF m
  <2> QED BY <2>1 DEF MergedCoexec
<1> HIDE DEF m
<1>4. /\ \A k \in DOMAIN m : m[k] \in Forwarding
      /\ \A k \in DOMAIN f : f[k] \in Forwarding
      /\ \A k \in DOMAIN g : g[k] \in Forwarding
  BY <1>3 DEF IsCoexec
<1> HIDE DEF Under
<1>5. ASSUME NEW k \in DOMAIN f PROVE k \in DOMAIN m /\ Under(f[k], m[k])
  <2>0. k \in DOMAIN m
    BY <1>3
  <2>1. CASE k \in DOMAIN g
    BY <1>2, <1>3, <1>4, <2>0, <2>1
  <2>2. CASE k \notin DOMAIN g
    <3>1. m[k] = f[k]
      BY <1>3, <2>2
    <3> QED BY <1>1, <1>4, <2>0, <3>1
  <2> QED BY <2>1, <2>2
<1>6. ASSUME NEW k \in DOMAIN g PROVE k \in DOMAIN m /\ Under(g[k], m[k])
  <2>0. k \in DOMAIN m
    BY <1>3
  <2>1. CASE k \in DOMAIN f
    BY <1>2, <1>3, <1>4, <2>0, <2>1
  <2>2. CASE k \notin DOMAIN f
    <3>1. m[k] = g[k]
      BY <1>3, <2>2
    <3> QED BY <1>1, <1>4, <2>0, <3>1
  <2> QED BY <2>1, <2>2
<1> QED BY <1>5, <1>6 DEF CoexecBelow, m, Under

LEMMA JoinType ==
    ASSUME NEW s, NEW r, IsState(s), IsState(r)
    PROVE  IsState(JoinWith(s, r))
<1> DEFINE j == JoinWith(s, r)
<1>1. /\ j.lgkmToValu = Larger(s.lgkmToValu, r.lgkmToValu)
      /\ j.lgkmPending = Larger(s.lgkmPending, r.lgkmPending)
      /\ j.hazards = Merge(s.hazards, r.hazards)
      /\ j.coexec = Merge(s.coexec, r.coexec)
      /\ j.scratchBase = MergeEntry(s.scratchBase, r.scratchBase)
      /\ j = [lgkmToValu |-> j.lgkmToValu, lgkmPending |-> j.lgkmPending,
              hazards |-> j.hazards, coexec |-> j.coexec, scratchBase |-> j.scratchBase]
  BY DEF JoinWith
<1> HIDE DEF j
<1>2. /\ IsHazards(s.hazards) /\ IsHazards(r.hazards)
      /\ IsCoexec(s.coexec) /\ IsCoexec(r.coexec)
      /\ s.scratchBase \in [ScratchBases -> 0..ScratchBaseWrites]
      /\ r.scratchBase \in [ScratchBases -> 0..ScratchBaseWrites]
  BY DEF IsState
<1>3. IsHazards(j.hazards) /\ IsCoexec(j.coexec)
      /\ j.scratchBase \in [ScratchBases -> 0..ScratchBaseWrites]
  <2>1. IsHazards(Merge(s.hazards, r.hazards))
    BY <1>2, MergeHazards DEF MergedHazards
  <2>2. IsCoexec(Merge(s.coexec, r.coexec))
    BY <1>2, MergeCoexec DEF MergedCoexec
  <2>3. MergeEntry(s.scratchBase, r.scratchBase) \in [ScratchBases -> 0..ScratchBaseWrites]
    BY <1>2, MergeBases
  <2> QED BY <1>1, <2>1, <2>2, <2>3
<1>4. j.lgkmToValu \in 0..1 /\ j.lgkmPending \in 0..(LgkmDefault + 1)
  <2>1. s.lgkmToValu \in 0..1 /\ s.lgkmPending \in 0..(LgkmDefault + 1)
        /\ r.lgkmToValu \in 0..1 /\ r.lgkmPending \in 0..(LgkmDefault + 1)
    BY DEF IsState
  <2>2. j.lgkmToValu \in {s.lgkmToValu, r.lgkmToValu}
        /\ j.lgkmPending \in {s.lgkmPending, r.lgkmPending}
    BY <1>1 DEF Larger
  <2> QED BY <2>1, <2>2
<1>5. IsState(j)
  BY <1>1, <1>3, <1>4 DEF IsState
<1> QED BY <1>5 DEF j

(* A state that a join leaves alone is above the other. *)
LEMMA JoinAbove ==
    ASSUME NEW s, NEW r, IsState(s), IsState(r)
    PROVE  Below(s, JoinWith(s, r)) /\ Below(r, JoinWith(s, r))
<1> DEFINE j == JoinWith(s, r)
<1>1. /\ j.lgkmToValu = Larger(s.lgkmToValu, r.lgkmToValu)
      /\ j.lgkmPending = Larger(s.lgkmPending, r.lgkmPending)
      /\ j.hazards = Merge(s.hazards, r.hazards)
      /\ j.coexec = Merge(s.coexec, r.coexec)
      /\ j.scratchBase = MergeEntry(s.scratchBase, r.scratchBase)
  BY DEF JoinWith
<1> HIDE DEF j
<1>2. /\ IsHazards(s.hazards) /\ IsHazards(r.hazards)
      /\ IsCoexec(s.coexec) /\ IsCoexec(r.coexec)
      /\ s.scratchBase \in [ScratchBases -> 0..ScratchBaseWrites]
      /\ r.scratchBase \in [ScratchBases -> 0..ScratchBaseWrites]
  BY DEF IsState
<1>3. HazardsBelow(s.hazards, j.hazards) /\ HazardsBelow(r.hazards, j.hazards)
  BY <1>1, <1>2, MergeHazardsAbove
<1>4. CoexecBelow(s.coexec, j.coexec) /\ CoexecBelow(r.coexec, j.coexec)
  BY <1>1, <1>2, MergeCoexecAbove
<1>5. \A b \in ScratchBases : /\ s.scratchBase[b] <= j.scratchBase[b]
                             /\ r.scratchBase[b] <= j.scratchBase[b]
  BY <1>1, <1>2, MergeBases DEF Larger
<1>6. /\ s.lgkmToValu <= j.lgkmToValu /\ s.lgkmPending <= j.lgkmPending
      /\ r.lgkmToValu <= j.lgkmToValu /\ r.lgkmPending <= j.lgkmPending
  BY <1>1 DEF IsState, Larger
<1>7. Below(s, j) /\ Below(r, j)
  BY <1>3, <1>4, <1>5, <1>6 DEF Below
<1> QED BY <1>7 DEF j

-----------------------------------------------------------------------------
(* What an operation produces. *)

KindLimit(t, p, kind) ==
    CASE kind \in {"MfmaWrite", "MfmaStore"} -> XdlResult(t, p)
      [] kind = "MfmaSrcCRead" -> XdlSrcCReadWar(t, p)
      [] kind = "ValuWriteVGPR" -> 2
      [] kind = "Permlane32Swap" -> ValuPermlane(t)
      [] kind = "ValuWriteSGPR" -> SGPRToVMEM
      [] kind = "ValuWriteVcc" -> SGPRToVALU(t)
      [] kind = "ExecWrite" -> ExecLatency(t)
      [] kind = "TransWriteVGPR" -> TransLatency(t)
      [] kind = "DstSelWriteVGPR" -> DstSelLatency(t)
      [] kind = "StoreWriteData" -> p
      [] kind = "M0Write" -> M0Delay
      [] kind = "M0DmaCapture" -> M0DmaCapture(t)

Kinds == {"MfmaWrite", "MfmaStore", "MfmaSrcCRead", "ValuWriteVGPR", "Permlane32Swap",
          "ValuWriteSGPR", "ValuWriteVcc", "ExecWrite", "TransWriteVGPR", "DstSelWriteVGPR",
          "StoreWriteData", "M0Write", "M0DmaCapture"}

KindPasses(p, kind) == IF kind \in {"MfmaWrite", "MfmaSrcCRead"} THEN p ELSE 0

(* The limit and the passes of an entry follow from the kind of the hazard   *)
(* and the passes of the operation.                                          *)
IsEntry(t, op, e) ==
    \E span, kind :
        /\ kind \in Kinds
        /\ e = [key |-> <<span, kind>>, limit |-> KindLimit(t, op.passes, kind),
                passes |-> KindPasses(op.passes, kind)]
        /\ e.limit > 0
        /\ kind \in {"MfmaWrite", "MfmaStore"} => MFMA(op) /\ span = op.def
        /\ kind = "MfmaSrcCRead" => MFMA(op) /\ span = op.acc
        /\ kind = "M0Write" => span = {"m0"}

LEMMA ValuLimit ==
    ASSUME NEW t
    PROVE  Max({ValuMfma, ValuReadlane(t), ValuPermlane(t)}) = 2
<1> DEFINE T == {ValuMfma, ValuReadlane(t), ValuPermlane(t)}
<1>1. T \in SUBSET (0..2) /\ 2 \in T /\ T # {}
  BY DEF ValuMfma, ValuReadlane, ValuPermlane
<1> HIDE DEF T
<1>2. Max(T) \in T /\ \A y \in T : y <= Max(T)
  BY <1>1, MaxBounded
<1>3. Max(T) = 2
  <2>1. Max(T) \in 0..2 /\ 2 <= Max(T)
    BY <1>1, <1>2
  <2> QED BY <2>1
<1> QED BY <1>3 DEF T

LEMMA ProducedEntry ==
    ASSUME NEW t, NEW op, NEW e \in Produced(t, op)
    PROVE  IsEntry(t, op, e)
<1> DEFINE d == op.def
           p == op.passes
           valu == LegacyVALU(op)
<1>0. e.limit > 0
  BY DEF Produced
<1>1. \/ MFMA(op) /\ e = Entry(d, "MfmaWrite", XdlResult(t, p), p)
      \/ MFMA(op) /\ e = Entry(d, "MfmaStore", XdlResult(t, p), 0)
      \/ MFMA(op) /\ e = Entry(op.acc, "MfmaSrcCRead", XdlSrcCReadWar(t, p), p)
      \/ e = Entry(d, "ValuWriteVGPR", Max({ValuMfma, ValuReadlane(t), ValuPermlane(t)}), 0)
      \/ e = Entry(d, "Permlane32Swap", ValuPermlane(t), 0)
      \/ e = Entry(d, "ValuWriteSGPR", Larger(SGPRToVALU(t), SGPRToVMEM), 0)
      \/ e = Entry(d, "ValuWriteVcc", SGPRToVALU(t), 0)
      \/ e = Entry({"exec"}, "ExecWrite", ExecLatency(t), 0)
      \/ e = Entry(d, "TransWriteVGPR", TransLatency(t), 0)
      \/ e = Entry(d, "DstSelWriteVGPR", DstSelLatency(t), 0)
      \/ \E x \in op.uses : e = Entry(x, "StoreWriteData", p, 0)
      \/ e = Entry({"m0"}, "M0Write", M0Delay, 0)
      \/ e = Entry({"m0"}, "M0DmaCapture", M0DmaCapture(t), 0)
  BY Zenon DEF Produced
<1> HIDE DEF d, p, valu
<1>2. CASE MFMA(op) /\ e = Entry(d, "MfmaWrite", XdlResult(t, p), p)
  BY <1>0, <1>2 DEF IsEntry, Entry, KindLimit, KindPasses, Kinds, d, p
<1>3. CASE MFMA(op) /\ e = Entry(d, "MfmaStore", XdlResult(t, p), 0)
  BY <1>0, <1>3 DEF IsEntry, Entry, KindLimit, KindPasses, Kinds, d, p
<1>4. CASE MFMA(op) /\ e = Entry(op.acc, "MfmaSrcCRead", XdlSrcCReadWar(t, p), p)
  BY <1>0, <1>4 DEF IsEntry, Entry, KindLimit, KindPasses, Kinds, p
<1>5. CASE e = Entry(d, "ValuWriteVGPR", Max({ValuMfma, ValuReadlane(t), ValuPermlane(t)}), 0)
  BY <1>0, <1>5, ValuLimit DEF IsEntry, Entry, KindLimit, KindPasses, Kinds
<1>6. CASE e = Entry(d, "Permlane32Swap", ValuPermlane(t), 0)
  BY <1>0, <1>6 DEF IsEntry, Entry, KindLimit, KindPasses, Kinds
<1>7. CASE e = Entry(d, "ValuWriteSGPR", Larger(SGPRToVALU(t), SGPRToVMEM), 0)
  <2>1. Larger(SGPRToVALU(t), SGPRToVMEM) = SGPRToVMEM
    BY DEF Larger, SGPRToVALU, SGPRToVMEM
  <2> QED BY <1>0, <1>7, <2>1 DEF IsEntry, Entry, KindLimit, KindPasses, Kinds
<1>8. CASE e = Entry(d, "ValuWriteVcc", SGPRToVALU(t), 0)
  BY <1>0, <1>8 DEF IsEntry, Entry, KindLimit, KindPasses, Kinds
<1>9. CASE e = Entry({"exec"}, "ExecWrite", ExecLatency(t), 0)
  BY <1>0, <1>9 DEF IsEntry, Entry, KindLimit, KindPasses, Kinds
<1>10. CASE e = Entry(d, "TransWriteVGPR", TransLatency(t), 0)
  BY <1>0, <1>10 DEF IsEntry, Entry, KindLimit, KindPasses, Kinds
<1>11. CASE e = Entry(d, "DstSelWriteVGPR", DstSelLatency(t), 0)
  BY <1>0, <1>11 DEF IsEntry, Entry, KindLimit, KindPasses, Kinds
<1>12. CASE \E x \in op.uses : e = Entry(x, "StoreWriteData", p, 0)
  BY <1>0, <1>12 DEF IsEntry, Entry, KindLimit, KindPasses, Kinds, p
<1>13. CASE e = Entry({"m0"}, "M0Write", M0Delay, 0)
  BY <1>0, <1>13 DEF IsEntry, Entry, KindLimit, KindPasses, Kinds
<1>14. CASE e = Entry({"m0"}, "M0DmaCapture", M0DmaCapture(t), 0)
  BY <1>0, <1>14 DEF IsEntry, Entry, KindLimit, KindPasses, Kinds
<1> QED
  BY <1>1, <1>2, <1>3, <1>4, <1>5, <1>6, <1>7, <1>8, <1>9, <1>10, <1>11, <1>12, <1>13, <1>14

LEMMA KindLimits ==
    ASSUME NEW t, NEW p
    PROVE  /\ KindLimit(t, p, "MfmaWrite") = XdlResult(t, p)
           /\ KindLimit(t, p, "MfmaStore") = XdlResult(t, p)
           /\ KindLimit(t, p, "MfmaSrcCRead") = XdlSrcCReadWar(t, p)
           /\ KindLimit(t, p, "ValuWriteVGPR") = 2
           /\ KindLimit(t, p, "Permlane32Swap") = ValuPermlane(t)
           /\ KindLimit(t, p, "ValuWriteSGPR") = SGPRToVMEM
           /\ KindLimit(t, p, "ValuWriteVcc") = SGPRToVALU(t)
           /\ KindLimit(t, p, "ExecWrite") = ExecLatency(t)
           /\ KindLimit(t, p, "TransWriteVGPR") = TransLatency(t)
           /\ KindLimit(t, p, "DstSelWriteVGPR") = DstSelLatency(t)
           /\ KindLimit(t, p, "StoreWriteData") = p
           /\ KindLimit(t, p, "M0Write") = M0Delay
           /\ KindLimit(t, p, "M0DmaCapture") = M0DmaCapture(t)
  BY DEF KindLimit

(* The limits are in bounds. *)
LEMMA KindLimitType ==
    ASSUME NEW t, NEW p \in 0..MostPasses, NEW kind \in Kinds
    PROVE  /\ KindLimit(t, p, kind) \in Int /\ KindLimit(t, p, kind) <= MostLimit
           /\ KindPasses(p, kind) \in 0..MostPasses
<1>1. p \in Int /\ 0 <= p /\ p <= 64
  BY DEF MostPasses
<1>2. KindPasses(p, kind) \in 0..MostPasses
  BY <1>1 DEF KindPasses, MostPasses
<1>3. KindLimit(t, p, kind) \in Int /\ KindLimit(t, p, kind) <= MostLimit
  <2>1. XdlResult(t, p) \in 0..68 /\ XdlSrcCReadWar(t, p) \in Int /\ XdlSrcCReadWar(t, p) <= 68
    BY <1>1 DEF XdlResult, XdlSrcCReadWar
  <2>2. /\ ValuPermlane(t) \in 0..2 /\ SGPRToVMEM \in 0..5 /\ SGPRToVALU(t) \in 0..2
        /\ ExecLatency(t) \in 0..4 /\ TransLatency(t) \in 0..1 /\ DstSelLatency(t) \in 0..1
        /\ M0Delay \in 0..1 /\ M0DmaCapture(t) \in 0..1
    BY DEF ValuPermlane, SGPRToVMEM, SGPRToVALU, ExecLatency, TransLatency, DstSelLatency,
           M0Delay, M0DmaCapture
  <2>3. MostLimit = 68
    BY DEF MostLimit, MostPasses
  <2>4. \/ KindLimit(t, p, kind) \in {XdlResult(t, p), XdlSrcCReadWar(t, p), 2, p}
        \/ KindLimit(t, p, kind) \in {ValuPermlane(t), SGPRToVMEM, SGPRToVALU(t), ExecLatency(t),
              TransLatency(t), DstSelLatency(t), M0Delay, M0DmaCapture(t)}
    BY KindLimits DEF Kinds
  <2> QED BY <1>1, <2>1, <2>2, <2>3, <2>4
<1> QED BY <1>2, <1>3

(* What an MFMA and a VALU write leave under two kinds. *)
LEMMA Twins ==
    ASSUME NEW t, NEW op, IsOperation(t, op), NEW e \in Produced(t, op)
    PROVE  /\ e.key[2] = "MfmaStore" =>
                 \E f \in Produced(t, op) : f.key = <<e.key[1], "MfmaWrite">> /\ f.limit = e.limit
           /\ e.key[2] = "Permlane32Swap" =>
                 /\ t = "gfx950"
                 /\ \E f \in Produced(t, op) :
                       f.key = <<e.key[1], "ValuWriteVGPR">> /\ f.limit = e.limit
<1> DEFINE d == op.def
           p == op.passes
<1>1. CASE e.key[2] = "MfmaStore"
  <2>1. IsEntry(t, op, e)
    BY ProducedEntry
  <2>2. MFMA(op) /\ e.key[1] = op.def /\ e.limit = XdlResult(t, p) /\ e.limit > 0
    BY <2>1, <1>1, KindLimits DEF IsEntry
  <2>3. Entry(d, "MfmaWrite", XdlResult(t, p), p) \in Produced(t, op)
    <3>1. Entry(d, "MfmaWrite", XdlResult(t, p), p).limit > 0
      BY <2>2 DEF Entry
    <3> QED BY <2>2, <3>1, Zenon DEF Produced
  <2>4. /\ Entry(d, "MfmaWrite", XdlResult(t, p), p).key = <<d, "MfmaWrite">>
        /\ Entry(d, "MfmaWrite", XdlResult(t, p), p).limit = XdlResult(t, p)
    BY DEF Entry
  <2>5. e.key[2] # "Permlane32Swap"
    BY <1>1
  <2> QED BY <2>2, <2>3, <2>4, <2>5, Zenon
<1>2. CASE e.key[2] = "Permlane32Swap"
  <2>1. IsEntry(t, op, e)
    BY ProducedEntry
  <2>2. e.limit = ValuPermlane(t) /\ e.limit > 0
    BY <2>1, <1>2, KindLimits DEF IsEntry
  <2>3. t = "gfx950" /\ e.limit = 2
    BY <2>2 DEF ValuPermlane
  <2>4. LegacyVALU(op) /\ d # {} /\ d \subseteq VGPR /\ e.key[1] = d
    <3>1. \A span, lim, pass : Entry(span, "MfmaWrite", lim, pass).key[2] = "MfmaWrite"
                             /\ Entry(span, "MfmaStore", lim, pass).key[2] = "MfmaStore"
                             /\ Entry(span, "MfmaSrcCRead", lim, pass).key[2] = "MfmaSrcCRead"
                             /\ Entry(span, "ValuWriteVGPR", lim, pass).key[2] = "ValuWriteVGPR"
                             /\ Entry(span, "ValuWriteSGPR", lim, pass).key[2] = "ValuWriteSGPR"
                             /\ Entry(span, "ValuWriteVcc", lim, pass).key[2] = "ValuWriteVcc"
                             /\ Entry(span, "ExecWrite", lim, pass).key[2] = "ExecWrite"
                             /\ Entry(span, "TransWriteVGPR", lim, pass).key[2] = "TransWriteVGPR"
                             /\ Entry(span, "DstSelWriteVGPR", lim, pass).key[2] = "DstSelWriteVGPR"
                             /\ Entry(span, "StoreWriteData", lim, pass).key[2] = "StoreWriteData"
                             /\ Entry(span, "M0Write", lim, pass).key[2] = "M0Write"
                             /\ Entry(span, "M0DmaCapture", lim, pass).key[2] = "M0DmaCapture"
                             /\ Entry(span, "Permlane32Swap", lim, pass).key[1] = span
      BY DEF Entry
    <3> QED BY <3>1, <1>2 DEF Produced
  <2>5. Entry(d, "ValuWriteVGPR", Max({ValuMfma, ValuReadlane(t), ValuPermlane(t)}), 0)
           \in Produced(t, op)
    <3>1. Entry(d, "ValuWriteVGPR", Max({ValuMfma, ValuReadlane(t), ValuPermlane(t)}), 0).limit > 0
      BY ValuLimit DEF Entry
    <3> QED BY <2>4, <3>1, Zenon DEF Produced
  <2>6. /\ Entry(d, "ValuWriteVGPR", 2, 0).key = <<d, "ValuWriteVGPR">>
        /\ Entry(d, "ValuWriteVGPR", 2, 0).limit = 2
    BY DEF Entry
  <2>7. e.key[2] # "MfmaStore"
    BY <1>2
  <2> QED BY <2>3, <2>4, <2>5, <2>6, <2>7, ValuLimit, Zenon
<1> QED BY <1>1, <1>2, Zenon

-----------------------------------------------------------------------------
(* What an access needs. *)

LEMMA RequiredKinds ==
    ASSUME NEW t, NEW o, NEW a, NEW span, NEW h
    PROVE  /\ Required(t, o, a, span, "MfmaWrite", h) \in
                 {0, XdlResult(t, h.passes), XdlSrcCExact(t, h.passes), XdlSrcCOverlap(t, h.passes)}
           /\ Required(t, o, a, span, "MfmaStore", h) \in {0, h.limit}
           /\ Required(t, o, a, span, "MfmaSrcCRead", h) \in {0, XdlSrcCReadWar(t, h.passes)}
           /\ Required(t, o, a, span, "ValuWriteVGPR", h) \in
                 {0, ValuMfma, ValuReadlane(t), ValuPermlane(t)}
           /\ Required(t, o, a, span, "Permlane32Swap", h) \in {0, h.limit}
           /\ Required(t, o, a, span, "ValuWriteSGPR", h) \in {0, SGPRToVMEM, SGPRToVALU(t)}
           /\ Required(t, o, a, span, "ValuWriteVcc", h) \in {0, SGPRToVALU(t)}
           /\ Required(t, o, a, span, "ExecWrite", h) \in {0, ExecLatency(t)}
           /\ Required(t, o, a, span, "TransWriteVGPR", h) \in {0, TransLatency(t)}
           /\ Required(t, o, a, span, "DstSelWriteVGPR", h) \in {0, DstSelLatency(t)}
           /\ Required(t, o, a, span, "StoreWriteData", h) \in {0, h.limit}
           /\ Required(t, o, a, span, "M0Write", h) \in {0, M0Delay}
           /\ Required(t, o, a, span, "M0DmaCapture", h) \in {0, M0DmaCapture(t)}
<1>1. Required(t, o, a, span, "MfmaWrite", h) \in
         {0, XdlResult(t, h.passes), XdlSrcCExact(t, h.passes), XdlSrcCOverlap(t, h.passes)}
  BY DEF Required
<1>2. Required(t, o, a, span, "MfmaStore", h) \in {0, h.limit}
  BY DEF Required
<1>3. Required(t, o, a, span, "MfmaSrcCRead", h) \in {0, XdlSrcCReadWar(t, h.passes)}
  BY DEF Required
<1>4. Required(t, o, a, span, "ValuWriteVGPR", h) \in
         {0, ValuMfma, ValuReadlane(t), ValuPermlane(t)}
  BY DEF Required
<1>5. Required(t, o, a, span, "Permlane32Swap", h) \in {0, h.limit}
  BY DEF Required
<1>6. Required(t, o, a, span, "ValuWriteSGPR", h) \in {0, SGPRToVMEM, SGPRToVALU(t)}
  BY DEF Required
<1>7. Required(t, o, a, span, "ValuWriteVcc", h) \in {0, SGPRToVALU(t)}
  BY DEF Required
<1>8. Required(t, o, a, span, "ExecWrite", h) \in {0, ExecLatency(t)}
  BY DEF Required
<1>9. Required(t, o, a, span, "TransWriteVGPR", h) \in {0, TransLatency(t)}
  BY DEF Required
<1>10. Required(t, o, a, span, "DstSelWriteVGPR", h) \in {0, DstSelLatency(t)}
  BY DEF Required
<1>11. Required(t, o, a, span, "StoreWriteData", h) \in {0, h.limit}
  BY DEF Required
<1>12. Required(t, o, a, span, "M0Write", h) \in {0, M0Delay}
  BY DEF Required
<1>13. Required(t, o, a, span, "M0DmaCapture", h) \in {0, M0DmaCapture(t)}
  BY DEF Required
<1> QED
  BY <1>1, <1>2, <1>3, <1>4, <1>5, <1>6, <1>7, <1>8, <1>9, <1>10, <1>11, <1>12, <1>13

(* A hazard of no known kind needs nothing. *)
LEMMA RequiredUnknown ==
    ASSUME NEW t, NEW o, NEW a, NEW span, NEW h, NEW kind, kind \notin Kinds
    PROVE  Required(t, o, a, span, kind, h) = 0
  BY DEF Required, Kinds

(* What is needed depends on the limit and the passes of a hazard only. *)
LEMMA RequiredSame ==
    ASSUME NEW t, NEW o, NEW a, NEW span, NEW kind, NEW h, NEW e,
           h.passes = e.passes, h.limit = e.limit
    PROVE  Required(t, o, a, span, kind, h) = Required(t, o, a, span, kind, e)
  BY DEF Required

LEMMA RequiredStore ==
    ASSUME NEW t, NEW o, NEW a, NEW span, NEW h, NEW e, e.limit > 0,
           Required(t, o, a, span, "StoreWriteData", e) > 0
    PROVE  /\ Required(t, o, a, span, "StoreWriteData", e) = e.limit
           /\ Required(t, o, a, span, "StoreWriteData", h) = h.limit
  BY DEF Required

(* The bound of what an access may need of any hazard. *)
LEMMA RequiredBounded ==
    ASSUME NEW t, NEW o, NEW a, NEW span, NEW kind, NEW h, h.passes \in 0..MostPasses,
           h.limit \in 0..MostLimit
    PROVE  Required(t, o, a, span, kind, h) \in Int /\ Required(t, o, a, span, kind, h) <= MostLimit
<1> DEFINE p == h.passes
           r == Required(t, o, a, span, kind, h)
<1>1. MostLimit = 68 /\ p \in 0..64 /\ h.limit \in 0..68
  BY DEF MostLimit, MostPasses
<1>2. /\ XdlResult(t, p) \in 0..68 /\ XdlSrcCReadWar(t, p) \in (-1)..68
      /\ XdlSrcCExact(t, p) \in 0..2 /\ XdlSrcCOverlap(t, p) \in 0..68
  <2> HIDE DEF p
  <2> QED BY <1>1 DEF XdlResult, XdlSrcCReadWar, XdlSrcCExact, XdlSrcCOverlap
<1>3. /\ ValuPermlane(t) \in 0..2 /\ SGPRToVMEM \in 0..5 /\ SGPRToVALU(t) \in 0..2
      /\ ExecLatency(t) \in 0..4 /\ TransLatency(t) \in 0..1 /\ DstSelLatency(t) \in 0..1
      /\ M0Delay \in 0..1 /\ M0DmaCapture(t) \in 0..1
      /\ ValuMfma \in 0..2 /\ ValuReadlane(t) \in 0..1
  BY DEF ValuPermlane, SGPRToVMEM, SGPRToVALU, ExecLatency, TransLatency, DstSelLatency,
         M0Delay, M0DmaCapture, ValuMfma, ValuReadlane
<1>4. \/ r \in {0, XdlResult(t, p), XdlSrcCExact(t, p), XdlSrcCOverlap(t, p)}
      \/ r \in {XdlSrcCReadWar(t, p), h.limit}
      \/ r \in {ValuMfma, ValuReadlane(t), ValuPermlane(t), SGPRToVMEM, SGPRToVALU(t)}
      \/ r \in {ExecLatency(t), TransLatency(t), DstSelLatency(t), M0Delay, M0DmaCapture(t)}
  <2>1. CASE kind \notin Kinds
    BY <2>1, RequiredUnknown
  <2>2. CASE kind \in {"MfmaWrite", "MfmaStore", "MfmaSrcCRead", "ValuWriteVGPR"}
    BY <2>2, RequiredKinds
  <2>3. CASE kind \in {"Permlane32Swap", "ValuWriteSGPR", "ValuWriteVcc", "ExecWrite"}
    BY <2>3, RequiredKinds
  <2>4. CASE kind \in {"TransWriteVGPR", "DstSelWriteVGPR", "StoreWriteData", "M0Write",
                       "M0DmaCapture"}
    BY <2>4, RequiredKinds
  <2> QED BY <2>1, <2>2, <2>3, <2>4 DEF Kinds
<1> HIDE DEF r, p
<1>5. r \in Int /\ r <= MostLimit
  BY <1>1, <1>2, <1>3, <1>4
<1> QED BY <1>5 DEF r

(* A hazard lasts as long as any access needs. *)
LEMMA RequiredWithin ==
    ASSUME NEW t, NEW op, IsOperation(t, op), NEW e \in Produced(t, op), NEW o, NEW a
    PROVE  Required(t, o, a, e.key[1], e.key[2], e) <= e.limit
<1> DEFINE p == op.passes
<1>1. PICK span, kind :
         /\ kind \in Kinds
         /\ e = [key |-> <<span, kind>>, limit |-> KindLimit(t, p, kind),
                 passes |-> KindPasses(p, kind)]
         /\ e.limit > 0
  BY ProducedEntry DEF IsEntry
<1>2. /\ e.key[1] = span /\ e.key[2] = kind /\ e.limit = KindLimit(t, p, kind)
      /\ e.passes = KindPasses(p, kind)
  BY <1>1
<1>3. p \in 0..64
  BY DEF IsOperation, MostPasses
<1>4. e.limit \in Int /\ e.limit > 0
  BY <1>1, <1>2, <1>3, KindLimitType DEF MostPasses
<1> HIDE DEF p
<1> DEFINE r == Required(t, o, a, span, kind, e)
<1>5. CASE kind = "MfmaWrite"
  <2>1. e.passes = p /\ e.limit = XdlResult(t, p)
    BY <1>2, <1>5, KindLimits DEF KindPasses
  <2>2. r \in {0, XdlResult(t, p), XdlSrcCExact(t, p), XdlSrcCOverlap(t, p)}
    BY <1>5, <2>1, RequiredKinds
  <2>3. XdlSrcCExact(t, p) <= XdlResult(t, p) /\ XdlSrcCOverlap(t, p) <= XdlResult(t, p)
        /\ 0 <= XdlResult(t, p) /\ XdlResult(t, p) \in Int
    BY <1>3 DEF XdlResult, XdlSrcCExact, XdlSrcCOverlap
  <2> HIDE DEF r
  <2>4. r <= e.limit
    BY <2>1, <2>2, <2>3
  <2> QED BY <1>2, <2>4 DEF r
<1>6. CASE kind \in {"MfmaStore", "Permlane32Swap", "StoreWriteData"}
  <2>1. r \in {0, e.limit}
    BY <1>6, RequiredKinds
  <2> HIDE DEF r
  <2>2. r <= e.limit
    BY <2>1, <1>4
  <2> QED BY <1>2, <2>2 DEF r
<1>7. CASE kind = "MfmaSrcCRead"
  <2>1. e.passes = p /\ e.limit = XdlSrcCReadWar(t, p)
    BY <1>2, <1>7, KindLimits DEF KindPasses
  <2>2. r \in {0, e.limit}
    BY <1>7, <2>1, RequiredKinds
  <2> HIDE DEF r
  <2>3. r <= e.limit
    BY <2>2, <1>4
  <2> QED BY <1>2, <2>3 DEF r
<1>8. CASE kind = "ValuWriteVGPR"
  <2>1. e.limit = 2 /\ r \in {0, ValuMfma, ValuReadlane(t), ValuPermlane(t)}
    BY <1>2, <1>8, KindLimits, RequiredKinds
  <2> HIDE DEF r
  <2>2. r <= e.limit
    BY <2>1 DEF ValuMfma, ValuReadlane, ValuPermlane
  <2> QED BY <1>2, <2>2 DEF r
<1>9. CASE kind = "ValuWriteSGPR"
  <2>1. e.limit = SGPRToVMEM /\ r \in {0, SGPRToVMEM, SGPRToVALU(t)}
    BY <1>2, <1>9, KindLimits, RequiredKinds
  <2> HIDE DEF r
  <2>2. r <= e.limit
    BY <2>1 DEF SGPRToVMEM, SGPRToVALU
  <2> QED BY <1>2, <2>2 DEF r
<1>10. CASE kind \in {"ValuWriteVcc", "ExecWrite", "TransWriteVGPR", "DstSelWriteVGPR",
                      "M0Write", "M0DmaCapture"}
  <2>1. r \in {0, e.limit}
    BY <1>2, <1>10, KindLimits, RequiredKinds
  <2> HIDE DEF r
  <2>2. r <= e.limit
    BY <2>1, <1>4
  <2> QED BY <1>2, <2>2 DEF r
<1> HIDE DEF r
<1> QED BY <1>1, <1>5, <1>6, <1>7, <1>8, <1>9, <1>10 DEF Kinds

(* What the value hazards need, their twins need as well. *)
LEMMA RequiredTwins ==
    ASSUME NEW t, NEW o, NEW a, NEW span, NEW h, NEW e
    PROVE  /\ Required(t, o, a, span, "MfmaStore", h) > 0 =>
                 Required(t, o, a, span, "MfmaWrite", e) = XdlResult(t, e.passes)
           /\ Required(t, o, a, span, "Permlane32Swap", h) > 0 =>
                 Required(t, o, a, span, "ValuWriteVGPR", e) = ValuPermlane(t)
<1>1. ASSUME Required(t, o, a, span, "MfmaStore", h) > 0
      PROVE  a[1] \in {"use", "acc"} /\ a[2] \intersect span # {} /\ o.kind = "store"
  BY <1>1 DEF Required
<1>2. ASSUME Required(t, o, a, span, "Permlane32Swap", h) > 0
      PROVE  a[1] \in {"use", "acc"} /\ a[2] \intersect span # {} /\ o.kind = "permlane32swap"
  BY <1>2 DEF Required
<1>3. ASSUME a[2] \intersect span # {}, o.kind = "store"
      PROVE  Required(t, o, a, span, "MfmaWrite", e) = XdlResult(t, e.passes)
  BY <1>3 DEF Required, MFMA, XdlResultConsumer, VMEM
<1>4. ASSUME a[1] \in {"use", "acc"}, a[2] \intersect span # {}, o.kind = "permlane32swap"
      PROVE  Required(t, o, a, span, "ValuWriteVGPR", e) = ValuPermlane(t)
  BY <1>4 DEF Required, MFMA, XdlResultConsumer, VMEM
<1> QED BY <1>1, <1>2, <1>3, <1>4

LEMMA WaitForAgeType ==
    ASSUME NEW h \in Hazard, h.remaining <= h.limit, NEW r \in Int, r <= MostLimit
    PROVE  /\ WaitForAge(h, r) \in 0..MostLimit
           /\ WaitForAge(h, r) >= r - (h.limit - h.remaining)
           /\ WaitForAge(h, r) > 0 => WaitForAge(h, r) = r - (h.limit - h.remaining)
<1>1. h.limit \in Int /\ h.remaining \in Int /\ MostLimit = 68
  BY DEF Hazard, MostLimit, MostPasses
<1> QED BY <1>1 DEF WaitForAge, Less

(* RequiredWait is the largest of the waits of the accesses. *)
LEMMA RequiredWaitIs ==
    ASSUME NEW t, NEW op, NEW s, IsHazards(s.hazards)
    PROVE  /\ RequiredWait(t, op, s) \in 0..MostLimit
           /\ \A k \in DOMAIN s.hazards, a \in Accesses(op) :
                 WaitForAge(s.hazards[k], Required(t, op, a, k[1], k[2], s.hazards[k]))
                   <= RequiredWait(t, op, s)
           /\ RequiredWait(t, op, s) > 0 =>
                 \E k \in DOMAIN s.hazards, a \in Accesses(op) :
                    RequiredWait(t, op, s) =
                      WaitForAge(s.hazards[k], Required(t, op, a, k[1], k[2], s.hazards[k]))
<1> DEFINE W(k, a) == WaitForAge(s.hazards[k], Required(t, op, a, k[1], k[2], s.hazards[k]))
           T == {W(k, a) : k \in DOMAIN s.hazards, a \in Accesses(op)}
           U == {0} \union T
<1>1. ASSUME NEW k \in DOMAIN s.hazards, NEW a PROVE W(k, a) \in 0..MostLimit
  <2>1. s.hazards[k] \in Hazard /\ s.hazards[k].remaining <= s.hazards[k].limit
    BY DEF IsHazards
  <2>2. s.hazards[k].passes \in 0..MostPasses /\ s.hazards[k].limit \in 0..MostLimit
    BY <2>1 DEF Hazard
  <2>3. /\ Required(t, op, a, k[1], k[2], s.hazards[k]) \in Int
        /\ Required(t, op, a, k[1], k[2], s.hazards[k]) <= MostLimit
    BY <2>2, RequiredBounded
  <2> QED BY <2>1, <2>3, WaitForAgeType
<1>2. RequiredWait(t, op, s) = Max(U)
  BY DEF RequiredWait
<1> HIDE DEF W
<1>3. MostLimit \in Nat
  BY DEF MostLimit, MostPasses
<1>4. U \in SUBSET (0..MostLimit) /\ U # {}
  BY <1>1, <1>3
<1> HIDE DEF U
<1>5. Max(U) \in U /\ \A y \in U : y <= Max(U)
  BY <1>3, <1>4, MaxBounded
<1>9. \A k \in DOMAIN s.hazards, a \in Accesses(op) : W(k, a) \in U
  BY DEF U
<1>10. \A y \in U : y = 0 \/ \E k \in DOMAIN s.hazards, a \in Accesses(op) : y = W(k, a)
  BY DEF U
<1>6. \A k \in DOMAIN s.hazards, a \in Accesses(op) : W(k, a) <= RequiredWait(t, op, s)
  BY <1>2, <1>5, <1>9
<1>7. RequiredWait(t, op, s) > 0 =>
         \E k \in DOMAIN s.hazards, a \in Accesses(op) : RequiredWait(t, op, s) = W(k, a)
  BY <1>2, <1>5, <1>10
<1>8. RequiredWait(t, op, s) \in 0..MostLimit
  BY <1>2, <1>4, <1>5
<1> QED BY <1>6, <1>7, <1>8 DEF W

LEMMA CoexecSlotsIs ==
    ASSUME NEW op, NEW span, NEW k, NEW h
    PROVE  CoexecSlots(op, span, k, h) \in {0, h.wmma, h.valu}
  BY DEF CoexecSlots

(* RequiredVNops is the largest of the slots of the accesses. *)
LEMMA RequiredVNopsIs ==
    ASSUME NEW op, NEW s, IsCoexec(s.coexec)
    PROVE  /\ RequiredVNops(op, s) \in 0..MostLimit
           /\ \A k \in DOMAIN s.coexec :
                 CoexecSlots(op, k[1], k[2], s.coexec[k]) <= RequiredVNops(op, s)
<1> DEFINE W(k) == CoexecSlots(op, k[1], k[2], s.coexec[k])
           U == {0} \union {W(k) : k \in DOMAIN s.coexec}
<1>3. MostLimit \in Nat
  BY DEF MostLimit, MostPasses
<1>1. ASSUME NEW k \in DOMAIN s.coexec PROVE W(k) \in 0..MostLimit
  <2>1. s.coexec[k].wmma \in 0..MostLimit /\ s.coexec[k].valu \in 0..MostLimit
    BY DEF IsCoexec, Forwarding
  <2>2. W(k) \in {0, s.coexec[k].wmma, s.coexec[k].valu}
    BY CoexecSlotsIs
  <2> HIDE DEF W
  <2> QED BY <2>1, <2>2, <1>3
<1>2. RequiredVNops(op, s) = Max(U)
  BY DEF RequiredVNops
<1> HIDE DEF W
<1>4. U \in SUBSET (0..MostLimit) /\ U # {}
  BY <1>1, <1>3
<1> HIDE DEF U
<1>5. Max(U) \in U /\ \A y \in U : y <= Max(U)
  BY <1>3, <1>4, MaxBounded
<1>6. \A k \in DOMAIN s.coexec : W(k) <= RequiredVNops(op, s)
  BY <1>2, <1>5 DEF U
<1>8. RequiredVNops(op, s) \in 0..MostLimit
  BY <1>2, <1>4, <1>5
<1> QED BY <1>6, <1>8 DEF W

-----------------------------------------------------------------------------
(* How an operation changes each part of a state. *)

States(op) == IF NoMachineInst(op) THEN 0 ELSE op.count

Waited(op, f) ==
    IF op.kind # "wait_alu" THEN f ELSE [k \in {k \in DOMAIN f : k[2] \notin AluKinds} |-> f[k]]

HazardsAfter(t, op, f) == Merge(Replaced(op, Waited(op, f)), NewHazards(t, op))

CoexecAfter(t, op, f) ==
    Merge(IF VALUForCoexec(op) THEN AgedCoexec(f, op.count) ELSE f, NewCoexec(t, op))

BasesAfter(t, op, g) ==
    [b \in ScratchBases |->
        IF ScratchBaseHazard(t) /\ SGPRWrite(op) /\ b \in op.def THEN ScratchBaseWrites
        ELSE IF op.kind = "wait_alu" THEN 0
        ELSE IF SGPRWrite(op) THEN Less(g[b], op.count) ELSE g[b]]

PendingIssued(t, op, n) ==
    IF ~LegacyWaitCounters(t) \/ ~DS(op) THEN n ELSE Min({LgkmDefault + 1, n + 1})

PendingAfter(t, op, n) ==
    IF ~Waitcnt(op) \/ op.passes >= LgkmDefault THEN PendingIssued(t, op, n)
    ELSE Min({PendingIssued(t, op, n), op.passes})

ToValuAfter(t, op, v, n) ==
    IF Waitcnt(op) /\ ~(op.passes >= LgkmDefault) /\ PendingIssued(t, op, n) > op.passes
         /\ LgkmWaitNeedsValuGap(t)
      THEN Larger(Less(v, States(op)), 1) ELSE Less(v, States(op))

Fields(s, v, n, f, c, g) ==
    s = [lgkmToValu |-> v, lgkmPending |-> n, hazards |-> f, coexec |-> c, scratchBase |-> g]

(* The parts of a state after each of the code's updates. *)

LEMMA OfFields ==
    ASSUME NEW s, NEW v, NEW n, NEW f, NEW c, NEW g, Fields(s, v, n, f, c, g)
    PROVE  /\ s.lgkmToValu = v /\ s.lgkmPending = n /\ s.hazards = f /\ s.coexec = c
           /\ s.scratchBase = g
  BY DEF Fields

LEMMA AfterAdvance ==
    ASSUME NEW s, NEW v, NEW n, NEW f, NEW c, NEW g, Fields(s, v, n, f, c, g),
           NEW count
    PROVE  /\ Fields(Advance(s, count, TRUE), Less(v, count), n, Aged(f, count), c, g)
           /\ Fields(Advance(s, count, FALSE), v, n, Aged(f, count), c, g)
<1> DEFINE aged == [s EXCEPT !.hazards = Aged(s.hazards, count)]
           both == [aged EXCEPT !.lgkmToValu = Less(aged.lgkmToValu, count)]
<1>1. Fields(aged, v, n, Aged(f, count), c, g)
  BY DEF Fields
<1>2. Advance(s, count, FALSE) = aged /\ Advance(s, count, TRUE) = both
  BY DEF Advance
<1> HIDE DEF aged
<1>3. Fields(both, Less(v, count), n, Aged(f, count), c, g)
  BY <1>1 DEF Fields
<1> HIDE DEF both
<1> QED BY <1>1, <1>2, <1>3

LEMMA AfterAdvanceCoexec ==
    ASSUME NEW s, NEW v, NEW n, NEW f, NEW c, NEW g, Fields(s, v, n, f, c, g),
           NEW count
    PROVE  Fields(AdvanceCoexec(s, count), v, n, f, AgedCoexec(c, count), g)
  BY DEF Fields, AdvanceCoexec

LEMMA AfterAdvanceBases ==
    ASSUME NEW s, NEW v, NEW n, NEW f, NEW c, NEW g, Fields(s, v, n, f, c, g),
           NEW count
    PROVE  Fields(AdvanceScratchBase(s, count), v, n, f, c,
                  [b \in ScratchBases |-> Less(g[b], count)])
  BY DEF Fields, AdvanceScratchBase

LEMMA AfterClear ==
    ASSUME NEW s, NEW v, NEW n, NEW f, NEW c, NEW g, Fields(s, v, n, f, c, g)
    PROVE  Fields(ClearScratchBase(s), v, n, f, c, [b \in ScratchBases |-> 0])
  BY DEF Fields, ClearScratchBase

LEMMA AfterWaitAlu ==
    ASSUME NEW s, NEW v, NEW n, NEW f, NEW c, NEW g, Fields(s, v, n, f, c, g),
           NEW op
    PROVE  Fields(ApplySWaitAlu(op, s), v, n, Waited(op, f), c,
                  IF op.kind # "wait_alu" THEN g ELSE [b \in ScratchBases |-> 0])
  BY DEF Fields, ApplySWaitAlu, ClearScratchBase, Waited

LEMMA AfterProduced ==
    ASSUME NEW s, NEW v, NEW n, NEW f, NEW c, NEW g, Fields(s, v, n, f, c, g),
           NEW t, NEW op
    PROVE  Fields(AddProduced(t, op, s), v, n, Merge(Replaced(op, f), NewHazards(t, op)), c, g)
  BY DEF Fields, AddProduced

LEMMA AfterAddCoexec ==
    ASSUME NEW s, NEW v, NEW n, NEW f, NEW c, NEW g, Fields(s, v, n, f, c, g),
           NEW t, NEW op
    PROVE  Fields(AddCoexec(t, op, s), v, n, f, Merge(c, NewCoexec(t, op)), g)
  BY DEF Fields, AddCoexec

LEMMA AfterAddBase ==
    ASSUME NEW s, NEW v, NEW n, NEW f, NEW c, NEW g, Fields(s, v, n, f, c, g),
           NEW t, NEW op
    PROVE  Fields(AddScratchBase(t, op, s), v, n, f, c,
                  IF ScratchBaseHazard(t) /\ SGPRWrite(op)
                    THEN [b \in ScratchBases |-> IF b \in op.def THEN ScratchBaseWrites ELSE g[b]]
                    ELSE g)
  BY DEF Fields, AddScratchBase

LEMMA AfterPending ==
    ASSUME NEW s, NEW v, NEW n, NEW f, NEW c, NEW g, Fields(s, v, n, f, c, g),
           NEW t, NEW op
    PROVE  Fields(AddPendingLgkm(t, op, s), v, PendingIssued(t, op, n), f, c, g)
  BY DEF Fields, AddPendingLgkm, PendingIssued

LEMMA AfterLgkmWait ==
    ASSUME NEW s, NEW v, NEW n, NEW f, NEW c, NEW g, Fields(s, v, n, f, c, g),
           NEW t, NEW op
    PROVE  Fields(ApplyLgkmWait(t, op, s),
                  IF ~Waitcnt(op) \/ op.passes >= LgkmDefault THEN v
                  ELSE IF n > op.passes /\ LgkmWaitNeedsValuGap(t) THEN Larger(v, 1) ELSE v,
                  IF ~Waitcnt(op) \/ op.passes >= LgkmDefault THEN n ELSE Min({n, op.passes}),
                  f, c, g)
  BY DEF Fields, ApplyLgkmWait

LEMMA LessTwice ==
    ASSUME NEW v \in Nat, NEW a \in Nat, NEW b \in Nat
    PROVE  Less(Less(v, a), b) = Less(v, a + b) /\ Less(v, a) \in Nat /\ Less(v, 0) = v
           /\ Less(v, a) <= v
  BY DEF Less

LEMMA StateFields ==
    ASSUME NEW s, IsState(s)
    PROVE  /\ Fields(s, s.lgkmToValu, s.lgkmPending, s.hazards, s.coexec, s.scratchBase)
           /\ s.lgkmToValu \in Nat /\ s.lgkmToValu \in 0..1 /\ s.lgkmPending \in Nat
           /\ s.lgkmPending \in 0..(LgkmDefault + 1)
           /\ IsHazards(s.hazards) /\ IsCoexec(s.coexec)
           /\ s.scratchBase \in [ScratchBases -> 0..ScratchBaseWrites]
<1>1. /\ s.lgkmToValu \in 0..1 /\ s.lgkmPending \in 0..(LgkmDefault + 1)
      /\ IsHazards(s.hazards) /\ IsCoexec(s.coexec)
      /\ s.scratchBase \in [ScratchBases -> 0..ScratchBaseWrites]
  BY DEF IsState
<1>2. s.lgkmToValu \in Nat /\ s.lgkmPending \in Nat
  BY <1>1, HazardAssumption
<1>3. Fields(s, s.lgkmToValu, s.lgkmPending, s.hazards, s.coexec, s.scratchBase)
  BY DEF IsState, Fields
<1> QED BY <1>1, <1>2, <1>3

(* The parts of the state after an operation. *)
LEMMA TransferFields ==
    ASSUME NEW t, NEW op, IsOperation(t, op), NEW s, IsState(s)
    PROVE  Fields(Transfer(t, op, s),
                  ToValuAfter(t, op, s.lgkmToValu, s.lgkmPending),
                  PendingAfter(t, op, s.lgkmPending),
                  HazardsAfter(t, op, Aged(s.hazards, States(op))),
                  CoexecAfter(t, op, s.coexec),
                  BasesAfter(t, op, s.scratchBase))
<1> DEFINE a == IF NoMachineInst(op) THEN s ELSE Advance(s, op.count, TRUE)
           b == IF VALUForCoexec(op) THEN AdvanceCoexec(a, op.count) ELSE a
           c == IF SGPRWrite(op) THEN AdvanceScratchBase(b, op.count) ELSE b
           d1 == ApplySWaitAlu(op, c)
           d == AddProduced(t, op, d1)
           e1 == AddCoexec(t, op, d)
           e == AddScratchBase(t, op, e1)
           g1 == AddPendingLgkm(t, op, e)
           g == ApplyLgkmWait(t, op, g1)
           v0 == s.lgkmToValu
           n0 == s.lgkmPending
           h0 == s.hazards
           c0 == s.coexec
           b0 == s.scratchBase
           v1 == Less(v0, States(op))
           h1 == Aged(h0, States(op))
           c1 == IF VALUForCoexec(op) THEN AgedCoexec(c0, op.count) ELSE c0
           b1 == IF SGPRWrite(op) THEN [x \in ScratchBases |-> Less(b0[x], op.count)] ELSE b0
           b2 == IF op.kind # "wait_alu" THEN b1 ELSE [x \in ScratchBases |-> 0]
           b3 == IF ScratchBaseHazard(t) /\ SGPRWrite(op)
                   THEN [x \in ScratchBases |-> IF x \in op.def THEN ScratchBaseWrites ELSE b2[x]]
                   ELSE b2
<1>0. Transfer(t, op, s) = g
  BY DEF Transfer
<1>1. Fields(s, v0, n0, h0, c0, b0) /\ v0 \in Nat /\ IsHazards(h0)
      /\ b0 \in [ScratchBases -> 0..ScratchBaseWrites]
  BY StateFields
<1> HIDE DEF v0, n0, h0, c0, b0
<1>2. Fields(a, v1, n0, h1, c0, b0)
  <2>1. CASE NoMachineInst(op)
    <3>1. a = s /\ v1 = v0 /\ h1 = h0
      BY <1>1, <2>1, AgedByZero, LessTwice DEF States
    <3> QED BY <1>1, <3>1
  <2>2. CASE ~NoMachineInst(op)
    <3>1. a = Advance(s, op.count, TRUE) /\ States(op) = op.count
      BY <2>2 DEF States
    <3>2. Fields(Advance(s, op.count, TRUE), Less(v0, op.count), n0, Aged(h0, op.count), c0, b0)
      BY <1>1, AfterAdvance
    <3> QED BY <3>1, <3>2
  <2> QED BY <2>1, <2>2
<1> HIDE DEF a, v1, h1
<1>3. Fields(b, v1, n0, h1, c1, b0)
  BY <1>2, AfterAdvanceCoexec
<1> HIDE DEF b, c1
<1>4. Fields(c, v1, n0, h1, c1, b1)
  BY <1>3, AfterAdvanceBases
<1> HIDE DEF c, b1
<1>5. Fields(d1, v1, n0, Waited(op, h1), c1, b2)
  BY <1>4, AfterWaitAlu
<1> HIDE DEF d1, b2
<1>6. Fields(d, v1, n0, HazardsAfter(t, op, h1), c1, b2)
  BY <1>5, AfterProduced DEF HazardsAfter
<1> HIDE DEF d
<1>7. Fields(e1, v1, n0, HazardsAfter(t, op, h1), Merge(c1, NewCoexec(t, op)), b2)
  BY <1>6, AfterAddCoexec
<1> HIDE DEF e1
<1>8. Fields(e, v1, n0, HazardsAfter(t, op, h1), Merge(c1, NewCoexec(t, op)), b3)
  BY <1>7, AfterAddBase
<1> HIDE DEF e, b3
<1>9. Fields(g1, v1, PendingIssued(t, op, n0), HazardsAfter(t, op, h1),
             Merge(c1, NewCoexec(t, op)), b3)
  BY <1>8, AfterPending
<1> HIDE DEF g1
<1> DEFINE v2 == IF ~Waitcnt(op) \/ op.passes >= LgkmDefault THEN v1
                 ELSE IF PendingIssued(t, op, n0) > op.passes /\ LgkmWaitNeedsValuGap(t)
                        THEN Larger(v1, 1) ELSE v1
           n2 == IF ~Waitcnt(op) \/ op.passes >= LgkmDefault THEN PendingIssued(t, op, n0)
                 ELSE Min({PendingIssued(t, op, n0), op.passes})
<1>10. Fields(g, v2, n2, HazardsAfter(t, op, h1), Merge(c1, NewCoexec(t, op)), b3)
  BY <1>9, AfterLgkmWait
<1>11. v2 = ToValuAfter(t, op, v0, n0)
  BY DEF ToValuAfter, v1
<1>12. n2 = PendingAfter(t, op, n0)
  BY DEF PendingAfter
<1>13. Merge(c1, NewCoexec(t, op)) = CoexecAfter(t, op, c0)
  BY DEF CoexecAfter, c1
<1>14. b3 = BasesAfter(t, op, b0)
  <2>1. op.kind = "wait_alu" => ~SGPRWrite(op)
    BY DEF SGPRWrite, VALUForCoexec, VALU, LegacyVALU, MFMA, XdlWmma, LDSDma
  <2>2. b0 = [x \in ScratchBases |-> b0[x]]
    BY <1>1
  <2> QED BY <2>1, <2>2 DEF BasesAfter, b1, b2, b3
<1> QED BY <1>0, <1>10, <1>11, <1>12, <1>13, <1>14 DEF v0, n0, h0, c0, b0, h1

(* The mitigation before an operation, and the parts of the state after it. *)
LEMMA MitigationIs ==
    ASSUME IsState(local)
    PROVE  /\ Mitigation.wait = RequiredWait(prog.target, Op, local)
           /\ Mitigation.wait \in 0..MostLimit
           /\ Mitigation.valu \in 0..1
           /\ VALU(Op) /\ local.lgkmToValu > 0 /\ Mitigation.wait = 0 => Mitigation.valu = 1
           /\ Mitigation.vnops = RequiredVNops(Op, local)
           /\ Mitigation.vnops \in 0..MostLimit
           /\ Mitigation.alu \in 0..1
           /\ Mitigation.alu = 1 <=> NeedsScratchBaseWait(prog.target, Op, local)
           /\ Mitigation.total = Mitigation.wait + Mitigation.valu + Mitigation.vnops
                                   + Mitigation.alu
           /\ Mitigation.total \in Nat
           /\ Fields(Mitigation.state, Less(local.lgkmToValu, Mitigation.total),
                     local.lgkmPending, Aged(local.hazards, Mitigation.total),
                     AgedCoexec(local.coexec, Mitigation.vnops),
                     IF Mitigation.alu = 1 THEN [b \in ScratchBases |-> 0]
                     ELSE local.scratchBase)
<1> DEFINE t == prog.target
           v == local.lgkmToValu
           n == local.lgkmPending
           h == local.hazards
           c == local.coexec
           g == local.scratchBase
           wait == RequiredWait(t, Op, local)
           s1 == Advance(local, wait, TRUE)
           valu == IF NeedsValuMitigation(Op, s1) THEN 1 ELSE 0
           s2 == Advance(s1, valu, TRUE)
           vnops == RequiredVNops(Op, s2)
           s3a == Advance(s2, vnops, TRUE)
           s3 == AdvanceCoexec(s3a, vnops)
           alu == IF NeedsScratchBaseWait(t, Op, s3) THEN 1 ELSE 0
           s3b == Advance(s3, 1, TRUE)
           s4 == IF alu = 1 THEN ClearScratchBase(s3b) ELSE s3
           total == wait + valu + vnops + alu
<1>0. Mitigation = [wait |-> wait, valu |-> valu, vnops |-> vnops, alu |-> alu,
                    total |-> total, state |-> s4]
  BY DEF Mitigation
<1>1. Fields(local, v, n, h, c, g) /\ v \in Nat /\ IsHazards(h) /\ IsCoexec(c)
      /\ g \in [ScratchBases -> 0..ScratchBaseWrites]
  BY StateFields
<1>2. wait \in 0..MostLimit /\ wait \in Nat
  <2>1. wait \in 0..MostLimit
    BY <1>1, RequiredWaitIs
  <2> QED BY <2>1 DEF MostLimit, MostPasses
<1>w. RequiredVNops(Op, local) \in 0..MostLimit
  BY <1>1, RequiredVNopsIs
<1> HIDE DEF wait
<1>3. Fields(s1, Less(v, wait), n, Aged(h, wait), c, g)
  BY <1>1, AfterAdvance
<1>4. s1.lgkmToValu = Less(v, wait)
  BY <1>3, OfFields
<1> HIDE DEF s1
<1>5. valu \in 0..1 /\ valu \in Nat
  OBVIOUS
<1>6. VALU(Op) /\ v > 0 /\ wait = 0 => valu = 1
  BY <1>1, <1>4, LessTwice DEF NeedsValuMitigation
<1> HIDE DEF valu
<1>7. Fields(s2, Less(Less(v, wait), valu), n, Aged(Aged(h, wait), valu), c, g)
  BY <1>3, AfterAdvance
<1>8. s2.coexec = c
  BY <1>7, OfFields
<1> HIDE DEF s2
<1>9. vnops = RequiredVNops(Op, local) /\ vnops \in 0..MostLimit /\ vnops \in Nat
  <2>1. vnops = RequiredVNops(Op, local)
    BY <1>8 DEF RequiredVNops
  <2> HIDE DEF vnops
  <2> QED BY <2>1, <1>w DEF MostLimit, MostPasses
<1> HIDE DEF vnops
<1>10. Fields(s3a, Less(Less(Less(v, wait), valu), vnops), n,
              Aged(Aged(Aged(h, wait), valu), vnops), c, g)
  BY <1>7, AfterAdvance
<1> DEFINE m == wait + valu + vnops
<1>11. /\ m \in Nat
       /\ Less(Less(Less(v, wait), valu), vnops) = Less(v, m)
       /\ Aged(Aged(Aged(h, wait), valu), vnops) = Aged(h, m)
  <2>1. wait + valu \in Nat /\ m \in Nat
    BY <1>2, <1>5, <1>9
  <2>2. Less(Less(v, wait), valu) = Less(v, wait + valu)
    BY <1>1, <1>2, <1>5, LessTwice
  <2>3. Aged(Aged(h, wait), valu) = Aged(h, wait + valu)
    BY <1>1, <1>2, <1>5, AgedTwice
  <2>4. Less(Less(v, wait + valu), vnops) = Less(v, wait + valu + vnops)
    <3>1. v \in Nat /\ wait \in Nat /\ valu \in Nat /\ vnops \in Nat
      BY <1>1, <1>2, <1>5, <1>9
    <3> HIDE DEF v
    <3> QED BY <3>1 DEF Less
  <2>5. Aged(Aged(h, wait + valu), vnops) = Aged(h, wait + valu + vnops)
    BY <1>1, <2>1, <1>9, AgedTwice
  <2> QED BY <2>1, <2>2, <2>3, <2>4, <2>5
<1> HIDE DEF s3a
<1>12. Fields(s3, Less(v, m), n, Aged(h, m), AgedCoexec(c, vnops), g)
  <2>1. Fields(s3a, Less(v, m), n, Aged(h, m), c, g)
    BY <1>10, <1>11
  <2> HIDE DEF m
  <2> QED BY <2>1, AfterAdvanceCoexec
<1>13. s3.scratchBase = g
  BY <1>12, OfFields
<1> HIDE DEF s3
<1>14. alu \in 0..1 /\ (alu = 1 <=> NeedsScratchBaseWait(t, Op, local)) /\ alu \in {0, 1}
  BY <1>13 DEF NeedsScratchBaseWait
<1> HIDE DEF alu
<1>15. Fields(s4, Less(v, total), n, Aged(h, total), AgedCoexec(c, vnops),
              IF alu = 1 THEN [b \in ScratchBases |-> 0] ELSE g)
  <2>1. CASE alu = 0
    <3>1. total = m
      BY <1>11, <2>1
    <3> HIDE DEF total, m
    <3> QED BY <1>12, <2>1, <3>1
  <2>2. CASE alu = 1
    <3> HIDE DEF m
    <3>1. Fields(s3b, Less(Less(v, m), 1), n, Aged(Aged(h, m), 1), AgedCoexec(c, vnops), g)
      BY <1>12, AfterAdvance
    <3>2. Less(Less(v, m), 1) = Less(v, m + 1) /\ Aged(Aged(h, m), 1) = Aged(h, m + 1)
      <4> HIDE DEF v, h
      <4>1. Less(Less(v, m), 1) = Less(v, m + 1)
        BY <1>1, <1>11, LessTwice
      <4>2. Aged(Aged(h, m), 1) = Aged(h, m + 1)
        BY <1>1, <1>11, AgedTwice
      <4> QED BY <4>1, <4>2
    <3>3. total = m + 1
      BY <2>2 DEF m
    <3> HIDE DEF s3b, total
    <3>4. Fields(s3b, Less(v, total), n, Aged(h, total), AgedCoexec(c, vnops), g)
      BY <3>1, <3>2, <3>3
    <3>5. Fields(ClearScratchBase(s3b), Less(v, total), n, Aged(h, total), AgedCoexec(c, vnops),
                 [b \in ScratchBases |-> 0])
      BY <3>4, AfterClear
    <3> QED BY <2>2, <3>5
  <2> QED BY <1>14, <2>1, <2>2
<1>16. total \in Nat
  BY <1>2, <1>5, <1>9, <1>14
<1>17. total = wait + valu + vnops + alu
  OBVIOUS
<1> HIDE DEF s4, total, t, v, n, h, c, g, m
<1>18. /\ Mitigation.wait = wait /\ Mitigation.valu = valu /\ Mitigation.vnops = vnops
       /\ Mitigation.alu = alu /\ Mitigation.total = total /\ Mitigation.state = s4
  BY <1>0
<1>19. Mitigation.wait = RequiredWait(prog.target, Op, local)
  BY <1>18 DEF wait, t
<1>20. VALU(Op) /\ local.lgkmToValu > 0 /\ Mitigation.wait = 0 => Mitigation.valu = 1
  BY <1>18, <1>6 DEF v
<1>21. Mitigation.alu = 1 <=> NeedsScratchBaseWait(prog.target, Op, local)
  BY <1>18, <1>14 DEF t
<1>22. Fields(Mitigation.state, Less(local.lgkmToValu, Mitigation.total),
              local.lgkmPending, Aged(local.hazards, Mitigation.total),
              AgedCoexec(local.coexec, Mitigation.vnops),
              IF Mitigation.alu = 1 THEN [b \in ScratchBases |-> 0] ELSE local.scratchBase)
  BY <1>18, <1>15 DEF v, n, h, c, g
<1> QED BY <1>2, <1>5, <1>9, <1>14, <1>16, <1>17, <1>18, <1>19, <1>20, <1>21, <1>22

-----------------------------------------------------------------------------
(* The types of the parts. *)

(* Entries of one operation with the same key are the same. *)
LEMMA ProducedOnce ==
    ASSUME NEW t, NEW op, NEW e \in Produced(t, op), NEW f \in Produced(t, op), e.key = f.key
    PROVE  e = f
<1>1. PICK span, kind : e = [key |-> <<span, kind>>, limit |-> KindLimit(t, op.passes, kind),
                             passes |-> KindPasses(op.passes, kind)]
  BY ProducedEntry DEF IsEntry
<1>2. PICK span2, kind2 : f = [key |-> <<span2, kind2>>, limit |-> KindLimit(t, op.passes, kind2),
                               passes |-> KindPasses(op.passes, kind2)]
  BY ProducedEntry DEF IsEntry
<1>3. span = span2 /\ kind = kind2
  BY <1>1, <1>2
<1> QED BY <1>1, <1>2, <1>3

LEMMA EntryType ==
    ASSUME NEW t, NEW op, IsOperation(t, op), NEW e \in Produced(t, op)
    PROVE  /\ e = [key |-> e.key, limit |-> e.limit, passes |-> e.passes]
           /\ e.key = <<e.key[1], e.key[2]>> /\ e.key[2] \in Kinds
           /\ e.limit \in 1..MostLimit /\ e.passes \in 0..MostPasses
           /\ e.limit = KindLimit(t, op.passes, e.key[2])
           /\ e.passes = KindPasses(op.passes, e.key[2])
           /\ e.key[2] \in {"MfmaWrite", "MfmaStore"} => MFMA(op) /\ e.key[1] = op.def
           /\ e.key[2] = "MfmaSrcCRead" => MFMA(op) /\ e.key[1] = op.acc
           /\ e.key[2] = "M0Write" => e.key[1] = {"m0"}
<1>1. PICK span, kind :
        /\ kind \in Kinds
        /\ e = [key |-> <<span, kind>>, limit |-> KindLimit(t, op.passes, kind),
                passes |-> KindPasses(op.passes, kind)]
        /\ e.limit > 0
        /\ kind \in {"MfmaWrite", "MfmaStore"} => MFMA(op) /\ span = op.def
        /\ kind = "MfmaSrcCRead" => MFMA(op) /\ span = op.acc
        /\ kind = "M0Write" => span = {"m0"}
  BY ProducedEntry DEF IsEntry
<1>2. /\ e.key[1] = span /\ e.key[2] = kind /\ e.limit = KindLimit(t, op.passes, kind)
      /\ e.passes = KindPasses(op.passes, kind)
      /\ e = [key |-> e.key, limit |-> e.limit, passes |-> e.passes]
      /\ e.key = <<e.key[1], e.key[2]>>
  BY <1>1
<1>3. op.passes \in 0..MostPasses
  BY DEF IsOperation
<1>4. KindLimit(t, op.passes, kind) \in Int /\ KindLimit(t, op.passes, kind) <= MostLimit
      /\ KindPasses(op.passes, kind) \in 0..MostPasses
  BY <1>1, <1>3, KindLimitType
<1>5. e.limit \in 1..MostLimit /\ e.passes \in 0..MostPasses
  BY <1>1, <1>2, <1>4 DEF MostLimit, MostPasses
<1> QED BY <1>1, <1>2, <1>5

LEMMA NewHazardsEntry ==
    ASSUME NEW t, NEW op, IsOperation(t, op), NEW e \in Produced(t, op)
    PROVE  /\ e.key \in DOMAIN NewHazards(t, op)
           /\ NewHazards(t, op)[e.key].limit = e.limit
           /\ NewHazards(t, op)[e.key].remaining = e.limit
           /\ NewHazards(t, op)[e.key].passes = e.passes
           /\ NewHazards(t, op)[e.key] \in Hazard
<1> DEFINE N == NewHazards(t, op)
           P == Produced(t, op)
           x == N[e.key]
           l == e.limit
           p == e.passes
           c == CHOOSE y \in P : y.key = e.key
<1>1. e.key \in {y.key : y \in P}
  OBVIOUS
<1>2. x = [limit |-> c.limit, remaining |-> c.limit, passes |-> c.passes] /\ e.key \in DOMAIN N
  BY <1>1 DEF NewHazards
<1>3. c \in P /\ c.key = e.key
  <2>1. e \in P
    OBVIOUS
  <2> HIDE DEF P
  <2> QED BY <2>1, Zenon
<1>4. l \in 1..MostLimit /\ p \in 0..MostPasses
  BY EntryType
<1> HIDE DEF c
<1>5. c = e
  BY <1>3, ProducedOnce
<1>6. x = [limit |-> l, remaining |-> l, passes |-> p] /\ e.key \in DOMAIN N
  BY <1>2, <1>5
<1> HIDE DEF x, l, p, N, P
<1>7. x.limit = l /\ x.remaining = l /\ x.passes = p /\ x \in Hazard
  BY <1>4, <1>6 DEF Hazard
<1> QED BY <1>6, <1>7 DEF x, l, p, N

LEMMA NewHazardsIs ==
    ASSUME NEW t, NEW op, IsOperation(t, op)
    PROVE  /\ IsHazards(NewHazards(t, op))
           /\ DOMAIN NewHazards(t, op) = {e.key : e \in Produced(t, op)}
<1> DEFINE N == NewHazards(t, op)
           P == Produced(t, op)
<1>1. DOMAIN N = {e.key : e \in P} /\ N = [k \in DOMAIN N |-> N[k]]
  BY DEF NewHazards
<1>2. ASSUME NEW e \in P
      PROVE  N[e.key] \in Hazard /\ N[e.key].remaining <= N[e.key].limit
  <2>1. /\ N[e.key].limit = e.limit /\ N[e.key].remaining = e.limit
        /\ N[e.key] \in Hazard /\ e.limit \in 1..MostLimit
    BY NewHazardsEntry, EntryType
  <2> HIDE DEF N
  <2> QED BY <2>1
<1> HIDE DEF N, P
<1>3. IsHazards(N)
  BY <1>1, <1>2 DEF IsHazards
<1> QED BY <1>1, <1>3 DEF N, P

LEMMA RestrictedHazards ==
    ASSUME NEW f, IsHazards(f), NEW op
    PROVE  /\ IsHazards(Replaced(op, f)) /\ IsHazards(Waited(op, f))
           /\ DOMAIN Replaced(op, f) \subseteq DOMAIN f /\ DOMAIN Waited(op, f) \subseteq DOMAIN f
           /\ \A k \in DOMAIN Replaced(op, f) : Replaced(op, f)[k] = f[k]
           /\ \A k \in DOMAIN Waited(op, f) : Waited(op, f)[k] = f[k]
           /\ \A k \in DOMAIN f : k[2] \notin ValueKinds \/ k[1] # op.def => k \in DOMAIN Replaced(op, f)
           /\ \A k \in DOMAIN f : op.kind # "wait_alu" \/ k[2] \notin AluKinds =>
                 k \in DOMAIN Waited(op, f)
           /\ \A k \in DOMAIN Waited(op, f) : op.kind = "wait_alu" => k[2] \notin AluKinds
<1> DEFINE R == Replaced(op, f)
           W == Waited(op, f)
           D == {k \in DOMAIN f : k[2] \notin ValueKinds \/ k[1] # op.def}
           E == IF op.kind # "wait_alu" THEN DOMAIN f ELSE {k \in DOMAIN f : k[2] \notin AluKinds}
<1>0. \A k \in DOMAIN f : f[k] \in Hazard /\ f[k].remaining <= f[k].limit
  BY DEF IsHazards
<1>1. DOMAIN R = D /\ R = [k \in DOMAIN R |-> R[k]] /\ \A k \in D : R[k] = f[k]
  BY DEF Replaced
<1>2. DOMAIN W = E /\ W = [k \in DOMAIN W |-> W[k]] /\ \A k \in E : W[k] = f[k]
  BY DEF Waited, IsHazards
<1>3. D \subseteq DOMAIN f /\ E \subseteq DOMAIN f
  OBVIOUS
<1> HIDE DEF R, W
<1>4. (\A k \in DOMAIN f : k[2] \notin ValueKinds \/ k[1] # op.def => k \in DOMAIN R)
      /\ (\A k \in DOMAIN f : op.kind # "wait_alu" \/ k[2] \notin AluKinds => k \in DOMAIN W)
      /\ \A k \in DOMAIN W : op.kind = "wait_alu" => k[2] \notin AluKinds
  BY <1>1, <1>2
<1> HIDE DEF D, E
<1>5. IsHazards(R) /\ IsHazards(W)
  BY <1>0, <1>1, <1>2, <1>3 DEF IsHazards
<1> QED BY <1>1, <1>2, <1>3, <1>4, <1>5 DEF R, W

LEMMA HazardsAfterType ==
    ASSUME NEW t, NEW op, IsOperation(t, op), NEW f, IsHazards(f)
    PROVE  IsHazards(HazardsAfter(t, op, f))
           /\ MergedHazards(Replaced(op, Waited(op, f)), NewHazards(t, op), HazardsAfter(t, op, f))
<1>1. IsHazards(Waited(op, f))
  BY RestrictedHazards
<1>2. IsHazards(Replaced(op, Waited(op, f)))
  BY <1>1, RestrictedHazards
<1>3. IsHazards(NewHazards(t, op))
  BY NewHazardsIs
<1>4. MergedHazards(Replaced(op, Waited(op, f)), NewHazards(t, op), HazardsAfter(t, op, f))
  BY <1>2, <1>3, MergeHazards DEF HazardsAfter
<1> QED BY <1>4 DEF MergedHazards

(* The coexecution entries of an operation. *)
CoexecKinds == {"TransDef", "TransUse", "WmmaDef", "WmmaUse"}

CoexecWmma(p, kind) == IF kind = "WmmaDef" THEN p + 1 ELSE 0
CoexecValu(p, kind) == IF kind \in {"WmmaDef", "WmmaUse"} THEN p ELSE 1

LEMMA CoexecEntry ==
    ASSUME NEW t, NEW op, NEW e \in CoexecProduced(t, op)
    PROVE  \E span, kind : /\ kind \in CoexecKinds
                           /\ e = <<span, kind, CoexecWmma(op.passes, kind),
                                    CoexecValu(op.passes, kind)>>
<1>1. \/ e = <<op.def, "TransDef", 0, 1>>
      \/ \E x \in op.uses : e = <<x, "TransUse", 0, 1>>
      \/ e = <<op.def, "WmmaDef", op.passes + 1, op.passes>>
      \/ \E x \in op.uses : e = <<x, "WmmaUse", 0, op.passes>>
  BY DEF CoexecProduced
<1>2. CASE e = <<op.def, "TransDef", 0, 1>>
  BY <1>2 DEF CoexecKinds, CoexecWmma, CoexecValu
<1>3. CASE \E x \in op.uses : e = <<x, "TransUse", 0, 1>>
  BY <1>3 DEF CoexecKinds, CoexecWmma, CoexecValu
<1>4. CASE e = <<op.def, "WmmaDef", op.passes + 1, op.passes>>
  BY <1>4 DEF CoexecKinds, CoexecWmma, CoexecValu
<1>5. CASE \E x \in op.uses : e = <<x, "WmmaUse", 0, op.passes>>
  BY <1>5 DEF CoexecKinds, CoexecWmma, CoexecValu
<1> QED BY <1>1, <1>2, <1>3, <1>4, <1>5

LEMMA CoexecEntryType ==
    ASSUME NEW t, NEW op, IsOperation(t, op), NEW e \in CoexecProduced(t, op)
    PROVE  /\ e = <<e[1], e[2], e[3], e[4]>>
           /\ e[3] = CoexecWmma(op.passes, e[2]) /\ e[4] = CoexecValu(op.passes, e[2])
           /\ e[3] \in 0..MostLimit /\ e[4] \in 0..MostLimit
<1>1. PICK span, kind : e = <<span, kind, CoexecWmma(op.passes, kind), CoexecValu(op.passes, kind)>>
  BY CoexecEntry
<1>2. /\ e[2] = kind /\ e[3] = CoexecWmma(op.passes, kind) /\ e[4] = CoexecValu(op.passes, kind)
      /\ e = <<e[1], e[2], e[3], e[4]>>
  BY <1>1
<1>3. op.passes \in 0..64
  BY DEF IsOperation, MostPasses
<1>4. CoexecWmma(op.passes, kind) \in 0..MostLimit /\ CoexecValu(op.passes, kind) \in 0..MostLimit
  BY <1>3 DEF CoexecWmma, CoexecValu, MostLimit, MostPasses
<1> QED BY <1>2, <1>4

LEMMA NewCoexecEntry ==
    ASSUME NEW t, NEW op, IsOperation(t, op), NEW e \in CoexecProduced(t, op)
    PROVE  /\ <<e[1], e[2]>> \in DOMAIN NewCoexec(t, op)
           /\ NewCoexec(t, op)[<<e[1], e[2]>>].wmma = e[3]
           /\ NewCoexec(t, op)[<<e[1], e[2]>>].valu = e[4]
           /\ NewCoexec(t, op)[<<e[1], e[2]>>] \in Forwarding
<1> DEFINE N == NewCoexec(t, op)
           P == CoexecProduced(t, op)
           k == <<e[1], e[2]>>
           u == e[3]
           v == e[4]
           c == CHOOSE x \in P : <<x[1], x[2]>> = k
<1>1. k \in {<<x[1], x[2]>> : x \in P}
  OBVIOUS
<1>2. N[k] = [wmma |-> c[3], valu |-> c[4]] /\ k \in DOMAIN N
  BY <1>1 DEF NewCoexec
<1>3. c \in P /\ <<c[1], c[2]>> = k
  <2>1. e \in P
    OBVIOUS
  <2> HIDE DEF P
  <2> QED BY <2>1, Zenon
<1> HIDE DEF c
<1>4. c[2] = e[2]
  BY <1>3
<1>5. c[3] = u /\ c[4] = v
  <2>1. c[3] = CoexecWmma(op.passes, c[2]) /\ c[4] = CoexecValu(op.passes, c[2])
    BY <1>3, CoexecEntryType
  <2>2. e[3] = CoexecWmma(op.passes, e[2]) /\ e[4] = CoexecValu(op.passes, e[2])
    BY CoexecEntryType
  <2> QED BY <1>4, <2>1, <2>2
<1>6. u \in 0..MostLimit /\ v \in 0..MostLimit
  BY CoexecEntryType
<1> HIDE DEF N, k, u, v
<1>7. N[k].wmma = u /\ N[k].valu = v /\ N[k] \in Forwarding
  BY <1>2, <1>5, <1>6 DEF Forwarding
<1> QED BY <1>2, <1>7 DEF N, k, u, v

LEMMA NewCoexecIs ==
    ASSUME NEW t, NEW op, IsOperation(t, op)
    PROVE  IsCoexec(NewCoexec(t, op))
<1> DEFINE N == NewCoexec(t, op)
           P == CoexecProduced(t, op)
<1>1. DOMAIN N = {<<e[1], e[2]>> : e \in P} /\ N = [k \in DOMAIN N |-> N[k]]
  BY DEF NewCoexec
<1>2. ASSUME NEW e \in P PROVE N[<<e[1], e[2]>>] \in Forwarding
  BY NewCoexecEntry
<1> HIDE DEF N, P
<1>3. IsCoexec(N)
  BY <1>1, <1>2 DEF IsCoexec
<1> QED BY <1>3 DEF N

LEMMA CoexecAfterType ==
    ASSUME NEW t, NEW op, IsOperation(t, op), NEW f, IsCoexec(f)
    PROVE  /\ IsCoexec(CoexecAfter(t, op, f))
           /\ MergedCoexec(IF VALUForCoexec(op) THEN AgedCoexec(f, op.count) ELSE f,
                           NewCoexec(t, op), CoexecAfter(t, op, f))
<1> DEFINE a == IF VALUForCoexec(op) THEN AgedCoexec(f, op.count) ELSE f
<1>1. op.count \in Nat
  BY DEF IsOperation
<1>2. IsCoexec(a)
  BY <1>1, AgedForwarding
<1> HIDE DEF a
<1>3. IsCoexec(NewCoexec(t, op))
  BY NewCoexecIs
<1>4. MergedCoexec(a, NewCoexec(t, op), Merge(a, NewCoexec(t, op)))
  BY <1>2, <1>3, MergeCoexec
<1>5. Merge(a, NewCoexec(t, op)) = CoexecAfter(t, op, f)
  BY DEF CoexecAfter, a
<1>6. IsCoexec(Merge(a, NewCoexec(t, op)))
  BY <1>4 DEF MergedCoexec
<1> QED BY <1>4, <1>5, <1>6 DEF a

LEMMA BasesAfterType ==
    ASSUME NEW t, NEW op, IsOperation(t, op), NEW g \in [ScratchBases -> 0..ScratchBaseWrites]
    PROVE  BasesAfter(t, op, g) \in [ScratchBases -> 0..ScratchBaseWrites]
<1>1. op.count \in Nat /\ ScratchBaseWrites = 10
  BY DEF IsOperation, ScratchBaseWrites
<1>2. \A b \in ScratchBases : g[b] \in 0..10
  BY <1>1
<1>3. \A n \in 0..10 : Less(n, op.count) \in 0..10
  BY <1>1 DEF Less
<1>4. \A b \in ScratchBases : BasesAfter(t, op, g)[b] \in 0..10
  BY <1>1, <1>2, <1>3 DEF BasesAfter
<1> QED BY <1>1, <1>4 DEF BasesAfter

LEMMA LgkmAfterType ==
    ASSUME NEW t, NEW op, IsOperation(t, op), NEW v \in 0..1, NEW n \in 0..(LgkmDefault + 1)
    PROVE  /\ PendingIssued(t, op, n) \in 0..(LgkmDefault + 1)
           /\ PendingAfter(t, op, n) \in 0..(LgkmDefault + 1)
           /\ ToValuAfter(t, op, v, n) \in 0..1
<1>1. op.count \in Nat /\ op.passes \in Nat /\ LgkmDefault \in Nat /\ n \in Nat
  BY HazardAssumption DEF IsOperation, MostPasses
<1>2. States(op) \in Nat
  BY <1>1 DEF States
<1>3. PendingIssued(t, op, n) \in 0..(LgkmDefault + 1)
  <2>1. Min({LgkmDefault + 1, n + 1}) \in 0..(LgkmDefault + 1)
    BY <1>1, MinOfTwo
  <2> QED BY <2>1 DEF PendingIssued
<1>4. PendingAfter(t, op, n) \in 0..(LgkmDefault + 1)
  <2> DEFINE m == PendingIssued(t, op, n)
  <2> HIDE DEF m
  <2>1. m \in 0..(LgkmDefault + 1)
    BY <1>3 DEF m
  <2>2. Min({m, op.passes}) \in 0..(LgkmDefault + 1)
    BY <1>1, <2>1, MinOfTwo
  <2> QED BY <2>1, <2>2 DEF PendingAfter, m
<1>5. Less(v, States(op)) \in 0..1
  BY <1>2 DEF Less
<1>6. ToValuAfter(t, op, v, n) \in 0..1
  BY <1>5 DEF ToValuAfter, Larger
<1> QED BY <1>3, <1>4, <1>6

LEMMA FieldsType ==
    ASSUME NEW s, NEW v \in 0..1, NEW n \in 0..(LgkmDefault + 1), NEW f, NEW c,
           NEW g \in [ScratchBases -> 0..ScratchBaseWrites], IsHazards(f), IsCoexec(c),
           Fields(s, v, n, f, c, g)
    PROVE  IsState(s)
<1>1. /\ s.lgkmToValu = v /\ s.lgkmPending = n /\ s.hazards = f /\ s.coexec = c
      /\ s.scratchBase = g
  BY OfFields
<1>2. s = [lgkmToValu |-> s.lgkmToValu, lgkmPending |-> s.lgkmPending,
           hazards |-> s.hazards, coexec |-> s.coexec, scratchBase |-> s.scratchBase]
  BY <1>1 DEF Fields
<1> QED BY <1>1, <1>2 DEF IsState

LEMMA TransferType ==
    ASSUME NEW t, NEW op, IsOperation(t, op), NEW s, IsState(s)
    PROVE  IsState(Transfer(t, op, s))
<1>1. /\ s.lgkmToValu \in 0..1 /\ s.lgkmPending \in 0..(LgkmDefault + 1)
      /\ IsHazards(s.hazards) /\ IsCoexec(s.coexec)
      /\ s.scratchBase \in [ScratchBases -> 0..ScratchBaseWrites]
  BY StateFields
<1>2. States(op) \in Nat
  BY DEF States, IsOperation
<1>3. IsHazards(Aged(s.hazards, States(op)))
  BY <1>1, <1>2, AgedHazards
<1>4. IsHazards(HazardsAfter(t, op, Aged(s.hazards, States(op))))
  BY <1>3, HazardsAfterType
<1>5. IsCoexec(CoexecAfter(t, op, s.coexec))
  BY <1>1, CoexecAfterType
<1>6. BasesAfter(t, op, s.scratchBase) \in [ScratchBases -> 0..ScratchBaseWrites]
  BY <1>1, BasesAfterType
<1>7. /\ ToValuAfter(t, op, s.lgkmToValu, s.lgkmPending) \in 0..1
      /\ PendingAfter(t, op, s.lgkmPending) \in 0..(LgkmDefault + 1)
  BY <1>1, LgkmAfterType
<1> QED BY <1>4, <1>5, <1>6, <1>7, TransferFields, FieldsType

LEMMA BranchFields ==
    ASSUME NEW s, IsState(s)
    PROVE  /\ Fields(TransferBranch(s), s.lgkmToValu, s.lgkmPending, Aged(s.hazards, 1), s.coexec,
                     s.scratchBase)
           /\ IsState(TransferBranch(s))
<1>1. /\ s.lgkmToValu \in 0..1 /\ s.lgkmPending \in 0..(LgkmDefault + 1)
      /\ IsHazards(s.hazards) /\ IsCoexec(s.coexec)
      /\ s.scratchBase \in [ScratchBases -> 0..ScratchBaseWrites]
      /\ Fields(s, s.lgkmToValu, s.lgkmPending, s.hazards, s.coexec, s.scratchBase)
  BY StateFields
<1>2. Fields(TransferBranch(s), s.lgkmToValu, s.lgkmPending, Aged(s.hazards, 1), s.coexec,
             s.scratchBase)
  BY <1>1, AfterAdvance DEF TransferBranch
<1>3. IsHazards(Aged(s.hazards, 1))
  BY <1>1, AgedHazards
<1>4. IsState(TransferBranch(s))
  BY <1>1, <1>2, <1>3, FieldsType
<1> QED BY <1>2, <1>4

LEMMA MitigatedType ==
    ASSUME IsState(local)
    PROVE  IsState(Mitigation.state)
<1> DEFINE m == Mitigation
<1>1. /\ local.lgkmToValu \in 0..1 /\ local.lgkmPending \in 0..(LgkmDefault + 1)
      /\ IsHazards(local.hazards) /\ IsCoexec(local.coexec)
      /\ local.scratchBase \in [ScratchBases -> 0..ScratchBaseWrites]
  BY StateFields
<1>2. /\ m.total \in Nat /\ m.vnops \in 0..MostLimit
      /\ Fields(m.state, Less(local.lgkmToValu, m.total), local.lgkmPending,
                Aged(local.hazards, m.total), AgedCoexec(local.coexec, m.vnops),
                IF m.alu = 1 THEN [b \in ScratchBases |-> 0] ELSE local.scratchBase)
  BY MitigationIs
<1> HIDE DEF m
<1>3. m.vnops \in Nat
  BY <1>2 DEF MostLimit, MostPasses
<1>4. IsHazards(Aged(local.hazards, m.total)) /\ IsCoexec(AgedCoexec(local.coexec, m.vnops))
  BY <1>1, <1>2, <1>3, AgedHazards, AgedForwarding
<1>5. Less(local.lgkmToValu, m.total) \in 0..1
  BY <1>1, <1>2 DEF Less
<1> DEFINE g == IF m.alu = 1 THEN [b \in ScratchBases |-> 0] ELSE local.scratchBase
<1>6. g \in [ScratchBases -> 0..ScratchBaseWrites]
  BY <1>1 DEF ScratchBaseWrites
<1> HIDE DEF g
<1>7. Fields(m.state, Less(local.lgkmToValu, m.total), local.lgkmPending,
             Aged(local.hazards, m.total), AgedCoexec(local.coexec, m.vnops), g)
  BY <1>2 DEF g
<1>8. IsState(m.state)
  BY <1>1, <1>4, <1>5, <1>6, <1>7, FieldsType
<1> QED BY <1>8 DEF m

-----------------------------------------------------------------------------
(* What a state knows of the past: every hazard that is still open is there, *)
(* with at least the wait states it has left.  Two kinds of value hazards    *)
(* are given up when the register is written again; a hazard of the same age *)
(* and limit stands in for each.                                             *)
Twinned == {"MfmaStore", "Permlane32Swap"}

HazardCover(xs, f) ==
    \A x \in xs :
        x.entry.key[2] \notin Twinned /\ x.age + x.dropped < x.entry.limit =>
            /\ x.entry.key \in DOMAIN f
            /\ f[x.entry.key].remaining >= x.entry.limit - (x.age + x.dropped)

HasTwin(xs, x, kind) ==
    \E y \in xs : /\ y.entry.key = <<x.entry.key[1], kind>> /\ y.entry.limit = x.entry.limit
                  /\ y.age = x.age /\ y.dropped = x.dropped

Companions(t, xs) ==
    \A x \in xs :
        /\ x.entry.key[2] = "MfmaStore" => HasTwin(xs, x, "MfmaWrite")
        /\ x.entry.key[2] = "Permlane32Swap" => t = "gfx950" /\ HasTwin(xs, x, "ValuWriteVGPR")

EntryOK(e) ==
    /\ e.limit \in 1..MostLimit /\ e.key = <<e.key[1], e.key[2]>>
    /\ e.key[2] = "M0Write" => e.key[1] = {"m0"} /\ e.limit = 1

IsPast(xs) ==
    /\ \A x \in xs : /\ x = [entry |-> x.entry, age |-> x.age, dropped |-> x.dropped]
                     /\ x.age \in Nat /\ x.dropped \in Nat /\ EntryOK(x.entry)

(* The past after an operation, T wait states later. *)
PastAfter(t, op, xs, T) ==
    {x \in Elapse(xs, T, 0) : op.kind = "wait_alu" => x.entry.key[2] \notin AluKinds}
    \union {[entry |-> e, age |-> 0, dropped |-> 0] : e \in Produced(t, op)}

LEMMA Elapsed ==
    ASSUME NEW xs, IsPast(xs), NEW T \in Nat, NEW d \in Nat, NEW y
    PROVE  y \in Elapse(xs, T, d) <=>
              \E x \in xs : /\ y = [entry |-> x.entry, age |-> x.age + T, dropped |-> x.dropped + d]
                            /\ x.age + T < x.entry.limit
  BY Zenon DEF Elapse

LEMMA ElapsedType ==
    ASSUME NEW xs, IsPast(xs), NEW T \in Nat, NEW d \in Nat
    PROVE  IsPast(Elapse(xs, T, d))
<1>1. SUFFICES ASSUME NEW y \in Elapse(xs, T, d)
               PROVE  /\ y = [entry |-> y.entry, age |-> y.age, dropped |-> y.dropped]
                      /\ y.age \in Nat /\ y.dropped \in Nat /\ EntryOK(y.entry)
  BY DEF IsPast
<1>2. PICK x \in xs : y = [entry |-> x.entry, age |-> x.age + T, dropped |-> x.dropped + d]
  BY Elapsed
<1>3. x.age \in Nat /\ x.dropped \in Nat /\ EntryOK(x.entry)
  BY DEF IsPast
<1> QED BY <1>2, <1>3

LEMMA PastAfterType ==
    ASSUME NEW t, NEW op, IsOperation(t, op), NEW xs, IsPast(xs), NEW T \in Nat
    PROVE  IsPast(PastAfter(t, op, xs, T))
<1>1. IsPast(Elapse(xs, T, 0))
  BY ElapsedType
<1>2. ASSUME NEW e \in Produced(t, op)
      PROVE  EntryOK(e)
  BY EntryType, KindLimits DEF EntryOK, M0Delay
<1>3. ASSUME NEW e \in Produced(t, op), NEW x, x = [entry |-> e, age |-> 0, dropped |-> 0]
      PROVE  /\ x = [entry |-> x.entry, age |-> x.age, dropped |-> x.dropped]
             /\ x.age \in Nat /\ x.dropped \in Nat /\ EntryOK(x.entry)
  BY <1>2, <1>3
<1> QED BY <1>1, <1>3 DEF IsPast, PastAfter

(* The hazards after an operation cover the past after it, if the analysis   *)
(* aged them by no more than went by.                                        *)
LEMMA HazardIssue ==
    ASSUME NEW t, NEW op, IsOperation(t, op), NEW xs, IsPast(xs), NEW f, IsHazards(f),
           HazardCover(xs, f), NEW d \in Nat, NEW T \in Nat, d <= T
    PROVE  HazardCover(PastAfter(t, op, xs, T), HazardsAfter(t, op, Aged(f, d)))
<1> DEFINE a == Aged(f, d)
           w == Waited(op, a)
           r == Replaced(op, w)
           n == NewHazards(t, op)
           z == HazardsAfter(t, op, a)
<1>1. /\ IsHazards(a) /\ DOMAIN a = {k \in DOMAIN f : f[k].remaining > d}
      /\ \A k \in DOMAIN a : a[k].remaining = f[k].remaining - d
  BY AgedHazards
<1>2. IsHazards(w) /\ IsHazards(r) /\ IsHazards(n)
  <2>1. IsHazards(w)
    BY <1>1, RestrictedHazards
  <2> HIDE DEF w
  <2>2. IsHazards(r)
    BY <2>1, RestrictedHazards
  <2> QED BY <2>1, <2>2, NewHazardsIs
<1>3. HazardsBelow(r, z) /\ HazardsBelow(n, z)
  BY <1>2, MergeHazardsAbove DEF HazardsAfter
<1>4. /\ \A k \in DOMAIN r : k \in DOMAIN w /\ r[k] = w[k]
      /\ \A k \in DOMAIN w : k \in DOMAIN a /\ w[k] = a[k]
      /\ \A k \in DOMAIN w : k[2] \notin ValueKinds \/ k[1] # op.def => k \in DOMAIN r
      /\ \A k \in DOMAIN a : op.kind # "wait_alu" \/ k[2] \notin AluKinds => k \in DOMAIN w
  <2> HIDE DEF a
  <2>1. /\ \A k \in DOMAIN w : k \in DOMAIN a /\ w[k] = a[k]
        /\ \A k \in DOMAIN a : op.kind # "wait_alu" \/ k[2] \notin AluKinds => k \in DOMAIN w
    BY <1>1, RestrictedHazards
  <2> HIDE DEF w
  <2>2. /\ \A k \in DOMAIN r : k \in DOMAIN w /\ r[k] = w[k]
        /\ \A k \in DOMAIN w : k[2] \notin ValueKinds \/ k[1] # op.def => k \in DOMAIN r
    BY <1>2, RestrictedHazards
  <2> QED BY <2>1, <2>2
<1>5. \A e \in Produced(t, op) : e.key \in DOMAIN n /\ n[e.key].remaining = e.limit
  BY NewHazardsEntry
<1>6. \A k \in DOMAIN z : z[k].remaining \in Int
  <2>1. IsHazards(z)
    BY <1>1, HazardsAfterType
  <2> HIDE DEF z
  <2> QED BY <2>1 DEF IsHazards, Hazard
<1>i. \A k \in DOMAIN f : f[k].remaining \in Int
  BY DEF IsHazards, Hazard
<1>7. \A e \in Produced(t, op) : e.key \in DOMAIN z /\ z[e.key].remaining >= e.limit
  <2> HIDE DEF n, z, r
  <2>1. TAKE e \in Produced(t, op)
  <2>2. e.limit \in Int
    BY EntryType
  <2>3. e.key \in DOMAIN z /\ n[e.key].remaining <= z[e.key].remaining
    BY <1>3, <1>5 DEF HazardsBelow
  <2> QED BY <1>5, <1>6, <2>2, <2>3
<1> SUFFICES ASSUME NEW y \in PastAfter(t, op, xs, T), y.entry.key[2] \notin Twinned,
                    y.age + y.dropped < y.entry.limit
             PROVE  /\ y.entry.key \in DOMAIN z
                    /\ z[y.entry.key].remaining >= y.entry.limit - (y.age + y.dropped)
  BY DEF HazardCover
<1>8. \/ y \in Elapse(xs, T, 0) /\ (op.kind = "wait_alu" => y.entry.key[2] \notin AluKinds)
      \/ \E e \in Produced(t, op) : y = [entry |-> e, age |-> 0, dropped |-> 0]
  BY DEF PastAfter
<1> HIDE DEF a, w, r, n, z
<1>9. CASE \E e \in Produced(t, op) : y = [entry |-> e, age |-> 0, dropped |-> 0]
  <2>1. PICK e \in Produced(t, op) : y = [entry |-> e, age |-> 0, dropped |-> 0]
    BY <1>9
  <2>2. e.limit \in Int
    BY EntryType
  <2>3. y.entry = e /\ y.age = 0 /\ y.dropped = 0
    BY <2>1
  <2> QED BY <1>6, <1>7, <2>2, <2>3
<1>10. CASE y \in Elapse(xs, T, 0) /\ (op.kind = "wait_alu" => y.entry.key[2] \notin AluKinds)
  <2>1. PICK x \in xs : y = [entry |-> x.entry, age |-> x.age + T, dropped |-> x.dropped + 0]
    BY <1>10, Elapsed
  <2>2. x.age \in Nat /\ x.dropped \in Nat /\ EntryOK(x.entry)
    BY DEF IsPast
  <2> DEFINE k == x.entry.key
             l == x.entry.limit
  <2>3. y.entry = x.entry /\ y.age = x.age + T /\ y.dropped = x.dropped /\ l \in Int
    BY <2>1, <2>2 DEF EntryOK
  <2>4. k[2] \notin Twinned /\ x.age + T + x.dropped < l
    BY <2>3
  <2>5. k \in DOMAIN f /\ f[k].remaining >= l - (x.age + x.dropped)
    BY <2>2, <2>3, <2>4 DEF HazardCover
  <2>6. k \in DOMAIN a /\ a[k].remaining >= l - (x.age + T + x.dropped)
    <3> HIDE DEF k, l
    <3>1. f[k].remaining \in Int
      BY <1>i, <2>5
    <3>2. f[k].remaining > d /\ f[k].remaining - d >= l - (x.age + T + x.dropped)
      BY <2>2, <2>3, <2>4, <2>5, <3>1
    <3> QED BY <1>1, <2>5, <3>2
  <2>7. k \in DOMAIN w /\ w[k] = a[k]
    BY <1>4, <1>10, <2>3, <2>6
  <2>8. CASE k \in DOMAIN r
    <3> HIDE DEF k, l
    <3>1. k \in DOMAIN z /\ r[k].remaining <= z[k].remaining /\ r[k] = a[k]
      BY <1>3, <1>4, <2>7, <2>8 DEF HazardsBelow
    <3>2. a[k].remaining \in Int
      BY <1>1, <2>6 DEF IsHazards, Hazard
    <3>3. z[k].remaining >= l - (x.age + T + x.dropped)
      BY <1>6, <2>2, <2>3, <2>6, <3>1, <3>2
    <3> QED BY <2>2, <2>3, <3>1, <3>3 DEF k, l
  <2>9. CASE k \notin DOMAIN r
    <3>1. k[2] \in ValueKinds /\ k[1] = op.def
      BY <1>4, <2>7, <2>9
    <3>2. k[2] = "M0Write"
      BY <3>1, <2>4 DEF ValueKinds, Twinned
    <3>3. op.def = {"m0"} /\ l = 1
      BY <3>1, <3>2, <2>2 DEF EntryOK
    <3>4. Entry({"m0"}, "M0Write", M0Delay, 0) \in Produced(t, op)
      <4>1. Entry({"m0"}, "M0Write", M0Delay, 0).limit > 0
        BY DEF Entry, M0Delay
      <4>2. M0Writer(op)
        BY <3>3 DEF M0Writer
      <4> QED BY <4>1, <4>2, Zenon DEF Produced
    <3>5. Entry({"m0"}, "M0Write", M0Delay, 0).key = <<{"m0"}, "M0Write">>
          /\ Entry({"m0"}, "M0Write", M0Delay, 0).limit = 1
      BY DEF Entry, M0Delay
    <3>6. \E e \in Produced(t, op) : e.key = <<{"m0"}, "M0Write">> /\ e.limit = 1
      BY <3>4, <3>5
    <3>7. <<{"m0"}, "M0Write">> \in DOMAIN z /\ z[<<{"m0"}, "M0Write">>].remaining >= 1
      BY <3>6, <1>7
    <3>8. k = <<{"m0"}, "M0Write">>
      BY <3>1, <3>2, <3>3, <2>2 DEF EntryOK
    <3> HIDE DEF k, l
    <3>9. k \in DOMAIN z /\ z[k].remaining >= l /\ z[k].remaining \in Int
      BY <1>6, <3>3, <3>7, <3>8
    <3>10. z[k].remaining >= l - (x.age + T + x.dropped)
      BY <2>2, <2>3, <3>9
    <3> QED BY <2>2, <2>3, <3>9, <3>10 DEF k, l
  <2> QED BY <2>8, <2>9
<1> QED BY <1>8, <1>9, <1>10

LEMMA HazardAbove ==
    ASSUME NEW xs, IsPast(xs), NEW f, NEW g, IsHazards(f), IsHazards(g), HazardsBelow(f, g),
           HazardCover(xs, f)
    PROVE  HazardCover(xs, g)
<1> SUFFICES ASSUME NEW x \in xs, x.entry.key[2] \notin Twinned,
                    x.age + x.dropped < x.entry.limit
             PROVE  /\ x.entry.key \in DOMAIN g
                    /\ g[x.entry.key].remaining >= x.entry.limit - (x.age + x.dropped)
  BY DEF HazardCover
<1> DEFINE k == x.entry.key
           l == x.entry.limit
<1>1. k \in DOMAIN f /\ f[k].remaining >= l - (x.age + x.dropped)
  BY DEF HazardCover
<1>2. x.age \in Int /\ x.dropped \in Int /\ l \in Int
  BY DEF IsPast, EntryOK
<1> HIDE DEF k, l
<1>3. k \in DOMAIN g /\ f[k].remaining <= g[k].remaining
  BY <1>1 DEF HazardsBelow
<1>4. f[k].remaining \in Int /\ g[k].remaining \in Int
  BY <1>1, <1>3 DEF IsHazards, Hazard
<1>5. g[k].remaining >= l - (x.age + x.dropped)
  BY <1>1, <1>2, <1>3, <1>4
<1> QED BY <1>3, <1>5 DEF k, l

(* Across a branch, printed or not. *)
LEMMA HazardBranch ==
    ASSUME NEW xs, IsPast(xs), NEW f, IsHazards(f), HazardCover(xs, f), NEW p \in {0, 1}
    PROVE  HazardCover(Elapse(xs, p, 1 - p), Aged(f, 1))
<1> DEFINE a == Aged(f, 1)
<1>0. 1 \in Nat
  OBVIOUS
<1>1. /\ DOMAIN a = {k \in DOMAIN f : f[k].remaining > 1}
      /\ \A k \in DOMAIN a : a[k].remaining = f[k].remaining - 1
  BY <1>0, AgedHazards, Zenon
<1> HIDE DEF a
<1> SUFFICES ASSUME NEW y \in Elapse(xs, p, 1 - p), y.entry.key[2] \notin Twinned,
                    y.age + y.dropped < y.entry.limit
             PROVE  /\ y.entry.key \in DOMAIN a
                    /\ a[y.entry.key].remaining >= y.entry.limit - (y.age + y.dropped)
  BY DEF HazardCover, a
<1>2. PICK x \in xs : y = [entry |-> x.entry, age |-> x.age + p, dropped |-> x.dropped + (1 - p)]
  BY Elapsed
<1> DEFINE k == x.entry.key
           l == x.entry.limit
<1>3. x.age \in Int /\ x.dropped \in Int /\ l \in Int
  BY DEF IsPast, EntryOK
<1>4. y.entry = x.entry /\ y.age = x.age + p /\ y.dropped = x.dropped + (1 - p)
  BY <1>2
<1>5. x.age + x.dropped + 1 < l /\ y.age + y.dropped = x.age + x.dropped + 1
  BY <1>3, <1>4
<1>6. k \in DOMAIN f /\ f[k].remaining >= l - (x.age + x.dropped)
  BY <1>3, <1>4, <1>5 DEF HazardCover
<1> HIDE DEF k, l
<1>7. f[k].remaining \in Int
  BY <1>6 DEF IsHazards, Hazard
<1>8. k \in DOMAIN a
  BY <1>1, <1>3, <1>5, <1>6, <1>7
<1>9. a[k].remaining >= l - (x.age + x.dropped + 1)
  BY <1>1, <1>3, <1>6, <1>7, <1>8
<1> QED BY <1>4, <1>5, <1>8, <1>9 DEF k, l

LEMMA TwinsElapse ==
    ASSUME NEW t, NEW xs, IsPast(xs), Companions(t, xs), NEW T \in Nat, NEW d \in Nat
    PROVE  Companions(t, Elapse(xs, T, d))
<1>1. ASSUME NEW y \in Elapse(xs, T, d), NEW x \in xs, NEW kind, HasTwin(xs, x, kind),
             y = [entry |-> x.entry, age |-> x.age + T, dropped |-> x.dropped + d],
             x.age + T < x.entry.limit
      PROVE  HasTwin(Elapse(xs, T, d), y, kind)
  <2>1. PICK z \in xs : /\ z.entry.key = <<x.entry.key[1], kind>>
                        /\ z.entry.limit = x.entry.limit
                        /\ z.age = x.age /\ z.dropped = x.dropped
    BY <1>1 DEF HasTwin
  <2> DEFINE u == [entry |-> z.entry, age |-> z.age + T, dropped |-> z.dropped + d]
  <2>2. z.age + T < z.entry.limit
    BY <1>1, <2>1
  <2>3. u \in Elapse(xs, T, d)
    BY <2>2, Elapsed
  <2>4. u.entry.key = <<y.entry.key[1], kind>> /\ u.entry.limit = y.entry.limit
        /\ u.age = y.age /\ u.dropped = y.dropped
    BY <1>1, <2>1
  <2> HIDE DEF u
  <2> QED BY <2>3, <2>4 DEF HasTwin
<1> SUFFICES ASSUME NEW y \in Elapse(xs, T, d)
             PROVE  /\ y.entry.key[2] = "MfmaStore" => HasTwin(Elapse(xs, T, d), y, "MfmaWrite")
                    /\ y.entry.key[2] = "Permlane32Swap" =>
                          t = "gfx950" /\ HasTwin(Elapse(xs, T, d), y, "ValuWriteVGPR")
  BY DEF Companions
<1>2. PICK x \in xs : /\ y = [entry |-> x.entry, age |-> x.age + T, dropped |-> x.dropped + d]
                      /\ x.age + T < x.entry.limit
  BY Elapsed
<1>3. y.entry = x.entry
  BY <1>2
<1> QED BY <1>1, <1>2, <1>3 DEF Companions

LEMMA TwinsIssue ==
    ASSUME NEW t, NEW op, IsOperation(t, op), NEW xs, IsPast(xs), Companions(t, xs), NEW T \in Nat
    PROVE  Companions(t, PastAfter(t, op, xs, T))
<1> DEFINE E == Elapse(xs, T, 0)
           Z == PastAfter(t, op, xs, T)
<1>1. Companions(t, E)
  BY TwinsElapse
<1>2. \A y \in Z : \/ y \in E /\ (op.kind = "wait_alu" => y.entry.key[2] \notin AluKinds)
                   \/ \E e \in Produced(t, op) : y = [entry |-> e, age |-> 0, dropped |-> 0]
  BY DEF PastAfter
<1>3. \A y \in E : (op.kind = "wait_alu" => y.entry.key[2] \notin AluKinds) => y \in Z
  BY DEF PastAfter
<1>4. \A e \in Produced(t, op) : [entry |-> e, age |-> 0, dropped |-> 0] \in Z
  BY DEF PastAfter
<1> HIDE DEF E, Z
<1> SUFFICES ASSUME NEW y \in Z
             PROVE  /\ y.entry.key[2] = "MfmaStore" => HasTwin(Z, y, "MfmaWrite")
                    /\ y.entry.key[2] = "Permlane32Swap" =>
                          t = "gfx950" /\ HasTwin(Z, y, "ValuWriteVGPR")
  BY DEF Companions, Z
<1>5. CASE y \in E
  <2>1. ASSUME y.entry.key[2] = "MfmaStore" PROVE HasTwin(Z, y, "MfmaWrite")
    <3>1. HasTwin(E, y, "MfmaWrite")
      BY <1>1, <1>5, <2>1 DEF Companions
    <3>2. PICK z \in E : /\ z.entry.key = <<y.entry.key[1], "MfmaWrite">>
                         /\ z.entry.limit = y.entry.limit /\ z.age = y.age
                         /\ z.dropped = y.dropped
      BY <3>1 DEF HasTwin
    <3>3. z.entry.key[2] \notin AluKinds
      BY <3>2 DEF AluKinds
    <3>4. z \in Z
      BY <1>3, <3>3
    <3> QED BY <3>2, <3>4 DEF HasTwin
  <2>2. ASSUME y.entry.key[2] = "Permlane32Swap" PROVE t = "gfx950" /\ HasTwin(Z, y, "ValuWriteVGPR")
    <3>1. HasTwin(E, y, "ValuWriteVGPR") /\ t = "gfx950"
      BY <1>1, <1>5, <2>2 DEF Companions
    <3>2. PICK z \in E : /\ z.entry.key = <<y.entry.key[1], "ValuWriteVGPR">>
                         /\ z.entry.limit = y.entry.limit /\ z.age = y.age
                         /\ z.dropped = y.dropped
      BY <3>1 DEF HasTwin
    <3>3. op.kind # "wait_alu"
      BY <3>1 DEF IsOperation, CDNA
    <3>4. z \in Z
      BY <1>3, <3>3
    <3> QED BY <3>1, <3>2, <3>4 DEF HasTwin
  <2> QED BY <2>1, <2>2
<1>6. CASE \E e \in Produced(t, op) : y = [entry |-> e, age |-> 0, dropped |-> 0]
  <2>1. PICK e \in Produced(t, op) : y = [entry |-> e, age |-> 0, dropped |-> 0]
    BY <1>6
  <2>2. y.entry = e /\ y.age = 0 /\ y.dropped = 0
    BY <2>1
  <2>3. ASSUME NEW kind, NEW g \in Produced(t, op), g.key = <<e.key[1], kind>>, g.limit = e.limit
        PROVE  HasTwin(Z, y, kind)
    <3> DEFINE u == [entry |-> g, age |-> 0, dropped |-> 0]
    <3>1. u \in Z
      BY <1>4
    <3>2. u.entry = g /\ u.age = 0 /\ u.dropped = 0
      OBVIOUS
    <3> HIDE DEF u
    <3> QED BY <2>2, <2>3, <3>1, <3>2 DEF HasTwin
  <2>4. CASE e.key[2] = "MfmaStore"
    <3>1. PICK g \in Produced(t, op) : g.key = <<e.key[1], "MfmaWrite">> /\ g.limit = e.limit
      BY <2>4, Twins
    <3> QED BY <2>2, <2>3, <2>4, <3>1
  <2>5. CASE e.key[2] = "Permlane32Swap"
    <3>1. t = "gfx950"
      BY <2>5, Twins
    <3>2. PICK g \in Produced(t, op) : g.key = <<e.key[1], "ValuWriteVGPR">> /\ g.limit = e.limit
      BY <2>5, Twins
    <3> QED BY <2>2, <2>3, <2>5, <3>1, <3>2
  <2> QED BY <2>2, <2>4, <2>5
<1> QED BY <1>2, <1>5, <1>6

-----------------------------------------------------------------------------
(* The coexecution hazards, n VALU slots later. *)
SlotCover(ys, c, n) ==
    \A y \in ys :
        y.slots + n < Larger(y.entry[3], y.entry[4]) =>
            /\ <<y.entry[1], y.entry[2]>> \in DOMAIN c
            /\ c[<<y.entry[1], y.entry[2]>>].wmma >= y.entry[3] - (y.slots + n)
            /\ c[<<y.entry[1], y.entry[2]>>].valu >= y.entry[4] - (y.slots + n)

IsSlots(ys) ==
    \A y \in ys : /\ y = [entry |-> y.entry, slots |-> y.slots] /\ y.slots \in Nat
                  /\ y.entry[3] \in 0..MostLimit /\ y.entry[4] \in 0..MostLimit

SlotsAfter(t, op, ys, n) ==
    ElapseSlots(ys, n) \union {[entry |-> e, slots |-> 0] : e \in CoexecProduced(t, op)}

LEMMA ElapsedSlots ==
    ASSUME NEW ys, NEW n, NEW z
    PROVE  z \in ElapseSlots(ys, n) <=>
              \E y \in ys : /\ z = [entry |-> y.entry, slots |-> y.slots + n]
                            /\ y.slots + n < Larger(y.entry[3], y.entry[4])
  BY Zenon DEF ElapseSlots

LEMMA SlotsType ==
    ASSUME NEW t, NEW op, IsOperation(t, op), NEW ys, IsSlots(ys), NEW n \in Nat
    PROVE  IsSlots(SlotsAfter(t, op, ys, n))
<1> SUFFICES ASSUME NEW z \in SlotsAfter(t, op, ys, n)
             PROVE  /\ z = [entry |-> z.entry, slots |-> z.slots] /\ z.slots \in Nat
                    /\ z.entry[3] \in 0..MostLimit /\ z.entry[4] \in 0..MostLimit
  BY DEF IsSlots
<1>1. CASE z \in ElapseSlots(ys, n)
  <2>1. PICK y \in ys : z = [entry |-> y.entry, slots |-> y.slots + n]
    BY <1>1, ElapsedSlots
  <2>2. y.slots \in Nat /\ y.entry[3] \in 0..MostLimit /\ y.entry[4] \in 0..MostLimit
    BY DEF IsSlots
  <2> QED BY <2>1, <2>2
<1>2. CASE \E e \in CoexecProduced(t, op) : z = [entry |-> e, slots |-> 0]
  <2>1. PICK e \in CoexecProduced(t, op) : z = [entry |-> e, slots |-> 0]
    BY <1>2
  <2>2. e[3] \in 0..MostLimit /\ e[4] \in 0..MostLimit
    BY CoexecEntryType
  <2> QED BY <2>1, <2>2
<1> QED BY <1>1, <1>2 DEF SlotsAfter

LEMMA SlotLater ==
    ASSUME NEW ys, IsSlots(ys), NEW c, IsCoexec(c), NEW m \in Nat, NEW n \in Nat, m <= n,
           SlotCover(ys, c, m)
    PROVE  SlotCover(ys, c, n)
<1> SUFFICES ASSUME NEW y \in ys, y.slots + n < Larger(y.entry[3], y.entry[4])
             PROVE  /\ <<y.entry[1], y.entry[2]>> \in DOMAIN c
                    /\ c[<<y.entry[1], y.entry[2]>>].wmma >= y.entry[3] - (y.slots + n)
                    /\ c[<<y.entry[1], y.entry[2]>>].valu >= y.entry[4] - (y.slots + n)
  BY DEF SlotCover
<1> DEFINE k == <<y.entry[1], y.entry[2]>>
           u == y.entry[3]
           v == y.entry[4]
<1>1. y.slots \in Int /\ u \in Int /\ v \in Int /\ Larger(u, v) \in Int
  BY DEF IsSlots, Larger
<1>2. y.slots + m < Larger(u, v)
  <2> HIDE DEF u, v
  <2>1. y.slots + n < Larger(u, v)
    BY DEF u, v
  <2> QED BY <1>1, <2>1
<1>3. k \in DOMAIN c /\ c[k].wmma >= u - (y.slots + m) /\ c[k].valu >= v - (y.slots + m)
  BY <1>2 DEF SlotCover
<1> HIDE DEF k, u, v
<1>4. c[k].wmma \in Int /\ c[k].valu \in Int
  BY <1>3 DEF IsCoexec, Forwarding
<1>5. c[k].wmma >= u - (y.slots + n) /\ c[k].valu >= v - (y.slots + n)
  BY <1>1, <1>3, <1>4
<1> QED BY <1>3, <1>5 DEF k, u, v

LEMMA SlotAge ==
    ASSUME NEW ys, IsSlots(ys), NEW c, IsCoexec(c), NEW m \in Nat, NEW d \in Nat,
           SlotCover(ys, c, m)
    PROVE  SlotCover(ys, AgedCoexec(c, d), m + d)
<1> DEFINE a == AgedCoexec(c, d)
<1>0. /\ DOMAIN a = {k \in DOMAIN c : c[k].wmma > d \/ c[k].valu > d}
      /\ \A k \in DOMAIN a : a[k].wmma = Less(c[k].wmma, d) /\ a[k].valu = Less(c[k].valu, d)
  BY AgedForwarding, Zenon
<1> HIDE DEF a
<1> SUFFICES ASSUME NEW y \in ys, y.slots + (m + d) < Larger(y.entry[3], y.entry[4])
             PROVE  /\ <<y.entry[1], y.entry[2]>> \in DOMAIN a
                    /\ a[<<y.entry[1], y.entry[2]>>].wmma >= y.entry[3] - (y.slots + (m + d))
                    /\ a[<<y.entry[1], y.entry[2]>>].valu >= y.entry[4] - (y.slots + (m + d))
  BY DEF SlotCover, a
<1> DEFINE k == <<y.entry[1], y.entry[2]>>
           u == y.entry[3]
           v == y.entry[4]
<1>1. y.slots \in Int /\ u \in Int /\ v \in Int
  BY DEF IsSlots
<1>2. y.slots + m < Larger(u, v) /\ (y.slots + (m + d) < u \/ y.slots + (m + d) < v)
  <2> HIDE DEF u, v
  <2>1. y.slots + (m + d) < Larger(u, v)
    BY DEF u, v
  <2> QED BY <1>1, <2>1 DEF Larger
<1>3. k \in DOMAIN c /\ c[k].wmma >= u - (y.slots + m) /\ c[k].valu >= v - (y.slots + m)
  BY <1>2 DEF SlotCover
<1> HIDE DEF k, u, v
<1>4. c[k].wmma \in Int /\ c[k].valu \in Int
  BY <1>3 DEF IsCoexec, Forwarding
<1>5. k \in DOMAIN a
  <2>1. c[k].wmma > d \/ c[k].valu > d
    BY <1>1, <1>2, <1>3, <1>4
  <2> QED BY <1>0, <1>3, <2>1
<1>6. /\ Less(c[k].wmma, d) >= u - (y.slots + (m + d))
      /\ Less(c[k].valu, d) >= v - (y.slots + (m + d))
  BY <1>1, <1>3, <1>4 DEF Less
<1>7. a[k].wmma >= u - (y.slots + (m + d)) /\ a[k].valu >= v - (y.slots + (m + d))
  BY <1>0, <1>5, <1>6
<1> QED BY <1>5, <1>7 DEF k, u, v

LEMMA SlotAbove ==
    ASSUME NEW ys, IsSlots(ys), NEW c, NEW e, IsCoexec(c), IsCoexec(e), CoexecBelow(c, e),
           NEW m \in Nat, SlotCover(ys, c, m)
    PROVE  SlotCover(ys, e, m)
<1> SUFFICES ASSUME NEW y \in ys, y.slots + m < Larger(y.entry[3], y.entry[4])
             PROVE  /\ <<y.entry[1], y.entry[2]>> \in DOMAIN e
                    /\ e[<<y.entry[1], y.entry[2]>>].wmma >= y.entry[3] - (y.slots + m)
                    /\ e[<<y.entry[1], y.entry[2]>>].valu >= y.entry[4] - (y.slots + m)
  BY DEF SlotCover
<1> DEFINE k == <<y.entry[1], y.entry[2]>>
           u == y.entry[3]
           v == y.entry[4]
<1>1. y.slots \in Int /\ u \in Int /\ v \in Int
  BY DEF IsSlots
<1>3. k \in DOMAIN c /\ c[k].wmma >= u - (y.slots + m) /\ c[k].valu >= v - (y.slots + m)
  BY DEF SlotCover
<1> HIDE DEF k, u, v
<1>2. k \in DOMAIN e /\ c[k].wmma <= e[k].wmma /\ c[k].valu <= e[k].valu
  BY <1>3 DEF CoexecBelow
<1>4. c[k].wmma \in Int /\ c[k].valu \in Int /\ e[k].wmma \in Int /\ e[k].valu \in Int
  BY <1>2, <1>3 DEF IsCoexec, Forwarding
<1>5. e[k].wmma >= u - (y.slots + m) /\ e[k].valu >= v - (y.slots + m)
  BY <1>1, <1>2, <1>3, <1>4
<1> QED BY <1>2, <1>5 DEF k, u, v

(* The coexecution hazards after an operation, n slots later, of which the   *)
(* operation itself is the last.                                             *)
LEMMA SlotIssue ==
    ASSUME NEW t, NEW op, IsOperation(t, op), NEW ys, IsSlots(ys), NEW c, IsCoexec(c),
           NEW n \in Nat, SlotCover(ys, c, n)
    PROVE  SlotCover(SlotsAfter(t, op, ys, n), Merge(c, NewCoexec(t, op)), 0)
<1> DEFINE N == NewCoexec(t, op)
           z == Merge(c, N)
<1>1. IsCoexec(N)
  BY NewCoexecIs
<1>2. CoexecBelow(c, z) /\ CoexecBelow(N, z) /\ IsCoexec(z)
  <2> HIDE DEF N
  <2> QED BY <1>1, MergeCoexecAbove, MergeCoexec DEF MergedCoexec
<1> SUFFICES ASSUME NEW x \in SlotsAfter(t, op, ys, n),
                    x.slots + 0 < Larger(x.entry[3], x.entry[4])
             PROVE  /\ <<x.entry[1], x.entry[2]>> \in DOMAIN z
                    /\ z[<<x.entry[1], x.entry[2]>>].wmma >= x.entry[3] - (x.slots + 0)
                    /\ z[<<x.entry[1], x.entry[2]>>].valu >= x.entry[4] - (x.slots + 0)
  BY DEF SlotCover
<1>3. CASE x \in ElapseSlots(ys, n)
  <2>1. PICK y \in ys : /\ x = [entry |-> y.entry, slots |-> y.slots + n]
                        /\ y.slots + n < Larger(y.entry[3], y.entry[4])
    BY <1>3, ElapsedSlots
  <2>2. SlotCover(ys, z, n)
    <3> HIDE DEF z
    <3> QED BY <1>2, SlotAbove
  <2>3. x.entry = y.entry /\ x.slots = y.slots + n /\ y.slots \in Nat
    BY <2>1 DEF IsSlots
  <2>4. x.slots + 0 = y.slots + n
    BY <2>3
  <2> HIDE DEF z
  <2> QED BY <2>1, <2>2, <2>3, <2>4 DEF SlotCover
<1>4. CASE \E e \in CoexecProduced(t, op) : x = [entry |-> e, slots |-> 0]
  <2>1. PICK e \in CoexecProduced(t, op) : x = [entry |-> e, slots |-> 0]
    BY <1>4
  <2>2. x.entry = e /\ x.slots = 0
    BY <2>1
  <2> DEFINE k == <<e[1], e[2]>>
             u == e[3]
             v == e[4]
  <2>3. u \in Int /\ v \in Int
    BY CoexecEntryType
  <2>4. k \in DOMAIN N /\ N[k].wmma = u /\ N[k].valu = v
    BY NewCoexecEntry
  <2> HIDE DEF N, k, u, v, z
  <2>5. k \in DOMAIN z /\ N[k].wmma <= z[k].wmma /\ N[k].valu <= z[k].valu
    BY <1>2, <2>4 DEF CoexecBelow
  <2>6. z[k].wmma \in Int /\ z[k].valu \in Int
    BY <1>2, <2>5 DEF IsCoexec, Forwarding
  <2>7. z[k].wmma >= u - 0 /\ z[k].valu >= v - 0
    BY <2>3, <2>4, <2>5, <2>6
  <2> QED BY <2>2, <2>3, <2>5, <2>7 DEF k, u, v
<1> QED BY <1>3, <1>4 DEF SlotsAfter

-----------------------------------------------------------------------------
(* The scratch bases, the gap after a wait and the pending LDS operations. *)
BaseCover(st, g) == \A b \in ScratchBases : st[b] + g[b] >= ScratchBaseWrites

SettledAfter(op, st, cleared) ==
    [b \in ScratchBases |->
        IF SGPRWrite(op) /\ b \in op.def THEN 0
        ELSE IF op.kind = "wait_alu" \/ cleared THEN ScratchBaseWrites
        ELSE Cap(st[b] + (IF SGPRWrite(op) THEN op.count ELSE 0), ScratchBaseWrites)]

LEMMA BaseIssue ==
    ASSUME NEW t, NEW op, IsOperation(t, op), ScratchBaseHazard(t),
           NEW st \in [ScratchBases -> 0..ScratchBaseWrites],
           NEW g \in [ScratchBases -> 0..ScratchBaseWrites],
           NEW cleared, cleared \/ BaseCover(st, g)
    PROVE  BaseCover(SettledAfter(op, st, cleared), BasesAfter(t, op, g))
<1> SUFFICES ASSUME NEW b \in ScratchBases
             PROVE  SettledAfter(op, st, cleared)[b] + BasesAfter(t, op, g)[b]
                      >= ScratchBaseWrites
  BY DEF BaseCover
<1> DEFINE u == IF SGPRWrite(op) /\ b \in op.def THEN 0
                ELSE IF op.kind = "wait_alu" \/ cleared THEN ScratchBaseWrites
                ELSE Cap(st[b] + (IF SGPRWrite(op) THEN op.count ELSE 0), ScratchBaseWrites)
           v == IF ScratchBaseHazard(t) /\ SGPRWrite(op) /\ b \in op.def THEN ScratchBaseWrites
                ELSE IF op.kind = "wait_alu" THEN 0
                ELSE IF SGPRWrite(op) THEN Less(g[b], op.count) ELSE g[b]
<1>1. SettledAfter(op, st, cleared)[b] = u
  BY DEF SettledAfter
<1>2. BasesAfter(t, op, g)[b] = v
  BY DEF BasesAfter
<1>3. /\ op.count \in Nat /\ st[b] \in 0..10 /\ g[b] \in 0..10
      /\ cleared \/ st[b] + g[b] >= 10
  BY DEF IsOperation, BaseCover, ScratchBaseWrites
<1>4. u + v >= ScratchBaseWrites
  BY <1>3 DEF Cap, Less, ScratchBaseWrites
<1> QED BY <1>1, <1>2, <1>4

LEMMA SettledAfterType ==
    ASSUME NEW t, NEW op, IsOperation(t, op), NEW st \in [ScratchBases -> 0..ScratchBaseWrites],
           NEW cleared
    PROVE  SettledAfter(op, st, cleared) \in [ScratchBases -> 0..ScratchBaseWrites]
<1> DEFINE u(b) == IF SGPRWrite(op) /\ b \in op.def THEN 0
                   ELSE IF op.kind = "wait_alu" \/ cleared THEN ScratchBaseWrites
                   ELSE Cap(st[b] + (IF SGPRWrite(op) THEN op.count ELSE 0), ScratchBaseWrites)
<1>1. ASSUME NEW b \in ScratchBases PROVE u(b) \in 0..ScratchBaseWrites
  <2>1. op.count \in Nat /\ st[b] \in 0..10
    BY DEF IsOperation, ScratchBaseWrites
  <2> QED BY <2>1 DEF Cap, ScratchBaseWrites
<1>2. SettledAfter(op, st, cleared) = [b \in ScratchBases |-> u(b)]
  BY DEF SettledAfter
<1> HIDE DEF u
<1> QED BY <1>1, <1>2

GapCover(t, g, v) == LgkmWaitNeedsValuGap(t) => g + v >= 1
PendingCover(t, p, n) == LegacyWaitCounters(t) => n >= p \/ n = LgkmDefault + 1

Drains(op, p) == Waitcnt(op) /\ op.passes < LgkmDefault /\ p > op.passes
GapAfter(op, g, p, T) == IF Drains(op, p) THEN 0 ELSE Cap(g + T, 1)
IssuedAfter(op, p) ==
    IF Waitcnt(op) /\ op.passes < LgkmDefault THEN Cap(p, op.passes)
    ELSE IF DS(op) THEN p + 1 ELSE p

LEMMA LgkmIssue ==
    ASSUME NEW t, NEW op, IsOperation(t, op), NEW v \in 0..1, NEW n \in 0..(LgkmDefault + 1),
           NEW g \in 0..1, NEW p \in Nat, NEW m \in Nat, NEW d \in Nat, d <= m,
           GapCover(t, g, v), PendingCover(t, p, n)
    PROVE  /\ GapCover(t, GapAfter(op, g, p, m + States(op)), ToValuAfter(t, op, Less(v, d), n))
           /\ PendingCover(t, IssuedAfter(op, p), PendingAfter(t, op, n))
           /\ GapAfter(op, g, p, m + States(op)) \in 0..1
           /\ IssuedAfter(op, p) \in Nat
<1>1. /\ op.count \in Nat /\ op.passes \in Nat /\ LgkmDefault \in Nat /\ n \in Nat
      /\ States(op) \in Nat
  BY HazardAssumption DEF IsOperation, MostPasses, States
<1>2. DS(op) => ~Waitcnt(op)
  BY DEF DS, Waitcnt
<1>3. PendingIssued(t, op, n) = IF ~LegacyWaitCounters(t) \/ ~DS(op) THEN n
                                ELSE IF LgkmDefault + 1 <= n + 1 THEN LgkmDefault + 1 ELSE n + 1
  BY <1>1, MinOfTwo DEF PendingIssued
<1> DEFINE q == PendingIssued(t, op, n)
<1>4. q \in Int
  BY <1>1, <1>3
<1>5. PendingAfter(t, op, n) = IF ~Waitcnt(op) \/ op.passes >= LgkmDefault THEN q
                               ELSE IF q <= op.passes THEN q ELSE op.passes
  BY <1>1, <1>4, MinOfTwo DEF PendingAfter
<1>6. PendingCover(t, IssuedAfter(op, p), PendingAfter(t, op, n))
  BY <1>1, <1>2, <1>3, <1>5 DEF PendingCover, IssuedAfter, Cap
<1>7. LgkmWaitNeedsValuGap(t) => LegacyWaitCounters(t)
  BY DEF LgkmWaitNeedsValuGap
<1>8. GapCover(t, GapAfter(op, g, p, m + States(op)), ToValuAfter(t, op, Less(v, d), n))
  <2> SUFFICES ASSUME LgkmWaitNeedsValuGap(t)
               PROVE  GapAfter(op, g, p, m + States(op)) + ToValuAfter(t, op, Less(v, d), n) >= 1
    BY DEF GapCover
  <2>0. g + v >= 1 /\ (n >= p \/ n = LgkmDefault + 1)
    BY <1>7 DEF GapCover, PendingCover
  <2> DEFINE w == Less(Less(v, d), States(op))
  <2>1. w \in Nat /\ (m + States(op) = 0 => w = v)
    <3>1. v \in Nat
      OBVIOUS
    <3>2. w = Less(v, d + States(op)) /\ Less(v, 0) = v
      BY <1>1, <3>1, LessTwice
    <3>3. m + States(op) = 0 => d + States(op) = 0
      <4>1. \A x \in Nat : m + x = 0 => m = 0 /\ x = 0
        OBVIOUS
      <4>2. m = 0 => d = 0
        OBVIOUS
      <4> QED BY <1>1, <4>1, <4>2
    <3>4. d + States(op) \in Nat
      BY <1>1
    <3>5. Less(v, d + States(op)) \in Nat
      BY <3>1, <3>4, LessTwice
    <3> QED BY <3>2, <3>3, <3>5
  <2>2. ToValuAfter(t, op, Less(v, d), n) \in {Larger(w, 1), w}
    BY DEF ToValuAfter
  <2>3. Larger(w, 1) >= 1 /\ Larger(w, 1) >= w /\ Larger(w, 1) \in Nat
    BY <2>1 DEF Larger
  <2>4. CASE Drains(op, p)
    <3>1. q = n
      BY <1>2, <1>3, <2>4 DEF Drains
    <3>2. q > op.passes
      BY <1>1, <2>0, <2>4, <3>1 DEF Drains
    <3>3. ToValuAfter(t, op, Less(v, d), n) = Larger(w, 1)
      BY <1>1, <2>4, <3>2 DEF ToValuAfter, Drains
    <3> HIDE DEF w, q
    <3> QED BY <2>3, <2>4, <3>3 DEF GapAfter
  <2>5. CASE ~Drains(op, p)
    <3> HIDE DEF w
    <3>1. GapAfter(op, g, p, m + States(op)) = Cap(g + (m + States(op)), 1)
      BY <2>5 DEF GapAfter
    <3>2. CASE g + (m + States(op)) = 0
      <4>1. w >= 1
        BY <1>1, <2>0, <2>1, <3>2
      <4> QED BY <2>1, <2>2, <2>3, <3>1, <3>2, <4>1 DEF Cap
    <3>3. CASE g + (m + States(op)) # 0
      <4>1. Cap(g + (m + States(op)), 1) = 1
        BY <1>1, <3>3 DEF Cap
      <4> QED BY <2>1, <2>2, <2>3, <3>1, <4>1
    <3> QED BY <3>2, <3>3
  <2> QED BY <2>4, <2>5
<1>9. GapAfter(op, g, p, m + States(op)) \in 0..1 /\ IssuedAfter(op, p) \in Nat
  BY <1>1 DEF GapAfter, IssuedAfter, Cap
<1> QED BY <1>6, <1>8, <1>9

-----------------------------------------------------------------------------
(* What a state knows of the past, altogether. *)
Covers(t, xs, ys, g, p, st, s) ==
    /\ HazardCover(xs, s.hazards)
    /\ SlotCover(ys, s.coexec, 0)
    /\ ScratchBaseHazard(t) => BaseCover(st, s.scratchBase)
    /\ GapCover(t, g, s.lgkmToValu)
    /\ PendingCover(t, p, s.lgkmPending)

LEMMA CoversAbove ==
    ASSUME NEW t, NEW xs, IsPast(xs), NEW ys, IsSlots(ys), NEW g \in 0..1, NEW p \in Nat,
           NEW st \in [ScratchBases -> 0..ScratchBaseWrites],
           NEW s, IsState(s), NEW r, IsState(r), Below(s, r), Covers(t, xs, ys, g, p, st, s)
    PROVE  Covers(t, xs, ys, g, p, st, r)
<1>1. /\ s.lgkmToValu \in Int /\ s.lgkmPending \in 0..(LgkmDefault + 1)
      /\ IsHazards(s.hazards) /\ IsCoexec(s.coexec)
      /\ s.scratchBase \in [ScratchBases -> 0..ScratchBaseWrites]
  BY StateFields
<1>2. /\ r.lgkmToValu \in Int /\ r.lgkmPending \in 0..(LgkmDefault + 1)
      /\ IsHazards(r.hazards) /\ IsCoexec(r.coexec)
      /\ r.scratchBase \in [ScratchBases -> 0..ScratchBaseWrites]
  BY StateFields
<1>3. /\ s.lgkmToValu <= r.lgkmToValu /\ s.lgkmPending <= r.lgkmPending
      /\ HazardsBelow(s.hazards, r.hazards)
      /\ CoexecBelow(s.coexec, r.coexec)
      /\ \A b \in ScratchBases : s.scratchBase[b] <= r.scratchBase[b]
  BY DEF Below
<1>4. HazardCover(xs, r.hazards)
  BY <1>1, <1>2, <1>3, HazardAbove DEF Covers
<1>5. SlotCover(ys, r.coexec, 0)
  <2>1. SlotCover(ys, s.coexec, 0) /\ 0 \in Nat
    BY DEF Covers
  <2> QED BY <1>1, <1>2, <1>3, <2>1, SlotAbove
<1>6. ASSUME ScratchBaseHazard(t) PROVE BaseCover(st, r.scratchBase)
  <2>1. BaseCover(st, s.scratchBase)
    BY <1>6 DEF Covers
  <2>2. ASSUME NEW b \in ScratchBases
        PROVE  st[b] + r.scratchBase[b] >= ScratchBaseWrites
    <3>1. st[b] \in Int /\ s.scratchBase[b] \in Int /\ r.scratchBase[b] \in Int
      BY <1>1, <1>2
    <3>2. st[b] + s.scratchBase[b] >= ScratchBaseWrites
      BY <2>1 DEF BaseCover
    <3> QED BY <1>3, <3>1, <3>2 DEF ScratchBaseWrites
  <2> QED BY <2>2 DEF BaseCover
<1>7. GapCover(t, g, r.lgkmToValu)
  BY <1>1, <1>2, <1>3 DEF Covers, GapCover
<1>8. PendingCover(t, p, r.lgkmPending)
  BY <1>1, <1>2, <1>3, HazardAssumption DEF Covers, PendingCover
<1> QED BY <1>4, <1>5, <1>6, <1>7, <1>8 DEF Covers

(* An operation, T wait states and V VALU slots after s; r is what the       *)
(* analysis makes of s meanwhile, with the hazards aged by d.                *)
LEMMA CoversIssue ==
    ASSUME NEW t, NEW op, IsOperation(t, op), NEW xs, IsPast(xs), NEW ys, IsSlots(ys),
           NEW g \in 0..1, NEW p \in Nat, NEW st \in [ScratchBases -> 0..ScratchBaseWrites],
           NEW s, IsState(s), NEW r, IsState(r), Covers(t, xs, ys, g, p, st, s),
           NEW T \in Nat, NEW d \in Nat, d <= T, NEW V \in Nat, NEW cleared,
           r.hazards = Aged(s.hazards, d), r.lgkmToValu = Less(s.lgkmToValu, d),
           r.lgkmPending = s.lgkmPending, SlotCover(ys, r.coexec, V),
           cleared \/ r.scratchBase = s.scratchBase
    PROVE  Covers(t, PastAfter(t, op, xs, T + States(op)),
                  SlotsAfter(t, op, ys, V + (IF VALUForCoexec(op) THEN States(op) ELSE 0)),
                  GapAfter(op, g, p, T + States(op)), IssuedAfter(op, p),
                  SettledAfter(op, st, cleared), Transfer(t, op, r))
<1> DEFINE z == Transfer(t, op, r)
<1>1. /\ s.lgkmToValu \in 0..1 /\ s.lgkmPending \in 0..(LgkmDefault + 1)
      /\ IsHazards(s.hazards) /\ IsCoexec(s.coexec)
  BY StateFields
<1>2. IsHazards(r.hazards) /\ IsCoexec(r.coexec)
      /\ r.scratchBase \in [ScratchBases -> 0..ScratchBaseWrites]
  BY StateFields
<1>3. /\ z.lgkmToValu = ToValuAfter(t, op, r.lgkmToValu, r.lgkmPending)
      /\ z.lgkmPending = PendingAfter(t, op, r.lgkmPending)
      /\ z.hazards = HazardsAfter(t, op, Aged(r.hazards, States(op)))
      /\ z.coexec = CoexecAfter(t, op, r.coexec)
      /\ z.scratchBase = BasesAfter(t, op, r.scratchBase)
  BY TransferFields, OfFields
<1> HIDE DEF z
<1>4. States(op) \in Nat /\ op.count \in Nat
  BY DEF States, IsOperation
<1>5. HazardCover(PastAfter(t, op, xs, T + States(op)), z.hazards)
  <2>1. Aged(r.hazards, States(op)) = Aged(s.hazards, d + States(op))
    BY <1>1, <1>4, AgedTwice
  <2>2. d + States(op) \in Nat /\ T + States(op) \in Nat /\ d + States(op) <= T + States(op)
    BY <1>4
  <2>3. HazardCover(xs, s.hazards)
    BY DEF Covers
  <2>4. HazardCover(PastAfter(t, op, xs, T + States(op)),
                    HazardsAfter(t, op, Aged(s.hazards, d + States(op))))
    BY <1>1, <2>2, <2>3, HazardIssue
  <2> QED BY <1>3, <2>1, <2>4
<1>6. SlotCover(SlotsAfter(t, op, ys, V + (IF VALUForCoexec(op) THEN States(op) ELSE 0)),
                z.coexec, 0)
  <2>1. CASE VALUForCoexec(op)
    <3>1. States(op) = op.count
      BY <2>1 DEF States, NoMachineInst, Waitcnt, VALUForCoexec, VALU, LegacyVALU, MFMA, XdlWmma,
                  LDSDma
    <3>2. SlotCover(ys, AgedCoexec(r.coexec, op.count), V + op.count)
      BY <1>2, <1>4, SlotAge
    <3>3. IsCoexec(AgedCoexec(r.coexec, op.count)) /\ V + op.count \in Nat
      <4>1. IsCoexec(AgedCoexec(r.coexec, op.count))
        BY <1>2, <1>4, AgedForwarding
      <4>2. V + op.count \in Nat
        BY <1>4
      <4> QED BY <4>1, <4>2
    <3>4. SlotCover(SlotsAfter(t, op, ys, V + op.count),
                    Merge(AgedCoexec(r.coexec, op.count), NewCoexec(t, op)), 0)
      BY <3>2, <3>3, SlotIssue
    <3> QED BY <1>3, <2>1, <3>1, <3>4 DEF CoexecAfter
  <2>2. CASE ~VALUForCoexec(op)
    <3>1. SlotCover(SlotsAfter(t, op, ys, V), Merge(r.coexec, NewCoexec(t, op)), 0)
      BY <1>2, SlotIssue
    <3>2. V + 0 = V
      OBVIOUS
    <3> QED BY <1>3, <2>2, <3>1, <3>2 DEF CoexecAfter
  <2> QED BY <2>1, <2>2
<1>7. ASSUME ScratchBaseHazard(t) PROVE BaseCover(SettledAfter(op, st, cleared), z.scratchBase)
  <2>1. cleared \/ BaseCover(st, r.scratchBase)
    BY <1>7 DEF Covers
  <2> QED BY <1>2, <1>3, <1>7, <2>1, BaseIssue
<1>8. /\ GapCover(t, GapAfter(op, g, p, T + States(op)), z.lgkmToValu)
      /\ PendingCover(t, IssuedAfter(op, p), z.lgkmPending)
  <2>1. GapCover(t, g, s.lgkmToValu) /\ PendingCover(t, p, s.lgkmPending)
    BY DEF Covers
  <2>2. /\ GapCover(t, GapAfter(op, g, p, T + States(op)),
                    ToValuAfter(t, op, Less(s.lgkmToValu, d), s.lgkmPending))
        /\ PendingCover(t, IssuedAfter(op, p), PendingAfter(t, op, s.lgkmPending))
    BY <1>1, <2>1, LgkmIssue
  <2> QED BY <1>3, <2>2
<1>9. Covers(t, PastAfter(t, op, xs, T + States(op)),
                  SlotsAfter(t, op, ys, V + (IF VALUForCoexec(op) THEN States(op) ELSE 0)),
                  GapAfter(op, g, p, T + States(op)), IssuedAfter(op, p),
                  SettledAfter(op, st, cleared), z)
  BY <1>5, <1>6, <1>7, <1>8, Zenon DEF Covers
<1> QED BY <1>9 DEF z

(* Across a branch. *)
LEMMA CoversBranch ==
    ASSUME NEW t, NEW xs, IsPast(xs), NEW ys, NEW g, NEW p, NEW st, NEW q \in {0, 1},
           NEW s, IsState(s), Covers(t, xs, ys, g, p, st, s)
    PROVE  Covers(t, Elapse(xs, q, 1 - q), ys, g, p, st, TransferBranch(s))
<1> DEFINE z == TransferBranch(s)
<1>1. IsHazards(s.hazards)
  BY StateFields
<1>2. /\ z.lgkmToValu = s.lgkmToValu /\ z.lgkmPending = s.lgkmPending
      /\ z.hazards = Aged(s.hazards, 1) /\ z.coexec = s.coexec /\ z.scratchBase = s.scratchBase
  BY BranchFields, OfFields
<1> HIDE DEF z
<1>3. HazardCover(Elapse(xs, q, 1 - q), z.hazards)
  BY <1>1, <1>2, HazardBranch DEF Covers
<1>4. Covers(t, Elapse(xs, q, 1 - q), ys, g, p, st, z)
  BY <1>2, <1>3 DEF Covers
<1> QED BY <1>4 DEF z

-----------------------------------------------------------------------------
(* What an operation needs from the past. *)

(* The hazards a set of entries may leave; each key but a wide store's has   *)
(* one limit.                                                                *)
Consistent(E) ==
    \A e \in E, f \in E :
        e.key = f.key /\ e.key[2] # "StoreWriteData" => e.limit = f.limit /\ e.passes = f.passes

Known(E, f) ==
    \A k \in DOMAIN f : \A e \in E :
        e.key = k /\ k[2] # "StoreWriteData" => f[k].limit = e.limit /\ f[k].passes = e.passes

LEMMA KnownMerge ==
    ASSUME NEW E, NEW f, NEW g, IsHazards(f), IsHazards(g), Known(E, f), Known(E, g)
    PROVE  Known(E, Merge(f, g))
<1> DEFINE m == Merge(f, g)
<1>1. MergedHazards(f, g, m)
  BY MergeHazards
<1> HIDE DEF m
<1> SUFFICES ASSUME NEW k \in DOMAIN m, NEW e \in E, e.key = k, k[2] # "StoreWriteData"
             PROVE  m[k].limit = e.limit /\ m[k].passes = e.passes
  BY DEF Known, m
<1>2. k \in DOMAIN f \/ k \in DOMAIN g
  BY <1>1 DEF MergedHazards
<1>3. k \in DOMAIN f => f[k].limit = e.limit /\ f[k].passes = e.passes
  BY DEF Known
<1>4. k \in DOMAIN g => g[k].limit = e.limit /\ g[k].passes = e.passes
  BY DEF Known
<1>5. CASE k \in DOMAIN f /\ k \notin DOMAIN g
  BY <1>1, <1>3, <1>5 DEF MergedHazards
<1>6. CASE k \notin DOMAIN f /\ k \in DOMAIN g
  BY <1>1, <1>4, <1>6 DEF MergedHazards
<1>7. CASE k \in DOMAIN f /\ k \in DOMAIN g
  <2>1. m[k].limit = Larger(e.limit, e.limit) /\ m[k].passes = Larger(e.passes, e.passes)
    BY <1>1, <1>3, <1>4, <1>7 DEF MergedHazards
  <2> QED BY <2>1 DEF Larger
<1> QED BY <1>2, <1>5, <1>6, <1>7

LEMMA KnownAged ==
    ASSUME NEW E, NEW f, IsHazards(f), Known(E, f), NEW n \in Nat
    PROVE  Known(E, Aged(f, n))
<1> DEFINE a == Aged(f, n)
<1>1. /\ DOMAIN a = {k \in DOMAIN f : f[k].remaining > n}
      /\ \A k \in DOMAIN a : a[k].limit = f[k].limit /\ a[k].passes = f[k].passes
  BY AgedHazards
<1> HIDE DEF a
<1>2. Known(E, a)
  BY <1>1 DEF Known
<1> QED BY <1>2 DEF a

LEMMA KnownIssue ==
    ASSUME NEW E, Consistent(E), NEW t, NEW op, IsOperation(t, op), Produced(t, op) \subseteq E,
           NEW f, IsHazards(f), Known(E, f)
    PROVE  Known(E, HazardsAfter(t, op, f))
<1> DEFINE w == Waited(op, f)
           r == Replaced(op, w)
           n == NewHazards(t, op)
<1>1. IsHazards(w) /\ DOMAIN w \subseteq DOMAIN f /\ \A k \in DOMAIN w : w[k] = f[k]
  BY RestrictedHazards
<1> HIDE DEF w
<1>2. IsHazards(r) /\ DOMAIN r \subseteq DOMAIN w /\ \A k \in DOMAIN r : r[k] = w[k]
  BY <1>1, RestrictedHazards
<1> HIDE DEF r
<1>3. Known(E, r)
  BY <1>1, <1>2 DEF Known
<1>4. IsHazards(n) /\ DOMAIN n = {e.key : e \in Produced(t, op)}
  BY NewHazardsIs
<1>5. ASSUME NEW x \in Produced(t, op), NEW e \in E, e.key = x.key, x.key[2] # "StoreWriteData"
      PROVE  n[x.key].limit = e.limit /\ n[x.key].passes = e.passes
  <2>1. n[x.key].limit = x.limit /\ n[x.key].passes = x.passes
    BY NewHazardsEntry
  <2>2. x.limit = e.limit /\ x.passes = e.passes
    BY <1>5 DEF Consistent
  <2> QED BY <2>1, <2>2
<1> HIDE DEF n
<1>6. Known(E, n)
  BY <1>4, <1>5 DEF Known
<1>7. Known(E, Merge(r, n))
  BY <1>2, <1>3, <1>4, <1>6, KnownMerge
<1> QED BY <1>7 DEF HazardsAfter, r, w, n

(* Straight-line code: every hazard comes from a producer of that age. *)
Exact(xs, f) ==
    \A k \in DOMAIN f :
        \E x \in xs : x.entry.key = k /\ f[k].remaining = x.entry.limit - x.age

LEMMA ExactIssue ==
    ASSUME NEW t, NEW op, IsOperation(t, op), NEW xs, IsPast(xs), NEW f, IsHazards(f),
           Exact(xs, f), NEW T \in Nat
    PROVE  Exact(PastAfter(t, op, xs, T), HazardsAfter(t, op, Aged(f, T)))
<1> DEFINE a == Aged(f, T)
           w == Waited(op, a)
           r == Replaced(op, w)
           n == NewHazards(t, op)
           z == HazardsAfter(t, op, a)
           Z == PastAfter(t, op, xs, T)
<1>1. /\ IsHazards(a) /\ DOMAIN a = {k \in DOMAIN f : f[k].remaining > T}
      /\ \A k \in DOMAIN a : a[k].remaining = f[k].remaining - T
  BY AgedHazards
<1>2. MergedHazards(r, n, z)
  BY <1>1, HazardsAfterType
<1>3. /\ IsHazards(w) /\ DOMAIN w \subseteq DOMAIN a /\ \A k \in DOMAIN w : w[k] = a[k]
      /\ \A k \in DOMAIN w : op.kind = "wait_alu" => k[2] \notin AluKinds
  <2> HIDE DEF a
  <2> QED BY <1>1, RestrictedHazards
<1>4. IsHazards(r) /\ DOMAIN r \subseteq DOMAIN w /\ \A k \in DOMAIN r : r[k] = w[k]
  <2> HIDE DEF w
  <2> QED BY <1>3, RestrictedHazards
<1>5. IsHazards(n) /\ DOMAIN n = {e.key : e \in Produced(t, op)}
  BY NewHazardsIs
<1>6. ASSUME NEW e \in Produced(t, op) PROVE n[e.key].remaining = e.limit
  BY NewHazardsEntry
<1>7. /\ \A y \in Elapse(xs, T, 0) : (op.kind = "wait_alu" => y.entry.key[2] \notin AluKinds) =>
            y \in Z
      /\ \A e \in Produced(t, op) : [entry |-> e, age |-> 0, dropped |-> 0] \in Z
  BY DEF PastAfter
<1> HIDE DEF a, w, r, n, z, Z
<1>8. ASSUME NEW k \in DOMAIN r
      PROVE  \E x \in Z : x.entry.key = k /\ r[k].remaining = x.entry.limit - x.age
  <2>1. k \in DOMAIN a /\ r[k] = a[k] /\ (op.kind = "wait_alu" => k[2] \notin AluKinds)
    BY <1>3, <1>4
  <2>2. k \in DOMAIN f /\ f[k].remaining > T /\ r[k].remaining = f[k].remaining - T
    BY <1>1, <2>1
  <2>3. PICK x \in xs : x.entry.key = k /\ f[k].remaining = x.entry.limit - x.age
    BY <2>2 DEF Exact
  <2>4. x.age \in Nat /\ x.entry.limit \in Int
    BY DEF IsPast, EntryOK
  <2> DEFINE y == [entry |-> x.entry, age |-> x.age + T, dropped |-> x.dropped + 0]
  <2>5. x.age + T < x.entry.limit
    BY <2>2, <2>3, <2>4
  <2>6. y \in Elapse(xs, T, 0)
    BY <2>5, Elapsed
  <2>7. y.entry = x.entry /\ y.age = x.age + T
    OBVIOUS
  <2> HIDE DEF y
  <2>8. y \in Z
    BY <1>7, <2>1, <2>3, <2>6, <2>7
  <2>9. r[k].remaining = y.entry.limit - y.age
    BY <2>2, <2>3, <2>4, <2>7
  <2> QED BY <2>3, <2>7, <2>8, <2>9
<1>9. ASSUME NEW k \in DOMAIN n
      PROVE  \E x \in Z : x.entry.key = k /\ n[k].remaining = x.entry.limit - x.age
  <2>1. PICK e \in Produced(t, op) : e.key = k
    BY <1>5
  <2> DEFINE y == [entry |-> e, age |-> 0, dropped |-> 0]
  <2>2. y \in Z /\ y.entry = e /\ y.age = 0
    BY <1>7
  <2>3. e.limit \in Int
    BY EntryType
  <2> HIDE DEF y
  <2>4. n[k].remaining = y.entry.limit - y.age
    BY <1>6, <2>1, <2>2, <2>3
  <2> QED BY <2>1, <2>2, <2>4
<1>10. ASSUME NEW k \in DOMAIN z
       PROVE  \/ k \in DOMAIN r /\ z[k].remaining = r[k].remaining
              \/ k \in DOMAIN n /\ z[k].remaining = n[k].remaining
  BY <1>2 DEF MergedHazards, Larger
<1>11. Exact(Z, z)
  BY <1>8, <1>9, <1>10 DEF Exact
<1> QED BY <1>11 DEF Z, z, a

(* The inserted wait states are enough for a hazard that is kept itself ... *)
LEMMA KeptIsEnough ==
    ASSUME NEW t, NEW op, NEW a \in Accesses(op), NEW s, IsHazards(s.hazards),
           NEW o, IsOperation(t, o), NEW e \in Produced(t, o), Known({e}, s.hazards),
           NEW age \in Nat,
           age < e.limit => /\ e.key \in DOMAIN s.hazards
                            /\ s.hazards[e.key].remaining >= e.limit - age
    PROVE  /\ Required(t, op, a, e.key[1], e.key[2], e) \in Int
           /\ Required(t, op, a, e.key[1], e.key[2], e) <= age + RequiredWait(t, op, s)
<1> DEFINE k == e.key
           h == s.hazards[k]
           l == e.limit
           w == RequiredWait(t, op, s)
           R(y) == Required(t, op, a, k[1], k[2], y)
<1>1. /\ l \in 1..MostLimit /\ l \in 0..MostLimit /\ l \in Int /\ l > 0
      /\ e.passes \in 0..MostPasses
  BY EntryType DEF MostLimit, MostPasses
<1>2. R(e) \in Int
  BY <1>1, RequiredBounded
<1>3. R(e) <= l
  BY RequiredWithin
<1>4. w \in Int /\ w >= 0
  BY RequiredWaitIs DEF MostLimit, MostPasses
<1>5. CASE R(e) <= age
  <2> HIDE DEF R, w
  <2>1. R(e) <= age + w
    BY <1>2, <1>4, <1>5
  <2> QED BY <1>2, <2>1 DEF R, w
<1>6. CASE ~(R(e) <= age)
  <2>1. age < l
    <3> HIDE DEF R, l
    <3> QED BY <1>1, <1>2, <1>3, <1>6
  <2>2. k \in DOMAIN s.hazards /\ h.remaining >= l - age
    BY <2>1
  <2>3. h \in Hazard /\ h.remaining <= h.limit
    BY <2>2 DEF IsHazards
  <2>4. h.limit \in 0..MostLimit /\ h.limit \in Int /\ h.remaining \in Int /\ h.passes \in 0..MostPasses
    <3> HIDE DEF h
    <3> QED BY <2>3 DEF Hazard
  <2>5. R(h) \in Int /\ R(h) <= MostLimit
    <3> HIDE DEF h, k
    <3> QED BY <2>4, RequiredBounded
  <2>6. WaitForAge(h, R(h)) <= w
    BY <2>2, RequiredWaitIs
  <2>7. WaitForAge(h, R(h)) >= R(h) - (h.limit - h.remaining) /\ WaitForAge(h, R(h)) \in Int
    <3> HIDE DEF h, R
    <3> QED BY <2>3, <2>5, WaitForAgeType
  <2>8. R(h) - h.limit >= R(e) - l
    <3>1. CASE k[2] # "StoreWriteData"
      <4>1. h.limit = l /\ h.passes = e.passes
        BY <2>2, <3>1 DEF Known
      <4>2. R(h) = R(e)
        BY <4>1, RequiredSame
      <4> HIDE DEF R, h, l
      <4> QED BY <1>1, <1>2, <2>4, <2>5, <4>1, <4>2
    <3>2. CASE k[2] = "StoreWriteData"
      <4>1. R(e) > 0
        <5> HIDE DEF R
        <5> QED BY <1>2, <1>6
      <4>2. R(e) = l /\ R(h) = h.limit
        BY <1>1, <3>2, <4>1, RequiredStore
      <4> HIDE DEF R, h, l
      <4> QED BY <1>1, <2>4, <4>2
    <3> QED BY <3>1, <3>2
  <2>9. R(e) <= age + w
    <3> DEFINE x == R(e)
               y == R(h)
               u == WaitForAge(h, R(h))
               c == h.limit
               b == h.remaining
    <3>1. /\ x \in Int /\ y \in Int /\ u \in Int /\ c \in Int /\ b \in Int /\ l \in Int
          /\ w \in Int /\ b >= l - age /\ u <= w /\ u >= y - (c - b) /\ y - c >= x - l
      BY <1>1, <1>2, <1>4, <2>2, <2>4, <2>5, <2>6, <2>7, <2>8
    <3> HIDE DEF x, y, u, c, b, l, w
    <3>2. x <= age + w
      BY <3>1
    <3> QED BY <3>2 DEF x
  <2> QED BY <1>2, <2>9
<1> QED BY <1>5, <1>6

(* ... and for one that its companion stands in for. *)
LEMMA EnoughWaitStates ==
    ASSUME NEW t, NEW op, NEW a \in Accesses(op), NEW s, IsHazards(s.hazards),
           NEW E, \A e \in E : \E o : IsOperation(t, o) /\ e \in Produced(t, o),
           Known(E, s.hazards), NEW xs, IsPast(xs), \A x \in xs : x.entry \in E,
           Companions(t, xs), HazardCover(xs, s.hazards), NEW x \in xs
    PROVE  /\ Required(t, op, a, x.entry.key[1], x.entry.key[2], x.entry) \in Int
           /\ Required(t, op, a, x.entry.key[1], x.entry.key[2], x.entry)
                <= x.age + x.dropped + RequiredWait(t, op, s)
<1>1. ASSUME NEW y \in xs, y.entry.key[2] \notin Twinned
      PROVE  /\ Required(t, op, a, y.entry.key[1], y.entry.key[2], y.entry) \in Int
             /\ Required(t, op, a, y.entry.key[1], y.entry.key[2], y.entry)
                  <= y.age + y.dropped + RequiredWait(t, op, s)
  <2> DEFINE e == y.entry
  <2>1. PICK o : IsOperation(t, o) /\ e \in Produced(t, o)
    OBVIOUS
  <2>2. Known({e}, s.hazards)
    BY DEF Known
  <2>3. y.age + y.dropped \in Nat
    BY DEF IsPast
  <2>4. y.age + y.dropped < e.limit =>
           e.key \in DOMAIN s.hazards /\ s.hazards[e.key].remaining >= e.limit - (y.age + y.dropped)
    BY <1>1 DEF HazardCover
  <2> HIDE DEF e
  <2>5. /\ Required(t, op, a, e.key[1], e.key[2], e) \in Int
        /\ Required(t, op, a, e.key[1], e.key[2], e)
             <= (y.age + y.dropped) + RequiredWait(t, op, s)
    BY <2>1, <2>2, <2>3, <2>4, KeptIsEnough
  <2> QED BY <2>5 DEF e
<1> DEFINE e == x.entry
           span == x.entry.key[1]
           late == x.age + x.dropped + RequiredWait(t, op, s)
<1>2. PICK o : IsOperation(t, o) /\ e \in Produced(t, o)
  OBVIOUS
<1>3. /\ e.limit \in Int /\ e.limit \in 0..MostLimit /\ e.passes \in 0..MostPasses
  BY <1>2, EntryType DEF MostLimit, MostPasses
<1>4. /\ Required(t, op, a, span, e.key[2], e) \in Int
      /\ Required(t, op, a, span, e.key[2], e) <= e.limit
  BY <1>2, <1>3, RequiredBounded, RequiredWithin
<1>5. late \in Int /\ late >= 0
  <2>1. x.age \in Nat /\ x.dropped \in Nat
    BY DEF IsPast
  <2>2. RequiredWait(t, op, s) \in 0..MostLimit
    BY RequiredWaitIs
  <2> QED BY <2>1, <2>2 DEF MostLimit, MostPasses
<1>6. ASSUME NEW y \in xs, NEW kind, kind \notin Twinned,
             y.entry.key = <<span, kind>>, y.entry.limit = e.limit, y.age = x.age,
             y.dropped = x.dropped, Required(t, op, a, span, kind, y.entry) = y.entry.limit
      PROVE  e.limit <= late
  <2>1. y.entry.key[1] = span /\ y.entry.key[2] = kind
    BY <1>6
  <2>2. Required(t, op, a, span, kind, y.entry) <= y.age + y.dropped + RequiredWait(t, op, s)
    BY <1>1, <1>6, <2>1
  <2> QED BY <1>6, <2>2
<1>7. ASSUME e.key[2] = "MfmaStore", Required(t, op, a, span, e.key[2], e) > 0
      PROVE  e.limit <= late
  <2>1. PICK y \in xs : /\ y.entry.key = <<span, "MfmaWrite">> /\ y.entry.limit = e.limit
                        /\ y.age = x.age /\ y.dropped = x.dropped
    BY <1>7 DEF Companions, HasTwin
  <2>2. Required(t, op, a, span, "MfmaWrite", y.entry) = XdlResult(t, y.entry.passes)
    BY <1>7, RequiredTwins
  <2>3. PICK q : IsOperation(t, q) /\ y.entry \in Produced(t, q)
    OBVIOUS
  <2>4. y.entry.key[2] = "MfmaWrite"
    BY <2>1
  <2>5. y.entry.limit = XdlResult(t, y.entry.passes)
    <3>1. y.entry.limit = KindLimit(t, q.passes, "MfmaWrite")
          /\ y.entry.passes = KindPasses(q.passes, "MfmaWrite")
      BY <2>3, <2>4, EntryType
    <3> QED BY <3>1, KindLimits DEF KindPasses
  <2>6. "MfmaWrite" \notin Twinned
    BY DEF Twinned
  <2> QED BY <1>6, <2>1, <2>2, <2>5, <2>6
<1>8. ASSUME e.key[2] = "Permlane32Swap", Required(t, op, a, span, e.key[2], e) > 0
      PROVE  e.limit <= late
  <2>1. PICK y \in xs : /\ y.entry.key = <<span, "ValuWriteVGPR">> /\ y.entry.limit = e.limit
                        /\ y.age = x.age /\ y.dropped = x.dropped
    BY <1>8 DEF Companions, HasTwin
  <2>2. Required(t, op, a, span, "ValuWriteVGPR", y.entry) = ValuPermlane(t)
    BY <1>8, RequiredTwins
  <2>3. PICK q : IsOperation(t, q) /\ y.entry \in Produced(t, q)
    OBVIOUS
  <2>4. y.entry.key[2] = "ValuWriteVGPR"
    BY <2>1
  <2>5. y.entry.limit = 2
    <3>1. y.entry.limit = KindLimit(t, q.passes, "ValuWriteVGPR")
      BY <2>3, <2>4, EntryType
    <3> QED BY <3>1, KindLimits
  <2>6. t = "gfx950"
    BY <1>8 DEF Companions
  <2>7. "ValuWriteVGPR" \notin Twinned /\ ValuPermlane(t) = 2
    BY <2>6 DEF Twinned, ValuPermlane
  <2> QED BY <1>6, <2>1, <2>2, <2>5, <2>7
<1>9. CASE e.key[2] \in Twinned /\ Required(t, op, a, span, e.key[2], e) > 0
  <2>1. e.limit <= late
    BY <1>7, <1>8, <1>9 DEF Twinned
  <2> DEFINE r == Required(t, op, a, span, e.key[2], e)
             l == e.limit
  <2>2. r \in Int /\ l \in Int /\ r <= l /\ l <= late
    BY <1>3, <1>4, <2>1
  <2> HIDE DEF r, l, late
  <2>3. r \in Int /\ r <= late
    BY <1>5, <2>2
  <2> QED BY <2>3 DEF r, late
<1>10. CASE e.key[2] \in Twinned /\ ~(Required(t, op, a, span, e.key[2], e) > 0)
  <2> DEFINE r == Required(t, op, a, span, e.key[2], e)
  <2>1. r \in Int /\ ~(r > 0)
    BY <1>4, <1>10
  <2> HIDE DEF r, late
  <2>2. r <= late
    BY <1>5, <2>1
  <2> QED BY <2>1, <2>2 DEF r, late
<1> QED BY <1>1, <1>9, <1>10

-----------------------------------------------------------------------------
(* The inductive invariant. *)
IsProg ==
    /\ prog.shape \in Shapes
    /\ \A b \in Blocks :
          /\ Len(prog[b]) \in Nat
          /\ \A n \in 1..Len(prog[b]) : IsOperation(prog.target, prog[b][n])

Entries == UNION {Produced(prog.target, o) : o \in Operations}

(* The analysis is done: no state grows along an operation or an edge. *)
Fixpoint ==
    /\ \A b \in Blocks : \A n \in 1..Len(prog[b]) :
          Below(Transfer(prog.target, prog[b][n], at[b][n]), at[b][n + 1])
    /\ \A e \in Edges(prog.shape) :
          Below(TransferBranch(at[e[1]][Len(prog[e[1]]) + 1]), at[e[2]][1])

Unissued ==
    /\ past = {} /\ slots = {} /\ gap = 1 /\ pending = 0
    /\ settled = [b \in ScratchBases |-> ScratchBaseWrites]

PastOK ==
    /\ IsPast(past) /\ IsSlots(slots)
    /\ \A x \in past : x.entry \in Entries
    /\ Companions(prog.target, past)

Covered(s) == Covers(prog.target, past, slots, gap, pending, settled, s)

AllKnown ==
    UniformMfmas =>
        /\ Known(Entries, local.hazards)
        /\ \A b \in Blocks : \A n \in 1..(Len(prog[b]) + 1) : Known(Entries, at[b][n].hazards)

AllExact ==
    prog.shape = "straight" => Exact(past, local.hazards) /\ \A x \in past : x.dropped = 0

IInv ==
    /\ IsProg /\ TypeOK
    /\ solved => Fixpoint
    /\ ~solved => Unissued
    /\ PastOK
    /\ Covered(local) /\ Covered(at[block][pos])
    /\ AllKnown
    /\ AllExact

LEMMA EntryOf ==
    ASSUME IsProg, NEW e \in Entries
    PROVE  \E o \in Operations : IsOperation(prog.target, o) /\ e \in Produced(prog.target, o)
  BY DEF Entries, Operations, IsProg

LEMMA UniformConsistent ==
    ASSUME IsProg, UniformMfmas
    PROVE  Consistent(Entries)
<1> SUFFICES ASSUME NEW e \in Entries, NEW f \in Entries, e.key = f.key,
                    e.key[2] # "StoreWriteData"
             PROVE  e.limit = f.limit /\ e.passes = f.passes
  BY DEF Consistent
<1> DEFINE t == prog.target
           k == e.key[2]
<1>1. PICK o \in Operations : IsOperation(t, o) /\ e \in Produced(t, o)
  BY EntryOf
<1>2. PICK q \in Operations : IsOperation(t, q) /\ f \in Produced(t, q)
  BY EntryOf
<1>3. /\ e.limit = KindLimit(t, o.passes, k) /\ e.passes = KindPasses(o.passes, k)
      /\ k \in Kinds
      /\ k \in {"MfmaWrite", "MfmaStore"} => MFMA(o) /\ e.key[1] = o.def
      /\ k = "MfmaSrcCRead" => MFMA(o) /\ e.key[1] = o.acc
  BY <1>1, EntryType
<1>4. /\ f.limit = KindLimit(t, q.passes, k) /\ f.passes = KindPasses(q.passes, k)
      /\ k \in {"MfmaWrite", "MfmaStore"} => MFMA(q) /\ e.key[1] = q.def
      /\ k = "MfmaSrcCRead" => MFMA(q) /\ e.key[1] = q.acc
  BY <1>2, EntryType
<1> HIDE DEF k, t
<1>5. CASE k \in {"MfmaWrite", "MfmaStore", "MfmaSrcCRead"}
  <2>1. o.passes = q.passes
    BY <1>3, <1>4, <1>5 DEF UniformMfmas
  <2> QED BY <1>3, <1>4, <2>1
<1>6. CASE k \notin {"MfmaWrite", "MfmaStore", "MfmaSrcCRead"}
  <2>1. k # "StoreWriteData"
    BY DEF k
  <2>2. KindLimit(t, o.passes, k) = KindLimit(t, q.passes, k)
    BY <1>3, <1>6, <2>1, KindLimits DEF Kinds
  <2>3. KindPasses(o.passes, k) = 0 /\ KindPasses(q.passes, k) = 0
    BY <1>6 DEF KindPasses
  <2> QED BY <1>3, <1>4, <2>2, <2>3
<1> QED BY <1>5, <1>6

LEMMA NoHazardsType ==
    IsState(NoHazards) /\ NoHazards.hazards = <<>> /\ DOMAIN NoHazards.hazards = {}
<1>1. /\ NoHazards.lgkmToValu = 0 /\ NoHazards.lgkmPending = 0 /\ NoHazards.hazards = <<>>
      /\ NoHazards.coexec = <<>> /\ NoHazards.scratchBase = [b \in ScratchBases |-> 0]
      /\ NoHazards = [lgkmToValu |-> NoHazards.lgkmToValu,
                      lgkmPending |-> NoHazards.lgkmPending,
                      hazards |-> NoHazards.hazards, coexec |-> NoHazards.coexec,
                      scratchBase |-> NoHazards.scratchBase]
  BY DEF NoHazards
<1>2. DOMAIN <<>> = {}
  OBVIOUS
<1>3. <<>> = [k \in DOMAIN <<>> |-> (<<>>)[k]]
  OBVIOUS
<1>4. IsHazards(<<>>) /\ IsCoexec(<<>>)
  BY <1>2, <1>3 DEF IsHazards, IsCoexec
<1>5. 0 \in 0..(LgkmDefault + 1) /\ 0 \in 0..1
  BY HazardAssumption
<1>6. [b \in ScratchBases |-> 0] \in [ScratchBases -> 0..ScratchBaseWrites]
  BY DEF ScratchBaseWrites
<1> QED BY <1>1, <1>2, <1>4, <1>5, <1>6 DEF IsState

(* Before the first operation every state covers the past. *)
LEMMA NothingToCover ==
    ASSUME Unissued, NEW s, IsState(s)
    PROVE  Covered(s)
<1>1. /\ s.lgkmToValu \in Nat /\ s.lgkmPending \in Nat
      /\ s.scratchBase \in [ScratchBases -> 0..ScratchBaseWrites]
  BY StateFields
<1>2. HazardCover(past, s.hazards) /\ SlotCover(slots, s.coexec, 0)
  BY DEF Unissued, HazardCover, SlotCover
<1>3. BaseCover(settled, s.scratchBase)
  <2>1. ASSUME NEW b \in ScratchBases PROVE settled[b] + s.scratchBase[b] >= ScratchBaseWrites
    BY <1>1 DEF Unissued, ScratchBaseWrites
  <2> QED BY <2>1 DEF BaseCover
<1>4. GapCover(prog.target, gap, s.lgkmToValu) /\ PendingCover(prog.target, pending, s.lgkmPending)
  BY <1>1 DEF Unissued, GapCover, PendingCover
<1> QED BY <1>2, <1>3, <1>4 DEF Covered, Covers

LEMMA InitIInv == Init => IInv
<1> SUFFICES ASSUME Init PROVE IInv
  OBVIOUS
<1>1. PICK f \in Families : \E t \in f.targets, shape \in f.shapes, a \in f.pre, b \in f.first,
                              c \in f.second, d \in f.post :
         prog = [target |-> t, shape |-> shape, pre |-> a, first |-> b, second |-> c, post |-> d]
  BY DEF Init
<1>2. PICK t \in f.targets, shape \in f.shapes, a \in f.pre, b \in f.first, c \in f.second,
           d \in f.post :
         prog = [target |-> t, shape |-> shape, pre |-> a, first |-> b, second |-> c, post |-> d]
  BY <1>1
<1>3. /\ prog.target = t /\ prog.shape = shape /\ prog["pre"] = a /\ prog["first"] = b
      /\ prog["second"] = c /\ prog["post"] = d
  BY <1>2
<1>4. IsFamily(f)
  BY HazardAssumption
<1>5. ASSUME NEW x \in Blocks
      PROVE  Len(prog[x]) \in Nat /\ \A n \in 1..Len(prog[x]) : IsOperation(t, prog[x][n])
  <2>1. ASSUME NEW seq, NEW S \in {f.pre, f.first, f.second, f.post}, seq \in S
        PROVE  Len(seq) \in Nat /\ \A n \in 1..Len(seq) : IsOperation(t, seq[n])
    BY <1>4, <2>1 DEF IsFamily
  <2>2. \/ x = "pre" /\ prog[x] = a
        \/ x = "first" /\ prog[x] = b
        \/ x = "second" /\ prog[x] = c
        \/ x = "post" /\ prog[x] = d
    BY <1>3 DEF Blocks
  <2>3. CASE prog[x] = a BY <2>1, <2>3
  <2>4. CASE prog[x] = b BY <2>1, <2>4
  <2>5. CASE prog[x] = c BY <2>1, <2>5
  <2>6. CASE prog[x] = d BY <2>1, <2>6
  <2> QED BY <2>2, <2>3, <2>4, <2>5, <2>6
<1>6. IsProg
  <2>1. shape \in Shapes
    BY <1>4 DEF IsFamily
  <2> QED BY <1>3, <1>5, <2>1 DEF IsProg
<1>7. \A x \in Blocks : \A n \in 1..(Len(prog[x]) + 1) : at[x][n] = NoHazards
  BY DEF Init
<1>8. local = NoHazards /\ block = "pre" /\ pos = 1 /\ ~solved /\ trips = 0
  BY DEF Init
<1>9. Unissued
  BY DEF Init, Unissued
<1>10. block \in Blocks /\ pos \in 1..(Len(prog[block]) + 1)
  <2>1. block \in Blocks
    BY <1>8 DEF Blocks
  <2>2. Len(prog[block]) \in Nat
    BY <1>5, <2>1
  <2> QED BY <1>8, <2>1, <2>2
<1>11. TypeOK
  <2>1. settled \in [ScratchBases -> 0..ScratchBaseWrites]
    BY <1>9 DEF Unissued, ScratchBaseWrites
  <2>2. trips \in 0..MaxTrips /\ gap \in 0..1 /\ pending \in Nat
    BY <1>8, <1>9, HazardAssumption DEF Unissued
  <2> QED BY <1>7, <1>8, <1>10, <2>1, <2>2, NoHazardsType, Zenon DEF TypeOK
<1>12. PastOK
  BY <1>9 DEF Unissued, PastOK, IsPast, IsSlots, Companions
<1>13. Covered(local) /\ Covered(at[block][pos])
  BY <1>7, <1>8, <1>9, <1>10, NoHazardsType, NothingToCover
<1>14. AllKnown
  BY <1>7, <1>8, NoHazardsType DEF AllKnown, Known
<1>15. AllExact
  BY <1>8, <1>9, NoHazardsType DEF AllExact, Exact, Unissued
<1> QED BY <1>6, <1>8, <1>9, <1>11, <1>12, <1>13, <1>14, <1>15 DEF IInv

(* The analysis. *)

LEMMA BelowTransitive ==
    ASSUME NEW r, NEW s, NEW u, IsState(r), IsState(s), IsState(u), Below(r, s), Below(s, u)
    PROVE  Below(r, u)
<1>1. /\ r.lgkmToValu \in Int /\ s.lgkmToValu \in Int /\ u.lgkmToValu \in Int
      /\ r.lgkmPending \in Int /\ s.lgkmPending \in Int /\ u.lgkmPending \in Int
  BY StateFields
<1>2. /\ r.scratchBase \in [ScratchBases -> 0..ScratchBaseWrites]
      /\ s.scratchBase \in [ScratchBases -> 0..ScratchBaseWrites]
      /\ u.scratchBase \in [ScratchBases -> 0..ScratchBaseWrites]
  BY StateFields
<1>3. r.lgkmToValu <= u.lgkmToValu /\ r.lgkmPending <= u.lgkmPending
  BY <1>1 DEF Below
<1>4. \A b \in ScratchBases : r.scratchBase[b] <= u.scratchBase[b]
  <2>1. TAKE b \in ScratchBases
  <2>2. r.scratchBase[b] \in Int /\ s.scratchBase[b] \in Int /\ u.scratchBase[b] \in Int
    BY <1>2
  <2>3. r.scratchBase[b] <= s.scratchBase[b] /\ s.scratchBase[b] <= u.scratchBase[b]
    BY DEF Below
  <2> QED BY <2>2, <2>3
<1>5. HazardsBelow(r.hazards, u.hazards)
  <2> SUFFICES ASSUME NEW k \in DOMAIN r.hazards
               PROVE  /\ k \in DOMAIN u.hazards
                      /\ r.hazards[k].limit <= u.hazards[k].limit
                      /\ r.hazards[k].remaining <= u.hazards[k].remaining
                      /\ r.hazards[k].passes <= u.hazards[k].passes
    BY DEF HazardsBelow
  <2> DEFINE x == r.hazards[k]
             y == s.hazards[k]
             z == u.hazards[k]
  <2>1. k \in DOMAIN s.hazards /\ x.limit <= y.limit /\ x.remaining <= y.remaining
        /\ x.passes <= y.passes
    BY DEF Below, HazardsBelow
  <2>2. k \in DOMAIN u.hazards /\ y.limit <= z.limit /\ y.remaining <= z.remaining
        /\ y.passes <= z.passes
    BY <2>1 DEF Below, HazardsBelow
  <2>3. IsHazards(r.hazards) /\ IsHazards(s.hazards) /\ IsHazards(u.hazards)
    BY StateFields
  <2>4. x \in Hazard /\ y \in Hazard /\ z \in Hazard
    BY <2>1, <2>2, <2>3 DEF IsHazards
  <2> HIDE DEF x, y, z
  <2>5. x.limit <= z.limit /\ x.remaining <= z.remaining /\ x.passes <= z.passes
    BY <2>1, <2>2, <2>4 DEF Hazard
  <2> QED BY <2>2, <2>5 DEF x, z
<1>6. CoexecBelow(r.coexec, u.coexec)
  <2> SUFFICES ASSUME NEW k \in DOMAIN r.coexec
               PROVE  /\ k \in DOMAIN u.coexec
                      /\ r.coexec[k].wmma <= u.coexec[k].wmma
                      /\ r.coexec[k].valu <= u.coexec[k].valu
    BY DEF CoexecBelow
  <2> DEFINE x == r.coexec[k]
             y == s.coexec[k]
             z == u.coexec[k]
  <2>1. k \in DOMAIN s.coexec /\ x.wmma <= y.wmma /\ x.valu <= y.valu
    BY DEF Below, CoexecBelow
  <2>2. k \in DOMAIN u.coexec /\ y.wmma <= z.wmma /\ y.valu <= z.valu
    BY <2>1 DEF Below, CoexecBelow
  <2>3. IsCoexec(r.coexec) /\ IsCoexec(s.coexec) /\ IsCoexec(u.coexec)
    BY StateFields
  <2>4. x \in Forwarding /\ y \in Forwarding /\ z \in Forwarding
    BY <2>1, <2>2, <2>3 DEF IsCoexec
  <2> HIDE DEF x, y, z
  <2>5. x.wmma <= z.wmma /\ x.valu <= z.valu
    BY <2>1, <2>2, <2>4 DEF Forwarding
  <2> QED BY <2>2, <2>5 DEF x, z
<1> QED BY <1>3, <1>4, <1>5, <1>6 DEF Below

LEMMA EdgeType ==
    ASSUME NEW shape \in Shapes, NEW e \in Edges(shape)
    PROVE  e[1] \in Blocks /\ e[2] \in Blocks /\ e[3] \in {0, 1} /\ shape # "straight"
  BY DEF Edges, Shapes, Blocks

LEMMA TwoPredecessors ==
    ASSUME NEW shape \in Shapes, NEW b, NEW e \in Edges(shape), NEW f \in Edges(shape),
           NEW g \in Edges(shape), e[2] = b, f[2] = b, g[2] = b, e # f
    PROVE  g = e \/ g = f
<1>1. CASE shape = "straight" BY <1>1 DEF Edges
<1>2. CASE shape = "if" BY <1>2 DEF Edges
<1>3. CASE shape = "ifelse" BY <1>3 DEF Edges
<1>4. CASE shape = "while" BY <1>4 DEF Edges
<1>5. CASE shape = "dowhile" BY <1>5 DEF Edges
<1> QED BY <1>1, <1>2, <1>3, <1>4, <1>5 DEF Shapes

Into(b) == {e \in Edges(prog.shape) : e[2] = b}
Along(e) == TransferBranch(at[e[1]][Len(prog[e[1]]) + 1])

LEMMA IncomingIs ==
    ASSUME IsProg, NEW b \in Blocks
    PROVE  \/ Into(b) = {} /\ Incoming(b) = at[b][1]
           \/ \E one \in Into(b), other \in Into(b) :
                 /\ Incoming(b) = JoinWith(JoinWith(at[b][1], Along(one)), Along(other))
                 /\ \A e \in Into(b) : e = one \/ e = other
<1> DEFINE into == Into(b)
           one == CHOOSE e \in into : TRUE
           other == CHOOSE e \in into : e = one => into = {one}
<1>1. Incoming(b) = IF into = {} THEN at[b][1]
                    ELSE JoinWith(JoinWith(at[b][1], Along(one)), Along(other))
  BY DEF Incoming, Into, Along
<1>2. CASE into = {}
  BY <1>1, <1>2
<1>3. CASE into # {}
  <2>1. one \in into
    <3> HIDE DEF into
    <3> QED BY <1>3, Zenon
  <2> HIDE DEF one
  <2>2. \E e \in into : e = one => into = {one}
    <3>1. CASE into = {one}
      BY <2>1, <3>1
    <3>2. CASE into # {one}
      <4>1. \E e \in into : e # one
        <5> HIDE DEF into
        <5> QED BY <2>1, <3>2
      <4> QED BY <4>1
    <3> QED BY <3>1, <3>2
  <2>3. other \in into /\ (other = one => into = {one})
    <3> HIDE DEF into
    <3> QED BY <2>2, Zenon
  <2> HIDE DEF other
  <2>4. ASSUME NEW e \in into PROVE e = one \/ e = other
    <3>1. CASE other = one
      BY <2>3, <2>4, <3>1
    <3>2. CASE other # one
      <4>1. /\ e \in Edges(prog.shape) /\ e[2] = b /\ one \in Edges(prog.shape) /\ one[2] = b
            /\ other \in Edges(prog.shape) /\ other[2] = b /\ prog.shape \in Shapes
        BY <2>1, <2>3 DEF Into, IsProg
      <4> HIDE DEF into
      <4> QED BY <3>2, <4>1, TwoPredecessors
    <3> QED BY <3>1, <3>2
  <2>5. Incoming(b) = JoinWith(JoinWith(at[b][1], Along(one)), Along(other))
    BY <1>1, <1>3
  <2> HIDE DEF into
  <2> QED BY <2>1, <2>3, <2>4, <2>5 DEF into
<1> QED BY <1>2, <1>3

AllStates == \A b \in Blocks : \A n \in 1..(Len(prog[b]) + 1) : IsState(at[b][n])
KnownAt(E) == \A b \in Blocks : \A n \in 1..(Len(prog[b]) + 1) : Known(E, at[b][n].hazards)

LEMMA AlongType ==
    ASSUME IsProg, AllStates, NEW e \in Edges(prog.shape)
    PROVE  /\ IsState(Along(e))
           /\ Along(e).hazards = Aged(at[e[1]][Len(prog[e[1]]) + 1].hazards, 1)
           /\ e[1] \in Blocks /\ e[2] \in Blocks
           /\ Len(prog[e[1]]) + 1 \in 1..(Len(prog[e[1]]) + 1)
<1>1. prog.shape \in Shapes
  BY DEF IsProg
<1>2. e[1] \in Blocks /\ e[2] \in Blocks
  BY <1>1, EdgeType
<1> DEFINE n == Len(prog[e[1]])
<1>3. n \in Nat
  BY <1>2 DEF IsProg
<1> HIDE DEF n
<1>4. n + 1 \in 1..(n + 1)
  BY <1>3
<1>5. IsState(at[e[1]][n + 1])
  BY <1>2, <1>4 DEF AllStates, n
<1>6. IsState(TransferBranch(at[e[1]][n + 1]))
      /\ TransferBranch(at[e[1]][n + 1]).hazards = Aged(at[e[1]][n + 1].hazards, 1)
  BY <1>5, BranchFields, OfFields
<1> QED BY <1>2, <1>4, <1>6 DEF Along, n

LEMMA JoinHazards ==
    ASSUME NEW s, NEW r PROVE JoinWith(s, r).hazards = Merge(s.hazards, r.hazards)
  BY DEF JoinWith

LEMMA FirstPoint ==
    ASSUME NEW b \in Blocks, IsProg PROVE 1 \in 1..(Len(prog[b]) + 1)
<1>1. Len(prog[b]) \in Nat
  BY DEF IsProg
<1> QED BY <1>1

LEMMA KnownAlong ==
    ASSUME IsProg, AllStates, NEW E, KnownAt(E), NEW e \in Edges(prog.shape)
    PROVE  Known(E, Along(e).hazards)
<1> DEFINE n == Len(prog[e[1]]) + 1
<1>1. /\ Along(e).hazards = Aged(at[e[1]][n].hazards, 1) /\ e[1] \in Blocks
      /\ n \in 1..(Len(prog[e[1]]) + 1)
  BY AlongType
<1>2. IsState(at[e[1]][n]) /\ Known(E, at[e[1]][n].hazards)
  BY <1>1 DEF AllStates, KnownAt
<1> HIDE DEF n
<1>3. IsHazards(at[e[1]][n].hazards) /\ 1 \in Nat
  BY <1>2, StateFields
<1> QED BY <1>1, <1>2, <1>3, KnownAged

LEMMA IncomingType ==
    ASSUME IsProg, AllStates, NEW b \in Blocks
    PROVE  /\ IsState(Incoming(b))
           /\ \A e \in Into(b) : Below(Along(e), Incoming(b))
           /\ \A E : KnownAt(E) => Known(E, Incoming(b).hazards)
<1> DEFINE s == at[b][1]
<1>0. IsState(s) /\ \A E : KnownAt(E) => Known(E, s.hazards)
  BY FirstPoint DEF AllStates, KnownAt
<1>1. CASE Into(b) = {} /\ Incoming(b) = s
  BY <1>0, <1>1
<1>2. CASE \E one \in Into(b), other \in Into(b) :
              /\ Incoming(b) = JoinWith(JoinWith(s, Along(one)), Along(other))
              /\ \A e \in Into(b) : e = one \/ e = other
  <2>1. PICK one \in Into(b), other \in Into(b) :
              /\ Incoming(b) = JoinWith(JoinWith(s, Along(one)), Along(other))
              /\ \A e \in Into(b) : e = one \/ e = other
    BY <1>2
  <2> HIDE DEF s
  <2>2. one \in Edges(prog.shape) /\ other \in Edges(prog.shape)
    BY DEF Into
  <2> DEFINE p == Along(one)
             q == Along(other)
             j == JoinWith(s, p)
             i == JoinWith(j, q)
  <2>3. IsState(p) /\ IsState(q)
    BY <2>2, AlongType
  <2> HIDE DEF p, q
  <2>4. IsState(j) /\ Below(p, j)
    BY <1>0, <2>3, JoinType, JoinAbove
  <2>j. j.hazards = Merge(s.hazards, p.hazards)
    BY JoinHazards
  <2> HIDE DEF j
  <2>5. IsState(i) /\ Below(j, i) /\ Below(q, i)
    BY <2>3, <2>4, JoinType, JoinAbove
  <2>i. i.hazards = Merge(j.hazards, q.hazards)
    BY JoinHazards
  <2> HIDE DEF i
  <2>6. Below(p, i)
    BY <2>3, <2>4, <2>5, BelowTransitive
  <2>7. Incoming(b) = i
    BY <2>1 DEF i, j, p, q
  <2>8. \A e \in Into(b) : Below(Along(e), i)
    BY <2>1, <2>5, <2>6 DEF p, q
  <2>9. ASSUME NEW E, KnownAt(E) PROVE Known(E, i.hazards)
    <3>1. Known(E, s.hazards) /\ IsHazards(s.hazards)
      BY <1>0, <2>9, StateFields
    <3>2. Known(E, p.hazards) /\ Known(E, q.hazards)
      BY <2>2, <2>9, KnownAlong DEF p, q
    <3>3. IsHazards(p.hazards) /\ IsHazards(q.hazards) /\ IsHazards(j.hazards)
      BY <2>3, <2>4, StateFields
    <3>4. Known(E, j.hazards)
      BY <2>j, <3>1, <3>2, <3>3, KnownMerge
    <3> QED BY <2>i, <3>2, <3>3, <3>4, KnownMerge
  <2> QED BY <2>5, <2>7, <2>8, <2>9
<1> QED BY <1>1, <1>2, IncomingIs

LEMMA VisitedType ==
    ASSUME IsProg, AllStates, NEW b \in Blocks, NEW n \in 1..(Len(prog[b]) + 1)
    PROVE  /\ IsState(Visited(b, n))
           /\ n # 1 => /\ n - 1 \in 1..Len(prog[b])
                       /\ Below(Transfer(prog.target, prog[b][n - 1], at[b][n - 1]), Visited(b, n))
           /\ \A E : /\ Consistent(E) /\ KnownAt(E)
                     /\ \A o \in Operations : Produced(prog.target, o) \subseteq E
                     => Known(E, Visited(b, n).hazards)
<1>1. CASE n = 1
  <2>1. Visited(b, n) = Incoming(b)
    BY <1>1 DEF Visited
  <2> QED BY <1>1, <2>1, IncomingType
<1>2. CASE n # 1
  <2> DEFINE o == prog[b][n - 1]
             s == at[b][n - 1]
             r == at[b][n]
             u == Transfer(prog.target, o, s)
             v == Visited(b, n)
  <2>1. v = JoinWith(r, u)
    BY <1>2 DEF Visited
  <2>2. Len(prog[b]) \in Nat
    BY DEF IsProg
  <2>3. n - 1 \in 1..Len(prog[b]) /\ n - 1 \in 1..(Len(prog[b]) + 1)
    BY <1>2, <2>2
  <2>4. IsOperation(prog.target, o) /\ o \in Operations
    BY <2>3 DEF IsProg, Operations
  <2>5. IsState(s) /\ IsState(r)
    BY <2>3 DEF AllStates
  <2>6. \A E : KnownAt(E) => Known(E, s.hazards) /\ Known(E, r.hazards)
    BY <2>3 DEF KnownAt
  <2>t. u.hazards = HazardsAfter(prog.target, o, Aged(s.hazards, States(o)))
    <3> HIDE DEF o, s
    <3> QED BY <2>4, <2>5, TransferFields, OfFields
  <2> HIDE DEF o, s, r
  <2>7. IsState(u)
    BY <2>4, <2>5, TransferType
  <2> HIDE DEF u
  <2>8. IsState(JoinWith(r, u)) /\ Below(u, JoinWith(r, u))
    BY <2>5, <2>7, JoinType, JoinAbove
  <2>9. ASSUME NEW E, Consistent(E), KnownAt(E),
               \A x \in Operations : Produced(prog.target, x) \subseteq E
        PROVE  Known(E, v.hazards)
    <3>1. v.hazards = Merge(r.hazards, u.hazards)
      BY <2>1, JoinHazards
    <3>2. IsHazards(r.hazards) /\ IsHazards(u.hazards) /\ IsHazards(s.hazards)
      BY <2>5, <2>7, StateFields
    <3>3. States(o) \in Nat
      BY <2>4 DEF States, IsOperation
    <3>4. Known(E, Aged(s.hazards, States(o))) /\ IsHazards(Aged(s.hazards, States(o)))
      BY <2>6, <2>9, <3>2, <3>3, KnownAged, AgedHazards
    <3>5. Known(E, u.hazards)
      BY <2>t, <2>4, <2>9, <3>4, KnownIssue
    <3> QED BY <2>6, <2>9, <3>1, <3>2, <3>5, KnownMerge
  <2> HIDE DEF v
  <2>10. IsState(v) /\ Below(u, v)
    BY <2>1, <2>8
  <2> QED BY <2>3, <2>9, <2>10 DEF v, u, o, s
<1> QED BY <1>1, <1>2

(* The entries of a program do not change while it runs. *)
LEMMA SameProgram ==
    ASSUME prog' = prog
    PROVE  /\ IsProg' = IsProg /\ Entries' = Entries /\ Operations' = Operations
           /\ UniformMfmas' = UniformMfmas
  BY DEF IsProg, Entries, Operations, UniformMfmas

LEMMA OwnEntries ==
    \A o \in Operations : Produced(prog.target, o) \subseteq Entries
  BY DEF Entries

LEMMA SolveIInv ==
    ASSUME IInv, Solve
    PROVE  IInv'
<1>1. IsProg /\ TypeOK /\ PastOK /\ AllKnown /\ AllExact /\ Unissued
  BY DEF IInv, Solve
<1>2. /\ prog' = prog /\ block' = block /\ pos' = pos /\ local' = local /\ trips' = trips
      /\ past' = past /\ slots' = slots /\ gap' = gap /\ pending' = pending
      /\ settled' = settled /\ solved' = (at' = at)
  BY DEF Solve
<1>3. \A b \in Blocks : \A n \in 1..(Len(prog[b]) + 1) : at'[b][n] = Visited(b, n)
  BY DEF Solve
<1>4. AllStates /\ IsState(local) /\ block \in Blocks /\ pos \in 1..(Len(prog[block]) + 1)
  BY <1>1 DEF TypeOK, AllStates
<1>5. \A b \in Blocks : \A n \in 1..(Len(prog[b]) + 1) : IsState(at'[b][n])
  BY <1>1, <1>3, <1>4, VisitedType
<1>6. IsProg'
  BY <1>1, <1>2, SameProgram
<1>7. TypeOK'
  BY <1>1, <1>2, <1>5 DEF TypeOK
<1>8. Unissued'
  BY <1>1, <1>2 DEF Unissued
<1>9. PastOK'
  BY <1>1, <1>2, SameProgram DEF PastOK
<1>10. Covered(local)' /\ Covered(at[block][pos])'
  <2>1. IsState(at'[block][pos])
    BY <1>4, <1>5
  <2>2. Covered(local) /\ Covered(at'[block][pos])
    BY <1>1, <1>4, <2>1, NothingToCover
  <2> QED BY <1>2, <2>2 DEF Covered
<1>11. AllKnown'
  <2> SUFFICES ASSUME UniformMfmas
               PROVE  /\ Known(Entries, local.hazards)
                      /\ \A b \in Blocks : \A n \in 1..(Len(prog[b]) + 1) :
                            Known(Entries, at'[b][n].hazards)
    BY <1>2, SameProgram DEF AllKnown
  <2>1. Known(Entries, local.hazards) /\ KnownAt(Entries)
    BY <1>1 DEF AllKnown, KnownAt
  <2>2. Consistent(Entries)
    BY <1>1, UniformConsistent
  <2>3. ASSUME NEW b \in Blocks, NEW n \in 1..(Len(prog[b]) + 1)
        PROVE  Known(Entries, at'[b][n].hazards)
    <3>1. Known(Entries, Visited(b, n).hazards)
      BY <1>1, <1>4, <2>1, <2>2, OwnEntries, VisitedType
    <3> QED BY <1>3, <3>1
  <2> QED BY <2>1, <2>3
<1>12. AllExact'
  BY <1>1, <1>2 DEF AllExact
<1>13. ASSUME solved' PROVE Fixpoint'
  <2>1. at' = at
    <3>1. solved' = (at' = at)
      BY DEF Solve
    <3> QED BY <1>13, <3>1, Zenon
  <2>2. \A b \in Blocks : \A n \in 1..(Len(prog[b]) + 1) : at[b][n] = Visited(b, n)
    BY <1>3, <2>1
  <2>3. ASSUME NEW b \in Blocks, NEW n \in 1..Len(prog[b])
        PROVE  Below(Transfer(prog.target, prog[b][n], at[b][n]), at[b][n + 1])
    <3>1. Len(prog[b]) \in Nat
      BY <1>1 DEF IsProg
    <3>2. n + 1 \in 1..(Len(prog[b]) + 1) /\ n + 1 # 1 /\ (n + 1) - 1 = n
      BY <3>1
    <3>3. Below(Transfer(prog.target, prog[b][(n + 1) - 1], at[b][(n + 1) - 1]),
                Visited(b, n + 1))
      BY <1>1, <1>4, <3>2, VisitedType
    <3> QED BY <2>2, <3>2, <3>3
  <2>4. ASSUME NEW e \in Edges(prog.shape)
        PROVE  Below(TransferBranch(at[e[1]][Len(prog[e[1]]) + 1]), at[e[2]][1])
    <3>1. e[2] \in Blocks
      BY <1>1, <1>4, AlongType
    <3>2. e \in Into(e[2])
      BY DEF Into
    <3>3. Below(Along(e), Incoming(e[2]))
      BY <1>1, <1>4, <3>1, <3>2, IncomingType
    <3>4. 1 \in 1..(Len(prog[e[2]]) + 1)
      BY <1>1, <3>1, FirstPoint
    <3>5. at[e[2]][1] = Incoming(e[2])
      BY <2>2, <3>1, <3>4 DEF Visited
    <3> QED BY <3>3, <3>5 DEF Along
  <2>5. Fixpoint
    BY <2>3, <2>4 DEF Fixpoint
  <2> QED BY <1>2, <2>1, <2>5 DEF Fixpoint
<1> QED BY <1>6, <1>7, <1>8, <1>9, <1>10, <1>11, <1>12, <1>13 DEF IInv

LEMMA BranchIInv ==
    ASSUME IInv, NEW e \in Edges(prog.shape), Branch(e)
    PROVE  IInv'
<1>1. IsProg /\ TypeOK /\ PastOK /\ AllKnown
  BY DEF IInv
<1>2. /\ prog' = prog /\ at' = at /\ solved' = solved /\ slots' = slots /\ gap' = gap
      /\ pending' = pending /\ settled' = settled
      /\ solved /\ pos = Len(prog[block]) + 1 /\ e[1] = block
      /\ block' = e[2] /\ pos' = 1 /\ local' = at[e[2]][1]
      /\ past' = Elapse(past, e[3], 1 - e[3])
  BY DEF Branch
<1>3. AllStates /\ IsState(local) /\ block \in Blocks /\ pos \in 1..(Len(prog[block]) + 1)
      /\ gap \in 0..1 /\ pending \in Nat /\ settled \in [ScratchBases -> 0..ScratchBaseWrites]
  BY <1>1 DEF TypeOK, AllStates
<1>4. Fixpoint
  BY <1>2 DEF IInv
<1>5. e[1] \in Blocks /\ e[2] \in Blocks /\ e[3] \in {0, 1} /\ prog.shape # "straight"
  BY <1>1, EdgeType DEF IsProg
<1>6. 1 \in 1..(Len(prog[e[2]]) + 1)
  BY <1>1, <1>5, FirstPoint
<1>7. trips' \in 0..MaxTrips
  <2>1. trips \in 0..MaxTrips /\ MaxTrips \in Nat
    BY <1>1, HazardAssumption DEF TypeOK
  <2> QED BY <2>1 DEF Branch
<1>s. IsState(at[e[2]][1])
  BY <1>3, <1>5, <1>6 DEF AllStates
<1>8. TypeOK'
  <2>1. block' \in Blocks /\ pos' \in 1..(Len(prog'[block']) + 1)
    BY <1>2, <1>5, <1>6
  <2>2. IsState(local')
    BY <1>2, <1>s
  <2>3. \A b \in Blocks : \A n \in 1..(Len(prog'[b]) + 1) : IsState(at'[b][n])
    BY <1>2, <1>3 DEF AllStates
  <2> QED BY <1>2, <1>3, <1>7, <2>1, <2>2, <2>3 DEF TypeOK
<1>9. e[3] \in Nat /\ 1 - e[3] \in Nat
  BY <1>5
<1>10. PastOK'
  <2>1. IsPast(past) /\ Companions(prog.target, past) /\ \A x \in past : x.entry \in Entries
    BY <1>1 DEF PastOK
  <2>2. IsPast(past')
    BY <1>2, <1>9, <2>1, ElapsedType
  <2>3. Companions(prog.target, past')
    BY <1>2, <1>9, <2>1, TwinsElapse
  <2>4. \A x \in past' : x.entry \in Entries
    <3> DEFINE q == e[3]
               d == 1 - e[3]
    <3>1. TAKE y \in past'
    <3>2. q \in Nat /\ d \in Nat /\ past' = Elapse(past, q, d)
      BY <1>2, <1>9
    <3> HIDE DEF q, d
    <3>3. PICK x \in past : y = [entry |-> x.entry, age |-> x.age + q,
                                 dropped |-> x.dropped + d]
      BY <2>1, <3>2, Elapsed
    <3>4. y.entry = x.entry
      BY <3>3
    <3> QED BY <2>1, <3>4
  <2> QED BY <1>1, <1>2, <2>2, <2>3, <2>4, SameProgram DEF PastOK
<1>11. Covers(prog.target, past', slots, gap, pending, settled, at[e[2]][1])
  <2> DEFINE s == at[block][pos]
  <2>1. IsState(s) /\ Covers(prog.target, past, slots, gap, pending, settled, s)
    BY <1>3 DEF AllStates, IInv, Covered
  <2>2. Below(TransferBranch(s), at[e[2]][1])
    BY <1>2, <1>4 DEF Fixpoint
  <2> HIDE DEF s
  <2>3. IsPast(past) /\ IsSlots(slots) /\ IsPast(past')
    BY <1>1, <1>10, <1>2 DEF PastOK
  <2>4. Covers(prog.target, past', slots, gap, pending, settled, TransferBranch(s))
    BY <1>2, <1>5, <2>1, <2>3, CoversBranch
  <2>5. IsState(TransferBranch(s))
    BY <2>1, BranchFields
  <2> QED BY <1>3, <1>s, <2>2, <2>3, <2>4, <2>5, CoversAbove
<1>12. Covered(local)' /\ Covered(at[block][pos])'
  BY <1>2, <1>11 DEF Covered
<1>13. AllKnown'
  BY <1>1, <1>2, <1>5, <1>6, SameProgram DEF AllKnown
<1>14. AllExact'
  BY <1>2, <1>5 DEF AllExact
<1>15. IsProg' /\ Fixpoint' /\ solved'
  BY <1>1, <1>2, <1>4, SameProgram DEF Fixpoint
<1> QED BY <1>8, <1>10, <1>12, <1>13, <1>14, <1>15 DEF IInv

(* The wave. *)
LEMMA IssueIs ==
    ASSUME IsProg, TypeOK, Issue
    PROVE  /\ IsOperation(prog.target, Op) /\ Op \in Operations /\ solved
           /\ pos \in 1..Len(prog[block]) /\ pos \in 1..(Len(prog[block]) + 1)
           /\ pos + 1 \in 1..(Len(prog[block]) + 1)
           /\ prog' = prog /\ at' = at /\ solved' = solved /\ block' = block /\ trips' = trips
           /\ pos' = pos + 1
           /\ local' = Transfer(prog.target, Op, Mitigation.state)
           /\ past' = PastAfter(prog.target, Op, past, Mitigation.total + States(Op))
           /\ slots' = SlotsAfter(prog.target, Op, slots,
                          Mitigation.vnops + (IF VALUForCoexec(Op) THEN States(Op) ELSE 0))
           /\ gap' = GapAfter(Op, gap, pending, Mitigation.total + States(Op))
           /\ pending' = IssuedAfter(Op, pending)
           /\ settled' = SettledAfter(Op, settled, Mitigation.alu = 1)
<1> DEFINE m == Mitigation
<1>1. block \in Blocks /\ pos \in 1..(Len(prog[block]) + 1) /\ IsState(local) /\ gap \in 0..1
  BY DEF TypeOK
<1>2. Len(prog[block]) \in Nat
  BY <1>1 DEF IsProg
<1>3. solved /\ pos <= Len(prog[block])
  BY DEF Issue, Issuing
<1>4. pos \in 1..Len(prog[block]) /\ pos + 1 \in 1..(Len(prog[block]) + 1)
  BY <1>1, <1>2, <1>3
<1>5. IsOperation(prog.target, Op) /\ Op \in Operations
  BY <1>1, <1>4 DEF IsProg, Op, Operations
<1>6. m.total \in Nat
  BY <1>1, MitigationIs
<1>7. States(Op) \in Nat
  BY <1>5 DEF States, IsOperation
<1> HIDE DEF m
<1>8. /\ prog' = prog /\ at' = at /\ solved' = solved /\ block' = block /\ trips' = trips
      /\ pos' = pos + 1 /\ local' = Transfer(prog.target, Op, m.state)
  BY DEF Issue, m
<1>9. past' = PastAfter(prog.target, Op, past, m.total + States(Op))
  BY DEF Issue, m, PastAfter, States
<1>10. slots' = SlotsAfter(prog.target, Op, slots,
                  m.vnops + (IF VALUForCoexec(Op) THEN States(Op) ELSE 0))
  BY DEF Issue, m, SlotsAfter, States
<1>11. gap' = GapAfter(Op, gap, pending, m.total + States(Op))
  <2>1. gap' = IF Drains(Op, pending) THEN 0 ELSE Cap(gap + m.total + States(Op), 1)
    BY DEF Issue, m, Drains, States
  <2>2. gap + m.total + States(Op) = gap + (m.total + States(Op))
    BY <1>1, <1>6, <1>7
  <2> QED BY <2>1, <2>2 DEF GapAfter
<1>12. pending' = IssuedAfter(Op, pending)
  BY DEF Issue, IssuedAfter
<1>13. settled' = SettledAfter(Op, settled, m.alu = 1)
  BY DEF Issue, m, SettledAfter
<1> QED BY <1>1, <1>3, <1>4, <1>5, <1>8, <1>9, <1>10, <1>11, <1>12, <1>13 DEF m

LEMMA IssueIInv ==
    ASSUME IInv, Issue
    PROVE  IInv'
<1> DEFINE t == prog.target
           m == Mitigation
           T == Mitigation.total
           n == T + States(Op)
           V == Mitigation.vnops
           N == V + (IF VALUForCoexec(Op) THEN States(Op) ELSE 0)
           s == at[block][pos]
           u == at[block][pos + 1]
<1>1. IsProg /\ TypeOK /\ PastOK /\ AllKnown /\ AllExact
  BY DEF IInv
<1>2. /\ IsOperation(t, Op) /\ Op \in Operations /\ solved
      /\ pos \in 1..Len(prog[block]) /\ pos \in 1..(Len(prog[block]) + 1)
      /\ pos + 1 \in 1..(Len(prog[block]) + 1)
      /\ prog' = prog /\ at' = at /\ solved' = solved /\ block' = block /\ trips' = trips
      /\ pos' = pos + 1 /\ local' = Transfer(t, Op, m.state)
      /\ past' = PastAfter(t, Op, past, n) /\ slots' = SlotsAfter(t, Op, slots, N)
      /\ gap' = GapAfter(Op, gap, pending, n) /\ pending' = IssuedAfter(Op, pending)
      /\ settled' = SettledAfter(Op, settled, m.alu = 1)
  BY <1>1, IssueIs
<1>3. AllStates /\ IsState(local) /\ block \in Blocks /\ trips \in 0..MaxTrips
      /\ gap \in 0..1 /\ pending \in Nat /\ settled \in [ScratchBases -> 0..ScratchBaseWrites]
  BY <1>1 DEF TypeOK, AllStates
<1>4. IsState(s) /\ IsState(u)
  BY <1>2, <1>3 DEF AllStates
<1>5. Below(Transfer(t, Op, s), u)
  BY <1>2, <1>3 DEF IInv, Fixpoint, Op
<1>6. Covers(t, past, slots, gap, pending, settled, local)
      /\ Covers(t, past, slots, gap, pending, settled, s)
  BY DEF IInv, Covered
<1>7. IsPast(past) /\ IsSlots(slots) /\ Companions(t, past) /\ \A x \in past : x.entry \in Entries
  BY <1>1 DEF PastOK
<1>8. IsState(m.state)
  BY <1>3, MitigatedType
<1>9. /\ T \in Nat /\ V \in 0..MostLimit /\ m.alu \in 0..1
      /\ m.state.lgkmToValu = Less(local.lgkmToValu, T)
      /\ m.state.lgkmPending = local.lgkmPending
      /\ m.state.hazards = Aged(local.hazards, T)
      /\ m.state.coexec = AgedCoexec(local.coexec, V)
      /\ m.state.scratchBase = IF m.alu = 1 THEN [b \in ScratchBases |-> 0]
                               ELSE local.scratchBase
  BY <1>3, MitigationIs, OfFields
<1>10. V \in Nat /\ States(Op) \in Nat
  <2>1. V \in 0..MostLimit
    BY <1>9
  <2> HIDE DEF V
  <2>2. V \in Nat
    BY <2>1 DEF MostLimit, MostPasses
  <2>3. States(Op) \in Nat
    BY <1>2 DEF States, IsOperation
  <2> QED BY <2>2, <2>3
<1>11. n \in Nat /\ N \in Nat
  BY <1>9, <1>10
<1> HIDE DEF m, T, V, s, u, t
<1>12. Covers(t, past', slots', gap', pending', settled', local')
  <2>1. SlotCover(slots, local.coexec, 0) /\ IsCoexec(local.coexec) /\ 0 \in Nat /\ 0 + V = V
    BY <1>3, <1>6, <1>10, StateFields DEF Covers
  <2>2. SlotCover(slots, m.state.coexec, V)
    BY <1>7, <1>9, <1>10, <2>1, SlotAge
  <2>3. T <= T
    BY <1>9
  <2>4. m.alu = 1 \/ m.state.scratchBase = local.scratchBase
    BY <1>9
  <2>5. Covers(t, PastAfter(t, Op, past, n), SlotsAfter(t, Op, slots, N),
               GapAfter(Op, gap, pending, n), IssuedAfter(Op, pending),
               SettledAfter(Op, settled, m.alu = 1), Transfer(t, Op, m.state))
    BY <1>2, <1>3, <1>6, <1>7, <1>8, <1>9, <1>10, <2>2, <2>3, <2>4, CoversIssue
  <2> HIDE DEF n, N
  <2> QED BY <1>2, <2>5
<1>13. Covers(t, past', slots', gap', pending', settled', Transfer(t, Op, s))
  <2>1. SlotCover(slots, s.coexec, 0) /\ IsCoexec(s.coexec) /\ IsHazards(s.hazards)
        /\ s.lgkmToValu \in Nat
    BY <1>4, <1>6, StateFields DEF Covers
  <2>2. 0 \in Nat /\ 0 <= V /\ 0 <= T
    BY <1>9, <1>10
  <2>3. SlotCover(slots, s.coexec, V)
    BY <1>7, <1>10, <2>1, <2>2, SlotLater
  <2>4. s.hazards = Aged(s.hazards, 0) /\ s.lgkmToValu = Less(s.lgkmToValu, 0)
    <3>1. s.hazards = Aged(s.hazards, 0)
      BY <2>1, AgedByZero
    <3>2. s.lgkmToValu = Less(s.lgkmToValu, 0)
      BY <2>1 DEF Less
    <3> QED BY <3>1, <3>2
  <2>5. m.alu = 1 \/ s.scratchBase = s.scratchBase
    OBVIOUS
  <2>6. Covers(t, PastAfter(t, Op, past, n), SlotsAfter(t, Op, slots, N),
               GapAfter(Op, gap, pending, n), IssuedAfter(Op, pending),
               SettledAfter(Op, settled, m.alu = 1), Transfer(t, Op, s))
    BY <1>2, <1>3, <1>4, <1>6, <1>7, <1>9, <1>10, <2>2, <2>3, <2>4, <2>5, CoversIssue
  <2> HIDE DEF n, N
  <2> QED BY <1>2, <2>6
<1> HIDE DEF n, N
<1>14. /\ gap' \in 0..1 /\ pending' \in Nat
       /\ settled' \in [ScratchBases -> 0..ScratchBaseWrites]
  <2>1. /\ local.lgkmToValu \in 0..1 /\ local.lgkmPending \in 0..(LgkmDefault + 1)
        /\ GapCover(t, gap, local.lgkmToValu) /\ PendingCover(t, pending, local.lgkmPending)
    BY <1>3, <1>6, StateFields DEF Covers
  <2>2. 0 \in Nat /\ 0 <= T
    BY <1>9
  <2>3. GapAfter(Op, gap, pending, n) \in 0..1 /\ IssuedAfter(Op, pending) \in Nat
    BY <1>2, <1>3, <1>9, <2>1, <2>2, LgkmIssue DEF n
  <2>4. SettledAfter(Op, settled, m.alu = 1) \in [ScratchBases -> 0..ScratchBaseWrites]
    BY <1>2, <1>3, SettledAfterType
  <2> QED BY <1>2, <2>3, <2>4
<1>15. IsState(local')
  BY <1>2, <1>8, TransferType
<1>16. IsPast(past') /\ IsSlots(slots') /\ Companions(t, past')
  <2>1. IsPast(past')
    BY <1>2, <1>7, <1>11, PastAfterType
  <2>2. IsSlots(slots')
    BY <1>2, <1>7, <1>11, SlotsType
  <2>3. Companions(t, past')
    BY <1>2, <1>7, <1>11, TwinsIssue
  <2> QED BY <2>1, <2>2, <2>3
<1>17. ASSUME NEW y \in past'
       PROVE  /\ y.entry \in Entries
              /\ (\A x \in past : x.dropped = 0) => y.dropped = 0
  <2>1. \/ y \in Elapse(past, n, 0)
        \/ \E e \in Produced(t, Op) : y = [entry |-> e, age |-> 0, dropped |-> 0]
    BY <1>2 DEF PastAfter
  <2>2. CASE y \in Elapse(past, n, 0)
    <3>1. PICK x \in past : y = [entry |-> x.entry, age |-> x.age + n, dropped |-> x.dropped + 0]
      BY <1>7, <1>11, <2>2, Elapsed
    <3>2. y.entry = x.entry /\ y.dropped = x.dropped + 0
      BY <3>1
    <3> QED BY <1>7, <3>2
  <2>3. CASE \E e \in Produced(t, Op) : y = [entry |-> e, age |-> 0, dropped |-> 0]
    <3>1. PICK e \in Produced(t, Op) : y = [entry |-> e, age |-> 0, dropped |-> 0]
      BY <2>3
    <3>2. y.entry = e /\ y.dropped = 0
      BY <3>1
    <3>3. e \in Entries
      BY <1>2, OwnEntries DEF t
    <3> QED BY <3>2, <3>3
  <2> QED BY <2>1, <2>2, <2>3
<1>18. Covers(t, past', slots', gap', pending', settled', u)
  <2>1. IsState(Transfer(t, Op, s))
    BY <1>2, <1>4, TransferType
  <2> QED BY <1>4, <1>5, <1>13, <1>14, <1>16, <2>1, CoversAbove
<1>h. /\ local'.hazards = HazardsAfter(t, Op, Aged(local.hazards, n))
      /\ IsHazards(local.hazards)
  <2>1. IsHazards(local.hazards)
    BY <1>3, StateFields
  <2>2. local'.hazards = HazardsAfter(t, Op, Aged(m.state.hazards, States(Op)))
    BY <1>2, <1>8, TransferFields, OfFields
  <2>3. Aged(m.state.hazards, States(Op)) = Aged(local.hazards, n)
    BY <1>9, <1>10, <2>1, AgedTwice DEF n
  <2> QED BY <2>1, <2>2, <2>3
<1>19. AllKnown'
  <2> SUFFICES ASSUME UniformMfmas
               PROVE  /\ Known(Entries, local'.hazards)
                      /\ \A b \in Blocks : \A i \in 1..(Len(prog[b]) + 1) :
                            Known(Entries, at[b][i].hazards)
    BY <1>2, SameProgram DEF AllKnown
  <2>1. /\ Known(Entries, local.hazards)
        /\ \A b \in Blocks : \A i \in 1..(Len(prog[b]) + 1) : Known(Entries, at[b][i].hazards)
    BY <1>1 DEF AllKnown
  <2>2. Consistent(Entries) /\ Produced(t, Op) \subseteq Entries
    BY <1>1, <1>2, UniformConsistent, OwnEntries DEF t
  <2>3. Known(Entries, Aged(local.hazards, n)) /\ IsHazards(Aged(local.hazards, n))
    BY <1>h, <1>11, <2>1, KnownAged, AgedHazards
  <2>4. Known(Entries, local'.hazards)
    BY <1>2, <1>h, <2>2, <2>3, KnownIssue
  <2> QED BY <2>1, <2>4
<1>20. AllExact'
  <2> SUFFICES ASSUME prog.shape = "straight"
               PROVE  Exact(past', local'.hazards) /\ \A y \in past' : y.dropped = 0
    BY <1>2 DEF AllExact
  <2>1. Exact(past, local.hazards) /\ \A x \in past : x.dropped = 0
    BY <1>1 DEF AllExact
  <2>2. Exact(past', local'.hazards)
    BY <1>2, <1>7, <1>h, <1>11, <2>1, ExactIssue
  <2> QED BY <1>17, <2>1, <2>2
<1>21. TypeOK'
  <2>1. block' \in Blocks /\ pos' \in 1..(Len(prog'[block']) + 1)
    BY <1>2, <1>3
  <2>2. \A b \in Blocks : \A i \in 1..(Len(prog'[b]) + 1) : IsState(at'[b][i])
    BY <1>2, <1>3 DEF AllStates
  <2> QED BY <1>2, <1>3, <1>14, <1>15, <2>1, <2>2 DEF TypeOK
<1>22. PastOK'
  BY <1>2, <1>16, <1>17, SameProgram DEF PastOK, t
<1>23. Covered(local)' /\ Covered(at[block][pos])'
  BY <1>2, <1>12, <1>18 DEF Covered, t, u
<1>24. IsProg' /\ Fixpoint' /\ solved'
  <2>1. Fixpoint
    BY <1>2 DEF IInv
  <2> QED BY <1>1, <1>2, <2>1, SameProgram DEF Fixpoint
<1> QED BY <1>19, <1>20, <1>21, <1>22, <1>23, <1>24 DEF IInv

LEMMA StutterIInv ==
    ASSUME IInv, UNCHANGED vars
    PROVE  IInv'
<1>1. /\ prog' = prog /\ at' = at /\ solved' = solved /\ block' = block /\ pos' = pos
      /\ local' = local /\ trips' = trips /\ past' = past /\ slots' = slots /\ gap' = gap
      /\ pending' = pending /\ settled' = settled
  BY DEF vars
<1>2. /\ IsProg /\ TypeOK /\ (solved => Fixpoint) /\ (~solved => Unissued) /\ PastOK
      /\ Covered(local) /\ Covered(at[block][pos]) /\ AllKnown /\ AllExact
  BY DEF IInv
<1>3. IsProg' /\ TypeOK'
  BY <1>1, <1>2, SameProgram DEF TypeOK
<1>4. (solved' => Fixpoint') /\ (~solved' => Unissued')
  BY <1>1, <1>2 DEF Fixpoint, Unissued
<1>5. PastOK'
  BY <1>1, <1>2, SameProgram DEF PastOK
<1>6. Covered(local)' /\ Covered(at[block][pos])'
  BY <1>1, <1>2 DEF Covered
<1>7. AllKnown'
  BY <1>1, <1>2, SameProgram DEF AllKnown
<1>8. AllExact'
  BY <1>1, <1>2 DEF AllExact
<1> QED BY <1>3, <1>4, <1>5, <1>6, <1>7, <1>8 DEF IInv

(* The invariant is inductive: what the rewrite believes before an operation *)
(* covers what the wave has done, and so does the fixpoint of the analysis at *)
(* that point, which is what the next block starts from.                     *)
THEOREM Invariance == Spec => []IInv
<1>1. IInv /\ [Next]_vars => IInv'
  <2> SUFFICES ASSUME IInv, [Next]_vars PROVE IInv'
    OBVIOUS
  <2>1. CASE Solve
    BY <2>1, SolveIInv
  <2>2. CASE Issue
    BY <2>2, IssueIInv
  <2>3. ASSUME NEW e \in Edges(prog.shape), Branch(e) PROVE IInv'
    BY <2>3, BranchIInv
  <2>4. CASE Done
    BY <2>4, StutterIInv DEF Done
  <2>5. CASE UNCHANGED vars
    BY <2>5, StutterIInv
  <2> QED BY <2>1, <2>2, <2>3, <2>4, <2>5 DEF Next
<1> QED BY <1>1, InitIInv, PTL DEF Spec

-----------------------------------------------------------------------------
(* The properties. *)

(* No state of the analysis or of the rewrite has a malformed hazard: none   *)
(* has more wait states left than it began with, or none left at all         *)
(* ("malformed hazard age", waitForHazardAge).                               *)
THEOREM TypeCorrect == Spec => []TypeOK
<1>1. IInv => TypeOK
  BY DEF IInv
<1> QED BY <1>1, Invariance, PTL

LEMMA MaxAbove ==
    ASSUME NEW n \in Nat, NEW T \in SUBSET Int, 0 \in T, \A y \in T : y <= n
    PROVE  Max(T) \in T /\ Max(T) \in 0..n /\ \A y \in T : y <= Max(T)
<1> DEFINE U == {y \in T : 0 <= y}
<1>1. U \in SUBSET (0..n) /\ 0 \in U /\ U # {}
  <2>1. \A y \in U : y \in 0..n
    <3>1. TAKE y \in U
    <3>2. y \in Int /\ 0 <= y /\ y <= n
      OBVIOUS
    <3> QED BY <3>2
  <2>2. 0 \in U
    OBVIOUS
  <2> QED BY <2>1, <2>2
<1>2. \A y \in T : y \in U \/ y <= 0
  OBVIOUS
<1>3. \A y \in U : y \in T
  OBVIOUS
<1> HIDE DEF U
<1>4. Max(U) \in U /\ \A y \in U : y <= Max(U)
  BY <1>1, MaxBounded
<1>5. Max(U) \in 0..n
  BY <1>1, <1>4
<1>6. \A y \in T : Max(U) >= y
  <2>1. TAKE y \in T
  <2>2. y \in Int
    OBVIOUS
  <2> QED BY <1>2, <1>4, <1>5, <2>2
<1>7. \E x \in T : \A y \in T : x >= y
  BY <1>3, <1>4, <1>6
<1>8. Max(T) \in T /\ \A y \in T : Max(T) >= y
  BY <1>7, Zenon DEF Max
<1>9. Max(T) \in Int /\ 0 <= Max(T) /\ Max(T) <= n
  BY <1>8
<1> QED BY <1>8, <1>9

(* What the next operation needs from a producer. *)
LEMMA NeedsIs ==
    ASSUME NEW x, x.entry.passes \in 0..MostPasses, x.entry.limit \in 0..MostLimit
    PROVE  /\ Needs(x) \in Nat
           /\ \A a \in Accesses(Op) :
                 Required(prog.target, Op, a, x.entry.key[1], x.entry.key[2], x.entry) <= Needs(x)
           /\ \/ Needs(x) = 0
              \/ \E a \in Accesses(Op) : Needs(x) =
                    Required(prog.target, Op, a, x.entry.key[1], x.entry.key[2], x.entry)
<1> DEFINE R(a) == Required(prog.target, Op, a, x.entry.key[1], x.entry.key[2], x.entry)
           T == {0} \union {R(a) : a \in Accesses(Op)}
<1>1. ASSUME NEW a \in Accesses(Op) PROVE R(a) \in Int /\ R(a) <= MostLimit
  BY RequiredBounded
<1>2. Needs(x) = Max(T)
  BY DEF Needs
<1>3. MostLimit \in Nat
  BY DEF MostLimit, MostPasses
<1> HIDE DEF R
<1>4. T \in SUBSET Int /\ 0 \in T /\ \A y \in T : y <= MostLimit
  BY <1>1, <1>3
<1>5. \A a \in Accesses(Op) : R(a) \in T
  OBVIOUS
<1>6. \A y \in T : y = 0 \/ \E a \in Accesses(Op) : y = R(a)
  OBVIOUS
<1> HIDE DEF T
<1>7. Max(T) \in T /\ Max(T) \in 0..MostLimit /\ \A y \in T : y <= Max(T)
  BY <1>3, <1>4, MaxAbove
<1>8. Max(T) \in Nat
  BY <1>3, <1>7
<1>9. \A a \in Accesses(Op) : R(a) <= Max(T)
  BY <1>5, <1>7
<1>10. Max(T) = 0 \/ \E a \in Accesses(Op) : Max(T) = R(a)
  BY <1>6, <1>7
<1> QED BY <1>2, <1>8, <1>9, <1>10 DEF R

LEMMA PastEntry ==
    ASSUME IsProg, PastOK, NEW x \in past
    PROVE  /\ x.entry.passes \in 0..MostPasses /\ x.entry.limit \in 0..MostLimit
           /\ x.entry.limit \in Int /\ x.entry.limit > 0
           /\ x.age \in Nat /\ x.dropped \in Nat /\ x.entry \in Entries
<1>1. x.entry \in Entries /\ x.age \in Nat /\ x.dropped \in Nat
  BY DEF PastOK, IsPast
<1>2. PICK o \in Operations : IsOperation(prog.target, o) /\ x.entry \in Produced(prog.target, o)
  BY <1>1, EntryOf
<1>3. x.entry.passes \in 0..MostPasses /\ x.entry.limit \in 1..MostLimit
  BY <1>2, EntryType
<1> QED BY <1>1, <1>3 DEF MostLimit, MostPasses

(* The wait alone is enough for every producer of the past. *)
LEMMA WaitIsEnough ==
    ASSUME IInv, UniformMfmas, NEW x \in past
    PROVE  x.age + x.dropped + Mitigation.wait >= Needs(x)
<1>1. IsProg /\ TypeOK /\ PastOK /\ IsState(local)
  BY DEF IInv, TypeOK
<1>2. HazardCover(past, local.hazards) /\ Known(Entries, local.hazards) /\ IsHazards(local.hazards)
  BY <1>1, StateFields DEF IInv, Covered, Covers, AllKnown
<1>3. Mitigation.wait = RequiredWait(prog.target, Op, local) /\ Mitigation.wait \in 0..MostLimit
  BY <1>1, MitigationIs
<1>4. \A e \in Entries : \E o : IsOperation(prog.target, o) /\ e \in Produced(prog.target, o)
  BY <1>1, EntryOf
<1>5. IsPast(past) /\ Companions(prog.target, past) /\ \A y \in past : y.entry \in Entries
  BY <1>1 DEF PastOK
<1>6. x.age \in Nat /\ x.dropped \in Nat
  BY <1>1, PastEntry
<1> DEFINE late == x.age + x.dropped + Mitigation.wait
<1>7. late \in Nat
  BY <1>3, <1>6 DEF MostLimit, MostPasses
<1>8. \A a \in Accesses(Op) :
         /\ Required(prog.target, Op, a, x.entry.key[1], x.entry.key[2], x.entry) \in Int
         /\ Required(prog.target, Op, a, x.entry.key[1], x.entry.key[2], x.entry) <= late
  BY <1>2, <1>3, <1>4, <1>5, EnoughWaitStates
<1>9. /\ Needs(x) \in Nat
      /\ \/ Needs(x) = 0
         \/ \E a \in Accesses(Op) : Needs(x) =
                  Required(prog.target, Op, a, x.entry.key[1], x.entry.key[2], x.entry)
  BY <1>1, PastEntry, NeedsIs
<1>10. Needs(x) = 0 \/ Needs(x) <= late
  BY <1>8, <1>9
<1> HIDE DEF late
<1>11. late >= Needs(x)
  BY <1>7, <1>9, <1>10
<1> QED BY <1>11 DEF late

(* rewriteOp inserts enough: whatever path the wave took, every operation    *)
(* issues late enough after every producer on it, in every program whose     *)
(* MFMAs on the same registers take as many passes, if the branches that the *)
(* analysis counts are there.                                                *)
THEOREM EnoughWaits == Spec => [](UniformMfmas => WaitStatesCounted)
<1>1. IInv => (UniformMfmas => WaitStatesCounted)
  <2> SUFFICES ASSUME IInv, UniformMfmas, NEW x \in past
               PROVE  x.age + x.dropped + Mitigation.total >= Needs(x)
    BY DEF WaitStatesCounted
  <2>1. IsProg /\ PastOK /\ IsState(local)
    BY DEF IInv, TypeOK
  <2> DEFINE w == Mitigation.wait
             T == Mitigation.total
             N == Needs(x)
  <2>2. w \in 0..MostLimit /\ T \in Nat
    BY <2>1, MitigationIs
  <2>3. w <= T
    <3> DEFINE v == Mitigation.valu
               k == Mitigation.vnops
               a == Mitigation.alu
    <3>1. /\ w \in 0..MostLimit /\ v \in 0..1 /\ k \in 0..MostLimit /\ a \in 0..1
          /\ T = w + v + k + a
      BY <2>1, MitigationIs
    <3> HIDE DEF w, T, v, k, a
    <3> QED BY <3>1 DEF MostLimit, MostPasses
  <2>4. x.age \in Nat /\ x.dropped \in Nat /\ N \in Nat
    BY <2>1, PastEntry, NeedsIs
  <2>5. x.age + x.dropped + w >= N
    BY WaitIsEnough
  <2> HIDE DEF w, T, N
  <2>6. x.age + x.dropped + T >= N
    BY <2>2, <2>3, <2>4, <2>5 DEF MostLimit, MostPasses
  <2> QED BY <2>6 DEF T, N
<1> QED BY <1>1, Invariance, PTL

(* rewriteOp inserts no more than that: in straight-line code some producer  *)
(* needs all of the wait states of an s_nop.                                 *)
THEOREM NoneWasted == Spec => [](UniformMfmas => NoWastedWait)
<1>1. IInv => (UniformMfmas => NoWastedWait)
  <2> SUFFICES ASSUME IInv, UniformMfmas, prog.shape = "straight", Mitigation.wait > 0
               PROVE  \E x \in past : x.age + Mitigation.wait = Needs(x)
    BY DEF NoWastedWait
  <2> DEFINE t == prog.target
             f == local.hazards
             w == Mitigation.wait
  <2>1. IsProg /\ PastOK /\ IsState(local) /\ IsHazards(f)
    BY StateFields DEF IInv, TypeOK
  <2>2. Exact(past, f) /\ (\A x \in past : x.dropped = 0) /\ Known(Entries, f)
    BY DEF IInv, AllExact, AllKnown
  <2>3. w = RequiredWait(t, Op, local) /\ w \in 0..MostLimit
    BY <2>1, MitigationIs
  <2>4. PICK k \in DOMAIN f, a \in Accesses(Op) :
           w = WaitForAge(f[k], Required(t, Op, a, k[1], k[2], f[k]))
    BY <2>1, <2>3, RequiredWaitIs
  <2>5. PICK x \in past : x.entry.key = k /\ f[k].remaining = x.entry.limit - x.age
    BY <2>2 DEF Exact
  <2> DEFINE h == f[k]
             R(y) == Required(t, Op, a, k[1], k[2], y)
             l == x.entry.limit
  <2>6. h \in Hazard /\ h.remaining <= h.limit
    BY <2>1 DEF IsHazards
  <2>7. /\ h.limit \in Int /\ h.remaining \in Int /\ h.passes \in 0..MostPasses
        /\ h.limit \in 0..MostLimit
    <3> HIDE DEF h
    <3> QED BY <2>6 DEF Hazard
  <2>8. R(h) \in Int /\ R(h) <= MostLimit
    <3> HIDE DEF h
    <3> QED BY <2>7, RequiredBounded
  <2>9. w = R(h) - (h.limit - h.remaining)
    <3>1. w = WaitForAge(h, R(h)) /\ w > 0
      BY <2>4
    <3> HIDE DEF h, R, w
    <3> QED BY <2>6, <2>8, <3>1, WaitForAgeType
  <2>10. /\ l \in Int /\ l > 0 /\ x.age \in Nat /\ x.entry \in Entries
         /\ x.entry.passes \in 0..MostPasses /\ x.entry.limit \in 0..MostLimit /\ x.dropped = 0
    BY <2>1, <2>2, PastEntry
  <2>11. R(x.entry) - l = R(h) - h.limit /\ R(x.entry) \in Int
    <3>0. R(x.entry) \in Int
      BY <2>10, RequiredBounded
    <3>1. CASE k[2] # "StoreWriteData"
      <4>1. h.limit = l /\ h.passes = x.entry.passes
        BY <2>2, <2>5, <2>10, <3>1 DEF Known
      <4>2. R(h) = R(x.entry)
        BY <4>1, RequiredSame
      <4> QED BY <3>0, <4>1, <4>2
    <3>2. CASE k[2] = "StoreWriteData"
      <4>1. h.limit > 0
        <5> HIDE DEF h
        <5> QED BY <2>6 DEF Hazard
      <4>2. R(h) > 0
        <5>1. w > 0
          OBVIOUS
        <5> HIDE DEF h, R, w
        <5> QED BY <2>6, <2>7, <2>8, <2>9, <5>1
      <4>3. R(h) = h.limit /\ R(x.entry) = l
        BY <3>2, <4>1, <4>2, RequiredStore
      <4> HIDE DEF h, R, l
      <4> QED BY <2>7, <2>10, <3>0, <4>3
    <3> QED BY <3>0, <3>1, <3>2
  <2>12. R(x.entry) <= Needs(x) /\ Needs(x) \in Nat
    BY <2>5, <2>10, NeedsIs
  <2>13. x.age + x.dropped + w >= Needs(x)
    BY WaitIsEnough
  <2>14. x.age + w = Needs(x)
    <3> DEFINE r == R(x.entry)
               q == R(h)
               c == h.limit
               b == h.remaining
               N == Needs(x)
    <3>1. /\ r \in Int /\ q \in Int /\ c \in Int /\ b \in Int /\ N \in Nat /\ l \in Int
          /\ w \in Int /\ x.age \in Nat /\ x.dropped = 0
      BY <2>3, <2>7, <2>8, <2>10, <2>11, <2>12
    <3>2. r - l = q - c /\ w = q - (c - b) /\ b = l - x.age /\ r <= N
          /\ x.age + x.dropped + w >= N
      BY <2>5, <2>9, <2>11, <2>12, <2>13
    <3> HIDE DEF r, q, c, b, N, l, w
    <3>3. x.age + w = N
      BY <3>1, <3>2
    <3> QED BY <3>3 DEF N
  <2> QED BY <2>14
<1> QED BY <1>1, Invariance, PTL

(* No VALU operation directly follows a wait that drained lgkmcnt            *)
(* (needsValuMitigation), on any path.                                       *)
THEOREM GapKept == Spec => []GapAfterWait
<1>1. IInv => GapAfterWait
  <2> SUFFICES ASSUME IInv, VALU(Op), LgkmWaitNeedsValuGap(prog.target)
               PROVE  gap + Mitigation.total >= 1
    BY DEF GapAfterWait
  <2>1. IsState(local) /\ gap \in 0..1
    BY DEF IInv, TypeOK
  <2>2. gap + local.lgkmToValu >= 1 /\ local.lgkmToValu \in Nat
    BY <2>1, StateFields DEF IInv, Covered, Covers, GapCover
  <2> DEFINE w == Mitigation.wait
             v == Mitigation.valu
             k == Mitigation.vnops
             a == Mitigation.alu
             T == Mitigation.total
  <2>3. /\ w \in 0..MostLimit /\ v \in 0..1 /\ k \in 0..MostLimit /\ a \in 0..1
        /\ T = w + v + k + a
        /\ local.lgkmToValu > 0 /\ w = 0 => v = 1
    BY <2>1, MitigationIs
  <2> HIDE DEF w, v, k, a, T
  <2>4. gap + T >= 1
    BY <2>1, <2>2, <2>3 DEF MostLimit, MostPasses
  <2> QED BY <2>4 DEF T
<1> QED BY <1>1, Invariance, PTL

LEMMA CoexecSlotsField ==
    ASSUME NEW op, NEW span, NEW k, NEW h, NEW g
    PROVE  \/ CoexecSlots(op, span, k, h) = 0
           \/ CoexecSlots(op, span, k, h) = h.wmma /\ CoexecSlots(op, span, k, g) = g.wmma
           \/ CoexecSlots(op, span, k, h) = h.valu /\ CoexecSlots(op, span, k, g) = g.valu
  BY DEF CoexecSlots

(* gfx1250: enough VALU slots follow a transcendental or matrix operation    *)
(* (getRequiredCoexecVNops), and no scratch access uses a base that is still *)
(* forwarded (needsScratchBaseWait), on any path.                            *)
THEOREM Settled == Spec => []ForwardingSettled
<1>1. ASSUME IInv, NEW y \in slots
      PROVE  y.slots + Mitigation.vnops >=
                CoexecSlots(Op, y.entry[1], y.entry[2], [wmma |-> y.entry[3], valu |-> y.entry[4]])
  <2> DEFINE c == local.coexec
             k == <<y.entry[1], y.entry[2]>>
             a == y.entry[3]
             b == y.entry[4]
             g == [wmma |-> a, valu |-> b]
             n == Mitigation.vnops
             need == CoexecSlots(Op, y.entry[1], y.entry[2], g)
             have == CoexecSlots(Op, k[1], k[2], c[k])
  <2>1. IsState(local) /\ IsSlots(slots) /\ SlotCover(slots, c, 0)
    BY <1>1 DEF IInv, TypeOK, PastOK, Covered, Covers
  <2>2. y.slots \in Nat /\ a \in Int /\ b \in Int
    BY <2>1 DEF IsSlots
  <2>3. IsCoexec(c)
    BY <2>1, StateFields
  <2>4. n = RequiredVNops(Op, local) /\ n \in 0..MostLimit
    BY <2>1, MitigationIs
  <2>5. n \in Nat
    <3> HIDE DEF n
    <3> QED BY <2>4 DEF MostLimit, MostPasses
  <2>6. k[1] = y.entry[1] /\ k[2] = y.entry[2] /\ g.wmma = a /\ g.valu = b
    OBVIOUS
  <2>7. \/ need = 0
        \/ need = a /\ have = c[k].wmma
        \/ need = b /\ have = c[k].valu
    BY <2>6, CoexecSlotsField
  <2>8. y.slots + 0 < Larger(a, b) =>
           k \in DOMAIN c /\ c[k].wmma >= a - (y.slots + 0) /\ c[k].valu >= b - (y.slots + 0)
    BY <2>1 DEF SlotCover
  <2>9. k \in DOMAIN c => /\ have <= n /\ c[k].wmma \in Int /\ c[k].valu \in Int
    <3>1. k \in DOMAIN c => have <= n
      BY <2>3, <2>4, RequiredVNopsIs
    <3> HIDE DEF k, c
    <3>2. k \in DOMAIN c => c[k].wmma \in Int /\ c[k].valu \in Int
      BY <2>3 DEF IsCoexec, Forwarding
    <3> QED BY <3>1, <3>2
  <2> HIDE DEF c, k, a, b, g, n, need, have
  <2>10. y.slots + n >= need
    <3>1. CASE y.slots + 0 < Larger(a, b)
      BY <2>2, <2>5, <2>7, <2>8, <2>9, <3>1
    <3>2. CASE ~(y.slots + 0 < Larger(a, b))
      <4>1. a <= Larger(a, b) /\ b <= Larger(a, b) /\ Larger(a, b) \in Int
        BY <2>2 DEF Larger
      <4>2. a <= y.slots /\ b <= y.slots
        BY <2>2, <3>2, <4>1
      <4> QED BY <2>2, <2>5, <2>7, <4>2
    <3> QED BY <3>1, <3>2
  <2> QED BY <2>10 DEF n, need, g, a, b
<1>2. ASSUME IInv, Op.kind = "scratch", ScratchBaseHazard(prog.target), NEW b \in ScratchBases,
             Mitigation.alu # 1
      PROVE  settled[b] = ScratchBaseWrites
  <2>1. IsState(local) /\ settled \in [ScratchBases -> 0..ScratchBaseWrites]
    BY <1>2 DEF IInv, TypeOK
  <2>2. ~NeedsScratchBaseWait(prog.target, Op, local)
    BY <1>2, <2>1, MitigationIs
  <2>3. local.scratchBase[b] = 0
    BY <1>2, <2>2 DEF NeedsScratchBaseWait
  <2>4. settled[b] + local.scratchBase[b] >= ScratchBaseWrites
    BY <1>2 DEF IInv, Covered, Covers, BaseCover
  <2> QED BY <2>1, <2>3, <2>4 DEF ScratchBaseWrites
<1>3. IInv => ForwardingSettled
  BY <1>1, <1>2, Zenon DEF ForwardingSettled
<1> QED BY <1>3, Invariance, PTL
=============================================================================
