------------------------- MODULE WaitLatticeProofs -------------------------
(***************************************************************************)
(* What the operators of WaitLattice do, for all functions, values,        *)
(* registers, counter widths and bounds that WellFormed allows.            *)
(*                                                                         *)
(* The operators are functions of a wait state and of what is in flight.   *)
(* Each is shown to keep the same relation between the two (Cov): the      *)
(* state knows of everything in flight.  The modules that extend this one  *)
(* put these lemmas together.                                              *)
(***************************************************************************)
EXTENDS WaitLattice, FiniteSetTheorems, WellFoundedInduction, TLAPS

-----------------------------------------------------------------------------
(* The relation. *)

(* The names under which the pass remembers an event, whatever became of the *)
(* values derived from it: the results of the operations with that event,    *)
(* and the unknown value.                                                    *)
Names(f, e) ==
    {Unknown} \union UNION {op.results : op \in {o \in Issuing(f) : o.event = e}}
Recorded(f, s, c) ==
    {e \in DOMAIN Rules(f.family) :
        \E v \in Names(f, e) : <<c, v>> \in DOMAIN s /\ e \in s[<<c, v>>].events}

(* Events on one counter that complete in any order. *)
Mixed(c, events) ==
    \/ c = "km" /\ "Smem" \in events
    \/ c = "lgkm" /\ \E d, e \in events : d # e

(* State s knows the operation e, behind which d operations are in flight on *)
(* its counter, under the name v.                                            *)
Knows(f, s, e, v, d) ==
    /\ <<e.ctr, v>> \in DOMAIN s
    /\ e.event \in s[<<e.ctr, v>>].events
    /\ e.ooo => s[<<e.ctr, v>>].ooo
    /\ \/ s[<<e.ctr, v>>].ooo
       \/ s[<<e.ctr, v>>].pos <= d
       \/ Mixed(e.ctr, Recorded(f, s, e.ctr))

(* It is known under every value that needs it, under a name of its event,   *)
(* and by the registers it has yet to read, behind which are x operations    *)
(* that have to read theirs.                                                 *)
Covered(f, s, e, d, x) ==
    /\ \A v \in e.vals : Knows(f, s, e, v, d) /\ (e.writes => s[<<e.ctr, v>>].writes)
    /\ e.event # "SccWrite" => \E v \in Names(f, e.event) : Knows(f, s, e, v, d)
    /\ \A r \in e.unread :
          /\ <<"x", r, Group(e.event)>> \in DOMAIN s
          /\ IF e.event = "Smem" THEN s[<<"x", r, Group(e.event)>>].ooo
             ELSE s[<<"x", r, Group(e.event)>>].pos <= x

Behind(fl, i) == {j \in DOMAIN fl : j > i /\ fl[j].ctr = fl[i].ctr}
Unread(fl, i) == {j \in DOMAIN fl : j > i /\ fl[j].unread # {}}

Cov(f, s, fl) ==
    \A i \in DOMAIN fl :
        Covered(f, s, fl[i], Cardinality(Behind(fl, i)), Cardinality(Unread(fl, i)))

IsEntry(f, e) ==
    /\ e \in FlightType(f)
    /\ \E op \in Issuing(f) : e.event = op.event
    /\ e.ctr = Rules(f.family)[e.event]
    /\ e.ooo = (e.event = "Smem")
    /\ e.unread # {} => f.family = "split" /\ e.event \in VmemSources \union {"Smem"}

IsFlight(f, fl) ==
    /\ \E n \in 0..f.flights : fl \in [1..n -> FlightType(f)]
    /\ \A i \in DOMAIN fl : IsEntry(f, fl[i])
    /\ \A i, j \in DOMAIN fl : fl[i].unread # {} /\ fl[j].unread # {} =>
          Group(fl[i].event) = Group(fl[j].event)

InScope(fl, vis) == \A i \in DOMAIN fl : fl[i].vals \subseteq vis

-----------------------------------------------------------------------------
(* Least elements, counters, keys. *)

(* A set of natural numbers has a least element. *)
LEMMA LeastNumber ==
    ASSUME NEW T \in SUBSET Nat, T # {}
    PROVE  \E n \in T : \A k \in T : n <= k
<1> DEFINE R == OpToRel(<, Nat)
<1>1. \A x, y \in Nat : <<y, x>> \in R <=> y < x
  BY DEF OpToRel
<1>2. IsWellFoundedOn(R, Nat)
  BY NatLessThanWellFounded
<1>3. PICK n \in T : \A k \in T : ~(<<k, n>> \in R)
  <2> HIDE DEF R
  <2> QED BY <1>2, WFMin
<1>4. \A k \in T : ~(k < n)
  BY <1>1, <1>3
<1> QED BY <1>4

LEMMA MinFacts ==
    ASSUME NEW T \in SUBSET Nat, T # {}
    PROVE  Min(T) \in T /\ Min(T) \in Nat /\ \A k \in T : Min(T) <= k
<1>1. \E n \in T : \A k \in T : n <= k
  BY LeastNumber
<1> QED BY <1>1 DEF Min

(* The events of a family, and their counters. *)
LEMMA RuleFacts ==
    /\ DOMAIN Rules("legacy") = {"Vmem", "Flat", "VmemStore", "ScratchStore", "Lds",
                                 "Smem", "Gds", "Message"}
    /\ DOMAIN Rules("split") = {"Vmem", "VmemStore", "ScratchStore", "Lds", "Smem",
                                "Message", "SccWrite", "Async", "Tensor"}
    /\ \A e \in DOMAIN Rules("legacy") :
          /\ Rules("legacy")[e] \in {"vm", "vs", "lgkm"}
          /\ Rules("legacy")[e] \in Counters("legacy")
          /\ e = "Smem" => Rules("legacy")[e] = "lgkm"
          /\ e = "ScratchStore" => Rules("legacy")[e] = "vs"
    /\ \A e \in DOMAIN Rules("split") :
          /\ Rules("split")[e] \in {"load", "store", "ds", "km", "async", "tensor"}
          /\ Rules("split")[e] \in Counters("split")
          /\ Rules("split")[e] = "km" <=> e \in {"Smem", "Message", "SccWrite"}
          /\ e = "Vmem" => Rules("split")[e] = "load"
          /\ e \in {"VmemStore", "ScratchStore"} => Rules("split")[e] = "store"
BY DEF Rules, LegacyRules, SplitRules, Counters

LEMMA EventsFinite ==
    ASSUME NEW f, WellFormed(f)
    PROVE  IsFiniteSet(DOMAIN Rules(f.family))
<1>1. IsFiniteSet({"Vmem", "Flat", "VmemStore", "ScratchStore", "Lds", "Smem", "Gds", "Message"})
  <2>1. \A a : IsFiniteSet({a})
    BY FS_Singleton
  <2>2. \A S, T : IsFiniteSet(S) /\ IsFiniteSet(T) => IsFiniteSet(S \union T)
    BY FS_Union
  <2>3. IsFiniteSet({"Vmem"} \union {"Flat"} \union {"VmemStore"} \union {"ScratchStore"}
                     \union {"Lds"} \union {"Smem"} \union {"Gds"} \union {"Message"})
    BY <2>1, <2>2
  <2> QED BY <2>3
<1>2. IsFiniteSet({"Vmem", "VmemStore", "ScratchStore", "Lds", "Smem", "Message", "SccWrite",
                   "Async", "Tensor"})
  <2>1. \A a : IsFiniteSet({a})
    BY FS_Singleton
  <2>2. \A S, T : IsFiniteSet(S) /\ IsFiniteSet(T) => IsFiniteSet(S \union T)
    BY FS_Union
  <2>3. IsFiniteSet({"Vmem"} \union {"VmemStore"} \union {"ScratchStore"} \union {"Lds"}
                     \union {"Smem"} \union {"Message"} \union {"SccWrite"} \union {"Async"}
                     \union {"Tensor"})
    BY <2>1, <2>2
  <2> QED BY <2>3
<1>3. f.family \in {"legacy", "split"}
  BY DEF WellFormed
<1> QED BY <1>1, <1>2, <1>3, RuleFacts

LEMMA KeyFacts ==
    ASSUME NEW f, WellFormed(f), NEW k, IsKey(f, k)
    PROVE  /\ IsSource(k) => \E r \in SourceRegs(f), g \in {"Vmem", "Smem"} : k = <<"x", r, g>>
           /\ ~IsSource(k) => \E c \in DOMAIN CounterMax \ {"x"}, v \in Values \union {Unknown} :
                                 k = <<c, v>> /\ c \in Counters(f.family)
           /\ k[1] \in DOMAIN CounterMax
           /\ IsSource(k) => k[2] \notin Values
BY DEF IsKey, IsSource, WellFormed

LEMMA PairFacts ==
    ASSUME NEW c, NEW v, NEW r, NEW g
    PROVE  /\ <<c, v>>[1] = c /\ <<c, v>>[2] = v
           /\ <<"x", r, g>>[1] = "x" /\ <<"x", r, g>>[2] = r /\ <<"x", r, g>>[3] = g
           /\ IsSource(<<"x", r, g>>)
           /\ c # "x" => ~IsSource(<<c, v>>)
BY DEF IsSource

-----------------------------------------------------------------------------
(* The order of the lattice. *)

(* Token t says no less than token u. *)
Covers(t, u) ==
    /\ t.pos <= u.pos /\ u.events \subseteq t.events
    /\ u.ooo => t.ooo
    /\ u.writes => t.writes
Below(s, t) == \A k \in DOMAIN s : k \in DOMAIN t /\ Covers(t[k], s[k])

LEMMA TokenFacts ==
    ASSUME NEW f, NEW t \in TokenType(f)
    PROVE  /\ t.pos \in Nat /\ t.pos <= PosMax
           /\ t.events \subseteq DOMAIN Rules(f.family) /\ t.events # {}
           /\ t.ooo \in BOOLEAN /\ t.writes \in BOOLEAN
           /\ Covers(t, t)
BY LatticeAssumption DEF TokenType, Covers

LEMMA MergeFacts ==
    ASSUME NEW f, NEW ts, ts \subseteq TokenType(f), ts # {}
    PROVE  /\ MergeTokens(ts) \in TokenType(f)
           /\ \A t \in ts : Covers(MergeTokens(ts), t)
<1> DEFINE ps == {t.pos : t \in ts}
<1>1. ps \in SUBSET (0..PosMax) /\ ps # {}
  BY DEF TokenType
<1>2. ps \in SUBSET Nat
  BY <1>1, LatticeAssumption
<1>3. Min(ps) \in ps /\ \A k \in ps : Min(ps) <= k
  <2> HIDE DEF ps
  <2> QED BY <1>1, <1>2, MinFacts
<1>4. Min(ps) \in 0..PosMax /\ \A t \in ts : Min(ps) <= t.pos
  BY <1>1, <1>3
<1>5. UNION {t.events : t \in ts} \in (SUBSET DOMAIN Rules(f.family)) \ {{}}
  <2>1. PICK t \in ts : TRUE
    OBVIOUS
  <2>2. t.events \subseteq UNION {u.events : u \in ts} /\ t.events # {}
    BY <2>1, TokenFacts
  <2>3. \A u \in ts : u.events \subseteq DOMAIN Rules(f.family)
    BY TokenFacts
  <2> QED BY <2>2, <2>3
<1>6. \A t \in ts : t.events \subseteq UNION {u.events : u \in ts}
  OBVIOUS
<1> QED BY <1>4, <1>5, <1>6 DEF MergeTokens, TokenType, Covers

LEMMA JoinFacts ==
    ASSUME NEW f, NEW s, NEW t, IsState(f, s), IsState(f, t)
    PROVE  /\ IsState(f, Join(s, t))
           /\ DOMAIN Join(s, t) = DOMAIN s \union DOMAIN t
           /\ Below(s, Join(s, t)) /\ Below(t, Join(s, t))
<1> DEFINE Both(k) == {u[k] : u \in {u \in {s, t} : k \in DOMAIN u}}
<1>1. ASSUME NEW k \in DOMAIN s \union DOMAIN t
      PROVE  /\ Both(k) \subseteq TokenType(f) /\ Both(k) # {}
             /\ k \in DOMAIN s => s[k] \in Both(k)
             /\ k \in DOMAIN t => t[k] \in Both(k)
  BY <1>1 DEF IsState
<1>2. ASSUME NEW k \in DOMAIN s \union DOMAIN t
      PROVE  /\ Join(s, t)[k] \in TokenType(f)
             /\ k \in DOMAIN s => Covers(Join(s, t)[k], s[k])
             /\ k \in DOMAIN t => Covers(Join(s, t)[k], t[k])
  <2>1. Join(s, t)[k] = MergeTokens(Both(k))
    BY DEF Join
  <2> HIDE DEF Both
  <2>2. /\ MergeTokens(Both(k)) \in TokenType(f)
        /\ \A u \in Both(k) : Covers(MergeTokens(Both(k)), u)
    BY <1>1, MergeFacts
  <2> QED BY <2>1, <2>2, <1>1
<1>3. DOMAIN Join(s, t) = DOMAIN s \union DOMAIN t
      /\ Join(s, t) = [k \in DOMAIN Join(s, t) |-> Join(s, t)[k]]
  BY DEF Join
<1>4. \A k \in DOMAIN s \union DOMAIN t : IsKey(f, k)
  BY DEF IsState
<1> QED BY <1>2, <1>3, <1>4 DEF IsState, Below

LEMMA RecordedGrows ==
    ASSUME NEW f, NEW s, NEW t, Below(s, t), NEW c
    PROVE  Recorded(f, s, c) \subseteq Recorded(f, t, c)
BY DEF Below, Covers, Recorded

LEMMA MixedGrows ==
    ASSUME NEW c, NEW E, NEW F, E \subseteq F, Mixed(c, E)
    PROVE  Mixed(c, F)
BY DEF Mixed

(* A larger state covers what a smaller one covers, and more operations      *)
(* behind one only help.                                                     *)
LEMMA CoveredGrows ==
    ASSUME NEW f, NEW s, NEW t, IsState(f, s), IsState(f, t), Below(s, t),
           NEW e, NEW d \in Nat, NEW x \in Nat, NEW d2 \in Nat, NEW x2 \in Nat,
           d <= d2, x <= x2, Covered(f, s, e, d, x)
    PROVE  Covered(f, t, e, d2, x2)
<1>1. Mixed(e.ctr, Recorded(f, s, e.ctr)) => Mixed(e.ctr, Recorded(f, t, e.ctr))
  BY RecordedGrows, MixedGrows
<1>2. ASSUME NEW k \in DOMAIN s
      PROVE  /\ k \in DOMAIN t /\ Covers(t[k], s[k]) /\ s[k].pos \in Nat /\ t[k].pos \in Nat
  <2>1. k \in DOMAIN t /\ Covers(t[k], s[k])
    BY DEF Below
  <2>2. s[k] \in TokenType(f) /\ t[k] \in TokenType(f)
    BY <2>1 DEF IsState
  <2> QED BY <2>1, <2>2, TokenFacts
<1>3. ASSUME NEW v, Knows(f, s, e, v, d)
      PROVE  Knows(f, t, e, v, d2)
  BY <1>1, <1>2, <1>3 DEF Knows, Covers
<1>4. ASSUME NEW v \in e.vals PROVE Knows(f, t, e, v, d2) /\ (e.writes => t[<<e.ctr, v>>].writes)
  BY <1>2, <1>3 DEF Covered, Covers, Knows
<1>5. e.event # "SccWrite" => \E v \in Names(f, e.event) : Knows(f, t, e, v, d2)
  BY <1>3 DEF Covered
<1>6. ASSUME NEW r \in e.unread
      PROVE  /\ <<"x", r, Group(e.event)>> \in DOMAIN t
             /\ IF e.event = "Smem" THEN t[<<"x", r, Group(e.event)>>].ooo
                ELSE t[<<"x", r, Group(e.event)>>].pos <= x2
  BY <1>2 DEF Covered, Covers
<1> QED BY <1>4, <1>5, <1>6 DEF Covered

-----------------------------------------------------------------------------
(* What is in flight. *)

LEMMA FlightFacts ==
    ASSUME NEW f, WellFormed(f), NEW fl, IsFlight(f, fl)
    PROVE  /\ Cardinality(DOMAIN fl) \in 0..f.flights
           /\ DOMAIN fl = 1..Cardinality(DOMAIN fl)
           /\ fl \in [1..Cardinality(DOMAIN fl) -> FlightType(f)]
           /\ IsFiniteSet(DOMAIN fl)
<1>1. PICK n \in 0..f.flights : fl \in [1..n -> FlightType(f)]
  BY DEF IsFlight
<1>2. n \in Nat
  BY <1>1 DEF WellFormed
<1>3. IsFiniteSet(1..n) /\ Cardinality(1..n) = n
  <2>1. IsFiniteSet(1..n) /\ Cardinality(1..n) = IF 1 > n THEN 0 ELSE n - 1 + 1
    BY <1>2, FS_Interval
  <2> QED BY <1>2, <2>1
<1> QED BY <1>1, <1>2, <1>3

LEMMA SubsetCount ==
    ASSUME NEW f, WellFormed(f), NEW fl, IsFlight(f, fl), NEW S, S \subseteq DOMAIN fl
    PROVE  IsFiniteSet(S) /\ Cardinality(S) \in Nat
<1>1. IsFiniteSet(DOMAIN fl)
  BY FlightFacts
<1>2. IsFiniteSet(S)
  BY <1>1, FS_Subset
<1> QED BY <1>2, FS_CardinalityType

LEMMA SmallerCount ==
    ASSUME NEW f, WellFormed(f), NEW fl, IsFlight(f, fl), NEW S, NEW T, NEW i,
           T \subseteq DOMAIN fl, S \subseteq T, i \in T, i \notin S
    PROVE  Cardinality(S) < Cardinality(T)
<1>1. IsFiniteSet(S) /\ IsFiniteSet(T) /\ Cardinality(S) \in Nat /\ Cardinality(T) \in Nat
  BY SubsetCount
<1>2. Cardinality(S \union {i}) = Cardinality(S) + 1
  BY <1>1, FS_AddElement
<1>3. S \union {i} \subseteq T
  OBVIOUS
<1>4. Cardinality(S \union {i}) <= Cardinality(T)
  BY <1>1, <1>3, FS_Subset
<1> QED BY <1>1, <1>2, <1>4

LEMMA EntryFacts ==
    ASSUME NEW f, WellFormed(f), NEW e, IsEntry(f, e)
    PROVE  /\ e.ctr # "x" /\ e.ctr \in DOMAIN CounterMax /\ e.ctr \in Counters(f.family)
           /\ e.event \in DOMAIN Rules(f.family)
           /\ e.vals \subseteq Values /\ e.unread \subseteq SourceRegs(f)
           /\ e.ooo = (e.event = "Smem") /\ e.ooo \in BOOLEAN /\ e.writes \in BOOLEAN
           /\ e.ctr = "km" => e.event \in {"Smem", "Message", "SccWrite"}
           /\ e.event = "Smem" => e.ctr \in {"km", "lgkm"}
           /\ e.event = "SccWrite" => e.ctr = "km"
           /\ e.event = "ScratchStore" => e.ctr \in {"vs", "store"}
           /\ e.unread # {} =>
                /\ f.family = "split"
                /\ e.event = "Smem" => Group(e.event) = "Smem" /\ e.ctr = "km"
                /\ e.event # "Smem" => Group(e.event) = "Vmem" /\ e.ctr \in {"load", "store"}
<1>1. f.family \in {"legacy", "split"}
  BY DEF WellFormed
<1>2. /\ e.ctr \in DOMAIN CounterMax /\ e.event \in DOMAIN Rules(f.family)
      /\ e.vals \subseteq Values /\ e.unread \subseteq SourceRegs(f)
      /\ e.ooo \in BOOLEAN /\ e.writes \in BOOLEAN
  BY DEF IsEntry, FlightType
<1>3. e.ctr = Rules(f.family)[e.event] /\ e.ooo = (e.event = "Smem")
  BY DEF IsEntry
<1>4. e.unread # {} => f.family = "split" /\ e.event \in {"Vmem", "VmemStore", "ScratchStore", "Smem"}
  BY DEF IsEntry, VmemSources
<1>5. CASE f.family = "legacy"
  BY <1>2, <1>3, <1>4, <1>5, RuleFacts
<1>6. CASE f.family = "split"
  <2>1. /\ e.ctr # "x" /\ e.ctr \in Counters(f.family)
        /\ e.ctr = "km" => e.event \in {"Smem", "Message", "SccWrite"}
        /\ e.event = "Smem" => e.ctr = "km"
        /\ e.event = "SccWrite" => e.ctr = "km"
        /\ e.event = "ScratchStore" => e.ctr = "store"
        /\ e.event = "Vmem" => e.ctr = "load"
        /\ e.event = "VmemStore" => e.ctr = "store"
    BY <1>2, <1>3, <1>6, RuleFacts
  <2>2. e.unread # {} =>
          /\ e.event = "Smem" => Group(e.event) = "Smem"
          /\ e.event # "Smem" => Group(e.event) = "Vmem"
    BY <1>4 DEF Group, VmemSources
  <2> QED BY <1>2, <1>3, <1>4, <1>6, <2>1, <2>2
<1> QED BY <1>1, <1>5, <1>6

(* Less is behind an operation than there is on its counter. *)
LEMMA DistanceFacts ==
    ASSUME NEW f, WellFormed(f), NEW fl, IsFlight(f, fl), NEW i \in DOMAIN fl
    PROVE  /\ Cardinality(Behind(fl, i)) \in Nat /\ Cardinality(Unread(fl, i)) \in Nat
           /\ \A c : Outstanding(fl, c) \in Nat
           /\ Cardinality(Behind(fl, i)) < Outstanding(fl, fl[i].ctr)
           /\ fl[i].unread # {} => Cardinality(Unread(fl, i)) < Outstanding(fl, "x")
<1>0. IsEntry(f, fl[i]) /\ i \in Nat
  BY FlightFacts DEF IsFlight
<1>1. Behind(fl, i) \subseteq DOMAIN fl /\ Unread(fl, i) \subseteq DOMAIN fl
  BY DEF Behind, Unread
<1>2. \A c : Outstanding(fl, c) \in Nat
  <2>1. \A c : {j \in DOMAIN fl : IF c = "x" THEN fl[j].unread # {} ELSE fl[j].ctr = c}
                  \subseteq DOMAIN fl
    OBVIOUS
  <2> QED BY <2>1, SubsetCount DEF Outstanding
<1>3. Cardinality(Behind(fl, i)) < Outstanding(fl, fl[i].ctr)
  <2> DEFINE T == {j \in DOMAIN fl : fl[j].ctr = fl[i].ctr}
  <2>1. fl[i].ctr # "x"
    BY <1>0, EntryFacts
  <2>2. Outstanding(fl, fl[i].ctr) = Cardinality(T)
    BY <2>1 DEF Outstanding
  <2>3. T \subseteq DOMAIN fl /\ Behind(fl, i) \subseteq T /\ i \in T /\ i \notin Behind(fl, i)
    BY <1>0 DEF Behind
  <2> HIDE DEF T
  <2> QED BY <2>2, <2>3, SmallerCount
<1>4. ASSUME fl[i].unread # {} PROVE Cardinality(Unread(fl, i)) < Outstanding(fl, "x")
  <2> DEFINE T == {j \in DOMAIN fl : fl[j].unread # {}}
  <2>2. Outstanding(fl, "x") = Cardinality(T)
    BY DEF Outstanding
  <2>3. T \subseteq DOMAIN fl /\ Unread(fl, i) \subseteq T /\ i \in T /\ i \notin Unread(fl, i)
    BY <1>0, <1>4 DEF Unread
  <2> HIDE DEF T
  <2> QED BY <2>2, <2>3, SmallerCount
<1> QED BY <1>1, <1>2, <1>3, <1>4, SubsetCount

-----------------------------------------------------------------------------
(* Waiting. *)

(* Events that the pass has recorded as mixed are waited for at zero. *)
LEMMA MixedWaits ==
    ASSUME NEW f, WellFormed(f), NEW s, IsState(f, s), NEW c, Mixed(c, Recorded(f, s, c))
    PROVE  RequiresZeroWait(c, ActiveEvents(s, c))
<1> DEFINE A == ActiveEvents(s, c)
<1>1. Recorded(f, s, c) \subseteq A
  <2>1. SUFFICES ASSUME NEW e, NEW v, <<c, v>> \in DOMAIN s, e \in s[<<c, v>>].events
                 PROVE  e \in A
    BY DEF Recorded
  <2>2. <<c, v>> \in {k \in DOMAIN s : k[1] = c}
    BY <2>1
  <2> QED BY <2>1, <2>2 DEF ActiveEvents
<1>2. IsFiniteSet(A)
  <2>1. A \subseteq DOMAIN Rules(f.family)
    <3>1. \A k \in DOMAIN s : s[k].events \subseteq DOMAIN Rules(f.family)
      BY TokenFacts DEF IsState
    <3> QED BY <3>1 DEF ActiveEvents
  <2> QED BY <2>1, EventsFinite, FS_Subset
<1>3. ASSUME NEW d \in A, NEW e \in A, d # e PROVE Cardinality(A) > 1
  <2> HIDE DEF A
  <2>1. Cardinality({d}) = 1 /\ IsFiniteSet({d})
    BY FS_Singleton
  <2>2. Cardinality({d} \union {e}) = 2
    BY <1>3, <2>1, FS_AddElement
  <2>3. {d} \union {e} \subseteq A
    OBVIOUS
  <2>4. Cardinality({d} \union {e}) <= Cardinality(A) /\ Cardinality(A) \in Nat
    BY <1>2, <2>3, FS_Subset, FS_CardinalityType
  <2> QED BY <2>2, <2>4
<1> QED BY <1>1, <1>3 DEF Mixed, RequiresZeroWait

(* The wave is past the wait req. *)
Waited(fl, req) == \A c \in DOMAIN req : req[c] \in Nat /\ Outstanding(fl, c) <= req[c]

(* No wait drains the token of an operation that is still in flight. *)
LEMMA NotDrained ==
    ASSUME NEW f, WellFormed(f), NEW s, IsState(f, s), NEW fl, IsFlight(f, fl),
           NEW req, Waited(fl, req), NEW i \in DOMAIN fl, NEW v,
           Knows(f, s, fl[i], v, Cardinality(Behind(fl, i)))
    PROVE  ~DrainedBy(s, <<fl[i].ctr, v>>, req)
<1> DEFINE c == fl[i].ctr
           k == <<c, v>>
<1>1. SUFFICES ASSUME DrainedBy(s, k, req) PROVE FALSE
  OBVIOUS
<1>2. k[1] = c
  OBVIOUS
<1>3. k \in DOMAIN s /\ s[k].pos \in Nat /\ s[k].ooo \in BOOLEAN
  BY TokenFacts DEF Knows, IsState
<1>4. c \in DOMAIN req /\ s[k].pos >= req[c] /\ req[c] \in Nat /\ Outstanding(fl, c) <= req[c]
  BY <1>1, <1>2 DEF DrainedBy, Waited
<1>5. Cardinality(Behind(fl, i)) \in Nat /\ Outstanding(fl, c) \in Nat
      /\ Cardinality(Behind(fl, i)) < Outstanding(fl, c)
  BY DistanceFacts
<1>6. req[c] # 0
  BY <1>4, <1>5
<1>7. ~s[k].ooo /\ ~RequiresZeroWait(c, ActiveEvents(s, c))
  BY <1>1, <1>2, <1>6 DEF DrainedBy
<1>8. ~Mixed(c, Recorded(f, s, c))
  BY <1>7, MixedWaits
<1>9. s[k].pos <= Cardinality(Behind(fl, i))
  BY <1>7, <1>8 DEF Knows
<1> QED BY <1>3, <1>4, <1>5, <1>9

(* A part of a state. *)
LEMMA PartFacts ==
    ASSUME NEW f, NEW s, IsState(f, s), NEW D, D \subseteq DOMAIN s
    PROVE  /\ IsState(f, Restricted(s, D)) /\ DOMAIN Restricted(s, D) = D
           /\ \A k \in D : Restricted(s, D)[k] = s[k]
BY DEF IsState, Restricted

LEMMA ApplyFacts ==
    ASSUME NEW f, WellFormed(f), NEW s, IsState(f, s), NEW req
    PROVE  /\ IsState(f, ApplyWait(s, req)) /\ DOMAIN ApplyWait(s, req) \subseteq DOMAIN s
           /\ \A k \in DOMAIN ApplyWait(s, req) : ApplyWait(s, req)[k] = s[k]
           /\ \A k \in DOMAIN s :
                 ~IsSource(k) /\ ~DrainedBy(s, k, req) => k \in DOMAIN ApplyWait(s, req)
           /\ \A k \in DOMAIN s :
                 /\ IsSource(k)
                 /\ ~(k[3] = "Smem" /\ "km" \in DOMAIN req /\ req["km"] = 0)
                 /\ ~(/\ k[3] = "Vmem" /\ "load" \in DOMAIN req /\ s[k].pos >= req["load"]
                      /\ \A j \in DOMAIN s :
                            ~IsSource(j) /\ ~DrainedBy(s, j, req) => j[1] # "store")
                 /\ "x" \in DOMAIN req /\ s[k].pos >= req["x"] => req["x"] # 0 /\ s[k].ooo
                 => k \in DOMAIN ApplyWait(s, req)
<1> DEFINE dw == {k \in DOMAIN s : IsSource(k) \/ ~DrainedBy(s, k, req)}
           waited == Restricted(s, dw)
           dr == {k \in DOMAIN waited : ~(IsSource(k) /\ ReadBy(waited, k, req))}
           read == Restricted(waited, dr)
           da == {k \in DOMAIN read : ~(IsSource(k) /\ DrainedBy(read, k, req))}
           t == Restricted(read, da)
<1>1. ApplyWait(s, req) = t
  BY DEF ApplyWait
<1>2. /\ IsState(f, waited) /\ DOMAIN waited = dw /\ \A k \in dw : waited[k] = s[k]
  <2>1. dw \subseteq DOMAIN s
    OBVIOUS
  <2> HIDE DEF dw
  <2> QED BY <2>1, PartFacts
<1>3. IsState(f, read) /\ DOMAIN read = dr /\ \A k \in dr : read[k] = waited[k]
  <2>1. dr \subseteq DOMAIN waited
    OBVIOUS
  <2> HIDE DEF dr, waited
  <2> QED BY <1>2, <2>1, PartFacts
<1>4. IsState(f, t) /\ DOMAIN t = da /\ \A k \in da : t[k] = read[k]
  <2>1. da \subseteq DOMAIN read
    OBVIOUS
  <2>2. IsState(f, read)
    BY <1>3
  <2> HIDE DEF da, read, dr, waited, dw
  <2> QED BY <2>1, <2>2, PartFacts
<1>5. dr \subseteq dw /\ da \subseteq dr /\ dw \subseteq DOMAIN s
  BY <1>2, <1>3
<1>6. \A k \in da : t[k] = s[k]
  <2> HIDE DEF da, dr, dw, t, read, waited
  <2> QED BY <1>2, <1>3, <1>4, <1>5
<1>7. ASSUME NEW k \in DOMAIN s, ~IsSource(k), ~DrainedBy(s, k, req)
      PROVE  k \in da
  BY <1>2, <1>3, <1>7
<1>8. ASSUME NEW k \in DOMAIN s, IsSource(k),
             ~(k[3] = "Smem" /\ "km" \in DOMAIN req /\ req["km"] = 0),
             ~(/\ k[3] = "Vmem" /\ "load" \in DOMAIN req /\ s[k].pos >= req["load"]
               /\ \A j \in DOMAIN s : ~IsSource(j) /\ ~DrainedBy(s, j, req) => j[1] # "store"),
             "x" \in DOMAIN req /\ s[k].pos >= req["x"] => req["x"] # 0 /\ s[k].ooo
      PROVE  k \in da
  <2>1. k \in dw /\ waited[k] = s[k]
    BY <1>2, <1>8
  <2>2. ~ReadBy(waited, k, req)
    <3>1. \A j \in DOMAIN s : ~IsSource(j) /\ ~DrainedBy(s, j, req) => j \in dw
      OBVIOUS
    <3>2. DOMAIN waited = dw
      BY <1>2
    <3> HIDE DEF dw, waited
    <3> QED BY <1>8, <2>1, <3>1, <3>2 DEF ReadBy
  <2>3. k \in dr /\ read[k] = s[k]
    BY <2>1, <2>2, <1>2, <1>3
  <2>4. ~DrainedBy(read, k, req)
    <3>1. k[1] = "x"
      BY <1>8 DEF IsSource
    <3> HIDE DEF dr, read
    <3> QED BY <1>8, <2>3, <3>1 DEF DrainedBy
  <2> QED BY <2>3, <2>4, <1>3
<1>9. /\ IsState(f, t) /\ DOMAIN t = da /\ da \subseteq DOMAIN s
      /\ \A k \in da : t[k] = s[k]
  BY <1>4, <1>5, <1>6
<1> HIDE DEF da, t, read, dr, waited, dw
<1>10. \A k \in DOMAIN s : ~IsSource(k) /\ ~DrainedBy(s, k, req) => k \in da
  BY <1>7
<1>11. \A k \in DOMAIN s :
          /\ IsSource(k)
          /\ ~(k[3] = "Smem" /\ "km" \in DOMAIN req /\ req["km"] = 0)
          /\ ~(/\ k[3] = "Vmem" /\ "load" \in DOMAIN req /\ s[k].pos >= req["load"]
               /\ \A j \in DOMAIN s : ~IsSource(j) /\ ~DrainedBy(s, j, req) => j[1] # "store")
          /\ "x" \in DOMAIN req /\ s[k].pos >= req["x"] => req["x"] # 0 /\ s[k].ooo
          => k \in da
  BY <1>8
<1> QED BY <1>1, <1>9, <1>10, <1>11, Zenon

(* applyWait forgets only what has completed, or has read its registers. *)
LEMMA CovWait ==
    ASSUME NEW f, WellFormed(f), NEW s, IsState(f, s), NEW fl, IsFlight(f, fl),
           Cov(f, s, fl), NEW req, Waited(fl, req)
    PROVE  Cov(f, ApplyWait(s, req), fl)
<1> DEFINE t == ApplyWait(s, req)
<1>0. SUFFICES ASSUME NEW i \in DOMAIN fl
               PROVE  Covered(f, t, fl[i], Cardinality(Behind(fl, i)), Cardinality(Unread(fl, i)))
  BY DEF Cov
<1> DEFINE e == fl[i]
           c == fl[i].ctr
           d == Cardinality(Behind(fl, i))
           x == Cardinality(Unread(fl, i))
<1>1. Covered(f, s, e, d, x)
  BY DEF Cov
<1>2. /\ d \in Nat /\ x \in Nat /\ d < Outstanding(fl, c)
      /\ e.unread # {} => x < Outstanding(fl, "x")
      /\ \A b : Outstanding(fl, b) \in Nat
  BY DistanceFacts
<1>3. IsEntry(f, e)
  BY DEF IsFlight
<1>4. c # "x"
  BY <1>3, EntryFacts
<1>5. ASSUME NEW v, <<c, v>> \in DOMAIN s, ~DrainedBy(s, <<c, v>>, req)
      PROVE  <<c, v>> \in DOMAIN t /\ t[<<c, v>>] = s[<<c, v>>]
  <2>1. ~IsSource(<<c, v>>)
    BY <1>4, PairFacts
  <2> QED BY <1>5, <2>1, ApplyFacts
<1>6. ASSUME Mixed(c, Recorded(f, s, c)) PROVE Mixed(c, Recorded(f, t, c))
  <2>1. RequiresZeroWait(c, ActiveEvents(s, c))
    BY <1>6, MixedWaits
  <2>2. c \in DOMAIN req => req[c] # 0
    BY <1>2 DEF Waited
  <2>3. \A v : ~DrainedBy(s, <<c, v>>, req)
    BY <2>1, <2>2 DEF DrainedBy
  <2>4. Recorded(f, s, c) \subseteq Recorded(f, t, c)
    <3> HIDE DEF t, c
    <3> QED BY <2>3, <1>5 DEF Recorded
  <2> QED BY <1>6, <2>4, MixedGrows
<1>7. ASSUME NEW v, Knows(f, s, e, v, d)
      PROVE  Knows(f, t, e, v, d) /\ t[<<c, v>>] = s[<<c, v>>]
  <2>1. <<c, v>> \in DOMAIN s
    BY <1>7 DEF Knows
  <2>2. ~DrainedBy(s, <<c, v>>, req)
    BY <1>7, NotDrained
  <2>3. <<c, v>> \in DOMAIN t /\ t[<<c, v>>] = s[<<c, v>>]
    BY <1>5, <2>1, <2>2
  <2> HIDE DEF t
  <2> QED BY <1>6, <1>7, <2>3 DEF Knows
<1>8. ASSUME NEW r \in e.unread
      PROVE  <<"x", r, Group(e.event)>> \in DOMAIN t
             /\ t[<<"x", r, Group(e.event)>>] = s[<<"x", r, Group(e.event)>>]
  <2> DEFINE g == Group(e.event)
             k == <<"x", r, g>>
  <2>1. k \in DOMAIN s /\ IF e.event = "Smem" THEN s[k].ooo ELSE s[k].pos <= x
    BY <1>1 DEF Covered
  <2>2. s[k].pos \in Nat
    BY <2>1, TokenFacts DEF IsState
  <2>3. /\ e.event = "Smem" => g = "Smem" /\ c = "km"
        /\ e.event # "Smem" => g = "Vmem" /\ c \in {"load", "store"}
    BY <1>3, <1>8, EntryFacts
  <2>4. IsSource(k) /\ k[3] = g
    BY PairFacts
  <2>5. "km" \in DOMAIN req /\ req["km"] = 0 => g # "Smem"
    <3>1. ASSUME "km" \in DOMAIN req, req["km"] = 0, g = "Smem" PROVE FALSE
      <4>1. c = "km"
        BY <2>3, <3>1
      <4>2. Outstanding(fl, c) <= 0
        BY <3>1, <4>1 DEF Waited
      <4> QED BY <1>2, <4>2
    <3> QED BY <3>1
  <2>6. ~(/\ g = "Vmem" /\ "load" \in DOMAIN req /\ s[k].pos >= req["load"]
          /\ \A j \in DOMAIN s : ~IsSource(j) /\ ~DrainedBy(s, j, req) => j[1] # "store")
    <3>1. SUFFICES ASSUME g = "Vmem", "load" \in DOMAIN req, s[k].pos >= req["load"],
                          \A j \in DOMAIN s : ~IsSource(j) /\ ~DrainedBy(s, j, req) =>
                                                 j[1] # "store"
                   PROVE  FALSE
      OBVIOUS
    <3>2. ASSUME NEW j \in DOMAIN fl PROVE fl[j].ctr # "store"
      <4>1. SUFFICES ASSUME fl[j].ctr = "store" PROVE FALSE
        OBVIOUS
      <4>2. IsEntry(f, fl[j])
        BY DEF IsFlight
      <4>3. fl[j].event # "SccWrite"
        BY <4>1, <4>2, EntryFacts
      <4>4. PICK v : Knows(f, s, fl[j], v, Cardinality(Behind(fl, j)))
        BY <4>3 DEF Cov, Covered
      <4>5. ~DrainedBy(s, <<"store", v>>, req)
        BY <4>1, <4>4, NotDrained
      <4>6. <<"store", v>> \in DOMAIN s
        BY <4>1, <4>4 DEF Knows
      <4>7. ~IsSource(<<"store", v>>) /\ <<"store", v>>[1] = "store"
        BY PairFacts
      <4> QED BY <3>1, <4>5, <4>6, <4>7
    <3>3. c = "load" /\ e.event # "Smem"
      BY <2>3, <3>1, <3>2
    <3>4. Unread(fl, i) \subseteq Behind(fl, i)
      <4>1. SUFFICES ASSUME NEW j \in DOMAIN fl, fl[j].unread # {} PROVE fl[j].ctr = "load"
        BY <3>3 DEF Unread, Behind
      <4>2. IsEntry(f, fl[j])
        BY DEF IsFlight
      <4>3. Group(fl[j].event) = "Vmem"
        BY <1>8, <3>1, <4>1 DEF IsFlight
      <4>4. fl[j].ctr \in {"load", "store"}
        BY <4>1, <4>2, <4>3, EntryFacts
      <4> QED BY <4>4, <3>2
    <3>5. x <= d
      <4>1. IsFiniteSet(Behind(fl, i))
        BY SubsetCount DEF Behind
      <4> QED BY <3>4, <4>1, FS_Subset
    <3>6. Outstanding(fl, "load") <= req["load"] /\ req["load"] \in Nat
      BY <3>1 DEF Waited
    <3>7. s[k].pos <= x /\ d < Outstanding(fl, "load")
      BY <1>2, <2>1, <3>3
    <3> HIDE DEF k, x, d
    <3> QED BY <1>2, <2>2, <3>1, <3>5, <3>6, <3>7
  <2>7. "x" \in DOMAIN req /\ s[k].pos >= req["x"] => req["x"] # 0 /\ s[k].ooo
    <3>1. SUFFICES ASSUME "x" \in DOMAIN req, s[k].pos >= req["x"]
                   PROVE  req["x"] # 0 /\ s[k].ooo
      OBVIOUS
    <3>2. Outstanding(fl, "x") <= req["x"] /\ req["x"] \in Nat
      BY <3>1 DEF Waited
    <3>3. x < Outstanding(fl, "x")
      BY <1>2, <1>8
    <3> HIDE DEF k, x, d
    <3> QED BY <1>2, <2>1, <2>2, <3>1, <3>2, <3>3
  <2>8. k \in DOMAIN t
    <3> HIDE DEF t, k, g
    <3> QED BY <2>1, <2>4, <2>5, <2>6, <2>7, ApplyFacts DEF t
  <2> QED BY <2>8, ApplyFacts
<1> HIDE DEF t, d, x
<1>9. \A v \in e.vals : Knows(f, t, e, v, d) /\ (e.writes => t[<<e.ctr, v>>].writes)
  BY <1>1, <1>7 DEF Covered
<1>10. e.event # "SccWrite" => \E v \in Names(f, e.event) : Knows(f, t, e, v, d)
  BY <1>1, <1>7 DEF Covered
<1>11. \A r \in e.unread :
          /\ <<"x", r, Group(e.event)>> \in DOMAIN t
          /\ IF e.event = "Smem" THEN t[<<"x", r, Group(e.event)>>].ooo
             ELSE t[<<"x", r, Group(e.event)>>].pos <= x
  BY <1>1, <1>8 DEF Covered
<1> QED BY <1>9, <1>10, <1>11 DEF Covered, d, x

-----------------------------------------------------------------------------
(* What is waited for. *)

LEMMA PositionFacts ==
    ASSUME NEW f, WellFormed(f), NEW s, IsState(f, s), NEW k \in DOMAIN s
    PROVE  WaitPosition(s, k) \in Nat
BY TokenFacts DEF WaitPosition, IsState

LEMMA ClampFacts ==
    ASSUME NEW c \in DOMAIN CounterMax, NEW n \in Nat
    PROVE  /\ Clamp(c, n) \in Nat /\ Clamp(c, n) <= n
           /\ c \in {"vm", "lgkm"} => Clamp(c, n) < CounterMax[c]
BY LatticeAssumption DEF Clamp

(* What the hardware's s_waitcnt does when its fields are not all ones. *)
LEMMA DoneWaited ==
    ASSUME NEW fl, NEW req, WaitDone(fl, req),
           \A c \in DOMAIN req : /\ c \in DOMAIN CounterMax /\ req[c] \in Nat
                                 /\ c \in {"vm", "lgkm"} => req[c] < CounterMax[c]
    PROVE  Waited(fl, req)
<1>1. SUFFICES ASSUME NEW c \in DOMAIN req
               PROVE  Outstanding(fl, c) <= req[c]
  BY DEF Waited
<1>2. CounterMax[c] \in Nat
  BY LatticeAssumption
<1> QED BY <1>2 DEF WaitDone

LEMMA SignalFacts ==
    ASSUME NEW f, WellFormed(f), NEW op, NEW s, IsState(f, s)
    PROVE  /\ IsState(f, AfterSignal(op, s)) /\ DOMAIN AfterSignal(op, s) \subseteq DOMAIN s
           /\ \A k \in DOMAIN s :
                \/ /\ k \in DOMAIN AfterSignal(op, s)
                   /\ AfterSignal(op, s)[k].pos <= s[k].pos
                   /\ s[k].events \ {"SccWrite"} \subseteq AfterSignal(op, s)[k].events
                   /\ k[2] \notin op.completes \/ k[1] # "km" =>
                         s[k].events \subseteq AfterSignal(op, s)[k].events
                   /\ AfterSignal(op, s)[k].ooo = s[k].ooo
                   /\ AfterSignal(op, s)[k].writes = s[k].writes
                \/ k[1] = "km" /\ k[2] \in op.completes /\ s[k].events = {"SccWrite"}
<1> DEFINE hit == {k \in DOMAIN s : /\ k[1] = "km" /\ k[2] \in op.completes
                                    /\ "SccWrite" \in s[k].events}
           done == Min({s[k].pos : k \in hit})
           older(k) == k[1] = "km" /\ s[k].pos > done
           left == {k \in DOMAIN s : k \in hit => s[k].events # {"SccWrite"}}
           made(k) == [s[k] EXCEPT !.events = IF k \in hit THEN @ \ {"SccWrite"} ELSE @,
                                   !.pos = IF older(k) THEN @ - 1 ELSE @]
           t == [k \in left |-> made(k)]
<1>1. CASE hit = {}
  <2>1. AfterSignal(op, s) = s
    BY <1>1 DEF AfterSignal
  <2>2. \A k \in DOMAIN s : s[k].pos \in Nat
    BY TokenFacts DEF IsState
  <2> QED BY <2>1, <2>2
<1>2. CASE hit # {}
  <2>1. AfterSignal(op, s) = t
    BY <1>2 DEF AfterSignal
  <2>2. done \in Nat
    <3> DEFINE ps == {s[k].pos : k \in hit}
    <3>1. ps \in SUBSET Nat /\ ps # {}
      BY <1>2, TokenFacts DEF IsState
    <3> HIDE DEF ps
    <3> QED BY <3>1, MinFacts DEF ps
  <2>3. ASSUME NEW k \in left
        PROVE  /\ made(k) \in TokenType(f) /\ made(k).pos <= s[k].pos
               /\ s[k].events \ {"SccWrite"} \subseteq made(k).events
               /\ k \notin hit => made(k).events = s[k].events
               /\ made(k).ooo = s[k].ooo /\ made(k).writes = s[k].writes
    <3>1. s[k] \in TokenType(f)
      BY DEF IsState
    <3>2. /\ s[k].pos \in Nat /\ s[k].pos <= PosMax /\ s[k].events # {}
          /\ s[k].events \subseteq DOMAIN Rules(f.family)
      BY <3>1, TokenFacts
    <3>3. older(k) => s[k].pos - 1 \in Nat
      BY <2>2, <3>2
    <3>4. (IF older(k) THEN s[k].pos - 1 ELSE s[k].pos) \in 0..PosMax
          /\ (IF older(k) THEN s[k].pos - 1 ELSE s[k].pos) <= s[k].pos
      <4> HIDE DEF done
      <4> QED BY <3>2, <3>3, LatticeAssumption
    <3>5. (IF k \in hit THEN s[k].events \ {"SccWrite"} ELSE s[k].events)
             \in (SUBSET DOMAIN Rules(f.family)) \ {{}}
      BY <3>2
    <3> HIDE DEF hit, older
    <3> QED BY <3>1, <3>4, <3>5 DEF TokenType
  <2>4. t = [k \in DOMAIN t |-> t[k]] /\ DOMAIN t = left /\ \A k \in left : t[k] = made(k)
    OBVIOUS
  <2>5. left \subseteq DOMAIN s
    OBVIOUS
  <2>6. ASSUME NEW k \in DOMAIN s, k \notin left
        PROVE  k[1] = "km" /\ k[2] \in op.completes /\ s[k].events = {"SccWrite"}
    BY <2>6
  <2>7. ASSUME NEW k \in DOMAIN s, k[2] \notin op.completes \/ k[1] # "km"
        PROVE  k \notin hit
    BY <2>7
  <2>8. IsState(f, t)
    <3> HIDE DEF t, left, made
    <3> QED BY <2>3, <2>4, <2>5 DEF IsState
  <2> HIDE DEF t, left, made, hit
  <2> QED BY <2>1, <2>3, <2>4, <2>5, <2>6, <2>7, <2>8
<1> QED BY <1>1, <1>2

(* Passing the barrier of its own signals takes nothing away but the signals. *)
LEMMA CovSignal ==
    ASSUME NEW f, WellFormed(f), NEW s, IsState(f, s), NEW fl, IsFlight(f, fl),
           Cov(f, s, fl), NEW op, InstructionReady(fl, op)
    PROVE  Cov(f, AfterSignal(op, s), fl)
<1> DEFINE t == AfterSignal(op, s)
<1>0. SUFFICES ASSUME NEW i \in DOMAIN fl
               PROVE  Covered(f, t, fl[i], Cardinality(Behind(fl, i)), Cardinality(Unread(fl, i)))
  BY DEF Cov
<1> DEFINE e == fl[i]
           c == fl[i].ctr
           d == Cardinality(Behind(fl, i))
           x == Cardinality(Unread(fl, i))
<1>1. Covered(f, s, e, d, x) /\ IsEntry(f, e) /\ d \in Nat /\ x \in Nat
  BY DistanceFacts DEF Cov, IsFlight
<1>2. ASSUME NEW k \in DOMAIN s, NEW ev \in s[k].events,
             ev # "SccWrite" \/ k[2] \notin op.completes
      PROVE  /\ k \in DOMAIN t /\ t[k].pos <= s[k].pos /\ ev \in t[k].events
             /\ t[k].ooo = s[k].ooo /\ t[k].writes = s[k].writes
             /\ s[k].pos \in Nat /\ t[k].pos \in Nat
  <2>1. ~(k[1] = "km" /\ k[2] \in op.completes /\ s[k].events = {"SccWrite"})
    BY <1>2
  <2>2. /\ k \in DOMAIN t /\ t[k].pos <= s[k].pos
        /\ s[k].events \ {"SccWrite"} \subseteq t[k].events
        /\ k[2] \notin op.completes \/ k[1] # "km" => s[k].events \subseteq t[k].events
        /\ t[k].ooo = s[k].ooo /\ t[k].writes = s[k].writes
    <3> HIDE DEF t
    <3> QED BY <2>1, SignalFacts DEF t
  <2>3. s[k] \in TokenType(f) /\ t[k] \in TokenType(f)
    BY <2>2, SignalFacts DEF IsState
  <2>4. s[k].pos \in Nat /\ t[k].pos \in Nat
    BY <2>3, TokenFacts
  <2> QED BY <1>2, <2>2, <2>4
<1> HIDE DEF t
<1>3. ASSUME Mixed(c, Recorded(f, s, c)) PROVE Mixed(c, Recorded(f, t, c))
  <2>1. \A ev \in Recorded(f, s, c) : ev # "SccWrite" => ev \in Recorded(f, t, c)
    BY <1>2 DEF Recorded
  <2>2. c = "lgkm" => \A ev \in Recorded(f, s, c) : ev # "SccWrite"
    <3>1. SUFFICES ASSUME c = "lgkm" PROVE "SccWrite" \notin DOMAIN Rules(f.family)
      BY DEF Recorded
    <3>2. f.family = "legacy"
      <4>1. e.event \in DOMAIN Rules(f.family) /\ Rules(f.family)[e.event] = "lgkm"
        BY <1>1, <3>1, EntryFacts DEF IsEntry
      <4>2. f.family \in {"legacy", "split"}
        BY DEF WellFormed
      <4> QED BY <4>1, <4>2, RuleFacts
    <3> QED BY <3>2, RuleFacts
  <2> QED BY <1>3, <2>1, <2>2 DEF Mixed
<1>4. ASSUME NEW v, Knows(f, s, e, v, d), e.event # "SccWrite" \/ v \notin op.completes
      PROVE  Knows(f, t, e, v, d) /\ t[<<c, v>>].writes = s[<<c, v>>].writes
  <2> DEFINE k == <<c, v>>
  <2>1. k \in DOMAIN s /\ e.event \in s[k].events /\ k[2] = v
    BY <1>4 DEF Knows
  <2>2. /\ k \in DOMAIN t /\ t[k].pos <= s[k].pos /\ e.event \in t[k].events
        /\ t[k].ooo = s[k].ooo /\ t[k].writes = s[k].writes
        /\ s[k].pos \in Nat /\ t[k].pos \in Nat
    <3> HIDE DEF k
    <3> QED BY <1>2, <1>4, <2>1
  <2> QED BY <1>1, <1>3, <1>4, <2>2 DEF Knows
<1>5. ASSUME NEW v \in e.vals
      PROVE  Knows(f, t, e, v, d) /\ (e.writes => t[<<e.ctr, v>>].writes)
  <2>1. e.event # "SccWrite" \/ v \notin op.completes
    BY <1>5 DEF InstructionReady
  <2>2. Knows(f, s, e, v, d) /\ (e.writes => s[<<c, v>>].writes)
    BY <1>1 DEF Covered
  <2> QED BY <1>4, <2>1, <2>2
<1>6. e.event # "SccWrite" => \E v \in Names(f, e.event) : Knows(f, t, e, v, d)
  BY <1>1, <1>4 DEF Covered
<1>7. ASSUME NEW r \in e.unread
      PROVE  /\ <<"x", r, Group(e.event)>> \in DOMAIN t
             /\ IF e.event = "Smem" THEN t[<<"x", r, Group(e.event)>>].ooo
                ELSE t[<<"x", r, Group(e.event)>>].pos <= x
  <2> DEFINE k == <<"x", r, Group(e.event)>>
  <2>1. k \in DOMAIN s /\ k[1] = "x"
    BY <1>1 DEF Covered
  <2>2. /\ k \in DOMAIN t /\ t[k].pos <= s[k].pos /\ t[k].ooo = s[k].ooo
    <3> HIDE DEF k
    <3> QED BY <2>1, SignalFacts DEF t
  <2>3. s[k] \in TokenType(f) /\ t[k] \in TokenType(f)
    BY <2>1, <2>2, SignalFacts DEF IsState, t
  <2>4. s[k].pos \in Nat /\ t[k].pos \in Nat
    BY <2>3, TokenFacts
  <2> QED BY <1>1, <2>2, <2>4 DEF Covered
<1> QED BY <1>5, <1>6, <1>7 DEF Covered, t

(* computeRequirement: a threshold for the counter of every key needed, no   *)
(* higher than the key's position.                                           *)
LEMMA RequirementFacts ==
    ASSUME NEW f, WellFormed(f), NEW s, IsState(f, s), NEW op, NEW fl,
           WaitDone(fl, Requirement(op, s))
    PROVE  /\ Waited(fl, Requirement(op, s))
           /\ op.kind \notin {"token", "free"} =>
                \A k \in NeededKeys(op, AfterSignal(op, s)) :
                   /\ k[1] \in DOMAIN Requirement(op, s)
                   /\ Requirement(op, s)[k[1]] <= WaitPosition(AfterSignal(op, s), k)
<1> DEFINE t == AfterSignal(op, s)
           keys == NeededKeys(op, t)
           ps(c) == {WaitPosition(t, k) : k \in {k \in keys : k[1] = c}}
           req == Requirement(op, s)
<1>1. CASE op.kind \in {"token", "free"}
  <2>1. DOMAIN req = {}
    BY <1>1 DEF Requirement, Empty
  <2> QED BY <1>1, <2>1 DEF Waited
<1>2. CASE op.kind \notin {"token", "free"}
  <2>1. req = [c \in {k[1] : k \in keys} |-> Clamp(c, Min(ps(c)))]
    BY <1>2 DEF Requirement
  <2>2. IsState(f, t)
    BY SignalFacts
  <2>3. keys \subseteq DOMAIN t
    BY DEF NeededKeys
  <2> HIDE DEF t, keys
  <2>4. ASSUME NEW k \in keys
        PROVE  /\ k[1] \in DOMAIN CounterMax
               /\ ps(k[1]) \in SUBSET Nat /\ WaitPosition(t, k) \in ps(k[1])
    <3>1. IsKey(f, k)
      BY <2>2, <2>3 DEF IsState
    <3>2. k[1] \in DOMAIN CounterMax
      BY <3>1, KeyFacts
    <3>3. \A j \in keys : WaitPosition(t, j) \in Nat
      BY <2>2, <2>3, PositionFacts
    <3> QED BY <3>2, <3>3
  <2>5. ASSUME NEW k \in keys
        PROVE  /\ Min(ps(k[1])) \in Nat /\ Min(ps(k[1])) <= WaitPosition(t, k)
    <3> HIDE DEF ps
    <3> QED BY <2>4, MinFacts
  <2>6. ASSUME NEW k \in keys
        PROVE  /\ k[1] \in DOMAIN req /\ k[1] \in DOMAIN CounterMax
               /\ req[k[1]] \in Nat /\ req[k[1]] <= WaitPosition(t, k)
               /\ k[1] \in {"vm", "lgkm"} => req[k[1]] < CounterMax[k[1]]
    <3>1. k[1] \in DOMAIN req /\ req[k[1]] = Clamp(k[1], Min(ps(k[1])))
      BY <2>1
    <3>2. WaitPosition(t, k) \in Nat
      BY <2>2, <2>3, PositionFacts
    <3> HIDE DEF ps, req
    <3> QED BY <3>1, <3>2, <2>4, <2>5, ClampFacts
  <2>7. \A c \in DOMAIN req : /\ c \in DOMAIN CounterMax /\ req[c] \in Nat
                              /\ c \in {"vm", "lgkm"} => req[c] < CounterMax[c]
    <3>1. \A c \in DOMAIN req : \E k \in keys : c = k[1]
      BY <2>1
    <3> HIDE DEF req
    <3> QED BY <3>1, <2>6
  <2>8. Waited(fl, req)
    <3> HIDE DEF req
    <3> QED BY <2>7, DoneWaited DEF req
  <2> QED BY <2>6, <2>8 DEF t, keys
<1> QED BY <1>1, <1>2

(* The pass waits at a distance no larger than the real one. *)
LEMMA CoveredPosition ==
    ASSUME NEW f, WellFormed(f), NEW s, IsState(f, s), NEW e,
           NEW d \in Nat, NEW v, Knows(f, s, e, v, d)
    PROVE  WaitPosition(s, <<e.ctr, v>>) <= d
<1> DEFINE k == <<e.ctr, v>>
<1>1. k \in DOMAIN s /\ k[1] = e.ctr
  BY DEF Knows
<1>2. Mixed(e.ctr, Recorded(f, s, e.ctr)) => RequiresZeroWait(e.ctr, ActiveEvents(s, e.ctr))
  BY MixedWaits
<1>3. s[k].ooo \/ s[k].pos <= d \/ RequiresZeroWait(k[1], ActiveEvents(s, k[1]))
  BY <1>1, <1>2 DEF Knows
<1> HIDE DEF k
<1>4. WaitPosition(s, k) <= d
  BY <1>1, <1>3 DEF WaitPosition
<1> QED BY <1>4 DEF k

LEMMA CoveredSource ==
    ASSUME NEW f, WellFormed(f), NEW s, IsState(f, s), NEW e, NEW d, NEW x \in Nat,
           Covered(f, s, e, d, x), NEW r \in e.unread
    PROVE  /\ <<"x", r, Group(e.event)>> \in DOMAIN s
           /\ WaitPosition(s, <<"x", r, Group(e.event)>>) <= x
<1> DEFINE k == <<"x", r, Group(e.event)>>
<1>1. k \in DOMAIN s /\ (s[k].ooo \/ s[k].pos <= x)
  BY DEF Covered
<1> HIDE DEF k
<1>2. k \in DOMAIN s /\ WaitPosition(s, k) <= x
  BY <1>1 DEF WaitPosition
<1> QED BY <1>2 DEF k

(* No operation that is needed is still in flight behind the wait. *)
LEMMA NeededDone ==
    ASSUME NEW f, WellFormed(f), NEW s, IsState(f, s), NEW fl, IsFlight(f, fl),
           Cov(f, s, fl), NEW op, op.kind \notin {"token", "free"},
           WaitDone(fl, Requirement(op, s)), InstructionReady(fl, op), NEW i \in DOMAIN fl
    PROVE  /\ \A v \in fl[i].vals :
                <<fl[i].ctr, v>> \notin NeededKeys(op, AfterSignal(op, s))
           /\ \A r \in fl[i].unread :
                <<"x", r, Group(fl[i].event)>> \notin NeededKeys(op, AfterSignal(op, s))
<1> DEFINE t == AfterSignal(op, s)
           d == Cardinality(Behind(fl, i))
           x == Cardinality(Unread(fl, i))
           req == Requirement(op, s)
<1>1. IsState(f, t)
  BY SignalFacts
<1>2. Covered(f, t, fl[i], d, x)
  BY CovSignal DEF Cov
<1>3. /\ d \in Nat /\ x \in Nat /\ d < Outstanding(fl, fl[i].ctr)
      /\ fl[i].unread # {} => x < Outstanding(fl, "x")
      /\ \A b : Outstanding(fl, b) \in Nat
  BY DistanceFacts
<1>4. /\ \A c \in DOMAIN req : req[c] \in Nat /\ Outstanding(fl, c) <= req[c]
      /\ \A k \in NeededKeys(op, t) : k[1] \in DOMAIN req /\ req[k[1]] <= WaitPosition(t, k)
  BY RequirementFacts DEF Waited
<1>5. \A k \in DOMAIN t : WaitPosition(t, k) \in Nat
  BY <1>1, PositionFacts
<1>6. NeededKeys(op, t) \subseteq DOMAIN t
  BY DEF NeededKeys
<1> HIDE DEF t, req, d, x
<1>7. ASSUME NEW v \in fl[i].vals, <<fl[i].ctr, v>> \in NeededKeys(op, t) PROVE FALSE
  <2> DEFINE k == <<fl[i].ctr, v>>
  <2>1. WaitPosition(t, k) <= d
    BY <1>1, <1>2, <1>3, CoveredPosition DEF Covered
  <2>2. k[1] = fl[i].ctr
    OBVIOUS
  <2>3. k \in NeededKeys(op, t)
    BY <1>7
  <2> HIDE DEF k
  <2>4. /\ req[k[1]] \in Nat /\ Outstanding(fl, k[1]) <= req[k[1]]
        /\ req[k[1]] <= WaitPosition(t, k) /\ WaitPosition(t, k) \in Nat
    BY <1>4, <1>5, <1>6, <2>3
  <2> QED BY <1>3, <2>1, <2>2, <2>4
<1>8. ASSUME NEW r \in fl[i].unread, <<"x", r, Group(fl[i].event)>> \in NeededKeys(op, t)
      PROVE  FALSE
  <2> DEFINE k == <<"x", r, Group(fl[i].event)>>
  <2>1. WaitPosition(t, k) <= x
    BY <1>1, <1>2, <1>3, CoveredSource
  <2>2. k[1] = "x"
    OBVIOUS
  <2>3. k \in NeededKeys(op, t)
    BY <1>8
  <2> HIDE DEF k
  <2>4. /\ req[k[1]] \in Nat /\ Outstanding(fl, k[1]) <= req[k[1]]
        /\ req[k[1]] <= WaitPosition(t, k) /\ WaitPosition(t, k) \in Nat
    BY <1>4, <1>5, <1>6, <2>3
  <2> QED BY <1>3, <1>8, <2>1, <2>2, <2>4
<1> QED BY <1>7, <1>8 DEF t

-----------------------------------------------------------------------------
(* The X counter. *)

(* A part of a state covers what the state covers, if it keeps the names of  *)
(* values and the registers that are still to be read.                       *)
LEMMA CovPart ==
    ASSUME NEW f, WellFormed(f), NEW s, IsState(f, s), NEW fl, IsFlight(f, fl),
           Cov(f, s, fl), NEW D, D \subseteq DOMAIN s,
           \A k \in DOMAIN s : ~IsSource(k) => k \in D,
           \A i \in DOMAIN fl : \A r \in fl[i].unread :
              <<"x", r, Group(fl[i].event)>> \in DOMAIN s =>
                 <<"x", r, Group(fl[i].event)>> \in D
    PROVE  Cov(f, Restricted(s, D), fl)
<1> DEFINE t == Restricted(s, D)
<1>0. SUFFICES ASSUME NEW i \in DOMAIN fl
               PROVE  Covered(f, t, fl[i], Cardinality(Behind(fl, i)), Cardinality(Unread(fl, i)))
  BY DEF Cov
<1> DEFINE e == fl[i]
           d == Cardinality(Behind(fl, i))
           x == Cardinality(Unread(fl, i))
<1>1. Covered(f, s, e, d, x) /\ IsEntry(f, e)
  BY DEF Cov, IsFlight
<1>2. e.ctr # "x"
  BY <1>1, EntryFacts
<1>3. DOMAIN t = D /\ \A k \in D : t[k] = s[k]
  BY PartFacts
<1>4. \A v : <<e.ctr, v>> \in DOMAIN s =>
                <<e.ctr, v>> \in DOMAIN t /\ t[<<e.ctr, v>>] = s[<<e.ctr, v>>]
  BY <1>2, <1>3, PairFacts
<1> HIDE DEF t
<1>5. Recorded(f, s, e.ctr) \subseteq Recorded(f, t, e.ctr)
  BY <1>4 DEF Recorded
<1>6. Mixed(e.ctr, Recorded(f, s, e.ctr)) => Mixed(e.ctr, Recorded(f, t, e.ctr))
  BY <1>5, MixedGrows
<1>7. \A v : Knows(f, s, e, v, d) => Knows(f, t, e, v, d)
  BY <1>4, <1>6 DEF Knows
<1>8. \A v \in e.vals : Knows(f, t, e, v, d) /\ (e.writes => t[<<e.ctr, v>>].writes)
  BY <1>1, <1>4, <1>7 DEF Covered, Knows
<1>9. e.event # "SccWrite" => \E v \in Names(f, e.event) : Knows(f, t, e, v, d)
  BY <1>1, <1>7 DEF Covered
<1>10. \A r \in e.unread :
          /\ <<"x", r, Group(e.event)>> \in DOMAIN t
          /\ IF e.event = "Smem" THEN t[<<"x", r, Group(e.event)>>].ooo
             ELSE t[<<"x", r, Group(e.event)>>].pos <= x
  BY <1>1, <1>3 DEF Covered
<1>11. Covered(f, t, e, d, x)
  BY <1>8, <1>9, <1>10 DEF Covered
<1> QED BY <1>11 DEF t

LEMMA CovSwitch ==
    ASSUME NEW f, WellFormed(f), NEW s, IsState(f, s), NEW fl, IsFlight(f, fl),
           Cov(f, s, fl), NEW op, InstructionReady(fl, op)
    PROVE  IsState(f, SwitchGroup(op, s)) /\ Cov(f, SwitchGroup(op, s), fl)
<1> DEFINE D == {k \in DOMAIN s : IsSource(k) => k[3] = Group(op.event)}
<1>1. CASE ~UsesX(op)
  BY <1>1 DEF SwitchGroup
<1>2. CASE UsesX(op)
  <2>1. SwitchGroup(op, s) = Restricted(s, D)
    BY <1>2 DEF SwitchGroup
  <2>2. D \subseteq DOMAIN s /\ \A k \in DOMAIN s : ~IsSource(k) => k \in D
    OBVIOUS
  <2>3. ASSUME NEW i \in DOMAIN fl, NEW r \in fl[i].unread,
               <<"x", r, Group(fl[i].event)>> \in DOMAIN s
        PROVE  <<"x", r, Group(fl[i].event)>> \in D
    <3>1. Group(fl[i].event) = Group(op.event)
      BY <1>2, <2>3 DEF InstructionReady
    <3> QED BY <2>3, <3>1
  <2> HIDE DEF D
  <2> QED BY <2>1, <2>2, <2>3, PartFacts, CovPart
<1> QED BY <1>1, <1>2

LEMMA CovDrain ==
    ASSUME NEW f, WellFormed(f), NEW s, IsState(f, s), NEW fl, IsFlight(f, fl),
           Cov(f, s, fl), \A i \in DOMAIN fl : fl[i].unread = {}
    PROVE  IsState(f, DrainX(s)) /\ Cov(f, DrainX(s), fl)
<1> DEFINE D == {k \in DOMAIN s : ~IsSource(k)}
<1>1. DrainX(s) = Restricted(s, D)
  BY DEF DrainX
<1>2. D \subseteq DOMAIN s /\ \A k \in DOMAIN s : ~IsSource(k) => k \in D
  OBVIOUS
<1> HIDE DEF D
<1> QED BY <1>1, <1>2, PartFacts, CovPart

-----------------------------------------------------------------------------
(* Issuing. *)

LEMMA BumpedFacts ==
    ASSUME NEW p \in 0..PosMax, NEW n \in Nat
    PROVE  Bumped(p, n) \in 0..PosMax /\ Bumped(p, n) <= p + n
BY LatticeAssumption DEF Bumped

Tagged(op) == {<<Counter(op), r>> : r \in op.results}
Issued(op) == [pos |-> 0, events |-> {op.event}, ooo |-> op.ooo, writes |-> op.writes]

LEMMA OperationFacts ==
    ASSUME NEW f, WellFormed(f), NEW op \in Issuing(f)
    PROVE  /\ op \in f.ops /\ IsOperation(f, op) /\ IsIssuer(f, op) /\ op.family = f.family
           /\ Counter(op) \in DOMAIN CounterMax /\ Counter(op) # "x"
           /\ Counter(op) \in Counters(f.family) /\ Counter(op) = Rules(f.family)[op.event]
           /\ op.event \in DOMAIN Rules(f.family) /\ op.count \in Nat
           /\ op.ooo = (op.event = "Smem") /\ op.writes \in BOOLEAN
           /\ op.results \subseteq Values
           /\ Issued(op) \in TokenType(f)
           /\ \A k \in Tagged(op) : IsKey(f, k) /\ ~IsSource(k)
           /\ \A k \in SourceKeys(op) :
                 /\ UsesX(op) /\ IsKey(f, k) /\ IsSource(k)
                 /\ \E r \in SourceRegs(f) : k = <<"x", r, Group(op.event)>>
<1>1. op \in f.ops /\ IsOperation(f, op) /\ IsIssuer(f, op) /\ op.family = f.family
  BY DEF WellFormed, Issuing, IsOperation
<1>2. /\ op.event \in DOMAIN Rules(f.family) /\ op.count \in Nat
      /\ op.ooo = (op.event = "Smem") /\ op.writes \in BOOLEAN
      /\ op.results \subseteq Values /\ Counter(op) \in DOMAIN CounterMax
      /\ Counter(op) = Rules(f.family)[op.event]
  BY <1>1 DEF IsOperation, IsIssuer, Counter
<1>3. f.family \in {"legacy", "split"}
  BY DEF WellFormed
<1>4. Counter(op) # "x" /\ Counter(op) \in Counters(f.family)
  BY <1>2, <1>3, RuleFacts
<1>5. Issued(op) \in TokenType(f)
  BY <1>2, LatticeAssumption DEF Issued, TokenType
<1>6. \A k \in Tagged(op) : IsKey(f, k) /\ ~IsSource(k)
  BY <1>2, <1>4 DEF Tagged, IsKey, IsSource
<1>7. ASSUME NEW k \in SourceKeys(op)
      PROVE  /\ UsesX(op) /\ IsKey(f, k) /\ IsSource(k)
             /\ \E r \in SourceRegs(f) : k = <<"x", r, Group(op.event)>>
  <2>1. UsesX(op)
    BY <1>7 DEF SourceKeys
  <2>2. PICK r \in op.srcs \union {"exec"} : k = <<"x", r, Group(op.event)>>
    BY <1>7, <2>1 DEF SourceKeys
  <2>3. r \in SourceRegs(f)
    <3>1. op.srcs \in {o.srcs : o \in f.ops}
      BY <1>1
    <3>2. op.srcs \subseteq UNION {o.srcs : o \in f.ops}
      BY <3>1
    <3> QED BY <2>2, <3>2 DEF SourceRegs
  <2>4. Group(op.event) \in {"Vmem", "Smem"}
    BY DEF Group
  <2>5. f.family = "split"
    BY <1>1, <2>1 DEF UsesX
  <2> QED BY <2>1, <2>2, <2>3, <2>4, <2>5 DEF IsKey, IsSource
<1> QED BY <1>1, <1>2, <1>4, <1>5, <1>6, <1>7

(* recordIssue *)
LEMMA IssueFacts ==
    ASSUME NEW f, WellFormed(f), NEW op \in Issuing(f), NEW s, IsState(f, s)
    PROVE  LET t == RecordIssue(op, s)
           IN  /\ IsState(f, t) /\ DOMAIN s \subseteq DOMAIN t
               /\ \A k \in DOMAIN s : k \notin Tagged(op) \union SourceKeys(op) =>
                     /\ t[k].pos <= s[k].pos +
                           (IF k[1] = Counter(op) \/ (UsesX(op) /\ k[1] = "x")
                              THEN op.count ELSE 0)
                     /\ s[k].events \subseteq t[k].events
                     /\ s[k].ooo => t[k].ooo
                     /\ s[k].writes => t[k].writes
               /\ \A k \in Tagged(op) : k \in DOMAIN t /\ Covers(t[k], Issued(op))
               /\ \A k \in SourceKeys(op) :
                     k \in DOMAIN t /\ t[k].pos = 0 /\ (op.ooo => t[k].ooo)
               /\ op.results = {} =>
                     <<Counter(op), Unknown>> \in DOMAIN t
                     /\ Covers(t[<<Counter(op), Unknown>>], Issued(op))
<1> DEFINE c == Counter(op)
           new == Issued(op)
           bumped == {c} \union (IF UsesX(op) THEN {"x"} ELSE {})
           old(k) == IF k[1] \in bumped THEN [s[k] EXCEPT !.pos = Bumped(@, op.count)] ELSE s[k]
           older == [k \in DOMAIN s |-> old(k)]
           tagged == Tagged(op)
           keys == tagged \union SourceKeys(op)
           made(k) == IF k \in tagged THEN new
                      ELSE IF k \in keys THEN [new EXCEPT !.writes = FALSE]
                      ELSE older[k]
           issued == [k \in DOMAIN older \union keys |-> made(k)]
           unknown == [k \in {<<c, Unknown>>} |-> new]
           t == RecordIssue(op, s)
<1>1. t = IF tagged # {} THEN issued ELSE Join(issued, unknown)
  BY DEF RecordIssue, Tagged, Issued
<1>2. /\ new \in TokenType(f) /\ op.count \in Nat
      /\ \A k \in keys : IsKey(f, k)
      /\ c \in DOMAIN CounterMax \ {"x"} /\ c \in Counters(f.family)
      /\ \A k \in tagged : ~IsSource(k)
      /\ \A k \in SourceKeys(op) : IsSource(k)
  BY OperationFacts
<1>3. DOMAIN older = DOMAIN s /\ \A k \in DOMAIN s : older[k] = old(k)
  OBVIOUS
<1>4. ASSUME NEW k \in DOMAIN s
      PROVE  /\ old(k) \in TokenType(f)
             /\ old(k).pos <= s[k].pos + (IF k[1] = c \/ (UsesX(op) /\ k[1] = "x")
                                            THEN op.count ELSE 0)
             /\ old(k).events = s[k].events /\ old(k).ooo = s[k].ooo
             /\ old(k).writes = s[k].writes
  <2>1. s[k] \in TokenType(f) /\ s[k].pos \in 0..PosMax
    BY DEF IsState, TokenType
  <2>2. Bumped(s[k].pos, op.count) \in 0..PosMax
        /\ Bumped(s[k].pos, op.count) <= s[k].pos + op.count
    BY <1>2, <2>1, BumpedFacts
  <2>3. k[1] \in bumped <=> k[1] = c \/ (UsesX(op) /\ k[1] = "x")
    OBVIOUS
  <2>4. s[k].pos <= s[k].pos + 0
    BY <2>1, LatticeAssumption
  <2> HIDE DEF bumped, c
  <2>5. CASE k[1] \in bumped
    BY <2>1, <2>2, <2>3, <2>5 DEF TokenType
  <2>6. CASE k[1] \notin bumped
    BY <2>1, <2>3, <2>4, <2>6 DEF TokenType
  <2> QED BY <2>5, <2>6
<1>5. ASSUME NEW k \in DOMAIN s \union keys
      PROVE  issued[k] = made(k) /\ made(k) \in TokenType(f) /\ IsKey(f, k)
  <2>1. [new EXCEPT !.writes = FALSE] \in TokenType(f)
    BY <1>2 DEF TokenType
  <2>2. IsKey(f, k)
    BY <1>2 DEF IsState
  <2>3. issued[k] = made(k)
    BY <1>3
  <2> HIDE DEF new, tagged, older, old, keys
  <2>4. made(k) \in TokenType(f)
    BY <1>2, <1>3, <1>4, <2>1
  <2> QED BY <2>2, <2>3, <2>4
<1>6. IsState(f, issued) /\ DOMAIN issued = DOMAIN s \union keys
  <2>1. issued = [k \in DOMAIN issued |-> issued[k]] /\ DOMAIN issued = DOMAIN s \union keys
    BY <1>3
  <2> HIDE DEF issued, made, keys
  <2> QED BY <2>1, <1>5 DEF IsState
<1>7. IsState(f, unknown)
  <2>1. IsKey(f, <<c, Unknown>>)
    <3> HIDE DEF c
    <3> QED BY <1>2 DEF IsKey
  <2> HIDE DEF new
  <2> QED BY <1>2, <2>1 DEF IsState
<1>8. IsState(f, t) /\ Below(issued, t) /\ (tagged # {} => t = issued)
      /\ (tagged = {} => Below(unknown, t))
  <2> HIDE DEF issued, unknown
  <2>1. CASE tagged # {}
    <3>1. Below(issued, issued)
      BY <1>6, TokenFacts DEF Below, IsState
    <3> QED BY <1>1, <1>6, <2>1, <3>1
  <2>2. CASE tagged = {}
    <3>1. t = Join(issued, unknown)
      BY <1>1, <2>2
    <3> HIDE DEF t
    <3> QED BY <1>6, <1>7, <2>2, <3>1, JoinFacts
  <2> QED BY <2>1, <2>2
<1>9. \A k \in DOMAIN s \union keys : /\ k \in DOMAIN t /\ Covers(t[k], made(k))
                                      /\ t[k] \in TokenType(f)
  <2> HIDE DEF issued, t, made, keys
  <2> QED BY <1>5, <1>6, <1>8 DEF Below, IsState
<1>10. ASSUME NEW k \in DOMAIN s, k \notin Tagged(op) \union SourceKeys(op)
       PROVE  /\ t[k].pos <= s[k].pos + (IF k[1] = Counter(op) \/ (UsesX(op) /\ k[1] = "x")
                                           THEN op.count ELSE 0)
              /\ s[k].events \subseteq t[k].events
              /\ s[k].ooo => t[k].ooo
              /\ s[k].writes => t[k].writes
  <2>1. made(k) = old(k)
    BY <1>3, <1>10
  <2>2. Covers(t[k], old(k)) /\ t[k] \in TokenType(f)
    <3> HIDE DEF made, old, t
    <3> QED BY <2>1, <1>9
  <2>3. t[k].pos \in Nat /\ old(k).pos \in Nat /\ s[k].pos \in Nat
    <3> HIDE DEF old, t
    <3> QED BY <1>4, <2>2, TokenFacts DEF IsState
  <2>4. (IF k[1] = Counter(op) \/ (UsesX(op) /\ k[1] = "x") THEN op.count ELSE 0) \in Nat
    BY <1>2
  <2> HIDE DEF old, t
  <2> QED BY <1>4, <2>2, <2>3, <2>4 DEF Covers
<1>11. ASSUME NEW k \in Tagged(op) PROVE k \in DOMAIN t /\ Covers(t[k], Issued(op))
  <2>1. made(k) = new /\ k \in keys
    BY <1>11
  <2> HIDE DEF made, t, keys
  <2> QED BY <1>9, <2>1 DEF new
<1>12. ASSUME NEW k \in SourceKeys(op)
       PROVE  k \in DOMAIN t /\ t[k].pos = 0 /\ (op.ooo => t[k].ooo)
  <2>1. k \notin tagged
    BY <1>2, <1>12
  <2>2. made(k) = [new EXCEPT !.writes = FALSE] /\ k \in keys
    BY <1>12, <2>1
  <2>3. made(k).pos = 0 /\ made(k).ooo = op.ooo
    <3> HIDE DEF made
    <3> QED BY <2>2 DEF new, Issued
  <2>4. k \in DOMAIN t /\ Covers(t[k], made(k)) /\ t[k].pos \in Nat
    <3> HIDE DEF made, t, keys
    <3> QED BY <1>9, <2>2, TokenFacts
  <2> HIDE DEF made, t
  <2> QED BY <2>3, <2>4 DEF Covers
<1>13. ASSUME op.results = {}
       PROVE  <<Counter(op), Unknown>> \in DOMAIN t
              /\ Covers(t[<<Counter(op), Unknown>>], Issued(op))
  <2>1. tagged = {}
    BY <1>13 DEF Tagged
  <2>2. Below(unknown, t)
    BY <1>8, <2>1
  <2>3. <<c, Unknown>> \in DOMAIN unknown /\ unknown[<<c, Unknown>>] = new
    OBVIOUS
  <2> HIDE DEF t, unknown
  <2> QED BY <2>2, <2>3 DEF Below
<1>14. DOMAIN s \subseteq DOMAIN t
  BY <1>9
<1> HIDE DEF t
<1> QED BY <1>8, <1>10, <1>11, <1>12, <1>13, <1>14 DEF t

(* What op puts in flight, and the flight after it when no result of op      *)
(* needs anything older.                                                     *)
NewEntry(op) ==
    [ctr |-> Counter(op), event |-> op.event, ooo |-> op.ooo, writes |-> op.writes,
     vals |-> op.results, unread |-> {k[2] : k \in SourceKeys(op)},
     regs |-> {RegOf[r] : r \in op.results} \ {"none"}]
Appended(fl, op) ==
    [i \in 1..(Cardinality(DOMAIN fl) + op.count) |->
        IF i <= Cardinality(DOMAIN fl) THEN [fl[i] EXCEPT !.vals = @ \ op.results]
        ELSE NewEntry(op)]

LEMMA NewEntryFacts ==
    ASSUME NEW f, WellFormed(f), NEW op \in Issuing(f)
    PROVE  /\ IsEntry(f, NewEntry(op))
           /\ NewEntry(op).ctr = Counter(op) /\ NewEntry(op).event = op.event
           /\ NewEntry(op).ooo = op.ooo /\ NewEntry(op).writes = op.writes
           /\ NewEntry(op).vals = op.results
           /\ NewEntry(op).unread # {} => UsesX(op)
           /\ UsesX(op) /\ op.event # "Smem" => NewEntry(op).unread # {}
           /\ \A r \in NewEntry(op).unread : <<"x", r, Group(op.event)>> \in SourceKeys(op)
<1> DEFINE e == NewEntry(op)
<1>1. \A r \in e.unread : <<"x", r, Group(op.event)>> \in SourceKeys(op) /\ r \in SourceRegs(f)
  <2>1. SUFFICES ASSUME NEW k \in SourceKeys(op)
                 PROVE  <<"x", k[2], Group(op.event)>> \in SourceKeys(op) /\ k[2] \in SourceRegs(f)
    BY DEF NewEntry
  <2>2. PICK r \in SourceRegs(f) : k = <<"x", r, Group(op.event)>>
    BY OperationFacts
  <2>3. k[2] = r
    BY <2>2
  <2> QED BY <2>1, <2>2, <2>3
<1>2. e.unread # {} => UsesX(op)
  BY <1>1, OperationFacts
<1>3. UsesX(op) /\ op.event # "Smem" => e.unread # {}
  <2>1. SUFFICES ASSUME UsesX(op), op.event # "Smem" PROVE e.unread # {}
    OBVIOUS
  <2>2. <<"x", "exec", Group(op.event)>> \in SourceKeys(op)
    BY <2>1 DEF SourceKeys
  <2> QED BY <2>2 DEF NewEntry
<1>4. e \in FlightType(f)
  <2>1. e.unread \subseteq SourceRegs(f)
    BY <1>1
  <2>2. {RegOf[r] : r \in op.results} \ {"none"} \subseteq {RegOf[v] : v \in Values}
    BY OperationFacts
  <2>3. {k[2] : k \in SourceKeys(op)} \subseteq SourceRegs(f)
    BY <2>1 DEF NewEntry
  <2> QED BY <2>2, <2>3, OperationFacts DEF FlightType, NewEntry
<1>5. e.unread # {} => f.family = "split" /\ e.event \in VmemSources \union {"Smem"}
  <2>1. op.family = f.family
    BY OperationFacts
  <2> QED BY <1>2, <2>1 DEF UsesX, NewEntry
<1>6. IsEntry(f, e)
  BY <1>4, <1>5, OperationFacts DEF IsEntry, NewEntry
<1> QED BY <1>1, <1>2, <1>3, <1>6 DEF NewEntry

LEMMA AppendedFacts ==
    ASSUME NEW f, WellFormed(f), NEW op \in Issuing(f), NEW fl, IsFlight(f, fl),
           InstructionReady(fl, op), Cardinality(DOMAIN fl) + op.count <= f.flights
    PROVE  LET n == Cardinality(DOMAIN fl)
               gl == Appended(fl, op)
           IN  /\ IsFlight(f, gl) /\ DOMAIN gl = 1..(n + op.count) /\ n \in Nat
               /\ DOMAIN fl = 1..n /\ op.count \in Nat
               /\ \A i \in DOMAIN fl :
                    /\ i \in DOMAIN gl /\ gl[i].vals = fl[i].vals \ op.results
                    /\ gl[i].ctr = fl[i].ctr /\ gl[i].event = fl[i].event
                    /\ gl[i].ooo = fl[i].ooo /\ gl[i].writes = fl[i].writes
                    /\ gl[i].unread = fl[i].unread
               /\ \A i \in DOMAIN gl : i \notin DOMAIN fl => gl[i] = NewEntry(op)
<1> DEFINE n == Cardinality(DOMAIN fl)
           gl == Appended(fl, op)
<1>1. n \in Nat /\ DOMAIN fl = 1..n /\ op.count \in Nat /\ n + op.count \in 0..f.flights
  BY FlightFacts, OperationFacts DEF WellFormed
<1>2. DOMAIN gl = 1..(n + op.count)
  BY DEF Appended
<1>3. ASSUME NEW i \in DOMAIN fl
      PROVE  /\ i \in DOMAIN gl /\ gl[i].vals = fl[i].vals \ op.results
             /\ gl[i].ctr = fl[i].ctr /\ gl[i].event = fl[i].event
             /\ gl[i].ooo = fl[i].ooo /\ gl[i].writes = fl[i].writes
             /\ gl[i].unread = fl[i].unread /\ IsEntry(f, gl[i])
  <2>1. i \in DOMAIN gl /\ i \in 1..n
    BY <1>1, <1>2
  <2>2. gl[i] = [fl[i] EXCEPT !.vals = @ \ op.results]
    BY <1>1, <2>1 DEF Appended
  <2>3. IsEntry(f, fl[i]) /\ fl[i] \in FlightType(f)
    BY DEF IsFlight, IsEntry
  <2>4. /\ gl[i].vals = fl[i].vals \ op.results
        /\ gl[i].ctr = fl[i].ctr /\ gl[i].event = fl[i].event
        /\ gl[i].ooo = fl[i].ooo /\ gl[i].writes = fl[i].writes
        /\ gl[i].unread = fl[i].unread /\ gl[i] \in FlightType(f)
    <3> HIDE DEF gl
    <3> QED BY <2>2, <2>3 DEF FlightType
  <2> HIDE DEF gl
  <2> QED BY <2>1, <2>3, <2>4 DEF IsEntry
<1>4. ASSUME NEW i \in DOMAIN gl, i \notin DOMAIN fl PROVE gl[i] = NewEntry(op)
  <2>1. i \in 1..(n + op.count) /\ ~(i <= n)
    BY <1>1, <1>2, <1>4
  <2> QED BY <2>1 DEF Appended
<1>5. \A i \in DOMAIN gl : IsEntry(f, gl[i])
  BY <1>3, <1>4, NewEntryFacts
<1>6. gl \in [1..(n + op.count) -> FlightType(f)]
  <2>1. gl = [i \in 1..(n + op.count) |-> gl[i]]
    BY DEF Appended
  <2>2. \A i \in 1..(n + op.count) : gl[i] \in FlightType(f)
    BY <1>2, <1>5 DEF IsEntry
  <2> HIDE DEF gl
  <2> QED BY <2>1, <2>2
<1>7. ASSUME NEW i \in DOMAIN gl, NEW j \in DOMAIN gl, gl[i].unread # {}, gl[j].unread # {}
      PROVE  Group(gl[i].event) = Group(gl[j].event)
  <2>1. ASSUME NEW k \in DOMAIN gl, gl[k].unread # {}, k \notin DOMAIN fl
        PROVE  gl[k].event = op.event /\ UsesX(op)
    BY <1>4, <2>1, NewEntryFacts
  <2>2. ASSUME NEW k \in DOMAIN fl, fl[k].unread # {}, UsesX(op)
        PROVE  Group(fl[k].event) = Group(op.event)
    BY <2>2 DEF InstructionReady
  <2>3. CASE i \in DOMAIN fl /\ j \in DOMAIN fl
    BY <1>3, <1>7, <2>3 DEF IsFlight
  <2>4. CASE i \in DOMAIN fl /\ j \notin DOMAIN fl
    <3> HIDE DEF gl
    <3> QED BY <1>3, <1>7, <2>1, <2>2, <2>4
  <2>5. CASE i \notin DOMAIN fl /\ j \in DOMAIN fl
    <3> HIDE DEF gl
    <3> QED BY <1>3, <1>7, <2>1, <2>2, <2>5
  <2>6. CASE i \notin DOMAIN fl /\ j \notin DOMAIN fl
    <3> HIDE DEF gl
    <3> QED BY <1>7, <2>1, <2>6
  <2> QED BY <2>3, <2>4, <2>5, <2>6
<1>8. IsFlight(f, gl)
  <2> HIDE DEF gl, n
  <2> QED BY <1>1, <1>5, <1>6, <1>7 DEF IsFlight
<1> HIDE DEF gl, n
<1> QED BY <1>1, <1>2, <1>3, <1>4, <1>8 DEF gl, n

(* Behind an older operation are the new ones too, if they are on its        *)
(* counter, or have registers to read.                                       *)
LEMMA AppendedCount ==
    ASSUME NEW n \in Nat, NEW m \in Nat, NEW A, A \subseteq 1..n, NEW B,
           B \subseteq 1..(n + m), A \subseteq B
    PROVE  /\ Cardinality(A) \in Nat /\ Cardinality(B) \in Nat
           /\ Cardinality(A) <= Cardinality(B)
           /\ ((n + 1)..(n + m)) \subseteq B => Cardinality(A) + m <= Cardinality(B)
<1> DEFINE C == (n + 1)..(n + m)
<1>1. IsFiniteSet(1..(n + m)) /\ IsFiniteSet(1..n)
  BY FS_Interval
<1>2. IsFiniteSet(A) /\ IsFiniteSet(B)
  BY <1>1, FS_Subset
<1>3. IsFiniteSet(C) /\ Cardinality(C) = m
  <2>1. IsFiniteSet(C) /\ Cardinality(C) = IF n + 1 > n + m THEN 0 ELSE (n + m) - (n + 1) + 1
    BY FS_Interval
  <2> QED BY <2>1
<1>4. A \intersect C = {}
  OBVIOUS
<1>5. Cardinality(A) \in Nat /\ Cardinality(B) \in Nat /\ Cardinality(A) <= Cardinality(B)
  BY <1>2, FS_CardinalityType, FS_Subset
<1> HIDE DEF C
<1>6. ASSUME C \subseteq B PROVE Cardinality(A) + m <= Cardinality(B)
  <2>1. Cardinality(A \union C) = Cardinality(A) + Cardinality(C) - Cardinality(A \intersect C)
    BY <1>2, <1>3, FS_Union
  <2>2. Cardinality(A \intersect C) = 0
    BY <1>4, FS_EmptySet
  <2>3. A \union C \subseteq B
    BY <1>6
  <2>4. Cardinality(A \union C) <= Cardinality(B)
    BY <1>2, <2>3, FS_Subset
  <2>5. Cardinality(A \union C) = Cardinality(A) + m
    BY <1>3, <1>5, <2>1, <2>2
  <2> QED BY <2>4, <2>5
<1> QED BY <1>5, <1>6 DEF C

(* What a state knew before op was issued, it knows after. *)
LEMMA KnowsIssue ==
    ASSUME NEW f, WellFormed(f), NEW op \in Issuing(f), NEW s, IsState(f, s),
           NEW e, IsEntry(f, e), NEW d \in Nat, NEW d2 \in Nat,
           d2 >= d, e.ctr = Counter(op) => d2 >= d + op.count
    PROVE  LET t == RecordIssue(op, s)
           IN  \A v : /\ Knows(f, s, e, v, d)
                      /\ v \notin op.results \/ v \in Names(f, e.event)
                      => /\ Knows(f, t, e, v, d2)
                         /\ v \notin op.results /\ s[<<e.ctr, v>>].writes =>
                               t[<<e.ctr, v>>].writes
<1> DEFINE t == RecordIssue(op, s)
           c == e.ctr
<1>0. /\ IsState(f, t) /\ c # "x" /\ op.count \in Nat /\ Unknown \notin op.results
      /\ op.ooo = (op.event = "Smem")
  <2>1. IsState(f, t)
    BY IssueFacts
  <2>2. c # "x"
    BY EntryFacts
  <2>3. op.count \in Nat /\ op.results \subseteq Values /\ op.ooo = (op.event = "Smem")
    BY OperationFacts
  <2>4. Unknown \notin Values
    BY LatticeAssumption
  <2> HIDE DEF t, c
  <2> QED BY <2>1, <2>2, <2>3, <2>4
<1>1. ASSUME NEW b, b # "x", NEW v, <<b, v>> \in DOMAIN s,
             b # Counter(op) \/ v \notin op.results
      PROVE  /\ <<b, v>> \in DOMAIN t
             /\ t[<<b, v>>].pos <= s[<<b, v>>].pos + (IF b = Counter(op) THEN op.count ELSE 0)
             /\ s[<<b, v>>].events \subseteq t[<<b, v>>].events
             /\ s[<<b, v>>].ooo => t[<<b, v>>].ooo
             /\ s[<<b, v>>].writes => t[<<b, v>>].writes
             /\ s[<<b, v>>].pos \in Nat /\ t[<<b, v>>].pos \in Nat
  <2> DEFINE k == <<b, v>>
  <2>1. k \notin Tagged(op)
    BY <1>1 DEF Tagged
  <2>2. k \notin SourceKeys(op)
    <3>1. ~IsSource(k)
      BY <1>1, PairFacts
    <3> QED BY <3>1, OperationFacts
  <2>3. k[1] = b
    OBVIOUS
  <2>4. k \in DOMAIN s
    BY <1>1
  <2> HIDE DEF k, t
  <2>5. /\ k \in DOMAIN t
        /\ t[k].pos <= s[k].pos + (IF k[1] = Counter(op) \/ (UsesX(op) /\ k[1] = "x")
                                     THEN op.count ELSE 0)
        /\ s[k].events \subseteq t[k].events
        /\ s[k].ooo => t[k].ooo
        /\ s[k].writes => t[k].writes
    BY <2>1, <2>2, <2>4, IssueFacts DEF t
  <2>6. t[k].pos <= s[k].pos + (IF b = Counter(op) THEN op.count ELSE 0)
    BY <1>1, <2>3, <2>5
  <2>7. s[k].pos \in Nat /\ t[k].pos \in Nat
    BY <1>0, <2>4, <2>5, TokenFacts DEF IsState
  <2> QED BY <2>5, <2>6, <2>7 DEF k
<1>2. ASSUME NEW r \in op.results
      PROVE  /\ <<Counter(op), r>> \in DOMAIN t
             /\ t[<<Counter(op), r>>].pos = 0 /\ op.event \in t[<<Counter(op), r>>].events
             /\ op.ooo => t[<<Counter(op), r>>].ooo
  <2> DEFINE k == <<Counter(op), r>>
  <2>1. k \in Tagged(op)
    BY DEF Tagged
  <2> HIDE DEF k, t
  <2>2. k \in DOMAIN t /\ Covers(t[k], Issued(op))
    BY <2>1, IssueFacts DEF t
  <2>3. t[k].pos \in Nat
    BY <1>0, <2>2, TokenFacts DEF IsState
  <2>4. t[k].pos = 0 /\ op.event \in t[k].events /\ (op.ooo => t[k].ooo)
    BY <2>2, <2>3 DEF Covers, Issued
  <2> QED BY <2>2, <2>4 DEF k
<1>3. ASSUME NEW r \in op.results, NEW ev, r \in Names(f, ev) PROVE ev = op.event
  <2>1. r # Unknown
    BY <1>0
  <2>2. PICK p \in Issuing(f) : p.event = ev /\ r \in p.results
    BY <1>3, <2>1 DEF Names
  <2>3. op.results \intersect p.results # {}
    BY <2>2
  <2>4. IsIssuer(f, op)
    BY OperationFacts
  <2> QED BY <2>2, <2>3, <2>4 DEF IsIssuer
<1> HIDE DEF t
<1>4. Recorded(f, s, c) \subseteq Recorded(f, t, c)
  <2>1. SUFFICES ASSUME NEW ev \in DOMAIN Rules(f.family), NEW v \in Names(f, ev),
                        <<c, v>> \in DOMAIN s, ev \in s[<<c, v>>].events
                 PROVE  <<c, v>> \in DOMAIN t /\ ev \in t[<<c, v>>].events
    BY DEF Recorded
  <2>2. CASE c # Counter(op) \/ v \notin op.results
    BY <1>0, <1>1, <2>1, <2>2
  <2>3. CASE c = Counter(op) /\ v \in op.results
    BY <1>2, <1>3, <2>1, <2>3
  <2> QED BY <2>2, <2>3
<1>5. Mixed(c, Recorded(f, s, c)) => Mixed(c, Recorded(f, t, c))
  BY <1>4, MixedGrows
<1>6. SUFFICES ASSUME NEW v, Knows(f, s, e, v, d), v \notin op.results \/ v \in Names(f, e.event)
               PROVE  /\ Knows(f, t, e, v, d2)
                      /\ v \notin op.results /\ s[<<c, v>>].writes => t[<<c, v>>].writes
  BY DEF t
<1>7. CASE c # Counter(op) \/ v \notin op.results
  <2>1. <<c, v>> \in DOMAIN s
    BY <1>6 DEF Knows
  <2>2. /\ <<c, v>> \in DOMAIN t
        /\ t[<<c, v>>].pos <= s[<<c, v>>].pos + (IF c = Counter(op) THEN op.count ELSE 0)
        /\ s[<<c, v>>].events \subseteq t[<<c, v>>].events
        /\ s[<<c, v>>].ooo => t[<<c, v>>].ooo
        /\ s[<<c, v>>].writes => t[<<c, v>>].writes
        /\ s[<<c, v>>].pos \in Nat /\ t[<<c, v>>].pos \in Nat
    BY <1>0, <1>1, <1>7, <2>1
  <2>3. s[<<c, v>>].pos <= d => t[<<c, v>>].pos <= d2
    BY <1>0, <2>2
  <2> QED BY <1>5, <1>6, <2>2, <2>3 DEF Knows
<1>8. CASE c = Counter(op) /\ v \in op.results
  <2>1. e.event = op.event /\ e.ooo = op.ooo
    <3>1. e.event = op.event
      BY <1>3, <1>6, <1>8
    <3>2. e.ooo = (e.event = "Smem")
      BY EntryFacts
    <3> QED BY <1>0, <3>1, <3>2
  <2>2. t[<<c, v>>].pos <= d2
    BY <1>2, <1>8
  <2> QED BY <1>2, <1>8, <2>1, <2>2 DEF Knows
<1> QED BY <1>7, <1>8

LEMMA CovIssue ==
    ASSUME NEW f, WellFormed(f), NEW op \in Issuing(f), NEW s, IsState(f, s),
           NEW fl, IsFlight(f, fl), Cov(f, s, fl), InstructionReady(fl, op),
           Cardinality(DOMAIN fl) + op.count <= f.flights
    PROVE  Cov(f, RecordIssue(op, s), Appended(fl, op))
<1> DEFINE t == RecordIssue(op, s)
           gl == Appended(fl, op)
           n == Cardinality(DOMAIN fl)
<1>1. /\ IsFlight(f, gl) /\ DOMAIN gl = 1..(n + op.count) /\ n \in Nat
      /\ DOMAIN fl = 1..n /\ op.count \in Nat
      /\ \A i \in DOMAIN fl :
           /\ i \in DOMAIN gl /\ gl[i].vals = fl[i].vals \ op.results
           /\ gl[i].ctr = fl[i].ctr /\ gl[i].event = fl[i].event
           /\ gl[i].ooo = fl[i].ooo /\ gl[i].writes = fl[i].writes
           /\ gl[i].unread = fl[i].unread
      /\ \A i \in DOMAIN gl : i \notin DOMAIN fl => gl[i] = NewEntry(op)
  BY AppendedFacts
<1>2. IsState(f, t)
  BY IssueFacts
<1> HIDE DEF t, gl, n
<1>3. ASSUME NEW i \in DOMAIN fl
      PROVE  Covered(f, t, gl[i], Cardinality(Behind(gl, i)), Cardinality(Unread(gl, i)))
  <2> DEFINE e == fl[i]
             d == Cardinality(Behind(fl, i))
             x == Cardinality(Unread(fl, i))
             d2 == Cardinality(Behind(gl, i))
             x2 == Cardinality(Unread(gl, i))
  <2>1. Covered(f, s, e, d, x) /\ IsEntry(f, e)
    BY DEF Cov, IsFlight
  <2>2. /\ d \in Nat /\ d2 \in Nat /\ d <= d2
        /\ e.ctr = Counter(op) => d + op.count <= d2
    <3>1. Behind(fl, i) \subseteq 1..n /\ Behind(gl, i) \subseteq 1..(n + op.count)
      BY <1>1 DEF Behind
    <3>2. Behind(fl, i) \subseteq Behind(gl, i)
      BY <1>1 DEF Behind
    <3>3. ASSUME e.ctr = Counter(op) PROVE (n + 1)..(n + op.count) \subseteq Behind(gl, i)
      <4>1. SUFFICES ASSUME NEW j \in (n + 1)..(n + op.count)
                     PROVE  j \in DOMAIN gl /\ j > i /\ gl[j].ctr = gl[i].ctr
        BY DEF Behind
      <4>2. j \in DOMAIN gl /\ j \notin DOMAIN fl /\ j > i
        BY <1>1
      <4>3. gl[j].ctr = Counter(op)
        BY <1>1, <4>2, NewEntryFacts
      <4> QED BY <1>1, <3>3, <4>2, <4>3
    <3> QED BY <1>1, <3>1, <3>2, <3>3, AppendedCount
  <2>3. /\ x \in Nat /\ x2 \in Nat /\ x <= x2
        /\ UsesX(op) /\ op.event # "Smem" => x + op.count <= x2
    <3>1. Unread(fl, i) \subseteq 1..n /\ Unread(gl, i) \subseteq 1..(n + op.count)
      BY <1>1 DEF Unread
    <3>2. Unread(fl, i) \subseteq Unread(gl, i)
      BY <1>1 DEF Unread
    <3>3. ASSUME UsesX(op), op.event # "Smem"
          PROVE  (n + 1)..(n + op.count) \subseteq Unread(gl, i)
      <4>1. SUFFICES ASSUME NEW j \in (n + 1)..(n + op.count)
                     PROVE  j \in DOMAIN gl /\ j > i /\ gl[j].unread # {}
        BY DEF Unread
      <4>2. j \in DOMAIN gl /\ j \notin DOMAIN fl /\ j > i
        BY <1>1
      <4>3. gl[j].unread # {}
        BY <1>1, <3>3, <4>2, NewEntryFacts
      <4> QED BY <4>2, <4>3
    <3> QED BY <1>1, <3>1, <3>2, <3>3, AppendedCount
  <2>4. /\ gl[i].vals = e.vals \ op.results /\ gl[i].ctr = e.ctr /\ gl[i].event = e.event
        /\ gl[i].ooo = e.ooo /\ gl[i].writes = e.writes /\ gl[i].unread = e.unread
    BY <1>1
  <2> HIDE DEF e, d, x, d2, x2
  <2>5. \A v : Knows(f, s, e, v, d) /\ (v \notin op.results \/ v \in Names(f, e.event)) =>
                 /\ Knows(f, t, e, v, d2)
                 /\ v \notin op.results /\ s[<<e.ctr, v>>].writes => t[<<e.ctr, v>>].writes
    BY <2>1, <2>2, KnowsIssue DEF t
  <2>6. \A v : Knows(f, t, e, v, d2) => Knows(f, t, gl[i], v, d2)
    BY <2>4 DEF Knows
  <2>7. \A v \in gl[i].vals : /\ Knows(f, t, gl[i], v, d2)
                              /\ gl[i].writes => t[<<gl[i].ctr, v>>].writes
    BY <2>1, <2>4, <2>5, <2>6 DEF Covered
  <2>8. gl[i].event # "SccWrite" => \E v \in Names(f, gl[i].event) : Knows(f, t, gl[i], v, d2)
    BY <2>1, <2>4, <2>5, <2>6 DEF Covered
  <2>9. ASSUME NEW r \in e.unread
        PROVE  /\ <<"x", r, Group(e.event)>> \in DOMAIN t
               /\ IF e.event = "Smem" THEN t[<<"x", r, Group(e.event)>>].ooo
                  ELSE t[<<"x", r, Group(e.event)>>].pos <= x2
    <3> DEFINE k == <<"x", r, Group(e.event)>>
    <3>1. k \in DOMAIN s /\ IF e.event = "Smem" THEN s[k].ooo ELSE s[k].pos <= x
      BY <2>1 DEF Covered
    <3>2. k \in DOMAIN t /\ s[k].pos \in Nat /\ t[k].pos \in Nat
      <4>1. k \in DOMAIN t
        BY <3>1, IssueFacts DEF t
      <4>2. s[k] \in TokenType(f) /\ t[k] \in TokenType(f)
        BY <1>2, <3>1, <4>1 DEF IsState
      <4> HIDE DEF k
      <4> QED BY <4>1, <4>2, TokenFacts
    <3>3. k[1] = "x" /\ ~(k[1] = Counter(op))
      BY OperationFacts
    <3>4. UsesX(op) => Group(op.event) = Group(e.event)
      BY <2>9 DEF InstructionReady, e
    <3>5. e.event = "Smem" => Group(e.event) = "Smem"
      BY <2>1, <2>9, EntryFacts
    <3>6. e.event # "Smem" => Group(e.event) = "Vmem"
      BY <2>1, <2>9, EntryFacts
    <3>7. UsesX(op) => (op.event = "Smem" <=> Group(op.event) = "Smem")
      BY DEF UsesX, Group, VmemSources
    <3> HIDE DEF k
    <3>8. CASE k \in SourceKeys(op)
      <4>1. t[k].pos = 0 /\ (op.ooo => t[k].ooo) /\ UsesX(op)
        BY <3>8, IssueFacts, OperationFacts DEF t
      <4>2. op.ooo = (op.event = "Smem")
        BY OperationFacts
      <4>3. t[k].pos <= x2
        BY <4>1, <2>3
      <4> QED BY <3>2, <3>4, <3>5, <3>7, <4>1, <4>2, <4>3 DEF k
    <3>9. CASE k \notin SourceKeys(op)
      <4>1. k \notin Tagged(op)
        BY <3>3 DEF Tagged
      <4>2. /\ t[k].pos <= s[k].pos + (IF UsesX(op) THEN op.count ELSE 0)
            /\ s[k].ooo => t[k].ooo
        BY <3>1, <3>3, <3>9, <4>1, IssueFacts DEF t
      <4>3. CASE e.event = "Smem"
        BY <3>1, <3>2, <4>2, <4>3 DEF k
      <4>4. CASE e.event # "Smem"
        <5>1. UsesX(op) => x + op.count <= x2
          BY <2>3, <3>4, <3>6, <3>7, <4>4
        <5>2. t[k].pos <= x2
          BY <1>1, <2>3, <3>1, <3>2, <4>2, <4>4, <5>1
        <5> QED BY <3>2, <4>4, <5>2 DEF k
      <4> QED BY <4>3, <4>4
    <3> QED BY <3>8, <3>9
  <2>10. Covered(f, t, gl[i], d2, x2)
    BY <2>4, <2>7, <2>8, <2>9 DEF Covered
  <2> QED BY <2>10 DEF d2, x2
<1>4. ASSUME NEW i \in DOMAIN gl, i \notin DOMAIN fl
      PROVE  Covered(f, t, gl[i], Cardinality(Behind(gl, i)), Cardinality(Unread(gl, i)))
  <2> DEFINE e == NewEntry(op)
             c == Counter(op)
             d == Cardinality(Behind(gl, i))
             x == Cardinality(Unread(gl, i))
  <2>1. gl[i] = e /\ d \in Nat /\ x \in Nat
    BY <1>1, <1>4, DistanceFacts
  <2>2. /\ e.ctr = c /\ e.event = op.event /\ e.ooo = op.ooo /\ e.writes = op.writes
        /\ e.vals = op.results
        /\ \A r \in e.unread : <<"x", r, Group(op.event)>> \in SourceKeys(op)
    BY NewEntryFacts
  <2>3. op.ooo = (op.event = "Smem") /\ op.results \subseteq Values
    BY OperationFacts
  <2> HIDE DEF e, d, x
  <2>4. ASSUME NEW v, <<c, v>> \in DOMAIN t, Covers(t[<<c, v>>], Issued(op))
        PROVE  Knows(f, t, e, v, d) /\ (e.writes => t[<<c, v>>].writes)
    <3>1. t[<<c, v>>].pos \in Nat
      BY <1>2, <2>4, TokenFacts DEF IsState
    <3>2. /\ t[<<c, v>>].pos <= 0 /\ op.event \in t[<<c, v>>].events
          /\ op.ooo => t[<<c, v>>].ooo
          /\ op.writes => t[<<c, v>>].writes
      BY <2>4 DEF Covers, Issued
    <3>3. t[<<c, v>>].pos <= d
      BY <2>1, <3>1, <3>2
    <3> QED BY <2>2, <2>4, <3>2, <3>3 DEF Knows
  <2>5. ASSUME NEW v \in op.results
        PROVE  <<c, v>> \in DOMAIN t /\ Covers(t[<<c, v>>], Issued(op))
    <3>1. <<c, v>> \in Tagged(op)
      BY DEF Tagged
    <3> HIDE DEF c
    <3> QED BY <3>1, IssueFacts DEF t
  <2>6. \A v \in e.vals : Knows(f, t, e, v, d) /\ (e.writes => t[<<e.ctr, v>>].writes)
    BY <2>2, <2>4, <2>5
  <2>7. \E v \in Names(f, e.event) : Knows(f, t, e, v, d)
    <3>1. CASE op.results = {}
      <4>1. <<c, Unknown>> \in DOMAIN t /\ Covers(t[<<c, Unknown>>], Issued(op))
        BY <3>1, IssueFacts DEF t
      <4>2. Unknown \in Names(f, e.event)
        BY DEF Names
      <4> QED BY <2>4, <4>1, <4>2
    <3>2. CASE op.results # {}
      <4>1. PICK v \in op.results : TRUE
        BY <3>2
      <4>2. v \in Names(f, e.event)
        BY <2>2, <4>1 DEF Names
      <4> QED BY <2>4, <2>5, <4>1, <4>2
    <3> QED BY <3>1, <3>2
  <2>8. ASSUME NEW r \in e.unread
        PROVE  /\ <<"x", r, Group(e.event)>> \in DOMAIN t
               /\ IF e.event = "Smem" THEN t[<<"x", r, Group(e.event)>>].ooo
                  ELSE t[<<"x", r, Group(e.event)>>].pos <= x
    <3> DEFINE k == <<"x", r, Group(e.event)>>
    <3>1. k \in SourceKeys(op)
      BY <2>2
    <3> HIDE DEF k
    <3>2. k \in DOMAIN t /\ t[k].pos = 0 /\ (op.ooo => t[k].ooo)
      BY <3>1, IssueFacts DEF t
    <3>3. t[k].pos <= x
      BY <2>1, <3>2
    <3> QED BY <2>2, <2>3, <3>2, <3>3 DEF k
  <2>9. Covered(f, t, e, d, x)
    BY <2>6, <2>7, <2>8 DEF Covered
  <2> QED BY <2>1, <2>9 DEF d, x
<1> QED BY <1>3, <1>4 DEF Cov, t, gl

-----------------------------------------------------------------------------
(* Values that take a new meaning. *)

(* gl is fl but for the values that wait for its operations. *)
Same(fl, gl) ==
    /\ DOMAIN gl = DOMAIN fl
    /\ \A i \in DOMAIN fl :
          /\ gl[i].ctr = fl[i].ctr /\ gl[i].event = fl[i].event /\ gl[i].ooo = fl[i].ooo
          /\ gl[i].writes = fl[i].writes /\ gl[i].unread = fl[i].unread

(* Whatever s knows under u, t knows under v. *)
Carries(s, t, u, v) ==
    \A c : c # "x" /\ <<c, u>> \in DOMAIN s =>
              <<c, v>> \in DOMAIN t /\ Covers(t[<<c, v>>], s[<<c, u>>])

LEMMA SameCounts ==
    ASSUME NEW fl, NEW gl, Same(fl, gl), NEW i \in DOMAIN fl
    PROVE  Behind(gl, i) = Behind(fl, i) /\ Unread(gl, i) = Unread(fl, i)
BY DEF Same, Behind, Unread

LEMMA CovExtend ==
    ASSUME NEW f, WellFormed(f), NEW s, IsState(f, s), NEW t, IsState(f, t), Below(s, t),
           NEW fl, IsFlight(f, fl), Cov(f, s, fl), NEW gl, Same(fl, gl),
           \A i \in DOMAIN fl : \A v \in gl[i].vals :
              v \in fl[i].vals \/ \E u \in fl[i].vals : Carries(s, t, u, v)
    PROVE  Cov(f, t, gl)
<1>0. SUFFICES ASSUME NEW i \in DOMAIN fl
               PROVE  Covered(f, t, gl[i], Cardinality(Behind(gl, i)), Cardinality(Unread(gl, i)))
  BY DEF Cov, Same
<1> DEFINE e == fl[i]
           d == Cardinality(Behind(fl, i))
           x == Cardinality(Unread(fl, i))
<1>1. Covered(f, s, e, d, x) /\ d \in Nat /\ x \in Nat /\ IsEntry(f, e)
  BY DistanceFacts DEF Cov, IsFlight
<1>2. Covered(f, t, e, d, x)
  <2> HIDE DEF e, d, x
  <2>1. d <= d /\ x <= x
    BY <1>1
  <2> QED BY <1>1, <2>1, CoveredGrows
<1>3. Cardinality(Behind(gl, i)) = d /\ Cardinality(Unread(gl, i)) = x
  BY SameCounts
<1>4. /\ gl[i].ctr = e.ctr /\ gl[i].event = e.event /\ gl[i].ooo = e.ooo
      /\ gl[i].writes = e.writes /\ gl[i].unread = e.unread
  BY DEF Same
<1>5. e.ctr # "x"
  BY <1>1, EntryFacts
<1>6. \A v \in gl[i].vals : v \in e.vals \/ \E u \in e.vals : Carries(s, t, u, v)
  OBVIOUS
<1>7. Mixed(e.ctr, Recorded(f, s, e.ctr)) => Mixed(e.ctr, Recorded(f, t, e.ctr))
  BY RecordedGrows, MixedGrows
<1> HIDE DEF e, d, x
<1>8. ASSUME NEW v \in gl[i].vals
      PROVE  Knows(f, t, e, v, d) /\ (e.writes => t[<<e.ctr, v>>].writes)
  <2>1. CASE v \in e.vals
    BY <1>2, <2>1 DEF Covered
  <2>2. CASE v \notin e.vals
    <3>1. PICK u \in e.vals : Carries(s, t, u, v)
      BY <1>6, <2>2
    <3>2. Knows(f, s, e, u, d) /\ (e.writes => s[<<e.ctr, u>>].writes)
      BY <1>1, <3>1 DEF Covered
    <3>3. <<e.ctr, u>> \in DOMAIN s
      BY <3>2 DEF Knows
    <3>4. <<e.ctr, v>> \in DOMAIN t /\ Covers(t[<<e.ctr, v>>], s[<<e.ctr, u>>])
      BY <1>5, <3>1, <3>3 DEF Carries
    <3>5. s[<<e.ctr, u>>].pos \in Nat /\ t[<<e.ctr, v>>].pos \in Nat
      BY <3>3, <3>4, TokenFacts DEF IsState
    <3>6. s[<<e.ctr, u>>].pos <= d => t[<<e.ctr, v>>].pos <= d
      BY <1>1, <3>4, <3>5 DEF Covers
    <3> QED BY <1>7, <3>2, <3>4, <3>6 DEF Knows, Covers
  <2> QED BY <2>1, <2>2
<1>9. \A v : Knows(f, t, e, v, d) => Knows(f, t, gl[i], v, d)
  BY <1>4 DEF Knows
<1>10. Covered(f, t, gl[i], d, x)
  BY <1>2, <1>4, <1>8, <1>9 DEF Covered
<1> QED BY <1>3, <1>10

LEMMA RebindFacts ==
    ASSUME NEW f, WellFormed(f), NEW fl, IsFlight(f, fl), NEW sources,
           DOMAIN sources \subseteq Values
    PROVE  LET gl == Rebind(fl, sources)
           IN  /\ IsFlight(f, gl) /\ Same(fl, gl)
               /\ \A i \in DOMAIN fl :
                     gl[i].vals = (fl[i].vals \ DOMAIN sources) \union
                        {v \in DOMAIN sources : sources[v] \intersect fl[i].vals # {}}
<1> DEFINE gl == Rebind(fl, sources)
           vals(i) == (fl[i].vals \ DOMAIN sources) \union
                        {v \in DOMAIN sources : sources[v] \intersect fl[i].vals # {}}
<1>1. gl = [i \in DOMAIN fl |-> [fl[i] EXCEPT !.vals = vals(i)]]
  BY DEF Rebind
<1>2. ASSUME NEW i \in DOMAIN fl
      PROVE  /\ gl[i].ctr = fl[i].ctr /\ gl[i].event = fl[i].event /\ gl[i].ooo = fl[i].ooo
             /\ gl[i].writes = fl[i].writes /\ gl[i].unread = fl[i].unread
             /\ gl[i].vals = vals(i) /\ gl[i] \in FlightType(f) /\ IsEntry(f, gl[i])
  <2>1. fl[i] \in FlightType(f) /\ IsEntry(f, fl[i])
    BY DEF IsFlight, IsEntry
  <2>2. gl[i] = [fl[i] EXCEPT !.vals = vals(i)]
    BY <1>1
  <2>3. vals(i) \subseteq Values
    BY <2>1 DEF FlightType
  <2> HIDE DEF gl, vals
  <2>4. /\ gl[i].ctr = fl[i].ctr /\ gl[i].event = fl[i].event /\ gl[i].ooo = fl[i].ooo
        /\ gl[i].writes = fl[i].writes /\ gl[i].unread = fl[i].unread
        /\ gl[i].vals = vals(i) /\ gl[i] \in FlightType(f)
    BY <2>1, <2>2, <2>3 DEF FlightType
  <2>5. IsEntry(f, gl[i])
    BY <2>1, <2>4 DEF IsEntry
  <2> QED BY <2>4, <2>5
<1>3. PICK n \in 0..f.flights : fl \in [1..n -> FlightType(f)]
  BY DEF IsFlight
<1>4. DOMAIN gl = DOMAIN fl /\ DOMAIN fl = 1..n
  BY <1>1, <1>3
<1>5. gl \in [1..n -> FlightType(f)]
  <2>1. gl = [i \in 1..n |-> gl[i]]
    BY <1>1, <1>4
  <2> HIDE DEF gl
  <2> QED BY <1>2, <1>4, <2>1
<1> HIDE DEF gl, vals
<1>6. Same(fl, gl)
  BY <1>2, <1>4 DEF Same
<1>7. IsFlight(f, gl)
  BY <1>2, <1>3, <1>4, <1>5 DEF IsFlight
<1> QED BY <1>2, <1>6, <1>7 DEF gl, vals

(* mergeSources *)
LEMMA DerivedFacts ==
    ASSUME NEW f, WellFormed(f), NEW s, IsState(f, s), NEW sources, sources \subseteq Values,
           NEW results, results \subseteq Values
    PROVE  LET t == Join(s, Derived(s, sources, results))
           IN  /\ IsState(f, t) /\ Below(s, t)
               /\ \A u \in sources, v \in results : Carries(s, t, u, v)
<1> DEFINE from(c) == {k \in DOMAIN s : k[1] = c /\ k[2] \in sources}
           counters == {c \in {k[1] : k \in DOMAIN s} : from(c) # {}}
           token(c) == MergeTokens({s[j] : j \in from(c)})
           q == Derived(s, sources, results)
           t == Join(s, q)
<1>1. q = [k \in counters \X results |-> token(k[1])]
  BY DEF Derived
<1>2. ASSUME NEW c \in counters
      PROVE  /\ c \in DOMAIN CounterMax \ {"x"} /\ c \in Counters(f.family)
             /\ token(c) \in TokenType(f)
             /\ \A j \in from(c) : Covers(token(c), s[j])
  <2>1. PICK k \in from(c) : TRUE
    BY <1>2
  <2>2. k \in DOMAIN s /\ k[1] = c /\ k[2] \in Values /\ IsKey(f, k)
    BY <2>1 DEF IsState
  <2>3. ~IsSource(k)
    BY <2>2, KeyFacts
  <2>4. PICK b \in DOMAIN CounterMax \ {"x"}, v \in Values \union {Unknown} :
           k = <<b, v>> /\ b \in Counters(f.family)
    BY <2>2, <2>3, KeyFacts
  <2>5. b = c
    BY <2>2, <2>4
  <2> DEFINE ts == {s[j] : j \in from(c)}
  <2>6. ts \subseteq TokenType(f) /\ ts # {} /\ \A j \in from(c) : s[j] \in ts
    BY <2>1 DEF IsState
  <2>7. MergeTokens(ts) \in TokenType(f) /\ \A u \in ts : Covers(MergeTokens(ts), u)
    <3> HIDE DEF ts
    <3> QED BY <2>6, MergeFacts
  <2> HIDE DEF from
  <2> QED BY <2>4, <2>5, <2>6, <2>7
<1>3. IsState(f, q)
  <2>1. q = [k \in DOMAIN q |-> q[k]] /\ DOMAIN q = counters \X results
    BY <1>1
  <2>2. ASSUME NEW k \in counters \X results
        PROVE  IsKey(f, k) /\ q[k] \in TokenType(f)
    <3>1. PICK c \in counters, v \in results : k = <<c, v>>
      BY <2>2
    <3>2. k[1] = c
      BY <3>1
    <3>3. q[k] = token(c)
      BY <1>1, <2>2, <3>2
    <3> HIDE DEF counters, token, q
    <3> QED BY <1>2, <3>1, <3>3 DEF IsKey
  <2> HIDE DEF q, counters
  <2> QED BY <2>1, <2>2 DEF IsState
<1>4. IsState(f, t) /\ Below(s, t) /\ Below(q, t)
  <2> HIDE DEF q
  <2> QED BY <1>3, JoinFacts
<1>5. ASSUME NEW u \in sources, NEW v \in results, NEW c, c # "x", <<c, u>> \in DOMAIN s
      PROVE  <<c, v>> \in DOMAIN t /\ Covers(t[<<c, v>>], s[<<c, u>>])
  <2>1. <<c, u>> \in from(c)
    BY <1>5
  <2>2. c \in counters
    <3>1. c = <<c, u>>[1]
      OBVIOUS
    <3> QED BY <1>5, <2>1, <3>1
  <2>3. <<c, v>> \in DOMAIN q /\ q[<<c, v>>] = token(c)
    <3>1. <<c, v>> \in counters \X results /\ <<c, v>>[1] = c
      BY <2>2
    <3> QED BY <1>1, <3>1
  <2>4. Covers(token(c), s[<<c, u>>]) /\ token(c) \in TokenType(f)
    BY <1>2, <2>1, <2>2
  <2> HIDE DEF q, t, token, from, counters
  <2>5. <<c, v>> \in DOMAIN t /\ Covers(t[<<c, v>>], token(c))
    BY <1>4, <2>3 DEF Below
  <2>6. /\ t[<<c, v>>].pos \in Nat /\ token(c).pos \in Nat /\ s[<<c, u>>].pos \in Nat
    BY <1>4, <1>5, <2>4, <2>5, TokenFacts DEF IsState
  <2> QED BY <2>4, <2>5, <2>6 DEF Covers
<1> HIDE DEF t
<1> QED BY <1>4, <1>5 DEF Carries, t

(* propagateOperandsThrough: each block argument gets the tokens of the one  *)
(* operand the branch passes for it.                                         *)
LEMMA RekeyFacts ==
    ASSUME NEW f, WellFormed(f), NEW s, IsState(f, s), NEW moves \in SUBSET (Values \X Values),
           \A l, m \in moves : l[2] = m[2] => l = m
    PROVE  LET t == Rekey(s, moves)
           IN  /\ IsState(f, t) /\ Below(s, t)
               /\ \A m \in moves : Carries(s, t, m[1], m[2])
               /\ \E q : /\ IsState(f, q) /\ t = Join(s, q)
                         /\ \A k \in DOMAIN q : \E j \in DOMAIN s : j[1] = k[1] /\ q[k] = s[j]
<1> DEFINE keys == UNION {{<<k[1], n[2]>> : k \in {k \in DOMAIN s : k[2] = n[1]}} : n \in moves}
           operand(v) == (CHOOSE n \in moves : n[2] = v)[1]
           q == [k \in keys |-> s[<<k[1], operand(k[2])>>]]
           t == Rekey(s, moves)
<1>1. t = Join(s, q)
  BY DEF Rekey
<1>2. \A m \in moves : m[1] \in Values /\ m[2] \in Values
  OBVIOUS
<1>3. \A j \in keys : \E m \in moves : \E k \in DOMAIN s : k[2] = m[1] /\ j = <<k[1], m[2]>>
  OBVIOUS
<1>4. ASSUME NEW m \in moves PROVE operand(m[2]) = m[1]
  <2>1. (CHOOSE n \in moves : n[2] = m[2]) = m
    OBVIOUS
  <2> QED BY <2>1
<1>5. ASSUME NEW m \in moves, NEW k \in DOMAIN s, k[2] = m[1]
      PROVE  /\ k = <<k[1], m[1]>> /\ IsKey(f, <<k[1], m[2]>>)
             /\ s[<<k[1], m[1]>>] \in TokenType(f)
  <2>1. IsKey(f, k) /\ ~IsSource(k)
    BY <1>2, <1>5, KeyFacts DEF IsState
  <2>2. PICK b \in DOMAIN CounterMax \ {"x"}, v \in Values \union {Unknown} :
           k = <<b, v>> /\ b \in Counters(f.family)
    BY <2>1, KeyFacts
  <2>3. k[1] = b /\ v = m[1]
    BY <1>5, <2>2
  <2>4. IsKey(f, <<b, m[2]>>)
    BY <1>2, <2>2 DEF IsKey
  <2>5. s[k] \in TokenType(f)
    BY DEF IsState
  <2> QED BY <2>2, <2>3, <2>4, <2>5
<1>6. ASSUME NEW m \in moves, NEW k \in DOMAIN s, k[2] = m[1]
      PROVE  <<k[1], m[2]>> \in DOMAIN q /\ q[<<k[1], m[2]>>] = s[k]
  <2>1. <<k[1], m[2]>> \in keys
    BY <1>6
  <2>2. <<k[1], m[2]>>[1] = k[1] /\ <<k[1], m[2]>>[2] = m[2]
    OBVIOUS
  <2>3. q[<<k[1], m[2]>>] = s[<<k[1], operand(m[2])>>]
    <3> HIDE DEF keys, operand
    <3> QED BY <2>1, <2>2
  <2> HIDE DEF keys, operand
  <2> QED BY <1>4, <1>5, <1>6, <2>1, <2>3
<1>7. ASSUME NEW j \in keys
      PROVE  /\ IsKey(f, j) /\ q[j] \in TokenType(f)
             /\ \E k \in DOMAIN s : k[1] = j[1] /\ q[j] = s[k]
  <2>1. PICK m \in moves : \E k \in DOMAIN s : k[2] = m[1] /\ j = <<k[1], m[2]>>
    BY <1>3, <1>7
  <2>2. PICK k \in DOMAIN s : k[2] = m[1] /\ j = <<k[1], m[2]>>
    BY <2>1
  <2>3. j[1] = k[1]
    BY <2>2
  <2> HIDE DEF keys, q
  <2> QED BY <1>5, <1>6, <2>2, <2>3
<1>8. IsState(f, q) /\ \A k \in DOMAIN q : \E j \in DOMAIN s : j[1] = k[1] /\ q[k] = s[j]
  <2>1. q = [k \in DOMAIN q |-> q[k]] /\ DOMAIN q = keys
    OBVIOUS
  <2> HIDE DEF q, keys
  <2> QED BY <1>7, <2>1 DEF IsState
<1>9. IsState(f, t) /\ Below(s, t) /\ Below(q, t)
  <2>1. IsState(f, q)
    BY <1>8
  <2> HIDE DEF q, t
  <2>2. IsState(f, Join(s, q)) /\ Below(s, Join(s, q)) /\ Below(q, Join(s, q))
    BY <2>1, JoinFacts
  <2> QED BY <1>1, <2>2
<1>10. ASSUME NEW m \in moves, NEW c, c # "x", <<c, m[1]>> \in DOMAIN s
       PROVE  <<c, m[2]>> \in DOMAIN t /\ Covers(t[<<c, m[2]>>], s[<<c, m[1]>>])
  <2>1. <<c, m[1]>>[1] = c /\ <<c, m[1]>>[2] = m[1]
    OBVIOUS
  <2> HIDE DEF q, t
  <2>2. <<c, m[2]>> \in DOMAIN q /\ q[<<c, m[2]>>] = s[<<c, m[1]>>]
    BY <1>6, <1>10, <2>1
  <2> QED BY <1>9, <2>2 DEF Below
<1> HIDE DEF q
<1>11. \E r : /\ IsState(f, r) /\ t = Join(s, r)
              /\ \A k \in DOMAIN r : \E j \in DOMAIN s : j[1] = k[1] /\ r[k] = s[j]
  BY <1>1, <1>8
<1> HIDE DEF t
<1> QED BY <1>9, <1>10, <1>11 DEF Carries, t

(* collapseEscaping: what leaves its scope is kept under the unknown name. *)
LEMMA CollapseFacts ==
    ASSUME NEW f, WellFormed(f), NEW s, IsState(f, s), NEW vis
    PROVE  LET t == CollapseEscaping(s, vis)
           IN  /\ IsState(f, t)
               /\ \A k \in DOMAIN s : IsSource(k) \/ k[2] \in vis \union {Unknown} =>
                     k \in DOMAIN t /\ Covers(t[k], s[k])
               /\ \A c, v : <<c, v>> \in DOMAIN s /\ c # "x" =>
                     \/ <<c, v>> \in DOMAIN t /\ Covers(t[<<c, v>>], s[<<c, v>>])
                     \/ <<c, Unknown>> \in DOMAIN t /\ Covers(t[<<c, Unknown>>], s[<<c, v>>])
<1> DEFINE gone == {k \in DOMAIN s : ~IsSource(k) /\ k[2] \notin vis \union {Unknown}}
           kept == Restricted(s, DOMAIN s \ gone)
           same(c) == {g \in gone : g[1] = c}
           token(c) == MergeTokens({s[g] : g \in same(c)})
           keys == {<<g[1], Unknown>> : g \in gone}
           q == [k \in keys |-> token(k[1])]
           t == CollapseEscaping(s, vis)
<1>1. t = Join(kept, q)
  BY DEF CollapseEscaping
<1>2. IsState(f, kept) /\ DOMAIN kept = DOMAIN s \ gone
      /\ \A k \in DOMAIN s \ gone : kept[k] = s[k]
  <2>1. DOMAIN s \ gone \subseteq DOMAIN s
    OBVIOUS
  <2> HIDE DEF gone
  <2> QED BY <2>1, PartFacts
<1>3. ASSUME NEW g \in gone
      PROVE  /\ IsKey(f, <<g[1], Unknown>>) /\ token(g[1]) \in TokenType(f)
             /\ Covers(token(g[1]), s[g])
  <2>1. g \in DOMAIN s /\ ~IsSource(g) /\ IsKey(f, g)
    BY DEF IsState
  <2>2. PICK b \in DOMAIN CounterMax \ {"x"}, v \in Values \union {Unknown} :
           g = <<b, v>> /\ b \in Counters(f.family)
    BY <2>1, KeyFacts
  <2>3. g[1] = b
    BY <2>2
  <2>4. IsKey(f, <<b, Unknown>>)
    BY <2>2 DEF IsKey
  <2> DEFINE ts == {s[h] : h \in same(g[1])}
  <2>5. ts \subseteq TokenType(f) /\ s[g] \in ts
    BY DEF IsState
  <2>6. MergeTokens(ts) \in TokenType(f) /\ Covers(MergeTokens(ts), s[g])
    <3> HIDE DEF ts
    <3> QED BY <2>5, MergeFacts
  <2> QED BY <2>3, <2>4, <2>6
<1>4. ASSUME NEW g \in gone
      PROVE  <<g[1], Unknown>> \in DOMAIN q /\ q[<<g[1], Unknown>>] = token(g[1])
  <2>1. <<g[1], Unknown>> \in keys /\ <<g[1], Unknown>>[1] = g[1]
    OBVIOUS
  <2> HIDE DEF keys, token
  <2> QED BY <2>1
<1>5. IsState(f, q)
  <2>1. q = [k \in DOMAIN q |-> q[k]] /\ DOMAIN q = keys
    OBVIOUS
  <2>2. ASSUME NEW j \in keys PROVE IsKey(f, j) /\ q[j] \in TokenType(f)
    <3>1. PICK g \in gone : j = <<g[1], Unknown>>
      BY <2>2
    <3> HIDE DEF keys, q, gone, token
    <3> QED BY <1>3, <1>4, <3>1
  <2> HIDE DEF q, keys
  <2> QED BY <2>1, <2>2 DEF IsState
<1>6. IsState(f, t) /\ Below(kept, t) /\ Below(q, t)
  <2>1. IsState(f, kept)
    BY <1>2
  <2> HIDE DEF q, kept, gone, same, token, keys, t
  <2> QED BY <1>1, <1>5, <2>1, JoinFacts
<1>7. ASSUME NEW k \in DOMAIN s, k \notin gone PROVE k \in DOMAIN t /\ Covers(t[k], s[k])
  <2> HIDE DEF t, kept, gone
  <2> QED BY <1>2, <1>6, <1>7 DEF Below
<1>8. ASSUME NEW g \in gone
      PROVE  /\ <<g[1], Unknown>> \in DOMAIN t
             /\ Covers(t[<<g[1], Unknown>>], s[g])
  <2> DEFINE k == <<g[1], Unknown>>
  <2>0. g \in DOMAIN s
    OBVIOUS
  <2>1. k \in DOMAIN q /\ q[k] = token(g[1])
    BY <1>4
  <2>2. Covers(token(g[1]), s[g]) /\ token(g[1]) \in TokenType(f)
    BY <1>3
  <2> HIDE DEF t, q, gone, token, k
  <2>3. k \in DOMAIN t /\ Covers(t[k], token(g[1]))
    BY <1>6, <2>1 DEF Below
  <2>4. t[k].pos \in Nat /\ token(g[1]).pos \in Nat /\ s[g].pos \in Nat
    BY <1>6, <2>0, <2>2, <2>3, TokenFacts DEF IsState
  <2>5. Covers(t[k], s[g])
    BY <2>2, <2>3, <2>4 DEF Covers
  <2> QED BY <2>3, <2>5 DEF k
<1>9. ASSUME NEW c, NEW v, <<c, v>> \in DOMAIN s
      PROVE  \/ <<c, v>> \in DOMAIN t /\ Covers(t[<<c, v>>], s[<<c, v>>])
             \/ <<c, Unknown>> \in DOMAIN t /\ Covers(t[<<c, Unknown>>], s[<<c, v>>])
  <2>1. <<c, v>>[1] = c
    OBVIOUS
  <2>2. CASE <<c, v>> \notin gone
    BY <1>7, <1>9, <2>2
  <2>3. CASE <<c, v>> \in gone
    <3> HIDE DEF t, gone
    <3> QED BY <1>8, <2>1, <2>3
  <2> QED BY <2>2, <2>3
<1>10. ASSUME NEW k \in DOMAIN s, IsSource(k) \/ k[2] \in vis \union {Unknown}
       PROVE  k \notin gone
  BY <1>10
<1> HIDE DEF t, gone
<1> QED BY <1>6, <1>7, <1>9, <1>10 DEF t

LEMMA CovCollapse ==
    ASSUME NEW f, WellFormed(f), NEW s, IsState(f, s), NEW fl, IsFlight(f, fl),
           Cov(f, s, fl), NEW vis, InScope(fl, vis)
    PROVE  Cov(f, CollapseEscaping(s, vis), fl)
<1> DEFINE t == CollapseEscaping(s, vis)
<1>0. SUFFICES ASSUME NEW i \in DOMAIN fl
               PROVE  Covered(f, t, fl[i], Cardinality(Behind(fl, i)), Cardinality(Unread(fl, i)))
  BY DEF Cov
<1> DEFINE e == fl[i]
           c == fl[i].ctr
           d == Cardinality(Behind(fl, i))
           x == Cardinality(Unread(fl, i))
<1>1. Covered(f, s, e, d, x) /\ d \in Nat /\ x \in Nat /\ IsEntry(f, e) /\ c # "x"
  BY DistanceFacts, EntryFacts DEF Cov, IsFlight
<1>2. IsState(f, t)
  BY CollapseFacts
<1>3. ASSUME NEW k \in DOMAIN s, IsSource(k) \/ k[2] \in vis \union {Unknown}
      PROVE  k \in DOMAIN t /\ Covers(t[k], s[k])
  BY <1>3, CollapseFacts
<1>4. ASSUME NEW v, <<c, v>> \in DOMAIN s
      PROVE  \/ <<c, v>> \in DOMAIN t /\ Covers(t[<<c, v>>], s[<<c, v>>])
             \/ <<c, Unknown>> \in DOMAIN t /\ Covers(t[<<c, Unknown>>], s[<<c, v>>])
  BY <1>1, <1>4, CollapseFacts
<1>5. \A ev : Unknown \in Names(f, ev)
  BY DEF Names
<1>6. e.vals \subseteq vis
  BY DEF InScope
<1> HIDE DEF t, d, x
<1>7. Recorded(f, s, c) \subseteq Recorded(f, t, c)
  BY <1>4, <1>5 DEF Recorded, Covers
<1>8. Mixed(c, Recorded(f, s, c)) => Mixed(c, Recorded(f, t, c))
  BY <1>7, MixedGrows
<1>9. ASSUME NEW v, Knows(f, s, e, v, d), NEW u,
             <<c, u>> \in DOMAIN t, Covers(t[<<c, u>>], s[<<c, v>>])
      PROVE  Knows(f, t, e, u, d)
  <2>1. <<c, v>> \in DOMAIN s
    BY <1>9 DEF Knows
  <2>2. s[<<c, v>>].pos \in Nat /\ t[<<c, u>>].pos \in Nat
    BY <1>2, <1>9, <2>1, TokenFacts DEF IsState
  <2>3. s[<<c, v>>].pos <= d => t[<<c, u>>].pos <= d
    BY <1>1, <1>9, <2>2 DEF Covers
  <2> QED BY <1>8, <1>9, <2>3 DEF Knows, Covers
<1>10. ASSUME NEW v \in e.vals
       PROVE  Knows(f, t, e, v, d) /\ (e.writes => t[<<e.ctr, v>>].writes)
  <2>1. Knows(f, s, e, v, d) /\ (e.writes => s[<<e.ctr, v>>].writes)
    BY <1>1, <1>10 DEF Covered
  <2>2. <<c, v>> \in DOMAIN s /\ <<c, v>>[2] \in vis
    BY <1>6, <2>1 DEF Knows
  <2>3. <<c, v>> \in DOMAIN t /\ Covers(t[<<c, v>>], s[<<c, v>>])
    BY <1>3, <2>2
  <2> QED BY <1>9, <2>1, <2>3 DEF Covers
<1>11. e.event # "SccWrite" => \E v \in Names(f, e.event) : Knows(f, t, e, v, d)
  <2>1. SUFFICES ASSUME NEW v \in Names(f, e.event), Knows(f, s, e, v, d)
                 PROVE  \E u \in Names(f, e.event) : Knows(f, t, e, u, d)
    BY <1>1 DEF Covered
  <2>2. <<c, v>> \in DOMAIN s
    BY <2>1 DEF Knows
  <2> QED BY <1>4, <1>5, <1>9, <2>1, <2>2
<1>12. ASSUME NEW r \in e.unread
       PROVE  /\ <<"x", r, Group(e.event)>> \in DOMAIN t
              /\ IF e.event = "Smem" THEN t[<<"x", r, Group(e.event)>>].ooo
                 ELSE t[<<"x", r, Group(e.event)>>].pos <= x
  <2> DEFINE k == <<"x", r, Group(e.event)>>
  <2>1. k \in DOMAIN s /\ (IF e.event = "Smem" THEN s[k].ooo ELSE s[k].pos <= x) /\ IsSource(k)
    BY <1>1, <1>12, PairFacts DEF Covered
  <2> HIDE DEF k
  <2>2. k \in DOMAIN t /\ Covers(t[k], s[k])
    BY <1>3, <2>1
  <2>3. s[k].pos \in Nat /\ t[k].pos \in Nat
    BY <1>2, <2>1, <2>2, TokenFacts DEF IsState
  <2>4. k \in DOMAIN t /\ IF e.event = "Smem" THEN t[k].ooo ELSE t[k].pos <= x
    BY <1>1, <2>1, <2>2, <2>3 DEF Covers
  <2> QED BY <2>4 DEF k
<1>13. Covered(f, t, e, d, x)
  BY <1>10, <1>11, <1>12 DEF Covered
<1> QED BY <1>13 DEF t, d, x

-----------------------------------------------------------------------------
(* The hardware's own steps. *)

HasRead(fl, i) == [fl EXCEPT ![i].unread = {}]

(* The X counter is in order: reading registers brings nobody forward. *)
LEMMA CovRead ==
    ASSUME NEW f, WellFormed(f), NEW s, IsState(f, s), NEW fl, IsFlight(f, fl),
           Cov(f, s, fl), NEW i \in DOMAIN fl, MayRead(fl, i)
    PROVE  /\ IsFlight(f, HasRead(fl, i)) /\ Cov(f, s, HasRead(fl, i))
           /\ \A j \in DOMAIN HasRead(fl, i) : HasRead(fl, i)[j].vals = fl[j].vals
<1> DEFINE gl == [fl EXCEPT ![i].unread = {}]
<1>1. PICK n \in 0..f.flights : fl \in [1..n -> FlightType(f)]
  BY DEF IsFlight
<1>2. DOMAIN gl = DOMAIN fl /\ DOMAIN fl = 1..n /\ n \in Nat
  BY <1>1 DEF WellFormed
<1>3. ASSUME NEW j \in DOMAIN fl
      PROVE  /\ gl[j].ctr = fl[j].ctr /\ gl[j].event = fl[j].event /\ gl[j].ooo = fl[j].ooo
             /\ gl[j].writes = fl[j].writes /\ gl[j].vals = fl[j].vals
             /\ gl[j].unread = IF j = i THEN {} ELSE fl[j].unread
             /\ gl[j] \in FlightType(f) /\ IsEntry(f, gl[j])
  <2>1. fl[j] \in FlightType(f) /\ IsEntry(f, fl[j])
    BY DEF IsFlight, IsEntry
  <2>2. gl[j] = IF j = i THEN [fl[j] EXCEPT !.unread = {}] ELSE fl[j]
    BY <1>1
  <2> HIDE DEF gl
  <2>3. /\ gl[j].ctr = fl[j].ctr /\ gl[j].event = fl[j].event /\ gl[j].ooo = fl[j].ooo
        /\ gl[j].writes = fl[j].writes /\ gl[j].vals = fl[j].vals
        /\ gl[j].unread = IF j = i THEN {} ELSE fl[j].unread
        /\ gl[j] \in FlightType(f)
    <3>1. CASE j = i
      BY <2>1, <2>2, <3>1 DEF FlightType
    <3>2. CASE j # i
      BY <2>1, <2>2, <3>2
    <3> QED BY <3>1, <3>2
  <2>4. IsEntry(f, gl[j])
    <3>1. gl[j].unread # {} => fl[j].unread # {}
      BY <2>3
    <3> QED BY <2>1, <2>3, <3>1 DEF IsEntry
  <2> QED BY <2>3, <2>4
<1>4. gl \in [1..n -> FlightType(f)]
  <2>1. gl = [j \in 1..n |-> gl[j]]
    BY <1>1
  <2> HIDE DEF gl
  <2> QED BY <1>2, <1>3, <2>1
<1> HIDE DEF gl
<1>5. IsFlight(f, gl)
  <2>1. \A j \in DOMAIN fl : gl[j].unread # {} => fl[j].unread # {}
    BY <1>3
  <2> QED BY <1>1, <1>2, <1>3, <1>4, <2>1 DEF IsFlight
<1>6. Cov(f, s, gl)
  <2>1. SUFFICES ASSUME NEW j \in DOMAIN fl
                 PROVE  Covered(f, s, gl[j], Cardinality(Behind(gl, j)),
                                Cardinality(Unread(gl, j)))
    BY <1>2 DEF Cov
  <2>2. Covered(f, s, fl[j], Cardinality(Behind(fl, j)), Cardinality(Unread(fl, j)))
    BY DEF Cov
  <2>3. Behind(gl, j) = Behind(fl, j)
    BY <1>2, <1>3 DEF Behind
  <2>4. ASSUME gl[j].unread # {} PROVE Unread(gl, j) = Unread(fl, j)
    <3>1. j # i /\ fl[j].unread # {}
      BY <1>3, <2>4
    <3>2. ~(j < i)
      BY <3>1 DEF MayRead
    <3>3. i \in Nat /\ j \in Nat
      BY <1>2
    <3>4. \A k \in DOMAIN fl : k > j => k # i
      BY <1>2, <3>1, <3>2, <3>3
    <3> QED BY <1>2, <1>3, <3>4 DEF Unread
  <2>5. \A v, d : Knows(f, s, fl[j], v, d) => Knows(f, s, gl[j], v, d)
    BY <1>3 DEF Knows
  <2>6. gl[j].unread # {} => gl[j].unread = fl[j].unread
    BY <1>3
  <2>7. \A v \in gl[j].vals : /\ Knows(f, s, gl[j], v, Cardinality(Behind(gl, j)))
                              /\ gl[j].writes => s[<<gl[j].ctr, v>>].writes
    BY <1>3, <2>2, <2>3, <2>5 DEF Covered
  <2>8. gl[j].event # "SccWrite" => \E v \in Names(f, gl[j].event) :
                                       Knows(f, s, gl[j], v, Cardinality(Behind(gl, j)))
    BY <1>3, <2>2, <2>3, <2>5 DEF Covered
  <2>9. ASSUME NEW r \in gl[j].unread
        PROVE  /\ <<"x", r, Group(gl[j].event)>> \in DOMAIN s
               /\ IF gl[j].event = "Smem" THEN s[<<"x", r, Group(gl[j].event)>>].ooo
                  ELSE s[<<"x", r, Group(gl[j].event)>>].pos <= Cardinality(Unread(gl, j))
    <3>1. r \in fl[j].unread /\ gl[j].event = fl[j].event /\ Unread(gl, j) = Unread(fl, j)
      BY <1>3, <2>4, <2>6, <2>9
    <3> QED BY <2>2, <3>1 DEF Covered
  <2> QED BY <2>7, <2>8, <2>9 DEF Covered
<1> QED BY <1>2, <1>3, <1>5, <1>6 DEF gl, HasRead

-----------------------------------------------------------------------------
(* Completion. *)

LEMMA ShiftCount ==
    ASSUME NEW n \in Nat, NEW i \in 1..n, NEW A, A \subseteq (1..n) \ {i},
           NEW B, B \subseteq 1..(n - 1), \A k \in A : (IF k < i THEN k ELSE k - 1) \in B
    PROVE  Cardinality(A) <= Cardinality(B)
<1> DEFINE q == [k \in A |-> IF k < i THEN k ELSE k - 1]
<1>1. q \in [A -> B]
  OBVIOUS
<1>2. \A k, m \in A : q[k] = q[m] => k = m
  OBVIOUS
<1>3. q \in Injection(A, B)
  BY <1>1, <1>2 DEF Injection, IsInjective
<1>4. IsFiniteSet(1..(n - 1))
  BY FS_Interval
<1>5. IsFiniteSet(B)
  BY <1>4, FS_Subset
<1> HIDE DEF q
<1> QED BY <1>3, <1>5, FS_Injection

LEMMA WithoutFacts ==
    ASSUME NEW f, WellFormed(f), NEW fl, IsFlight(f, fl), NEW i \in DOMAIN fl
    PROVE  LET gl == Without(fl, i)
               n == Cardinality(DOMAIN fl)
               from(j) == IF j < i THEN j ELSE j + 1
           IN  /\ n \in Nat /\ DOMAIN fl = 1..n /\ DOMAIN gl = 1..(n - 1)
               /\ \A j \in DOMAIN gl : from(j) \in DOMAIN fl /\ gl[j] = fl[from(j)]
               /\ IsFlight(f, gl)
<1> DEFINE gl == Without(fl, i)
           n == Cardinality(DOMAIN fl)
           from(j) == IF j < i THEN j ELSE j + 1
<1>1. /\ n \in Nat /\ n <= f.flights /\ DOMAIN fl = 1..n /\ f.flights \in Nat
      /\ fl \in [1..n -> FlightType(f)]
  BY FlightFacts DEF WellFormed
<1> HIDE DEF n
<1>2. gl = [j \in 1..(n - 1) |-> IF j < i THEN fl[j] ELSE fl[j + 1]]
  BY DEF Without, n
<1> HIDE DEF gl
<1>3. DOMAIN gl = 1..(n - 1) /\ n - 1 \in 0..f.flights
  BY <1>1, <1>2
<1>4. \A j \in DOMAIN gl : from(j) \in DOMAIN fl /\ gl[j] = fl[from(j)]
  BY <1>1, <1>2, <1>3
<1> HIDE DEF from
<1>5. gl \in [1..(n - 1) -> FlightType(f)]
  <2>1. \A j \in 1..(n - 1) : gl[j] \in FlightType(f)
    BY <1>1, <1>3, <1>4
  <2>2. gl = [j \in 1..(n - 1) |-> gl[j]]
    BY <1>2
  <2> QED BY <2>1, <2>2
<1>6. IsFlight(f, gl)
  BY <1>3, <1>4, <1>5 DEF IsFlight
<1> QED BY <1>1, <1>3, <1>4, <1>6 DEF gl, n, from

(* What overtakes an operation of its counter does so where the pass waits   *)
(* for 0: one of the two is a scalar load, or they are of two kinds.         *)
LEMMA OvertakenMixed ==
    ASSUME NEW f, WellFormed(f), NEW s, NEW e, IsEntry(f, e), NEW g, IsEntry(f, g),
           e.ctr = g.ctr, ~Ordered(e, g), ~e.ooo,
           e.event # "SccWrite" => e.event \in Recorded(f, s, e.ctr),
           g.event # "SccWrite" => g.event \in Recorded(f, s, e.ctr)
    PROVE  Mixed(e.ctr, Recorded(f, s, e.ctr))
<1>1. /\ e.event # "Smem"
      /\ e.ctr = "km" => e.event \in {"Message", "SccWrite"}
      /\ g.event = "Smem" <=> g.ooo
      /\ g.event = "Smem" => e.ctr \in {"km", "lgkm"}
      /\ g.ctr = "km" => g.event \in {"Smem", "Message", "SccWrite"}
      /\ e.event = "SccWrite" => e.ctr = "km"
      /\ g.event = "SccWrite" => e.ctr = "km"
  BY EntryFacts
<1>2. CASE g.event = "Smem"
  BY <1>1, <1>2 DEF Mixed
<1>3. CASE g.event # "Smem"
  <2>1. e.event # g.event /\ e.ctr \in {"lgkm", "km"}
    BY <1>1, <1>3 DEF Ordered
  <2>2. CASE e.ctr = "lgkm"
    BY <1>1, <2>1, <2>2 DEF Mixed
  <2>3. CASE e.ctr = "km"
    <3>1. \/ e.event = "Message" /\ g.event = "SccWrite"
          \/ g.event = "Message" /\ e.event = "SccWrite"
      BY <1>1, <1>3, <2>1, <2>3
    <3>2. /\ \E o \in Issuing(f) : e.event = o.event
          /\ \E o \in Issuing(f) : g.event = o.event
      BY DEF IsEntry
    <3> QED BY <3>1, <3>2 DEF WellFormed
  <2> QED BY <2>1, <2>2, <2>3
<1> QED BY <1>2, <1>3

LEMMA CovComplete ==
    ASSUME NEW f, WellFormed(f), NEW s, IsState(f, s), NEW fl, IsFlight(f, fl),
           Cov(f, s, fl), NEW i \in DOMAIN fl, MayComplete(fl, i)
    PROVE  Cov(f, s, Without(fl, i))
<1> DEFINE gl == Without(fl, i)
           n == Cardinality(DOMAIN fl)
           from(j) == IF j < i THEN j ELSE j + 1
           to(k) == IF k < i THEN k ELSE k - 1
<1>1. /\ n \in Nat /\ DOMAIN fl = 1..n /\ DOMAIN gl = 1..(n - 1)
      /\ \A j \in DOMAIN gl : from(j) \in DOMAIN fl /\ gl[j] = fl[from(j)]
      /\ IsFlight(f, gl)
  BY WithoutFacts
<1> HIDE DEF gl, n
<1>0. SUFFICES ASSUME NEW j \in DOMAIN gl
               PROVE  Covered(f, s, gl[j], Cardinality(Behind(gl, j)), Cardinality(Unread(gl, j)))
  BY DEF Cov, gl
<1> DEFINE k == from(j)
           e == fl[from(j)]
           d == Cardinality(Behind(fl, k))
           x == Cardinality(Unread(fl, k))
           d2 == Cardinality(Behind(gl, j))
           x2 == Cardinality(Unread(gl, j))
<1>2. k \in DOMAIN fl /\ gl[j] = e /\ k # i /\ i \in 1..n /\ k \in 1..n
  BY <1>1
<1>3. \A m \in DOMAIN fl : m # i =>
         /\ to(m) \in DOMAIN gl /\ gl[to(m)] = fl[m]
         /\ m > k => to(m) > j
  <2>1. ASSUME NEW m \in DOMAIN fl, m # i
        PROVE  to(m) \in DOMAIN gl /\ from(to(m)) = m /\ (m > k => to(m) > j)
    BY <1>1, <2>1
  <2> HIDE DEF to, from, k
  <2> QED BY <1>1, <2>1
<1>4. Covered(f, s, e, d, x) /\ d \in Nat /\ x \in Nat /\ IsEntry(f, e)
  <2> HIDE DEF from
  <2> QED BY <1>2, DistanceFacts DEF Cov, IsFlight
<1>5. d2 \in Nat /\ x2 \in Nat
  <2> HIDE DEF from
  <2> QED BY <1>1, DistanceFacts
<1>6. x <= x2
  <2> DEFINE A == Unread(fl, k)
             B == Unread(gl, j)
  <2>1. i \notin A /\ A \subseteq 1..n
    BY <1>1 DEF Unread, MayComplete
  <2>2. B \subseteq 1..(n - 1)
    BY <1>1 DEF Unread
  <2>3. \A m \in A : to(m) \in B
    <3> HIDE DEF to, from, k
    <3> QED BY <1>3, <2>1 DEF Unread
  <2> HIDE DEF A, B
  <2>4. A \subseteq (1..n) \ {i}
    BY <2>1
  <2>5. Cardinality(A) <= Cardinality(B)
    <3>1. \A m \in A : (IF m < i THEN m ELSE m - 1) \in B
      BY <2>3
    <3> HIDE DEF to
    <3> QED BY <1>1, <1>2, <2>2, <2>4, <3>1, ShiftCount
  <2> QED BY <2>5 DEF A, B
<1>7. i \notin Behind(fl, k) => d <= d2
  <2>0. SUFFICES ASSUME i \notin Behind(fl, k) PROVE d <= d2
    OBVIOUS
  <2> DEFINE A == Behind(fl, k)
             B == Behind(gl, j)
  <2>1. i \notin A /\ A \subseteq 1..n
    BY <1>1, <2>0 DEF Behind
  <2>2. B \subseteq 1..(n - 1)
    BY <1>1 DEF Behind
  <2>3. \A m \in A : to(m) \in B
    <3> HIDE DEF to, from
    <3> QED BY <1>2, <1>3, <2>1 DEF Behind
  <2> HIDE DEF A, B
  <2>4. A \subseteq (1..n) \ {i}
    BY <2>1
  <2>5. Cardinality(A) <= Cardinality(B)
    <3>1. \A m \in A : (IF m < i THEN m ELSE m - 1) \in B
      BY <2>3
    <3> HIDE DEF to
    <3> QED BY <1>1, <1>2, <2>2, <2>4, <3>1, ShiftCount
  <2> QED BY <2>5 DEF A, B
<1>8. i \in Behind(fl, k) => e.ooo \/ Mixed(e.ctr, Recorded(f, s, e.ctr))
  <2>0. SUFFICES ASSUME i \in Behind(fl, k), ~e.ooo
                 PROVE  Mixed(e.ctr, Recorded(f, s, e.ctr))
    OBVIOUS
  <2> DEFINE g == fl[i]
  <2>1. g.ctr = e.ctr /\ k < i
    BY <1>1, <1>2, <2>0 DEF Behind
  <2>2. ~Ordered(e, g)
    <3> HIDE DEF from
    <3> QED BY <1>2, <2>1 DEF MayComplete
  <2>3. IsEntry(f, g) /\ Covered(f, s, g, Cardinality(Behind(fl, i)), Cardinality(Unread(fl, i)))
    BY DEF Cov, IsFlight
  <2>4. ASSUME NEW h, IsEntry(f, h), NEW a, NEW b, Covered(f, s, h, a, b), h.ctr = e.ctr,
               h.event # "SccWrite"
        PROVE  h.event \in Recorded(f, s, e.ctr)
    <3>1. PICK v \in Names(f, h.event) : Knows(f, s, h, v, a)
      BY <2>4 DEF Covered
    <3>2. h.event \in DOMAIN Rules(f.family)
      BY <2>4, EntryFacts
    <3> HIDE DEF e, from, k
    <3> QED BY <2>4, <3>1, <3>2 DEF Knows, Recorded
  <2>5. g.event # "SccWrite" => g.event \in Recorded(f, s, e.ctr)
    <3> HIDE DEF e, k, from, g
    <3> QED BY <2>1, <2>3, <2>4
  <2>6. e.event # "SccWrite" => e.event \in Recorded(f, s, e.ctr)
    <3> HIDE DEF e, k, from, g, d, x
    <3> QED BY <1>4, <2>4
  <2> HIDE DEF e, k, from, g
  <2> QED BY <1>4, <2>0, <2>1, <2>2, <2>3, <2>5, <2>6, OvertakenMixed
<1> HIDE DEF d, d2, x, x2, e, k, from, to
<1>9. ASSUME NEW v, Knows(f, s, e, v, d) PROVE Knows(f, s, e, v, d2)
  <2>1. CASE i \in Behind(fl, k)
    BY <1>8, <1>9, <2>1 DEF Knows
  <2>2. CASE i \notin Behind(fl, k)
    <3>1. s[<<e.ctr, v>>].pos \in Nat
      BY <1>9, TokenFacts DEF Knows, IsState
    <3> QED BY <1>4, <1>5, <1>7, <1>9, <2>2, <3>1 DEF Knows
  <2> QED BY <2>1, <2>2
<1>10. ASSUME NEW r \in e.unread, <<"x", r, Group(e.event)>> \in DOMAIN s,
              s[<<"x", r, Group(e.event)>>].pos <= x
       PROVE  s[<<"x", r, Group(e.event)>>].pos <= x2
  <2>1. s[<<"x", r, Group(e.event)>>].pos \in Nat
    BY <1>10, TokenFacts DEF IsState
  <2> QED BY <1>4, <1>5, <1>6, <1>10, <2>1
<1>11. Covered(f, s, e, d2, x2)
  BY <1>4, <1>9, <1>10 DEF Covered
<1> QED BY <1>2, <1>11 DEF d2, x2

-----------------------------------------------------------------------------
(* One operation: the wait in front of it, its issue and its results. *)

LEMMA BelowItself ==
    ASSUME NEW f, NEW s, IsState(f, s)
    PROVE  Below(s, s)
BY TokenFacts DEF Below, IsState

(* The values that the results of op stand for from now on. *)
Meaning(op) ==
    [v \in op.results |->
        CASE op.kind = "barrier" -> op.values \union op.tokens
          [] op.kind = "token" -> op.tokens
          [] ReadOnlyIssuer(op) -> IF v \in MemTokens THEN op.tokens ELSE {}
          [] OTHER -> {}]

LEMMA MeaningFacts ==
    ASSUME NEW op
    PROVE  /\ DOMAIN Meaning(op) = op.results
           /\ op.kind = "barrier" =>
                 \A v \in op.results : Meaning(op)[v] = op.values \union op.tokens
           /\ op.kind = "token" => \A v \in op.results : Meaning(op)[v] = op.tokens
           /\ op.kind \in {"free", "generic", "signal"} =>
                 \A v \in op.results : Meaning(op)[v] = {}
           /\ op.kind = "issuer" =>
                 \A v \in op.results :
                    Meaning(op)[v] = IF ~op.writes /\ v \in MemTokens THEN op.tokens ELSE {}
BY DEF Meaning, ReadOnlyIssuer

LEMMA RunPassive ==
    ASSUME NEW f, WellFormed(f), NEW op, op.kind \notin {"issuer", "signal"},
           NEW fl, IsFlight(f, fl)
    PROVE  Run(fl, op) = Rebind(fl, Meaning(op))
<1> DEFINE n == Cardinality(DOMAIN fl)
           gl == Rebind(fl, Meaning(op))
<1>1. n \in Nat /\ DOMAIN fl = 1..n
  BY FlightFacts
<1>2. gl = [i \in DOMAIN fl |-> gl[i]]
  BY DEF Rebind
<1>3. Run(fl, op) = [i \in 1..(n + 0) |-> IF i <= n THEN gl[i] ELSE NewEntry(op)]
  BY DEF Run, Meaning, NewEntry
<1> HIDE DEF n, gl
<1>4. 1..(n + 0) = DOMAIN fl /\ \A i \in DOMAIN fl : i <= n
  BY <1>1
<1>5. [i \in 1..(n + 0) |-> IF i <= n THEN gl[i] ELSE NewEntry(op)] = [i \in DOMAIN fl |-> gl[i]]
  BY <1>4
<1> QED BY <1>2, <1>3, <1>5 DEF gl

LEMMA RunIssue ==
    ASSUME NEW f, WellFormed(f), NEW op \in Issuing(f), NEW fl, IsFlight(f, fl),
           InstructionReady(fl, op), Cardinality(DOMAIN fl) + op.count <= f.flights
    PROVE  LET gl == Run(fl, op)
               hl == Appended(fl, op)
           IN  /\ IsFlight(f, gl) /\ Same(hl, gl)
               /\ \A i \in DOMAIN hl : \A v \in gl[i].vals :
                     \/ v \in hl[i].vals
                     \/ /\ op.kind = "issuer" /\ ~op.writes
                        /\ v \in op.results \intersect MemTokens
                        /\ \E u \in op.tokens : u \in hl[i].vals
<1> DEFINE gl == Run(fl, op)
           hl == Appended(fl, op)
           n == Cardinality(DOMAIN fl)
           older == Rebind(fl, Meaning(op))
<1>1. /\ IsFlight(f, hl) /\ DOMAIN hl = 1..(n + op.count) /\ n \in Nat
      /\ DOMAIN fl = 1..n /\ op.count \in Nat
      /\ \A i \in DOMAIN fl :
           /\ i \in DOMAIN hl /\ hl[i].vals = fl[i].vals \ op.results
           /\ hl[i].ctr = fl[i].ctr /\ hl[i].event = fl[i].event
           /\ hl[i].ooo = fl[i].ooo /\ hl[i].writes = fl[i].writes
           /\ hl[i].unread = fl[i].unread
      /\ \A i \in DOMAIN hl : i \notin DOMAIN fl => hl[i] = NewEntry(op)
  BY AppendedFacts
<1>2. op.results \subseteq Values /\ op.results \intersect op.tokens = {}
  BY OperationFacts DEF IsOperation
<1>3. /\ IsFlight(f, older) /\ Same(fl, older)
      /\ \A i \in DOMAIN fl :
            older[i].vals = (fl[i].vals \ op.results) \union
               {v \in op.results : Meaning(op)[v] \intersect fl[i].vals # {}}
  <2>1. DOMAIN Meaning(op) = op.results
    BY MeaningFacts
  <2> HIDE DEF older
  <2> QED BY <1>2, <2>1, RebindFacts DEF older
<1>4. op.kind \in {"issuer", "signal"}
  BY DEF Issuing
<1>5. gl = [i \in 1..(n + op.count) |-> IF i <= n THEN older[i] ELSE NewEntry(op)]
  BY <1>4 DEF Run, Meaning, NewEntry
<1> HIDE DEF gl, hl, n, older
<1>6. /\ DOMAIN gl = DOMAIN hl
      /\ \A i \in DOMAIN fl : gl[i] = older[i]
      /\ \A i \in DOMAIN hl : i \notin DOMAIN fl => gl[i] = NewEntry(op)
  BY <1>1, <1>5
<1>7. Same(hl, gl)
  <2>1. ASSUME NEW i \in DOMAIN hl
        PROVE  /\ gl[i].ctr = hl[i].ctr /\ gl[i].event = hl[i].event /\ gl[i].ooo = hl[i].ooo
               /\ gl[i].writes = hl[i].writes /\ gl[i].unread = hl[i].unread
    <3>1. CASE i \in DOMAIN fl
      BY <1>1, <1>3, <1>6, <3>1 DEF Same
    <3>2. CASE i \notin DOMAIN fl
      BY <1>1, <1>6, <3>2
    <3> QED BY <3>1, <3>2
  <2> QED BY <1>6, <2>1 DEF Same
<1>8. ASSUME NEW i \in DOMAIN hl PROVE gl[i] \in FlightType(f) /\ IsEntry(f, gl[i])
  <2>1. CASE i \in DOMAIN fl
    BY <1>3, <1>6, <2>1 DEF IsFlight, IsEntry, Same
  <2>2. CASE i \notin DOMAIN fl
    BY <1>6, <2>2, NewEntryFacts DEF IsEntry
  <2> QED BY <2>1, <2>2
<1>9. IsFlight(f, gl)
  <2>1. n + op.count \in 0..f.flights
    BY <1>1 DEF n, WellFormed
  <2>2. gl = [i \in 1..(n + op.count) |-> gl[i]]
    BY <1>5
  <2>3. gl \in [1..(n + op.count) -> FlightType(f)]
    BY <1>1, <1>8, <2>2
  <2>4. \A i, j \in DOMAIN gl : gl[i].unread # {} /\ gl[j].unread # {} =>
           Group(gl[i].event) = Group(gl[j].event)
    <3>1. IsFlight(f, hl)
      BY <1>1
    <3>2. \A i, j \in DOMAIN hl : hl[i].unread # {} /\ hl[j].unread # {} =>
             Group(hl[i].event) = Group(hl[j].event)
      BY <3>1 DEF IsFlight
    <3>3. DOMAIN gl = DOMAIN hl
          /\ \A i \in DOMAIN hl : gl[i].unread = hl[i].unread /\ gl[i].event = hl[i].event
      BY <1>7 DEF Same
    <3> QED BY <3>2, <3>3
  <2> QED BY <1>6, <1>8, <2>1, <2>3, <2>4 DEF IsFlight
<1>10. ASSUME NEW i \in DOMAIN hl, NEW v \in gl[i].vals, v \notin hl[i].vals
       PROVE  /\ op.kind = "issuer" /\ ~op.writes
              /\ v \in op.results \intersect MemTokens
              /\ \E u \in op.tokens : u \in hl[i].vals
  <2>1. i \in DOMAIN fl
    BY <1>1, <1>6, <1>10
  <2>2. v \in op.results /\ Meaning(op)[v] \intersect fl[i].vals # {}
    BY <1>1, <1>3, <1>6, <1>10, <2>1
  <2>3. op.kind = "issuer" /\ ~op.writes /\ v \in MemTokens /\ Meaning(op)[v] = op.tokens
    BY <1>4, <2>2, MeaningFacts
  <2> QED BY <1>1, <1>2, <2>1, <2>2, <2>3
<1> QED BY <1>7, <1>9, <1>10 DEF gl, hl

LEMMA RebindScope ==
    ASSUME NEW f, WellFormed(f), NEW fl, IsFlight(f, fl), NEW sources,
           DOMAIN sources \subseteq Values, NEW vis, InScope(fl, vis)
    PROVE  InScope(Rebind(fl, sources), vis \union DOMAIN sources)
<1> DEFINE gl == Rebind(fl, sources)
<1>1. /\ Same(fl, gl)
      /\ \A i \in DOMAIN fl :
            gl[i].vals = (fl[i].vals \ DOMAIN sources) \union
               {v \in DOMAIN sources : sources[v] \intersect fl[i].vals # {}}
  BY RebindFacts
<1> HIDE DEF gl
<1> QED BY <1>1 DEF InScope, Same, gl

LEMMA RunScope ==
    ASSUME NEW f, WellFormed(f), NEW op \in f.ops, NEW fl, IsFlight(f, fl),
           InstructionReady(fl, op), Cardinality(DOMAIN fl) + op.count <= f.flights,
           NEW vis, InScope(fl, vis)
    PROVE  InScope(Run(fl, op), vis \union op.results)
<1>0. op.results \subseteq Values /\ DOMAIN Meaning(op) = op.results
  BY MeaningFacts DEF WellFormed, IsOperation
<1>1. CASE op.kind \in {"issuer", "signal"}
  <2> DEFINE gl == Run(fl, op)
             hl == Appended(fl, op)
  <2>0. op \in Issuing(f)
    BY <1>1 DEF Issuing
  <2>1. /\ Same(hl, gl)
        /\ \A i \in DOMAIN hl : \A v \in gl[i].vals : v \in hl[i].vals \/ v \in op.results
    BY <2>0, RunIssue
  <2>2. /\ \A i \in DOMAIN fl : hl[i].vals = fl[i].vals \ op.results
        /\ \A i \in DOMAIN hl : i \notin DOMAIN fl => hl[i].vals = op.results
    BY <2>0, AppendedFacts, NewEntryFacts
  <2> HIDE DEF gl, hl
  <2>3. \A i \in DOMAIN hl : hl[i].vals \subseteq vis \union op.results
    BY <2>2 DEF InScope
  <2>4. DOMAIN gl = DOMAIN hl
    BY <2>1 DEF Same
  <2> QED BY <2>1, <2>3, <2>4 DEF InScope, gl
<1>2. CASE op.kind \notin {"issuer", "signal"}
  BY <1>0, <1>2, RunPassive, RebindScope
<1> QED BY <1>1, <1>2

LEMMA WaitedFacts ==
    ASSUME NEW f, WellFormed(f), NEW op, NEW s, IsState(f, s), NEW fl, IsFlight(f, fl),
           Cov(f, s, fl), WaitDone(fl, Requirement(op, s)), InstructionReady(fl, op)
    PROVE  LET waited == ApplyWait(AfterSignal(op, s), Requirement(op, s))
           IN  IsState(f, waited) /\ Cov(f, waited, fl)
<1> DEFINE t == AfterSignal(op, s)
           req == Requirement(op, s)
<1>1. IsState(f, t)
  BY SignalFacts
<1>2. Cov(f, t, fl)
  BY CovSignal
<1>3. Waited(fl, req)
  BY RequirementFacts
<1> HIDE DEF t, req
<1>4. IsState(f, ApplyWait(t, req)) /\ Cov(f, ApplyWait(t, req), fl)
  BY <1>1, <1>2, <1>3, ApplyFacts, CovWait
<1> QED BY <1>4 DEF t, req

(* Results that only stand for other values. *)
LEMMA CovPassive ==
    ASSUME NEW f, WellFormed(f), NEW op \in f.ops, op.kind \notin {"issuer", "signal"},
           NEW s, IsState(f, s), NEW fl, IsFlight(f, fl), Cov(f, s, fl),
           NEW sources, sources \subseteq Values,
           \A v \in op.results : Meaning(op)[v] = sources
    PROVE  LET t == Join(s, Derived(s, sources, op.results))
           IN  IsState(f, t) /\ IsFlight(f, Run(fl, op)) /\ Same(fl, Run(fl, op))
               /\ Cov(f, t, Run(fl, op))
<1> DEFINE t == Join(s, Derived(s, sources, op.results))
           gl == Rebind(fl, Meaning(op))
<1>1. op.results \subseteq Values /\ DOMAIN Meaning(op) = op.results
  BY MeaningFacts DEF WellFormed, IsOperation
<1>2. Run(fl, op) = gl
  BY RunPassive
<1>3. /\ IsState(f, t) /\ Below(s, t)
      /\ \A u \in sources, v \in op.results : Carries(s, t, u, v)
  BY <1>1, DerivedFacts
<1>4. /\ IsFlight(f, gl) /\ Same(fl, gl)
      /\ \A i \in DOMAIN fl :
            gl[i].vals = (fl[i].vals \ op.results) \union
               {v \in op.results : Meaning(op)[v] \intersect fl[i].vals # {}}
  BY <1>1, RebindFacts
<1> HIDE DEF t, gl
<1>5. \A i \in DOMAIN fl : \A v \in gl[i].vals :
         v \in fl[i].vals \/ \E u \in fl[i].vals : Carries(s, t, u, v)
  BY <1>3, <1>4
<1>6. Cov(f, t, gl)
  BY <1>3, <1>4, <1>5, CovExtend
<1> QED BY <1>2, <1>3, <1>4, <1>6 DEF t

(* Results that stand for nothing in flight. *)
LEMMA CovDefine ==
    ASSUME NEW f, WellFormed(f), NEW op \in f.ops, op.kind \in {"free", "generic"},
           NEW s, IsState(f, s), NEW fl, IsFlight(f, fl), Cov(f, s, fl)
    PROVE  /\ IsFlight(f, Run(fl, op)) /\ Same(fl, Run(fl, op))
           /\ Cov(f, s, Run(fl, op))
<1> DEFINE gl == Rebind(fl, Meaning(op))
<1>1. /\ op.results \subseteq Values /\ DOMAIN Meaning(op) = op.results
      /\ \A v \in op.results : Meaning(op)[v] = {}
  BY MeaningFacts DEF WellFormed, IsOperation
<1>2. Run(fl, op) = gl
  BY RunPassive
<1>3. /\ IsFlight(f, gl) /\ Same(fl, gl)
      /\ \A i \in DOMAIN fl :
            gl[i].vals = (fl[i].vals \ op.results) \union
               {v \in op.results : Meaning(op)[v] \intersect fl[i].vals # {}}
  BY <1>1, RebindFacts
<1> HIDE DEF gl
<1>4. \A i \in DOMAIN fl : \A v \in gl[i].vals : v \in fl[i].vals
  BY <1>1, <1>3
<1>5. Cov(f, s, gl)
  BY <1>3, <1>4, BelowItself, CovExtend
<1> QED BY <1>2, <1>3, <1>5

(* What is issued, and what its token results stand for. *)
LEMMA CovActive ==
    ASSUME NEW f, WellFormed(f), NEW op \in Issuing(f), NEW s, IsState(f, s),
           NEW fl, IsFlight(f, fl), Cov(f, s, fl), InstructionReady(fl, op),
           Cardinality(DOMAIN fl) + op.count <= f.flights
    PROVE  LET issued == RecordIssue(op, s)
               t == Join(issued, Derived(issued, op.tokens, op.results \intersect MemTokens))
           IN  /\ IsState(f, issued) /\ IsState(f, t)
               /\ op.kind = "signal" \/ op.writes => Cov(f, issued, Run(fl, op))
               /\ Cov(f, t, Run(fl, op))
<1> DEFINE issued == RecordIssue(op, s)
           t == Join(issued, Derived(issued, op.tokens, op.results \intersect MemTokens))
           gl == Run(fl, op)
           hl == Appended(fl, op)
<1>1. IsState(f, issued)
  BY IssueFacts
<1>2. Cov(f, issued, hl)
  BY CovIssue
<1>3. IsFlight(f, hl)
  BY AppendedFacts
<1>4. /\ Same(hl, gl)
      /\ \A i \in DOMAIN hl : \A v \in gl[i].vals :
            \/ v \in hl[i].vals
            \/ /\ op.kind = "issuer" /\ ~op.writes
               /\ v \in op.results \intersect MemTokens
               /\ \E u \in op.tokens : u \in hl[i].vals
  BY RunIssue
<1>5. op.tokens \subseteq Values /\ op.results \subseteq Values
  BY OperationFacts DEF IsOperation
<1> HIDE DEF issued, gl, hl
<1>6. /\ IsState(f, t) /\ Below(issued, t)
      /\ \A u \in op.tokens, v \in op.results \intersect MemTokens : Carries(issued, t, u, v)
  <2>1. op.results \intersect MemTokens \subseteq Values
    BY <1>5
  <2> QED BY <1>1, <1>5, <2>1, DerivedFacts
<1> HIDE DEF t
<1>7. Cov(f, t, gl)
  <2>1. \A i \in DOMAIN hl : \A v \in gl[i].vals :
           v \in hl[i].vals \/ \E u \in hl[i].vals : Carries(issued, t, u, v)
    BY <1>4, <1>6
  <2> QED BY <1>1, <1>2, <1>3, <1>4, <1>6, <2>1, CovExtend
<1>8. ASSUME op.kind = "signal" \/ op.writes PROVE Cov(f, issued, gl)
  <2>1. \A i \in DOMAIN hl : \A v \in gl[i].vals : v \in hl[i].vals
    BY <1>4, <1>8
  <2> QED BY <1>1, <1>2, <1>3, <1>4, <2>1, BelowItself, CovExtend
<1> QED BY <1>1, <1>6, <1>7, <1>8 DEF t, issued, gl

LEMMA NothingUnread ==
    ASSUME NEW f, WellFormed(f), NEW op \in f.ops, op.drains, NEW fl, IsFlight(f, fl),
           InstructionReady(fl, op), Cardinality(DOMAIN fl) + op.count <= f.flights
    PROVE  \A i \in DOMAIN Run(fl, op) : Run(fl, op)[i].unread = {}
<1> DEFINE gl == Run(fl, op)
<1>1. \A i \in DOMAIN fl : fl[i].unread = {}
  BY DEF InstructionReady
<1>2. CASE op.kind \in {"issuer", "signal"}
  <2> DEFINE hl == Appended(fl, op)
  <2>0. op \in Issuing(f)
    BY <1>2 DEF Issuing
  <2>1. Same(hl, gl)
    BY <2>0, RunIssue
  <2>2. ~UsesX(op)
    BY <2>0, OperationFacts DEF IsIssuer
  <2>3. \A i \in DOMAIN hl : hl[i].unread = {}
    BY <1>1, <2>0, <2>2, AppendedFacts, NewEntryFacts
  <2> HIDE DEF hl
  <2> QED BY <2>1, <2>3 DEF Same
<1>3. CASE op.kind \notin {"issuer", "signal"}
  <2>1. gl = Rebind(fl, Meaning(op))
    BY <1>3, RunPassive
  <2>2. DOMAIN Meaning(op) \subseteq Values
    BY MeaningFacts DEF WellFormed, IsOperation
  <2>3. Same(fl, gl)
    BY <2>1, <2>2, RebindFacts
  <2> HIDE DEF gl
  <2> QED BY <1>1, <2>3 DEF Same, gl
<1> QED BY <1>2, <1>3

LEMMA CovExecute ==
    ASSUME NEW f, WellFormed(f), NEW op \in f.ops, NEW s, IsState(f, s), NEW fl,
           IsFlight(f, fl), Cov(f, s, fl), WaitDone(fl, Requirement(op, s)),
           InstructionReady(fl, op), Cardinality(DOMAIN fl) + op.count <= f.flights
    PROVE  /\ IsState(f, Transfer(op, s)) /\ IsFlight(f, Run(fl, op))
           /\ Cov(f, Transfer(op, s), Run(fl, op))
<1> DEFINE waited == ApplyWait(AfterSignal(op, s), Requirement(op, s))
           issued == RecordIssue(op, SwitchGroup(op, waited))
           after(t, sources, results) == Join(t, Derived(t, sources, results))
           next == CASE op.kind = "issuer"  ->
                          IF op.writes THEN issued
                          ELSE after(issued, op.tokens, op.results \intersect MemTokens)
                     [] op.kind = "signal"  -> RecordIssue(op, waited)
                     [] op.kind = "barrier" ->
                          after(waited, op.values \union op.tokens, op.results)
                     [] op.kind = "token"   -> after(s, op.tokens, op.results)
                     [] op.kind = "free"    -> s
                     [] op.kind = "generic" -> waited
           gl == Run(fl, op)
<1>1. Transfer(op, s) = IF op.drains THEN DrainX(next) ELSE next
  BY DEF Transfer
<1>2. IsState(f, waited) /\ Cov(f, waited, fl)
  BY WaitedFacts
<1>3. /\ IsOperation(f, op)
      /\ op.kind \in {"issuer", "signal", "barrier", "token", "free", "generic"}
      /\ op.values \subseteq Values /\ op.tokens \subseteq Values
  BY DEF WellFormed, IsOperation
<1>4. IsState(f, next) /\ IsFlight(f, gl) /\ Cov(f, next, gl)
  <2>1. CASE op.kind = "issuer"
    <3> DEFINE sw == SwitchGroup(op, waited)
    <3>0. op \in Issuing(f)
      BY <2>1 DEF Issuing
    <3>1. IsState(f, sw) /\ Cov(f, sw, fl)
      <4> HIDE DEF waited
      <4> QED BY <1>2, CovSwitch
    <3>2. next = IF op.writes THEN RecordIssue(op, sw)
                 ELSE Join(RecordIssue(op, sw),
                           Derived(RecordIssue(op, sw), op.tokens, op.results \intersect MemTokens))
      BY <2>1
    <3> HIDE DEF sw, next
    <3>3. IsFlight(f, gl)
      BY <3>0, RunIssue
    <3> QED BY <3>0, <3>1, <3>2, <3>3, CovActive
  <2>2. CASE op.kind = "signal"
    <3>0. op \in Issuing(f)
      BY <2>2 DEF Issuing
    <3>1. next = RecordIssue(op, waited)
      BY <2>2
    <3> HIDE DEF next, waited
    <3>2. IsFlight(f, gl)
      BY <3>0, RunIssue
    <3> QED BY <1>2, <2>2, <3>0, <3>1, <3>2, CovActive
  <2>3. CASE op.kind = "barrier"
    <3> DEFINE sources == op.values \union op.tokens
    <3>1. next = Join(waited, Derived(waited, sources, op.results))
      BY <2>3
    <3>2. \A v \in op.results : Meaning(op)[v] = sources
      BY <2>3, MeaningFacts
    <3>3. sources \subseteq Values
      BY <1>3
    <3> HIDE DEF next, waited, sources
    <3> QED BY <1>2, <2>3, <3>1, <3>2, <3>3, CovPassive
  <2>4. CASE op.kind = "token"
    <3>1. next = Join(s, Derived(s, op.tokens, op.results))
      BY <2>4
    <3>2. \A v \in op.results : Meaning(op)[v] = op.tokens
      BY <2>4, MeaningFacts
    <3> HIDE DEF next
    <3> QED BY <1>3, <2>4, <3>1, <3>2, CovPassive
  <2>5. CASE op.kind = "free"
    <3>1. next = s
      BY <2>5
    <3> HIDE DEF next
    <3> QED BY <2>5, <3>1, CovDefine
  <2>6. CASE op.kind = "generic"
    <3>1. next = waited
      BY <2>6
    <3> HIDE DEF next, waited
    <3> QED BY <1>2, <2>6, <3>1, CovDefine
  <2> QED BY <1>3, <2>1, <2>2, <2>3, <2>4, <2>5, <2>6
<1>5. CASE op.drains
  <2>1. \A i \in DOMAIN gl : gl[i].unread = {}
    BY <1>5, NothingUnread
  <2> HIDE DEF next, gl
  <2>2. IsState(f, DrainX(next)) /\ Cov(f, DrainX(next), gl)
    BY <1>4, <2>1, CovDrain
  <2> QED BY <1>1, <1>4, <1>5, <2>2 DEF gl
<1>6. CASE ~op.drains
  <2> HIDE DEF next
  <2> QED BY <1>1, <1>4, <1>6
<1> QED BY <1>5, <1>6

(* What the wait lets go finds its operands ready. *)
LEMMA ReadyToRead ==
    ASSUME NEW f, WellFormed(f), NEW op, NEW s, IsState(f, s), NEW fl, IsFlight(f, fl),
           Cov(f, s, fl), WaitDone(fl, Requirement(op, s)), InstructionReady(fl, op)
    PROVE  ~ReadsTooEarly(fl, op)
<1>1. SUFFICES ASSUME ReadsTooEarly(fl, op) PROVE FALSE
  OBVIOUS
<1>2. op.kind \notin {"token", "free"}
  BY <1>1 DEF ReadsTooEarly
<1> DEFINE t == AfterSignal(op, s)
<1>3. PICK i \in DOMAIN fl :
         \/ fl[i].vals \intersect op.values # {}
         \/ /\ fl[i].vals \intersect op.tokens # {}
            /\ ReadOnlyIssuer(op) => fl[i].writes
  BY <1>1 DEF ReadsTooEarly
<1>4. PICK v \in fl[i].vals :
         \/ v \in op.values
         \/ v \in op.tokens /\ (ReadOnlyIssuer(op) => fl[i].writes)
  BY <1>3
<1> DEFINE k == <<fl[i].ctr, v>>
<1>5. IsState(f, t) /\ Cov(f, t, fl)
  BY SignalFacts, CovSignal
<1>6. k \in DOMAIN t /\ (fl[i].writes => t[k].writes) /\ k[2] = v
  <2> HIDE DEF t
  <2> QED BY <1>5 DEF Cov, Covered, Knows
<1>7. k \in NeededKeys(op, t)
  <2> HIDE DEF t, k
  <2> QED BY <1>4, <1>6 DEF NeededKeys, TokenNeeded
<1>8. k \notin NeededKeys(op, t)
  BY <1>2, NeededDone
<1> QED BY <1>7, <1>8
=============================================================================
