-------------------------- MODULE WaitSolverProofs --------------------------
(***************************************************************************)
(* Proofs about WaitSolver, for all functions, values, registers, counter  *)
(* widths and numbers of trips that its assumptions allow.                 *)
(*                                                                         *)
(* The rewrite does not take the solver's states inside a block: it starts *)
(* from the one at the entry and computes the others again, from what it   *)
(* has just emitted.  The solver never takes back what it once found, so   *)
(* that its state may hold tokens that the rewrite knows to be drained.    *)
(* The proofs show when those do no harm: if they are behind everything    *)
(* the rewrite has on the same counter (Tracks), the two wait alike.       *)
(***************************************************************************)
EXTENDS WaitSolver, WaitLatticeProofs

-----------------------------------------------------------------------------
(* When the rewrite and the solver agree. *)

(* Every counter returns in order. *)
ReturnsInOrder(f) ==
    /\ \A op \in Issuing(f) : op.event # "Smem"
    /\ \A o, q \in Issuing(f) :
          Counter(o) = "lgkm" /\ Counter(q) = "lgkm" => o.event = q.event

(* Whether a token stands for a write is clear from its counter, or of no    *)
(* interest: only an issuer that reads, and is ordered by a token, asks.     *)
AgreeOnWrites(f) ==
    \A o, q \in Issuing(f) : Counter(o) = Counter(q) => o.writes = q.writes
WritesKnown(f) ==
    AgreeOnWrites(f) \/ \A op \in f.ops : ReadOnlyIssuer(op) => op.tokens = {}

-----------------------------------------------------------------------------
(* States of the legacy counter family. *)

LEMMA LegacyKey ==
    ASSUME NEW f, WellFormed(f), f.family = "legacy", NEW k, IsKey(f, k)
    PROVE  /\ ~IsSource(k) /\ k[1] \in DOMAIN CounterMax /\ k[1] \in Counters(f.family)
           /\ k[1] \in {"vm", "vs", "lgkm"} /\ k[2] \in Values \union {Unknown}
           /\ k = <<k[1], k[2]>>
<1>1. PICK c \in DOMAIN CounterMax \ {"x"}, v \in Values \union {Unknown} :
         k = <<c, v>> /\ c \in Counters(f.family)
  BY DEF IsKey
<1>2. Counters("legacy") \subseteq {"vm", "vs", "lgkm"}
  BY DEF Counters, Rules, LegacyRules
<1> QED BY <1>1, <1>2 DEF IsSource

LEMMA LegacySignal ==
    ASSUME NEW f, WellFormed(f), f.family = "legacy", NEW s, IsState(f, s), NEW op
    PROVE  AfterSignal(op, s) = s
<1>1. \A k \in DOMAIN s : k[1] # "km"
  BY LegacyKey DEF IsState
<1>2. {k \in DOMAIN s : /\ k[1] = "km" /\ k[2] \in op.completes
                        /\ "SccWrite" \in s[k].events} = {}
  BY <1>1
<1> QED BY <1>2 DEF AfterSignal

LEMMA LegacyIssuer ==
    ASSUME NEW f, WellFormed(f), f.family = "legacy", NEW op \in f.ops
    PROVE  /\ ~UsesX(op) /\ SourceKeys(op) = {}
           /\ op.kind \in {"issuer", "barrier", "token", "free", "generic"}
           /\ op.kind = "issuer" => op \in Issuing(f)
<1>1. op.family = "legacy" /\ op.kind \in {"issuer", "signal", "barrier", "token", "free", "generic"}
  BY DEF WellFormed, IsOperation
<1>2. ~UsesX(op) /\ SourceKeys(op) = {}
  BY <1>1 DEF UsesX, SourceKeys
<1>3. op.kind # "signal"
  <2>1. SUFFICES ASSUME op.kind = "signal" PROVE FALSE
    OBVIOUS
  <2>2. op \in Issuing(f)
    BY <2>1 DEF Issuing
  <2>3. op.event = "SccWrite" /\ op.event \in DOMAIN Rules("legacy")
    BY <2>1, <2>2 DEF WellFormed, IsIssuer
  <2> QED BY <2>3, RuleFacts
<1> QED BY <1>1, <1>2, <1>3 DEF Issuing

(* The state behind the wait in front of op. *)
Kept(op, s) == ApplyWait(AfterSignal(op, s), Requirement(op, s))

LEMMA KeptFacts ==
    ASSUME NEW f, WellFormed(f), f.family = "legacy", NEW s, IsState(f, s), NEW op
    PROVE  /\ IsState(f, Kept(op, s))
           /\ DOMAIN Kept(op, s) = {k \in DOMAIN s : ~DrainedBy(s, k, Requirement(op, s))}
           /\ \A k \in DOMAIN Kept(op, s) : Kept(op, s)[k] = s[k]
           /\ op.kind \in {"token", "free"} => Kept(op, s) = s
<1> DEFINE req == Requirement(op, s)
           w == Kept(op, s)
<1>1. w = ApplyWait(s, req)
  BY LegacySignal DEF Kept
<1>2. \A k \in DOMAIN s : ~IsSource(k)
  BY LegacyKey DEF IsState
<1>3. /\ IsState(f, w) /\ DOMAIN w \subseteq DOMAIN s /\ \A k \in DOMAIN w : w[k] = s[k]
      /\ \A k \in DOMAIN s : ~DrainedBy(s, k, req) => k \in DOMAIN w
  <2> HIDE DEF req, w
  <2> DEFINE v == ApplyWait(s, req)
  <2>1. /\ IsState(f, v) /\ DOMAIN v \subseteq DOMAIN s /\ \A k \in DOMAIN v : v[k] = s[k]
        /\ \A k \in DOMAIN s : ~IsSource(k) /\ ~DrainedBy(s, k, req) => k \in DOMAIN v
    BY ApplyFacts, Zenon
  <2> QED BY <1>1, <1>2, <2>1
<1>4. ASSUME NEW k \in DOMAIN w PROVE ~DrainedBy(s, k, req)
  <2> DEFINE dw == {j \in DOMAIN s : IsSource(j) \/ ~DrainedBy(s, j, req)}
  <2>1. DOMAIN w \subseteq dw
    <3> HIDE DEF req
    <3> QED BY <1>1 DEF ApplyWait, Restricted
  <2> QED BY <2>1, <1>2, <1>3
<1>5. DOMAIN w = {k \in DOMAIN s : ~DrainedBy(s, k, req)}
  <2> HIDE DEF w, req
  <2> QED BY <1>3, <1>4
<1>6. ASSUME op.kind \in {"token", "free"} PROVE w = s
  <2>1. DOMAIN req = {}
    BY <1>6 DEF Requirement, Empty
  <2>2. \A k \in DOMAIN s : ~DrainedBy(s, k, req)
    BY <2>1 DEF DrainedBy
  <2>3. DOMAIN w = DOMAIN s
    <3> HIDE DEF w, req
    <3> QED BY <1>5, <2>2
  <2>4. w = [k \in DOMAIN w |-> w[k]] /\ s = [k \in DOMAIN s |-> s[k]]
    <3> HIDE DEF w
    <3> QED BY <1>3 DEF IsState
  <2> HIDE DEF w
  <2> QED BY <1>3, <2>3, <2>4
<1> QED BY <1>3, <1>5, <1>6

-----------------------------------------------------------------------------
(* What merging tokens does. *)

(* Token x says what the tokens A say, and nothing else. *)
Merges(x, A) ==
    /\ \A a \in A : Covers(x, a)
    /\ \E a \in A : x.pos = a.pos
    /\ \A e \in x.events : \E a \in A : e \in a.events
    /\ x.ooo => \E a \in A : a.ooo
    /\ x.writes => \E a \in A : a.writes

LEMMA MergeMerges ==
    ASSUME NEW f, NEW A, A \subseteq TokenType(f), A # {}
    PROVE  Merges(MergeTokens(A), A) /\ MergeTokens(A) \in TokenType(f)
<1> DEFINE ps == {t.pos : t \in A}
           x == MergeTokens(A)
<1>1. x \in TokenType(f) /\ \A a \in A : Covers(x, a)
  BY MergeFacts
<1>2. ps \in SUBSET Nat /\ ps # {}
  BY TokenFacts
<1>3. Min(ps) \in ps
  <2> HIDE DEF ps
  <2> QED BY <1>2, MinFacts
<1>4. x.pos = Min(ps) /\ x.events = UNION {t.events : t \in A}
      /\ x.ooo = (\E t \in A : t.ooo) /\ x.writes = (\E t \in A : t.writes)
  BY DEF MergeTokens
<1>5. \E a \in A : x.pos = a.pos
  BY <1>3, <1>4
<1>6. \A e \in x.events : \E a \in A : e \in a.events
  <2> HIDE DEF x
  <2> QED BY <1>4
<1> HIDE DEF x
<1> QED BY <1>1, <1>4, <1>5, <1>6 DEF Merges, x

LEMMA MergesOne ==
    ASSUME NEW f, NEW x \in TokenType(f)
    PROVE  Merges(x, {x})
BY TokenFacts DEF Merges

LEMMA CoversTransitive ==
    ASSUME NEW x, NEW y, NEW z, x.pos \in Nat, y.pos \in Nat, z.pos \in Nat,
           Covers(x, y), Covers(y, z)
    PROVE  Covers(x, z)
BY DEF Covers

LEMMA MergesTwice ==
    ASSUME NEW f, NEW x, x \in TokenType(f), NEW A, A \subseteq TokenType(f),
           NEW B, B \subseteq TokenType(f), Merges(x, A),
           \A a \in A : \E S \in SUBSET B : Merges(a, S),
           \A b \in B : \E a \in A : Covers(a, b)
    PROVE  Merges(x, B)
<1>1. \A b \in B : Covers(x, b)
  BY TokenFacts, CoversTransitive DEF Merges
<1>2. \E b \in B : x.pos = b.pos
  BY DEF Merges
<1>3. \A e \in x.events : \E b \in B : e \in b.events
  BY DEF Merges
<1>4. x.ooo => \E b \in B : b.ooo
  BY DEF Merges
<1>5. x.writes => \E b \in B : b.writes
  BY DEF Merges
<1> QED BY <1>1, <1>2, <1>3, <1>4, <1>5 DEF Merges

-----------------------------------------------------------------------------
(* The parts of which runTransfer makes the token of a key. *)

(* A token behind the issue of op. *)
AgedToken(op, k, t) ==
    IF op.kind = "issuer" /\ k[1] = Counter(op)
      THEN [t EXCEPT !.pos = Bumped(@, op.count)] ELSE t

(* recordIssue makes a new token for k. *)
Fresh(op, k) ==
    /\ op.kind = "issuer"
    /\ k \in Tagged(op) \/ (op.results = {} /\ k = <<Counter(op), Unknown>>)

(* mergeSources: the values whose tokens go to the results Dsts(op). *)
Derives(op) == op.kind \in {"barrier", "token"} \/ ReadOnlyIssuer(op)
Sources(op) == IF op.kind = "barrier" THEN op.values \union op.tokens ELSE op.tokens
Dsts(op) == IF op.kind = "issuer" THEN op.results \intersect MemTokens ELSE op.results

Stays(op, k) == ~(op.kind = "issuer" /\ k \in Tagged(op))
Feeds(op, j, k) ==
    \/ j = k /\ Stays(op, k)
    \/ Derives(op) /\ j[1] = k[1] /\ j[2] \in Sources(op) /\ k[2] \in Dsts(op)

Own(op, w, k) ==
    (IF Fresh(op, k) THEN {Issued(op)} ELSE {}) \union
    (IF k \in DOMAIN w /\ Stays(op, k) THEN {AgedToken(op, k, w[k])} ELSE {})
Parts(op, w, k) ==
    (IF Fresh(op, k) THEN {Issued(op)} ELSE {}) \union
    {AgedToken(op, j, w[j]) : j \in {j \in DOMAIN w : Feeds(op, j, k)}}

LEMMA AgedFacts ==
    ASSUME NEW f, WellFormed(f), f.family = "legacy", NEW op \in f.ops, NEW k,
           NEW t \in TokenType(f)
    PROVE  /\ AgedToken(op, k, t) \in TokenType(f)
           /\ AgedToken(op, k, t).events = t.events /\ AgedToken(op, k, t).ooo = t.ooo
           /\ AgedToken(op, k, t).writes = t.writes
<1>1. CASE op.kind = "issuer" /\ k[1] = Counter(op)
  <2>1. op.count \in Nat
    BY <1>1, LegacyIssuer DEF WellFormed, IsIssuer
  <2>2. t.pos \in 0..PosMax
    BY DEF TokenType
  <2>3. Bumped(t.pos, op.count) \in 0..PosMax
    BY <2>1, <2>2, BumpedFacts
  <2> QED BY <1>1, <2>3 DEF AgedToken, TokenType
<1>2. CASE ~(op.kind = "issuer" /\ k[1] = Counter(op))
  BY <1>2 DEF AgedToken
<1> QED BY <1>1, <1>2

LEMMA PartsFacts ==
    ASSUME NEW f, WellFormed(f), f.family = "legacy", NEW op \in f.ops, NEW w,
           IsState(f, w), NEW k
    PROVE  /\ Own(op, w, k) \subseteq TokenType(f) /\ Parts(op, w, k) \subseteq TokenType(f)
           /\ Fresh(op, k) => Issued(op) \in TokenType(f) /\ IsKey(f, k)
           /\ op.kind = "issuer" => Issued(op) \in TokenType(f)
<1>1. op.kind = "issuer" => Issued(op) \in TokenType(f)
  BY LegacyIssuer, OperationFacts
<1>2. \A j \in DOMAIN w : AgedToken(op, j, w[j]) \in TokenType(f)
  BY AgedFacts DEF IsState
<1>3. Fresh(op, k) => IsKey(f, k)
  BY LegacyIssuer, OperationFacts DEF Fresh, IsKey
<1> QED BY <1>1, <1>2, <1>3 DEF Own, Parts, Fresh

(* recordIssue *)
LEMMA IssueShape ==
    ASSUME NEW f, WellFormed(f), f.family = "legacy", NEW op \in f.ops, op.kind = "issuer",
           NEW w, IsState(f, w)
    PROVE  LET x == RecordIssue(op, w)
           IN  /\ IsState(f, x)
               /\ \A k : k \in DOMAIN x <=> Fresh(op, k) \/ k \in DOMAIN w
               /\ \A k \in DOMAIN x : Merges(x[k], Own(op, w, k))
<1> DEFINE c == Counter(op)
           new == Issued(op)
           tagged == Tagged(op)
           older == [k \in DOMAIN w |->
                       IF k[1] \in {c} THEN [w[k] EXCEPT !.pos = Bumped(@, op.count)]
                                       ELSE w[k]]
           issued == [k \in DOMAIN w \union tagged |->
                        IF k \in tagged THEN new ELSE older[k]]
           unknown == [k \in {<<c, Unknown>>} |-> new]
           x == RecordIssue(op, w)
<1>0. /\ ~UsesX(op) /\ SourceKeys(op) = {} /\ op \in Issuing(f)
      /\ new \in TokenType(f)
      /\ \A k : Own(op, w, k) \subseteq TokenType(f)
  BY LegacyIssuer, PartsFacts
<1>1. x = IF tagged # {} THEN issued ELSE Join(issued, unknown)
  <2>1. {c} \union {} = {c} /\ tagged \union {} = tagged
    OBVIOUS
  <2>2. DOMAIN older = DOMAIN w
    OBVIOUS
  <2> QED BY <1>0, <2>1, <2>2 DEF RecordIssue, Tagged, Issued
<1>2. IsState(f, x)
  BY <1>0, IssueFacts
<1>3. ASSUME NEW k \in DOMAIN w PROVE older[k] = AgedToken(op, k, w[k])
  BY DEF AgedToken
<1>4. \A k : k \in tagged => Fresh(op, k) /\ ~Stays(op, k)
  BY DEF Fresh, Stays
<1>5. \A k : k \notin tagged => Stays(op, k)
  BY DEF Stays
<1>6. DOMAIN issued = DOMAIN w \union tagged
      /\ (\A k \in tagged : issued[k] = new)
      /\ \A k \in DOMAIN w \ tagged : issued[k] = AgedToken(op, k, w[k])
  <2> HIDE DEF new, older
  <2> QED BY <1>3
<1>7. CASE tagged # {}
  <2>1. x = issued
    BY <1>1, <1>7
  <2>2. op.results # {}
    BY <1>7 DEF Tagged
  <2>3. \A k : Fresh(op, k) <=> k \in tagged
    BY <2>2 DEF Fresh
  <2>4. ASSUME NEW k \in DOMAIN x PROVE Merges(x[k], Own(op, w, k))
    <3>1. x[k] \in TokenType(f)
      BY <1>2, <2>4 DEF IsState
    <3>2. Own(op, w, k) = {x[k]}
      <4> HIDE DEF issued, tagged, new
      <4> QED BY <1>4, <1>5, <1>6, <2>1, <2>3, <2>4 DEF Own, new
    <3> HIDE DEF x
    <3> QED BY <3>1, <3>2, MergesOne
  <2>5. \A k : k \in DOMAIN x <=> Fresh(op, k) \/ k \in DOMAIN w
    <3> HIDE DEF issued, tagged, x
    <3> QED BY <1>6, <2>1, <2>3
  <2> HIDE DEF x
  <2> QED BY <1>2, <2>4, <2>5 DEF x
<1>8. CASE tagged = {}
  <2>1. x = Join(issued, unknown)
    BY <1>1, <1>8
  <2>2. op.results = {}
    BY <1>8 DEF Tagged
  <2>3. \A k : Fresh(op, k) <=> k = <<c, Unknown>>
    BY <1>8, <2>2 DEF Fresh
  <2>4. DOMAIN issued = DOMAIN w /\ \A k \in DOMAIN w : issued[k] = AgedToken(op, k, w[k])
    <3> HIDE DEF issued, tagged
    <3> QED BY <1>6, <1>8
  <2>5. DOMAIN unknown = {<<c, Unknown>>} /\ unknown[<<c, Unknown>>] = new
    OBVIOUS
  <2>6. DOMAIN x = DOMAIN w \union {<<c, Unknown>>}
        /\ \A k \in DOMAIN x :
              x[k] = MergeTokens({u[k] : u \in {u \in {issued, unknown} : k \in DOMAIN u}})
    <3> HIDE DEF issued, unknown, x
    <3> QED BY <2>1, <2>4, <2>5 DEF Join
  <2>7. ASSUME NEW k \in DOMAIN x PROVE Merges(x[k], Own(op, w, k))
    <3> DEFINE T == {u[k] : u \in {u \in {issued, unknown} : k \in DOMAIN u}}
    <3>1. Stays(op, k)
      BY <1>5, <1>8
    <3>2. T = Own(op, w, k)
      <4> HIDE DEF issued, unknown, x, new
      <4>1. Own(op, w, k) = (IF k = <<c, Unknown>> THEN {new} ELSE {}) \union
                            (IF k \in DOMAIN w THEN {issued[k]} ELSE {})
        BY <2>3, <2>4, <3>1 DEF Own, new
      <4>2. T = (IF k \in DOMAIN issued THEN {issued[k]} ELSE {}) \union
                (IF k \in DOMAIN unknown THEN {unknown[k]} ELSE {})
        OBVIOUS
      <4> HIDE DEF T
      <4> QED BY <4>1, <4>2, <2>4, <2>5
    <3>3. Own(op, w, k) # {}
      <4> HIDE DEF x
      <4> QED BY <2>3, <2>6, <2>7, <3>1 DEF Own
    <3>4. x[k] = MergeTokens(T)
      <4> HIDE DEF x
      <4> QED BY <2>6, <2>7
    <3> HIDE DEF T, x
    <3> QED BY <1>0, <3>2, <3>3, <3>4, MergeMerges
  <2>8. \A k : k \in DOMAIN x <=> Fresh(op, k) \/ k \in DOMAIN w
    <3> HIDE DEF x
    <3> QED BY <2>3, <2>6
  <2> HIDE DEF x
  <2> QED BY <1>2, <2>7, <2>8 DEF x
<1> QED BY <1>7, <1>8

(* The keys whose tokens mergeSources puts together under k. *)
Into(x, sources, results, k) ==
    {j \in DOMAIN x : j = k \/ (j[1] = k[1] /\ j[2] \in sources /\ k[2] \in results)}
Gathered(x, keys) == {x[j] : j \in keys}

(* mergeSources *)
LEMMA DeriveShape ==
    ASSUME NEW f, WellFormed(f), f.family = "legacy", NEW x, IsState(f, x),
           NEW sources, sources \subseteq Values, NEW results, results \subseteq Values
    PROVE  LET t == Join(x, Derived(x, sources, results))
           IN  /\ IsState(f, t)
               /\ \A k : IsKey(f, k) => (k \in DOMAIN t <=> Into(x, sources, results, k) # {})
               /\ \A k \in DOMAIN t :
                    /\ IsKey(f, k)
                    /\ Merges(t[k], Gathered(x, Into(x, sources, results, k)))
<1> DEFINE of(c) == {j \in DOMAIN x : j[1] = c /\ j[2] \in sources}
           counters == {c \in {k[1] : k \in DOMAIN x} : of(c) # {}}
           d == Derived(x, sources, results)
           t == Join(x, d)
           from(k) == {j \in DOMAIN x : \/ j = k
                                        \/ j[1] = k[1] /\ j[2] \in sources /\ k[2] \in results}
<1>1. DOMAIN d = counters \X results
      /\ \A k \in DOMAIN d : d[k] = MergeTokens({x[j] : j \in of(k[1])})
  BY DEF Derived
<1>2. IsState(f, t)
  BY DerivedFacts
<1>3. DOMAIN t = DOMAIN x \union DOMAIN d
      /\ \A k \in DOMAIN t : t[k] = MergeTokens({u[k] : u \in {u \in {x, d} : k \in DOMAIN u}})
  <2> HIDE DEF d
  <2> QED BY DEF Join
<1>4. ASSUME NEW k, IsKey(f, k)
      PROVE  k \in DOMAIN d <=> of(k[1]) # {} /\ k[2] \in results
  <2>1. k = <<k[1], k[2]>>
    BY <1>4, LegacyKey
  <2>2. k \in DOMAIN d <=> k[1] \in counters /\ k[2] \in results
    <3> HIDE DEF counters, d
    <3> QED BY <1>1, <2>1
  <2>3. k[1] \in counters <=> of(k[1]) # {}
    OBVIOUS
  <2> QED BY <2>2, <2>3
<1>5. \A k \in DOMAIN t : IsKey(f, k)
  <2> HIDE DEF t
  <2> QED BY <1>2 DEF IsState
<1> HIDE DEF counters, d, t
<1>6. ASSUME NEW k, IsKey(f, k) PROVE k \in DOMAIN t <=> from(k) # {}
  <2>1. k \in DOMAIN t <=> k \in DOMAIN x \/ (of(k[1]) # {} /\ k[2] \in results)
    <3> HIDE DEF of
    <3> QED BY <1>3, <1>4, <1>6
  <2> QED BY <2>1
<1>7. ASSUME NEW k \in DOMAIN t PROVE Merges(t[k], {x[j] : j \in from(k)})
  <2> DEFINE T == {u[k] : u \in {u \in {x, d} : k \in DOMAIN u}}
             X == {x[j] : j \in of(k[1])}
             A == {x[j] : j \in from(k)}
  <2>1. \A j \in DOMAIN x : x[j] \in TokenType(f)
    BY DEF IsState
  <2>2. A \subseteq TokenType(f) /\ X \subseteq TokenType(f)
    BY <2>1
  <2>3. IsKey(f, k)
    BY <1>5, <1>7
  <2>4. T = (IF k \in DOMAIN x THEN {x[k]} ELSE {}) \union
            (IF k \in DOMAIN d THEN {d[k]} ELSE {})
    OBVIOUS
  <2>5. t[k] = MergeTokens(T) /\ T # {}
    <3> HIDE DEF T
    <3> QED BY <1>3, <1>7, <2>4 DEF T
  <2>6. ASSUME k \in DOMAIN d
        PROVE  /\ X # {} /\ X \subseteq A /\ Merges(d[k], X) /\ d[k] \in TokenType(f)
    <3>1. of(k[1]) # {} /\ k[2] \in results
      <4> HIDE DEF of
      <4> QED BY <1>4, <2>3, <2>6
    <3>2. X # {} /\ X \subseteq A
      BY <3>1
    <3>3. d[k] = MergeTokens(X)
      <4> HIDE DEF of
      <4> QED BY <1>1, <2>6
    <3> HIDE DEF X, A
    <3> QED BY <2>2, <3>2, <3>3, MergeMerges
  <2>7. k \in DOMAIN x => x[k] \in A
    OBVIOUS
  <2>8. T \subseteq TokenType(f)
    <3> HIDE DEF T, X, A
    <3> QED BY <2>1, <2>4, <2>6
  <2>9. Merges(t[k], T) /\ t[k] \in TokenType(f)
    <3> HIDE DEF T
    <3> QED BY <2>5, <2>8, MergeMerges
  <2>10. \A a \in T : \E S \in SUBSET A : Merges(a, S)
    <3>1. ASSUME k \in DOMAIN x PROVE {x[k]} \in SUBSET A /\ Merges(x[k], {x[k]})
      <4> HIDE DEF A
      <4> QED BY <2>1, <2>7, <3>1, MergesOne
    <3> HIDE DEF T, X, A
    <3> QED BY <2>4, <2>6, <3>1
  <2>11. ASSUME NEW b \in A PROVE \E a \in T : Covers(a, b)
    <3>1. PICK j \in from(k) : b = x[j]
      BY <2>11
    <3>2. CASE j = k
      <4>1. k \in DOMAIN x /\ x[k] \in T
        BY <2>4, <3>1, <3>2
      <4>2. Covers(x[k], x[k])
        BY <2>1, <4>1, TokenFacts
      <4> HIDE DEF T
      <4> QED BY <3>1, <3>2, <4>1, <4>2
    <3>3. CASE j \in of(k[1]) /\ k[2] \in results
      <4>1. k \in DOMAIN d
        <5>1. of(k[1]) # {}
          BY <3>3
        <5> HIDE DEF of
        <5> QED BY <1>4, <2>3, <3>3, <5>1
      <4>2. b \in X
        BY <3>1, <3>3
      <4>3. d[k] \in T
        <5> HIDE DEF T
        <5> QED BY <2>4, <4>1
      <4> HIDE DEF X, T, A
      <4> QED BY <2>6, <4>1, <4>2, <4>3 DEF Merges
    <3> QED BY <3>1, <3>2, <3>3
  <2> HIDE DEF T, X, A
  <2>12. Merges(t[k], A)
    BY <2>2, <2>8, <2>9, <2>10, <2>11, MergesTwice
  <2> QED BY <2>12 DEF A
<1>8. \A k : from(k) = Into(x, sources, results, k)
  BY DEF Into
<1> HIDE DEF from
<1> QED BY <1>2, <1>5, <1>6, <1>7, <1>8 DEF t, d, Gathered

(* What op itself makes of the state behind its wait. *)
Base(op, w) == IF op.kind = "issuer" THEN RecordIssue(op, w) ELSE w

LEMMA BaseShape ==
    ASSUME NEW f, WellFormed(f), f.family = "legacy", NEW op \in f.ops, NEW w, IsState(f, w)
    PROVE  /\ IsState(f, Base(op, w))
           /\ \A k : k \in DOMAIN Base(op, w) <=> Fresh(op, k) \/ k \in DOMAIN w
           /\ \A k \in DOMAIN Base(op, w) : Merges(Base(op, w)[k], Own(op, w, k))
<1>1. CASE op.kind = "issuer"
  BY <1>1, IssueShape DEF Base
<1>2. CASE op.kind # "issuer"
  <2>1. Base(op, w) = w /\ \A k : ~Fresh(op, k) /\ Stays(op, k)
    BY <1>2 DEF Base, Fresh, Stays
  <2>2. ASSUME NEW k \in DOMAIN w PROVE Merges(w[k], Own(op, w, k))
    <3>1. AgedToken(op, k, w[k]) = w[k]
      BY <1>2 DEF AgedToken
    <3>2. Own(op, w, k) = {w[k]}
      BY <2>1, <3>1 DEF Own
    <3> QED BY <3>2, MergesOne DEF IsState
  <2> QED BY <2>1, <2>2
<1> QED BY <1>1, <1>2

LEMMA LegacyDrain ==
    ASSUME NEW f, WellFormed(f), f.family = "legacy", NEW s, IsState(f, s)
    PROVE  DrainX(s) = s
<1>1. {k \in DOMAIN s : ~IsSource(k)} = DOMAIN s
  BY LegacyKey DEF IsState
<1>2. s = [k \in DOMAIN s |-> s[k]]
  BY DEF IsState
<1> QED BY <1>1, <1>2 DEF DrainX, Restricted

LEMMA TransferForm ==
    ASSUME NEW f, WellFormed(f), f.family = "legacy", NEW op \in f.ops, NEW s, IsState(f, s)
    PROVE  LET x == Base(op, Kept(op, s))
           IN  Transfer(op, s) = IF Derives(op) THEN Join(x, Derived(x, Sources(op), Dsts(op)))
                                 ELSE x
<1> DEFINE w == Kept(op, s)
           x == Base(op, w)
           t == IF Derives(op) THEN Join(x, Derived(x, Sources(op), Dsts(op))) ELSE x
           issued == RecordIssue(op, SwitchGroup(op, w))
           after(u, sources, results) == Join(u, Derived(u, sources, results))
           next == CASE op.kind = "issuer"  ->
                          IF op.writes THEN issued
                          ELSE after(issued, op.tokens, op.results \intersect MemTokens)
                     [] op.kind = "signal"  -> RecordIssue(op, w)
                     [] op.kind = "barrier" -> after(w, op.values \union op.tokens, op.results)
                     [] op.kind = "token"   -> after(s, op.tokens, op.results)
                     [] op.kind = "free"    -> s
                     [] op.kind = "generic" -> w
<1>1. Transfer(op, s) = IF op.drains THEN DrainX(next) ELSE next
  BY DEF Transfer, Kept
<1>2. /\ op.kind \in {"issuer", "barrier", "token", "free", "generic"}
      /\ SwitchGroup(op, w) = w
      /\ IsState(f, w) /\ (op.kind \in {"token", "free"} => w = s)
      /\ op.values \union op.tokens \union op.results \subseteq Values
  BY LegacyIssuer, KeptFacts DEF SwitchGroup, WellFormed, IsOperation
<1>3. IsState(f, x)
  <2> HIDE DEF w
  <2> QED BY <1>2, BaseShape
<1>4. IsState(f, t)
  <2>1. Sources(op) \subseteq Values /\ Dsts(op) \subseteq Values
    BY <1>2 DEF Sources, Dsts
  <2> HIDE DEF x
  <2> QED BY <1>3, <2>1, DeriveShape
<1>5. next = t
  <2> HIDE DEF w
  <2>1. CASE op.kind = "issuer"
    BY <1>2, <2>1 DEF Base, Derives, ReadOnlyIssuer, Sources, Dsts
  <2>2. CASE op.kind = "barrier"
    BY <1>2, <2>2 DEF Base, Derives, ReadOnlyIssuer, Sources, Dsts
  <2>3. CASE op.kind = "token"
    BY <1>2, <2>3 DEF Base, Derives, ReadOnlyIssuer, Sources, Dsts
  <2>4. CASE op.kind \in {"free", "generic"}
    BY <1>2, <2>4 DEF Base, Derives, ReadOnlyIssuer
  <2> QED BY <1>2, <2>1, <2>2, <2>3, <2>4
<1>6. Transfer(op, s) = t
  <2> HIDE DEF next, t
  <2> QED BY <1>1, <1>4, <1>5, LegacyDrain
<1> QED BY <1>6

(* runTransfer: a key is there if it has a part, and its token is made of    *)
(* its parts.                                                                *)
LEMMA TransferShape ==
    ASSUME NEW f, WellFormed(f), f.family = "legacy", NEW op \in f.ops, NEW s, IsState(f, s)
    PROVE  LET t == Transfer(op, s)
               w == Kept(op, s)
           IN  /\ IsState(f, t)
               /\ \A k : IsKey(f, k) => (k \in DOMAIN t <=> Parts(op, w, k) # {})
               /\ \A k \in DOMAIN t : IsKey(f, k) /\ Merges(t[k], Parts(op, w, k))
<1> DEFINE t == Transfer(op, s)
           w == Kept(op, s)
           x == Base(op, w)
           from(k) == {j \in DOMAIN x : \/ j = k
                                        \/ j[1] = k[1] /\ j[2] \in Sources(op) /\ k[2] \in Dsts(op)}
<1>1. t = IF Derives(op) THEN Join(x, Derived(x, Sources(op), Dsts(op))) ELSE x
  BY TransferForm
<1>2. /\ IsState(f, w) /\ op.values \union op.tokens \union op.results \subseteq Values
      /\ op.results \intersect op.tokens = {}
  BY KeptFacts DEF WellFormed, IsOperation
<1>3. Sources(op) \subseteq Values /\ Dsts(op) \subseteq Values
  BY <1>2 DEF Sources, Dsts
<1> HIDE DEF w
<1>4. /\ IsState(f, x) /\ \A k : k \in DOMAIN x <=> Fresh(op, k) \/ k \in DOMAIN w
      /\ \A k \in DOMAIN x : Merges(x[k], Own(op, w, k))
  BY <1>2, BaseShape
<1>5. \A k : /\ Own(op, w, k) \subseteq TokenType(f) /\ Parts(op, w, k) \subseteq TokenType(f)
             /\ Fresh(op, k) => IsKey(f, k)
  BY <1>2, PartsFacts
<1> HIDE DEF x
<1>6. \A k \in DOMAIN x : IsKey(f, k) /\ x[k] \in TokenType(f)
  BY <1>4 DEF IsState
<1>7. \A k : Own(op, w, k) \subseteq Parts(op, w, k)
  BY DEF Own, Parts, Feeds
<1>8. CASE ~Derives(op)
  <2>1. t = x
    BY <1>1, <1>8
  <2>2. \A k : Parts(op, w, k) = Own(op, w, k)
    BY <1>8 DEF Own, Parts, Feeds
  <2>3. ASSUME NEW k PROVE Own(op, w, k) # {} <=> k \in DOMAIN x
    <3>1. k \in DOMAIN w => Fresh(op, k) \/ Stays(op, k)
      BY DEF Fresh, Stays
    <3> QED BY <1>4, <3>1 DEF Own
  <2> HIDE DEF t
  <2> QED BY <1>4, <1>6, <2>1, <2>2, <2>3 DEF t, w
<1>9. CASE Derives(op)
  <2>1. t = Join(x, Derived(x, Sources(op), Dsts(op)))
    BY <1>1, <1>9
  <2>2. /\ IsState(f, t)
        /\ \A k : IsKey(f, k) => (k \in DOMAIN t <=> from(k) # {})
        /\ \A k \in DOMAIN t : IsKey(f, k) /\ Merges(t[k], {x[j] : j \in from(k)})
    <3> DEFINE y == Join(x, Derived(x, Sources(op), Dsts(op)))
    <3>1. /\ IsState(f, y)
          /\ \A k : IsKey(f, k) => (k \in DOMAIN y <=> Into(x, Sources(op), Dsts(op), k) # {})
          /\ \A k \in DOMAIN y : /\ IsKey(f, k)
                                 /\ Merges(y[k], Gathered(x, Into(x, Sources(op), Dsts(op), k)))
      BY <1>3, <1>4, DeriveShape, Zenon
    <3>2. \A k : Into(x, Sources(op), Dsts(op), k) = from(k)
      BY DEF Into
    <3> HIDE DEF y, t, from
    <3> QED BY <2>1, <3>1, <3>2 DEF y, Gathered
  <2> HIDE DEF t
  (* A source is no result of op: its only part is what it was before. *)
  <2>3. ASSUME NEW j \in DOMAIN x, j[2] \in Sources(op)
        PROVE  j \in DOMAIN w /\ Own(op, w, j) = {AgedToken(op, j, w[j])} /\ Stays(op, j)
    <3>1. ~Fresh(op, j)
      <4>1. SUFFICES ASSUME Fresh(op, j) PROVE FALSE
        OBVIOUS
      <4>2. op.kind = "issuer" /\ j[2] \in op.results \union {Unknown}
        BY <4>1 DEF Fresh, Tagged
      <4>3. j[2] \in op.tokens
        BY <2>3, <4>2 DEF Sources
      <4> QED BY <1>2, <4>2, <4>3, LatticeAssumption
    <3>2. j \in DOMAIN w
      BY <1>4, <3>1
    <3>3. Stays(op, j)
      BY <3>1 DEF Fresh, Stays
    <3> QED BY <3>1, <3>2, <3>3 DEF Own
  <2>4. ASSUME NEW k, NEW j \in from(k)
        PROVE  Own(op, w, j) \subseteq Parts(op, w, k)
    <3>1. CASE j = k
      BY <1>7, <3>1
    <3>2. CASE j[1] = k[1] /\ j[2] \in Sources(op) /\ k[2] \in Dsts(op)
      <4>1. j \in DOMAIN w /\ Own(op, w, j) = {AgedToken(op, j, w[j])}
        BY <2>3, <3>2
      <4>2. Feeds(op, j, k)
        BY <1>9, <3>2 DEF Feeds
      <4> QED BY <4>1, <4>2 DEF Parts
    <3> QED BY <3>1, <3>2
  <2>5. ASSUME NEW k, NEW b \in Parts(op, w, k)
        PROVE  \E j \in from(k) : b \in Own(op, w, j)
    <3>1. CASE Fresh(op, k) /\ b = Issued(op)
      <4>1. k \in from(k)
        BY <1>4, <3>1
      <4> QED BY <3>1, <4>1 DEF Own
    <3>2. CASE \E j \in DOMAIN w : Feeds(op, j, k) /\ b = AgedToken(op, j, w[j])
      <4>1. PICK j \in DOMAIN w : Feeds(op, j, k) /\ b = AgedToken(op, j, w[j])
        BY <3>2
      <4>2. j \in DOMAIN x
        BY <1>4
      <4>3. j \in from(k)
        BY <4>1, <4>2 DEF Feeds
      <4>4. Stays(op, j)
        BY <2>3, <4>1, <4>2 DEF Feeds
      <4>5. b \in Own(op, w, j)
        BY <4>1, <4>4 DEF Own
      <4> QED BY <4>3, <4>5
    <3> QED BY <2>5, <3>1, <3>2 DEF Parts
  <2>6. ASSUME NEW k, IsKey(f, k) PROVE k \in DOMAIN t <=> Parts(op, w, k) # {}
    <3>1. from(k) # {} => Parts(op, w, k) # {}
      <4>1. SUFFICES ASSUME NEW j \in from(k) PROVE Parts(op, w, k) # {}
        OBVIOUS
      <4>2. Merges(x[j], Own(op, w, j))
        BY <1>4
      <4>3. Own(op, w, j) # {}
        BY <4>2 DEF Merges
      <4> HIDE DEF from
      <4> QED BY <2>4, <4>1, <4>3
    <3>2. Parts(op, w, k) # {} => from(k) # {}
      BY <2>5
    <3> HIDE DEF from
    <3> QED BY <2>2, <2>6, <3>1, <3>2
  <2>7. ASSUME NEW k \in DOMAIN t PROVE Merges(t[k], Parts(op, w, k))
    <3> DEFINE A == {x[j] : j \in from(k)}
    <3>1. A \subseteq TokenType(f)
      BY <1>6
    <3>2. t[k] \in TokenType(f) /\ Merges(t[k], A)
      <4> HIDE DEF from
      <4> QED BY <2>2, <2>7 DEF IsState
    <3>3. ASSUME NEW a \in A PROVE \E S \in SUBSET Parts(op, w, k) : Merges(a, S)
      <4>1. PICK j \in from(k) : a = x[j]
        BY <3>3
      <4>2. Merges(a, Own(op, w, j)) /\ Own(op, w, j) \in SUBSET Parts(op, w, k)
        <5>1. j \in DOMAIN x
          BY <4>1
        <5> HIDE DEF from
        <5> QED BY <1>4, <2>4, <4>1, <5>1
      <4> QED BY <4>2
    <3>4. ASSUME NEW b \in Parts(op, w, k) PROVE \E a \in A : Covers(a, b)
      <4>1. PICK j \in from(k) : b \in Own(op, w, j)
        BY <2>5, <3>4
      <4>2. j \in DOMAIN x /\ x[j] \in A
        BY <4>1
      <4>3. Covers(x[j], b)
        BY <1>4, <4>1, <4>2 DEF Merges
      <4> HIDE DEF A
      <4> QED BY <4>2, <4>3
    <3> HIDE DEF A
    <3> QED BY <1>5, <3>1, <3>2, <3>3, <3>4, MergesTwice
  <2>8. \A k \in DOMAIN t : IsKey(f, k)
    <3> HIDE DEF from
    <3> QED BY <2>2
  <2> QED BY <2>2, <2>6, <2>7, <2>8 DEF t, w
<1> QED BY <1>8, <1>9

-----------------------------------------------------------------------------
(* Waiting where counters return in order. *)

EventsOn(f, c) == {op.event : op \in {o \in Issuing(f) : Counter(o) = c}}
WritesOn(f, c) == \E op \in Issuing(f) : Counter(op) = c /\ op.writes

PlainToken(f, c, t) ==
    /\ ~t.ooo
    /\ t.events \subseteq EventsOn(f, c)
    /\ AgreeOnWrites(f) => (t.writes <=> WritesOn(f, c))
Plain(f, s) == \A k \in DOMAIN s : PlainToken(f, k[1], s[k])

LEMMA PlainMerges ==
    ASSUME NEW f, NEW x, NEW A, Merges(x, A), NEW c, \A a \in A : PlainToken(f, c, a)
    PROVE  PlainToken(f, c, x)
<1>1. ~x.ooo
  BY DEF Merges, PlainToken
<1>2. x.events \subseteq EventsOn(f, c)
  BY DEF Merges, PlainToken
<1>3. ASSUME AgreeOnWrites(f) PROVE x.writes <=> WritesOn(f, c)
  <2>1. PICK a \in A : TRUE
    BY DEF Merges
  <2>2. WritesOn(f, c) => x.writes
    BY <1>3, <2>1 DEF Merges, PlainToken, Covers
  <2>3. x.writes => WritesOn(f, c)
    BY <1>3 DEF Merges, PlainToken
  <2> QED BY <2>2, <2>3
<1> QED BY <1>1, <1>2, <1>3 DEF PlainToken

LEMMA PlainMerge ==
    ASSUME NEW f, NEW A, A \subseteq TokenType(f), A # {}, NEW c,
           \A a \in A : PlainToken(f, c, a)
    PROVE  PlainToken(f, c, MergeTokens(A))
BY MergeMerges, PlainMerges

LEMMA PlainJoin ==
    ASSUME NEW f, NEW s, NEW t, IsState(f, s), IsState(f, t), Plain(f, s), Plain(f, t)
    PROVE  Plain(f, Join(s, t))
<1>1. SUFFICES ASSUME NEW k \in DOMAIN s \union DOMAIN t
               PROVE  PlainToken(f, k[1], Join(s, t)[k])
  BY DEF Join, Plain
<1> DEFINE A == {u[k] : u \in {u \in {s, t} : k \in DOMAIN u}}
<1>2. A \subseteq TokenType(f) /\ A # {}
  BY <1>1 DEF IsState
<1>3. \A a \in A : PlainToken(f, k[1], a)
  BY DEF Plain
<1>4. Join(s, t)[k] = MergeTokens(A)
  BY <1>1 DEF Join
<1> HIDE DEF A
<1> QED BY <1>2, <1>3, <1>4, PlainMerge

LEMMA PlainTransfer ==
    ASSUME NEW f, WellFormed(f), f.family = "legacy", ReturnsInOrder(f), NEW op \in f.ops,
           NEW s, IsState(f, s), Plain(f, s)
    PROVE  Plain(f, Transfer(op, s))
<1> DEFINE t == Transfer(op, s)
           w == Kept(op, s)
<1>1. SUFFICES ASSUME NEW k \in DOMAIN t PROVE PlainToken(f, k[1], t[k])
  BY DEF Plain
<1>2. Merges(t[k], Parts(op, w, k))
  BY TransferShape
<1>3. DOMAIN w \subseteq DOMAIN s /\ \A j \in DOMAIN w : w[j] = s[j]
  BY KeptFacts
<1>4. ASSUME NEW a \in Parts(op, w, k) PROVE PlainToken(f, k[1], a)
  <2> HIDE DEF w
  <2>1. CASE Fresh(op, k) /\ a = Issued(op)
    <3>1. op \in Issuing(f) /\ k[1] = Counter(op)
      BY <2>1, LegacyIssuer DEF Fresh, Tagged
    <3>2. ~op.ooo
      BY <3>1, OperationFacts DEF ReturnsInOrder
    <3>3. AgreeOnWrites(f) => (op.writes <=> WritesOn(f, Counter(op)))
      BY <3>1 DEF AgreeOnWrites, WritesOn
    <3>4. a.ooo = op.ooo /\ a.events = {op.event} /\ a.writes = op.writes
      BY <2>1 DEF Issued
    <3> QED BY <3>1, <3>2, <3>3, <3>4 DEF PlainToken, EventsOn
  <2>2. CASE \E j \in DOMAIN w : Feeds(op, j, k) /\ a = AgedToken(op, j, w[j])
    <3>1. PICK j \in DOMAIN w : Feeds(op, j, k) /\ a = AgedToken(op, j, w[j])
      BY <2>2
    <3>2. j[1] = k[1]
      BY <3>1 DEF Feeds
    <3>3. j \in DOMAIN s /\ w[j] = s[j] /\ s[j] \in TokenType(f)
      BY <1>3 DEF IsState
    <3>4. a.events = s[j].events /\ a.ooo = s[j].ooo /\ a.writes = s[j].writes
      BY <3>1, <3>3, AgedFacts
    <3>5. PlainToken(f, k[1], s[j])
      BY <3>2, <3>3 DEF Plain
    <3> QED BY <3>4, <3>5 DEF PlainToken
  <2> QED BY <1>4, <2>1, <2>2 DEF Parts
<1> HIDE DEF t, w
<1> QED BY <1>2, <1>4, PlainMerges

(* A wait is for the position of a token. *)
LEMMA InOrderWait ==
    ASSUME NEW f, WellFormed(f), f.family = "legacy", ReturnsInOrder(f),
           NEW s, IsState(f, s), Plain(f, s), NEW k \in DOMAIN s
    PROVE  /\ ~RequiresZeroWait(k[1], ActiveEvents(s, k[1]))
           /\ WaitPosition(s, k) = s[k].pos /\ ~s[k].ooo
<1> DEFINE c == k[1]
           A == ActiveEvents(s, c)
<1>1. c \in {"vm", "vs", "lgkm"}
  BY LegacyKey DEF IsState
<1>2. A \subseteq EventsOn(f, c)
  BY DEF ActiveEvents, Plain, PlainToken
<1>3. c = "lgkm" => \A d, e \in A : d = e
  BY <1>2 DEF EventsOn, ReturnsInOrder
<1>4. c = "lgkm" => ~(Cardinality(A) > 1)
  <2>1. CASE A = {}
    BY <2>1, FS_EmptySet
  <2>2. CASE c = "lgkm" /\ A # {}
    <3>1. PICK e : A = {e}
      BY <1>3, <2>2
    <3>2. Cardinality({e}) = 1
      BY FS_Singleton
    <3> HIDE DEF A
    <3> QED BY <3>1, <3>2
  <2> QED BY <2>1, <2>2
<1>5. ~RequiresZeroWait(c, A)
  <2> HIDE DEF A
  <2> QED BY <1>1, <1>4 DEF RequiresZeroWait
<1>6. ~s[k].ooo
  BY DEF Plain, PlainToken
<1> QED BY <1>5, <1>6 DEF WaitPosition

(* What is left behind a wait that the field of its counter can hold: what   *)
(* is younger than everything needed.                                        *)
Waits(op) == op.kind \notin {"token", "free"}
Fits(op, s) == \A k \in NeededKeys(op, s) : s[k].pos < CounterMax[k[1]]

LEMMA KeptPlain ==
    ASSUME NEW f, WellFormed(f), f.family = "legacy", ReturnsInOrder(f), NEW op \in f.ops,
           NEW s, IsState(f, s), Plain(f, s), Fits(op, s)
    PROVE  \A k \in DOMAIN s : k \in DOMAIN Kept(op, s) <=>
              (Waits(op) => \A n \in NeededKeys(op, s) :
                               n[1] = k[1] => s[k].pos < s[n].pos)
<1> DEFINE req == Requirement(op, s)
           keys == NeededKeys(op, s)
           ps(c) == {WaitPosition(s, k) : k \in {k \in keys : k[1] = c}}
<1>1. SUFFICES ASSUME NEW k \in DOMAIN s
               PROVE  ~DrainedBy(s, k, req) <=>
                         (Waits(op) => \A n \in keys : n[1] = k[1] => s[k].pos < s[n].pos)
  BY KeptFacts
<1>2. CASE ~Waits(op)
  <2>1. DOMAIN req = {}
    BY <1>2 DEF Requirement, Empty, Waits
  <2> QED BY <1>2, <2>1 DEF DrainedBy
<1>3. CASE Waits(op)
  <2>1. req = [c \in {j[1] : j \in keys} |-> Clamp(c, Min(ps(c)))]
    <3>1. AfterSignal(op, s) = s
      BY LegacySignal
    <3> QED BY <1>3, <3>1 DEF Requirement, Waits
  <2>2. keys \subseteq DOMAIN s
    BY DEF NeededKeys
  <2>3. \A n \in keys : /\ WaitPosition(s, n) = s[n].pos /\ s[n].pos \in Nat
                        /\ s[n].pos < CounterMax[n[1]] /\ n[1] \in DOMAIN CounterMax
    <3>1. \A n \in keys : WaitPosition(s, n) = s[n].pos
      BY <2>2, InOrderWait
    <3>2. \A n \in keys : s[n].pos \in Nat /\ n[1] \in DOMAIN CounterMax
      BY <2>2, TokenFacts, LegacyKey DEF IsState
    <3> QED BY <3>1, <3>2 DEF Fits
  <2>4. s[k].pos \in Nat
    BY TokenFacts DEF IsState
  <2> HIDE DEF keys
  <2>5. CASE \A n \in keys : n[1] # k[1]
    <3>1. k[1] \notin DOMAIN req
      BY <2>1, <2>5
    <3> HIDE DEF req
    <3> QED BY <1>3, <2>5, <3>1 DEF DrainedBy
  <2>6. CASE \E n \in keys : n[1] = k[1]
    <3> DEFINE c == k[1]
               T == ps(c)
    <3>1. T = {s[n].pos : n \in {n \in keys : n[1] = c}}
      BY <2>3
    <3>2. T \in SUBSET Nat /\ T # {}
      BY <2>3, <2>6, <3>1
    <3>3. Min(T) \in T /\ Min(T) \in Nat /\ \A p \in T : Min(T) <= p
      <4> HIDE DEF T
      <4> QED BY <3>2, MinFacts
    <3>4. PICK m \in keys : m[1] = c /\ Min(T) = s[m].pos
      <4> HIDE DEF T, c
      <4> QED BY <3>1, <3>3
    <3>5. c \in DOMAIN req /\ req[c] = Clamp(c, Min(T))
      <4>1. c \in {j[1] : j \in keys}
        BY <2>6
      <4> QED BY <2>1, <4>1
    <3>6. Clamp(c, Min(T)) = Min(T)
      <4>1. Min(T) < CounterMax[c] /\ CounterMax[c] \in Nat
        <5> HIDE DEF T
        <5> QED BY <2>3, <3>4, LatticeAssumption
      <4> HIDE DEF T
      <4> QED BY <3>3, <4>1 DEF Clamp
    <3>7. req[c] = s[m].pos
      BY <3>4, <3>5, <3>6
    <3>8. \A n \in keys : n[1] = c => s[m].pos <= s[n].pos
      <4> HIDE DEF T
      <4> QED BY <3>1, <3>3, <3>4
    <3>9. DrainedBy(s, k, req) <=> s[k].pos >= s[m].pos
      <4>1. ~RequiresZeroWait(c, ActiveEvents(s, c)) /\ ~s[k].ooo
        BY InOrderWait
      <4> HIDE DEF req
      <4> QED BY <3>5, <3>7, <4>1 DEF DrainedBy
    <3>10. (\A n \in keys : n[1] = c => s[k].pos < s[n].pos) <=> s[k].pos < s[m].pos
      <4> HIDE DEF T, req
      <4> QED BY <2>3, <2>4, <3>4, <3>8
    <3>11. s[m].pos \in Nat
      BY <2>3, <3>4
    <3> HIDE DEF req
    <3> QED BY <1>3, <2>4, <3>9, <3>10, <3>11
  <2> QED BY <2>5, <2>6
<1> QED BY <1>2, <1>3

-----------------------------------------------------------------------------
(* The rewrite and the solver. *)

(* Where the rewrite has state s and the solver state t, the solver knows    *)
(* all that the rewrite knows, at the same positions; what it knows beyond   *)
(* that is older on its counter than all that the rewrite knows.             *)
Tracks(s, t) ==
    /\ \A k \in DOMAIN s : /\ k \in DOMAIN t /\ t[k].pos = s[k].pos
                           /\ s[k].events \subseteq t[k].events
                           /\ s[k].writes => t[k].writes
    /\ \A k \in DOMAIN t \ DOMAIN s : \A j \in DOMAIN s : j[1] = k[1] => s[j].pos < t[k].pos

(* No token of u is without a reason in t, the state in front of op. *)
Supported(op, t, u) ==
    \A k \in DOMAIN u :
        \/ Fresh(op, k)
        \/ \E j \in DOMAIN t : Feeds(op, j, k) /\ AgedToken(op, j, t[j]).pos <= u[k].pos

LEMMA AgedPosition ==
    ASSUME NEW f, WellFormed(f), f.family = "legacy", NEW op \in f.ops,
           op.kind = "issuer" => op.count > 0, NEW j, NEW k, j[1] = k[1],
           NEW a \in TokenType(f), NEW b \in TokenType(f)
    PROVE  /\ AgedToken(op, j, a).pos \in Nat
           /\ a.pos <= b.pos => AgedToken(op, j, a).pos <= AgedToken(op, k, b).pos
           /\ a.pos < b.pos /\ AgedToken(op, k, b).pos < PosMax =>
                 AgedToken(op, j, a).pos < AgedToken(op, k, b).pos
           /\ op.kind = "issuer" /\ k[1] = Counter(op) => AgedToken(op, k, b).pos > 0
<1>1. a.pos \in 0..PosMax /\ b.pos \in 0..PosMax /\ PosMax \in Nat
  BY LatticeAssumption DEF TokenType
<1>2. CASE op.kind = "issuer" /\ k[1] = Counter(op)
  <2>1. op.count \in Nat /\ op.count > 0 /\ k[1] \in DOMAIN CounterMax
    BY <1>2, LegacyIssuer, OperationFacts
  <2>2. PosMax >= 1
    BY <2>1, LatticeAssumption
  <2>3. /\ AgedToken(op, j, a).pos = Bumped(a.pos, op.count)
        /\ AgedToken(op, k, b).pos = Bumped(b.pos, op.count)
    BY <1>2 DEF AgedToken, TokenType
  <2>4. \A p \in 0..PosMax : Bumped(p, op.count) =
            IF op.count > PosMax - p THEN PosMax ELSE p + op.count
    BY DEF Bumped
  <2> QED BY <1>1, <2>1, <2>2, <2>3, <2>4
<1>3. CASE ~(op.kind = "issuer" /\ k[1] = Counter(op))
  <2>1. AgedToken(op, j, a) = a /\ AgedToken(op, k, b) = b
    BY <1>3 DEF AgedToken
  <2> QED BY <1>1, <1>3, <2>1
<1> QED BY <1>2, <1>3

(* The two wait alike. *)
LEMMA NeededAlike ==
    ASSUME NEW f, WritesKnown(f), NEW op \in f.ops, NEW s, NEW t, Plain(f, s), Plain(f, t),
           Tracks(s, t), NEW k \in DOMAIN s
    PROVE  k \in NeededKeys(op, s) <=> k \in NeededKeys(op, t)
<1>1. k \in DOMAIN t
  BY DEF Tracks
<1>2. k[2] \in op.tokens => (TokenNeeded(op, s[k]) <=> TokenNeeded(op, t[k]))
  <2>1. CASE AgreeOnWrites(f)
    <3>1. (s[k].writes <=> WritesOn(f, k[1])) /\ (t[k].writes <=> WritesOn(f, k[1]))
      BY <1>1, <2>1 DEF Plain, PlainToken
    <3> QED BY <3>1 DEF TokenNeeded
  <2>2. CASE ReadOnlyIssuer(op) => op.tokens = {}
    BY <2>2 DEF TokenNeeded
  <2> QED BY <2>1, <2>2 DEF WritesKnown
<1> QED BY <1>1, <1>2 DEF NeededKeys

LEMMA KeptAlike ==
    ASSUME NEW f, WellFormed(f), f.family = "legacy", ReturnsInOrder(f), WritesKnown(f),
           NEW op \in f.ops, NEW s, NEW t, IsState(f, s), IsState(f, t), Plain(f, s), Plain(f, t),
           Tracks(s, t), Fits(op, t)
    PROVE  /\ DOMAIN Kept(op, s) \subseteq DOMAIN Kept(op, t)
           /\ DOMAIN Kept(op, s) \subseteq DOMAIN s
           /\ \A i \in DOMAIN Kept(op, s) : \A j \in DOMAIN t \ DOMAIN Kept(op, s) :
                 j[1] = i[1] => s[i].pos < t[j].pos
<1>1. \A k \in DOMAIN s : k \in DOMAIN t /\ t[k].pos = s[k].pos /\ s[k].pos \in Nat
  BY TokenFacts DEF Tracks, IsState
<1>2. \A k \in DOMAIN t : t[k].pos \in Nat
  BY TokenFacts DEF IsState
<1>3. \A k \in DOMAIN s : k \in NeededKeys(op, s) <=> k \in NeededKeys(op, t)
  BY NeededAlike
<1>4. NeededKeys(op, s) \subseteq DOMAIN s /\ NeededKeys(op, t) \subseteq DOMAIN t
  BY DEF NeededKeys
<1>5. Fits(op, s)
  BY <1>1, <1>3, <1>4 DEF Fits
<1>6. DOMAIN Kept(op, s) \subseteq DOMAIN s
  BY KeptFacts
<1>7. \A k \in DOMAIN s : k \in DOMAIN Kept(op, s) <=>
         (Waits(op) => \A n \in NeededKeys(op, s) : n[1] = k[1] => s[k].pos < s[n].pos)
  BY <1>5, KeptPlain
<1>8. \A k \in DOMAIN t : k \in DOMAIN Kept(op, t) <=>
         (Waits(op) => \A n \in NeededKeys(op, t) : n[1] = k[1] => t[k].pos < t[n].pos)
  BY KeptPlain
<1>9. ASSUME NEW k \in DOMAIN Kept(op, s) PROVE k \in DOMAIN Kept(op, t)
  <2>1. k \in DOMAIN s /\ k \in DOMAIN t
    BY <1>1, <1>6
  <2>2. ASSUME Waits(op), NEW n \in NeededKeys(op, t), n[1] = k[1]
        PROVE  t[k].pos < t[n].pos
    <3>1. CASE n \in DOMAIN s
      BY <1>1, <1>3, <1>7, <2>1, <2>2, <3>1
    <3>2. CASE n \notin DOMAIN s
      BY <1>1, <1>4, <2>1, <2>2, <3>2 DEF Tracks
    <3> QED BY <3>1, <3>2
  <2> QED BY <1>8, <2>1, <2>2
<1>10. ASSUME NEW i \in DOMAIN Kept(op, s), NEW j \in DOMAIN t \ DOMAIN Kept(op, s), j[1] = i[1]
       PROVE  s[i].pos < t[j].pos
  <2>1. i \in DOMAIN s
    BY <1>6
  <2>2. CASE j \in DOMAIN s
    <3>1. PICK n \in NeededKeys(op, s) : Waits(op) /\ n[1] = j[1] /\ ~(s[j].pos < s[n].pos)
      BY <1>7, <1>10, <2>2
    <3>2. s[i].pos < s[n].pos
      BY <1>7, <1>10, <2>1, <3>1
    <3>3. s[n].pos \in Nat
      BY <1>1, <1>4, <3>1
    <3> QED BY <1>1, <2>1, <2>2, <3>1, <3>2, <3>3
  <2>3. CASE j \notin DOMAIN s
    BY <1>10, <2>1, <2>3 DEF Tracks
  <2> QED BY <2>2, <2>3
<1> QED BY <1>6, <1>9, <1>10

LEMMA FedKeys ==
    ASSUME NEW op, NEW j, NEW k
    PROVE  /\ Feeds(op, j, k) => j[1] = k[1]
           /\ Fresh(op, k) => op.kind = "issuer" /\ k[1] = Counter(op)
           /\ Issued(op).pos = 0
BY DEF Feeds, Fresh, Tagged, Issued

(* What op makes of the state of the rewrite, and what the solver has behind *)
(* op once nothing changes any more.                                         *)
LEMMA TracksStep ==
    ASSUME NEW f, WellFormed(f), f.family = "legacy", ReturnsInOrder(f), WritesKnown(f),
           NEW op \in f.ops, op.kind = "issuer" => op.count > 0,
           NEW s, NEW t, NEW v, IsState(f, s), IsState(f, t), IsState(f, v),
           Plain(f, s), Plain(f, t), Tracks(s, t), Fits(op, t),
           Below(Transfer(op, t), v), Supported(op, t, v), \A k \in DOMAIN v : v[k].pos < PosMax
    PROVE  Tracks(Transfer(op, s), v)
<1> DEFINE y == Transfer(op, s)
           u == Transfer(op, t)
           ws == Kept(op, s)
           wt == Kept(op, t)
<1>1. /\ DOMAIN ws \subseteq DOMAIN wt /\ DOMAIN ws \subseteq DOMAIN s
      /\ \A i \in DOMAIN ws : \A j \in DOMAIN t \ DOMAIN ws : j[1] = i[1] => s[i].pos < t[j].pos
  BY KeptAlike
<1>2. /\ \A j \in DOMAIN ws : ws[j] = s[j]
      /\ \A j \in DOMAIN wt : wt[j] = t[j]
      /\ DOMAIN wt \subseteq DOMAIN t
  BY KeptFacts
<1>3. /\ IsState(f, y)
      /\ \A k : IsKey(f, k) => (k \in DOMAIN y <=> Parts(op, ws, k) # {})
      /\ \A k \in DOMAIN y : IsKey(f, k) /\ Merges(y[k], Parts(op, ws, k))
  BY TransferShape
<1>4. /\ IsState(f, u)
      /\ \A k : IsKey(f, k) => (k \in DOMAIN u <=> Parts(op, wt, k) # {})
      /\ \A k \in DOMAIN u : IsKey(f, k) /\ Merges(u[k], Parts(op, wt, k))
  BY TransferShape
<1>5. \A k \in DOMAIN u : k \in DOMAIN v /\ Covers(v[k], u[k])
  BY DEF Below
<1>6. /\ \A k \in DOMAIN s : k \in DOMAIN t /\ s[k] \in TokenType(f) /\ t[k].pos = s[k].pos
                             /\ s[k].events \subseteq t[k].events /\ (s[k].writes => t[k].writes)
      /\ \A k \in DOMAIN t : t[k] \in TokenType(f)
      /\ \A k \in DOMAIN v : v[k] \in TokenType(f) /\ v[k].pos \in Nat /\ IsKey(f, k)
  BY TokenFacts DEF Tracks, IsState
<1>7. /\ \A k \in DOMAIN y : y[k].pos \in Nat
      /\ \A k \in DOMAIN u : u[k].pos \in Nat
  BY <1>3, <1>4, TokenFacts DEF IsState
<1> HIDE DEF y, u, ws, wt
<1>8. ASSUME NEW k, NEW a \in Parts(op, ws, k)
      PROVE  \/ Fresh(op, k) /\ a = Issued(op)
             \/ \E j \in DOMAIN ws : Feeds(op, j, k) /\ a = AgedToken(op, j, s[j])
  BY <1>2 DEF Parts
<1>9. ASSUME NEW k, NEW j \in DOMAIN ws, Feeds(op, j, k)
      PROVE  AgedToken(op, j, s[j]) \in Parts(op, ws, k)
  BY <1>2, <1>9 DEF Parts
<1>10. \A j \in DOMAIN ws : j \in DOMAIN s /\ j \in DOMAIN t /\ s[j] \in TokenType(f)
                            /\ t[j] \in TokenType(f) /\ s[j].pos = t[j].pos
  BY <1>1, <1>6
<1>11. \A j \in DOMAIN ws : /\ AgedToken(op, j, s[j]).pos = AgedToken(op, j, t[j]).pos
                            /\ AgedToken(op, j, s[j]).pos \in Nat
  <2>1. SUFFICES ASSUME NEW j \in DOMAIN ws
                 PROVE  /\ AgedToken(op, j, s[j]).pos = AgedToken(op, j, t[j]).pos
                        /\ AgedToken(op, j, s[j]).pos \in Nat
    OBVIOUS
  <2>2. s[j] \in TokenType(f) /\ t[j] \in TokenType(f) /\ s[j].pos = t[j].pos /\ s[j].pos \in Nat
    BY <1>10, TokenFacts
  <2>3. AgedToken(op, j, s[j]).pos \in Nat
    BY <2>2, AgedPosition
  <2>4. AgedToken(op, j, s[j]).pos = AgedToken(op, j, t[j]).pos
    BY <2>2 DEF AgedToken, TokenType
  <2> QED BY <2>3, <2>4
<1>12. \A j \in DOMAIN t : AgedToken(op, j, t[j]).pos \in Nat
  BY <1>6, AgedPosition
(* Every part for the rewrite is one for the solver. *)
<1>13. ASSUME NEW k, NEW a \in Parts(op, ws, k)
       PROVE  \E b \in Parts(op, wt, k) : /\ b.pos = a.pos /\ a.events \subseteq b.events
                                          /\ a.writes => b.writes
  <2>1. CASE Fresh(op, k) /\ a = Issued(op)
    BY <2>1 DEF Parts
  <2>2. CASE \E j \in DOMAIN ws : Feeds(op, j, k) /\ a = AgedToken(op, j, s[j])
    <3>1. PICK j \in DOMAIN ws : Feeds(op, j, k) /\ a = AgedToken(op, j, s[j])
      BY <2>2
    <3> DEFINE b == AgedToken(op, j, t[j])
    <3>2. b \in Parts(op, wt, k)
      BY <1>1, <1>2, <3>1 DEF Parts
    <3>3. b.pos = a.pos
      BY <1>11, <3>1
    <3>4. /\ a.events = s[j].events /\ b.events = t[j].events
          /\ a.writes = s[j].writes /\ b.writes = t[j].writes
      BY <1>10, <3>1, AgedFacts
    <3>5. a.events \subseteq b.events /\ (a.writes => b.writes)
      BY <1>6, <1>10, <3>4
    <3> HIDE DEF b
    <3> QED BY <3>2, <3>3, <3>5
  <2> QED BY <1>8, <2>1, <2>2
<1>14. ASSUME NEW k \in DOMAIN y
       PROVE  /\ k \in DOMAIN v /\ v[k].pos <= y[k].pos
              /\ y[k].events \subseteq v[k].events /\ (y[k].writes => v[k].writes)
  <2>1. IsKey(f, k) /\ Merges(y[k], Parts(op, ws, k))
    BY <1>3
  <2>2. Parts(op, wt, k) # {}
    BY <1>13, <2>1 DEF Merges
  <2>3. k \in DOMAIN u /\ Merges(u[k], Parts(op, wt, k))
    BY <1>4, <2>1, <2>2
  <2>4. k \in DOMAIN v /\ Covers(v[k], u[k]) /\ v[k].pos \in Nat /\ u[k].pos \in Nat
        /\ y[k].pos \in Nat
    BY <1>5, <1>6, <1>7, <2>3
  <2>5. u[k].pos <= y[k].pos
    <3>1. PICK a \in Parts(op, ws, k) : y[k].pos = a.pos
      BY <2>1 DEF Merges
    <3>2. PICK b \in Parts(op, wt, k) : b.pos = a.pos
      BY <1>13
    <3> QED BY <2>3, <3>1, <3>2 DEF Merges, Covers
  <2>6. y[k].events \subseteq u[k].events
    <3>1. ASSUME NEW e \in y[k].events PROVE e \in u[k].events
      <4>1. PICK a \in Parts(op, ws, k) : e \in a.events
        BY <2>1, <3>1 DEF Merges
      <4>2. PICK b \in Parts(op, wt, k) : a.events \subseteq b.events
        BY <1>13
      <4> QED BY <2>3, <4>1, <4>2 DEF Merges, Covers
    <3> QED BY <3>1
  <2>7. y[k].writes => u[k].writes
    <3>1. SUFFICES ASSUME y[k].writes PROVE u[k].writes
      OBVIOUS
    <3>2. PICK a \in Parts(op, ws, k) : a.writes
      BY <2>1, <3>1 DEF Merges
    <3>3. PICK b \in Parts(op, wt, k) : a.writes => b.writes
      BY <1>13
    <3> QED BY <2>3, <3>2, <3>3 DEF Merges, Covers
  <2> QED BY <2>4, <2>5, <2>6, <2>7 DEF Covers
(* What a token of the rewrite owes its position to, and an older one of the *)
(* solver.                                                                   *)
<1>15. ASSUME NEW k \in DOMAIN y
       PROVE  \/ Fresh(op, k) /\ y[k].pos = 0
              \/ \E i \in DOMAIN ws : i[1] = k[1] /\ y[k].pos = AgedToken(op, i, s[i]).pos
  <2>1. PICK a \in Parts(op, ws, k) : y[k].pos = a.pos
    BY <1>3 DEF Merges
  <2> QED BY <1>8, <2>1, FedKeys
<1>16. ASSUME NEW i \in DOMAIN ws, NEW j \in DOMAIN t \ DOMAIN ws, i[1] = j[1]
       PROVE  /\ AgedToken(op, i, s[i]).pos <= AgedToken(op, j, t[j]).pos
              /\ AgedToken(op, j, t[j]).pos < PosMax =>
                    AgedToken(op, i, s[i]).pos < AgedToken(op, j, t[j]).pos
  <2>1. s[i].pos < t[j].pos /\ s[i] \in TokenType(f) /\ t[j] \in TokenType(f)
    BY <1>1, <1>6, <1>10, <1>16
  <2>2. s[i].pos \in Nat /\ t[j].pos \in Nat
    BY <2>1, TokenFacts
  <2> QED BY <1>16, <2>1, <2>2, AgedPosition
<1>17. ASSUME NEW k \in DOMAIN y PROVE v[k].pos >= y[k].pos
  <2>1. k \in DOMAIN v /\ v[k].pos \in Nat /\ y[k].pos \in Nat /\ Merges(y[k], Parts(op, ws, k))
    BY <1>3, <1>6, <1>7, <1>14
  <2>2. CASE Fresh(op, k)
    <3>1. Issued(op) \in Parts(op, ws, k)
      BY <2>2 DEF Parts
    <3>2. y[k].pos <= 0
      BY <2>1, <3>1, FedKeys DEF Merges, Covers
    <3> QED BY <2>1, <3>2
  <2>3. CASE ~Fresh(op, k)
    <3>1. PICK j \in DOMAIN t : Feeds(op, j, k) /\ AgedToken(op, j, t[j]).pos <= v[k].pos
      BY <2>1, <2>3 DEF Supported
    <3>2. CASE j \in DOMAIN ws
      <4>1. AgedToken(op, j, s[j]) \in Parts(op, ws, k)
        BY <1>9, <3>1, <3>2
      <4>2. y[k].pos <= AgedToken(op, j, s[j]).pos
        BY <2>1, <4>1 DEF Merges, Covers
      <4> QED BY <1>11, <2>1, <3>1, <3>2, <4>2
    <3>3. CASE j \notin DOMAIN ws
      <4>1. PICK i \in DOMAIN ws : i[1] = k[1] /\ y[k].pos = AgedToken(op, i, s[i]).pos
        BY <1>15, <2>3
      <4>2. i[1] = j[1]
        BY <3>1, <4>1, FedKeys
      <4>3. AgedToken(op, i, s[i]).pos <= AgedToken(op, j, t[j]).pos
        BY <1>16, <3>3, <4>2
      <4> QED BY <1>11, <1>12, <2>1, <3>1, <4>1, <4>3
    <3> QED BY <3>2, <3>3
  <2> QED BY <2>2, <2>3
<1>18. ASSUME NEW k \in DOMAIN v \ DOMAIN y, NEW j \in DOMAIN y, j[1] = k[1]
       PROVE  y[j].pos < v[k].pos
  <2>1. IsKey(f, k) /\ Parts(op, ws, k) = {} /\ v[k].pos \in Nat /\ v[k].pos < PosMax
    BY <1>3, <1>6
  <2>2. ~Fresh(op, k)
    BY <2>1 DEF Parts
  <2>3. PICK i \in DOMAIN t : Feeds(op, i, k) /\ AgedToken(op, i, t[i]).pos <= v[k].pos
    BY <2>2 DEF Supported
  <2>4. i \notin DOMAIN ws
    BY <1>9, <2>1, <2>3
  <2>5. i[1] = k[1]
    BY <2>3, FedKeys
  <2>6. AgedToken(op, i, t[i]).pos < PosMax /\ AgedToken(op, i, t[i]).pos \in Nat
    BY <1>12, <2>1, <2>3, LatticeAssumption
  <2>7. CASE Fresh(op, j) /\ y[j].pos = 0
    <3>1. op.kind = "issuer" /\ i[1] = Counter(op)
      BY <1>18, <2>5, <2>7, FedKeys
    <3>2. AgedToken(op, i, t[i]).pos > 0
      BY <1>6, <3>1, AgedPosition
    <3> QED BY <2>1, <2>3, <2>6, <2>7, <3>2
  <2>8. CASE \E n \in DOMAIN ws : n[1] = j[1] /\ y[j].pos = AgedToken(op, n, s[n]).pos
    <3>1. PICK n \in DOMAIN ws : n[1] = j[1] /\ y[j].pos = AgedToken(op, n, s[n]).pos
      BY <2>8
    <3>2. AgedToken(op, n, s[n]).pos < AgedToken(op, i, t[i]).pos
      BY <1>16, <1>18, <2>4, <2>5, <2>6, <3>1
    <3> QED BY <1>11, <2>1, <2>3, <2>6, <3>1, <3>2
  <2> QED BY <1>15, <2>7, <2>8
<1>19. \A k \in DOMAIN y : v[k].pos = y[k].pos
  BY <1>6, <1>7, <1>14, <1>17
<1>20. Tracks(y, v)
  BY <1>14, <1>18, <1>19 DEF Tracks
<1> QED BY <1>20 DEF y

-----------------------------------------------------------------------------
(* Joins and branches. *)

LEMMA JoinAllFacts ==
    ASSUME NEW f, NEW s, IsState(f, s), NEW ts, \A t \in ts : IsState(f, t)
    PROVE  LET j == JoinAll(s, ts)
           IN  /\ IsState(f, j) /\ Below(s, j) /\ \A t \in ts : Below(t, j)
               /\ \A k \in DOMAIN j : \E t \in ts \union {s} : k \in DOMAIN t /\ j[k].pos = t[k].pos
               /\ Plain(f, s) /\ (\A t \in ts : Plain(f, t)) => Plain(f, j)
<1> DEFINE D == DOMAIN s \union UNION {DOMAIN t : t \in ts}
           all == ts \union {s}
           T(k) == {t[k] : t \in {t \in all : k \in DOMAIN t}}
           j == JoinAll(s, ts)
<1>1. j = [k \in D |-> MergeTokens(T(k))]
  BY DEF JoinAll
<1>2. \A t \in all : IsState(f, t) /\ DOMAIN t \subseteq D
  OBVIOUS
<1>3. \A k \in D : \E t \in all : k \in DOMAIN t
  OBVIOUS
<1>4. DOMAIN j = D /\ j = [k \in DOMAIN j |-> j[k]] /\ \A k \in D : j[k] = MergeTokens(T(k))
  <2> HIDE DEF D, T
  <2> QED BY <1>1
<1> HIDE DEF D, j, all
<1>5. ASSUME NEW k \in D
      PROVE  /\ IsKey(f, k) /\ j[k] \in TokenType(f) /\ Merges(j[k], T(k))
             /\ \A t \in all : k \in DOMAIN t => Covers(j[k], t[k])
             /\ \E t \in all : k \in DOMAIN t /\ j[k].pos = t[k].pos
  <2>1. T(k) \subseteq TokenType(f) /\ T(k) # {}
    BY <1>2, <1>3 DEF IsState
  <2>2. j[k] = MergeTokens(T(k))
    BY <1>4
  <2>3. Merges(j[k], T(k)) /\ j[k] \in TokenType(f)
    <3> HIDE DEF T
    <3> QED BY <2>1, <2>2, MergeMerges
  <2>4. \A t \in all : k \in DOMAIN t => Covers(j[k], t[k])
    BY <2>3 DEF Merges
  <2>5. \E t \in all : k \in DOMAIN t /\ j[k].pos = t[k].pos
    BY <2>3 DEF Merges
  <2>6. IsKey(f, k)
    BY <1>2, <1>3 DEF IsState
  <2> QED BY <2>3, <2>4, <2>5, <2>6
<1> HIDE DEF T
<1>6. IsState(f, j)
  BY <1>4, <1>5 DEF IsState
<1>7. \A t \in all : Below(t, j)
  BY <1>2, <1>4, <1>5 DEF Below
<1>8. ASSUME \A t \in all : Plain(f, t) PROVE Plain(f, j)
  <2>1. SUFFICES ASSUME NEW k \in D PROVE PlainToken(f, k[1], j[k])
    BY <1>4 DEF Plain
  <2>2. \A a \in T(k) : PlainToken(f, k[1], a)
    BY <1>8 DEF T, Plain
  <2> QED BY <1>5, <2>2, PlainMerges
<1>9. \A k \in DOMAIN j : \E t \in ts \union {s} : k \in DOMAIN t /\ j[k].pos = t[k].pos
  BY <1>4, <1>5 DEF all
<1>10. Below(s, j) /\ \A t \in ts : Below(t, j)
  BY <1>7 DEF all
<1>11. Plain(f, s) /\ (\A t \in ts : Plain(f, t)) => Plain(f, j)
  BY <1>8 DEF all
<1> QED BY <1>6, <1>9, <1>10, <1>11 DEF j

LEMMA PlainRekey ==
    ASSUME NEW f, WellFormed(f), NEW s, IsState(f, s), Plain(f, s),
           NEW moves \in SUBSET (Values \X Values), \A l, m \in moves : l[2] = m[2] => l = m
    PROVE  Plain(f, Rekey(s, moves))
<1>1. PICK q : /\ IsState(f, q) /\ Rekey(s, moves) = Join(s, q)
               /\ \A k \in DOMAIN q : \E j \in DOMAIN s : j[1] = k[1] /\ q[k] = s[j]
  BY RekeyFacts
<1>2. Plain(f, q)
  BY <1>1 DEF Plain
<1> QED BY <1>1, <1>2, PlainJoin

LEMMA PlainCollapse ==
    ASSUME NEW f, WellFormed(f), NEW s, IsState(f, s), Plain(f, s), NEW vis
    PROVE  Plain(f, CollapseEscaping(s, vis))
<1> DEFINE gone == {k \in DOMAIN s : ~IsSource(k) /\ k[2] \notin vis \union {Unknown}}
           kept == Restricted(s, DOMAIN s \ gone)
           same(c) == {g \in gone : g[1] = c}
           ts(c) == {s[g] : g \in same(c)}
           keys == {<<g[1], Unknown>> : g \in gone}
           q == [k \in keys |-> MergeTokens(ts(k[1]))]
<1>1. CollapseEscaping(s, vis) = Join(kept, q)
  BY DEF CollapseEscaping
<1>2. /\ IsState(f, kept) /\ DOMAIN kept = DOMAIN s \ gone
      /\ \A k \in DOMAIN s \ gone : kept[k] = s[k]
  <2>1. DOMAIN s \ gone \subseteq DOMAIN s
    OBVIOUS
  <2> HIDE DEF gone
  <2> QED BY <2>1, PartFacts
<1>3. Plain(f, kept)
  <2> HIDE DEF kept, gone
  <2> QED BY <1>2 DEF Plain
<1>4. ASSUME NEW k \in keys
      PROVE  /\ IsKey(f, k) /\ ts(k[1]) \subseteq TokenType(f) /\ ts(k[1]) # {}
             /\ \A a \in ts(k[1]) : PlainToken(f, k[1], a)
  <2>1. PICK g \in gone : k = <<g[1], Unknown>>
    OBVIOUS
  <2>2. g \in DOMAIN s /\ ~IsSource(g) /\ IsKey(f, g)
    BY <2>1 DEF IsState
  <2>3. PICK b \in DOMAIN CounterMax \ {"x"}, v \in Values \union {Unknown} :
           g = <<b, v>> /\ b \in Counters(f.family)
    BY <2>2, KeyFacts
  <2>4. IsKey(f, k) /\ k[1] = g[1]
    BY <2>1, <2>3 DEF IsKey
  <2>5. s[g] \in ts(k[1])
    BY <2>1, <2>4
  <2>6. \A h \in same(k[1]) : h \in DOMAIN s /\ h[1] = k[1]
    OBVIOUS
  <2> HIDE DEF same
  <2> QED BY <2>4, <2>5, <2>6 DEF IsState, Plain
<1>5. DOMAIN q = keys /\ q = [k \in DOMAIN q |-> q[k]] /\ \A k \in keys : q[k] = MergeTokens(ts(k[1]))
  <2> HIDE DEF keys, ts
  <2> QED OBVIOUS
<1> HIDE DEF kept, q, keys, ts
<1>6. \A k \in keys : q[k] \in TokenType(f) /\ PlainToken(f, k[1], q[k])
  BY <1>4, <1>5, PlainMerge, MergeFacts
<1>7. IsState(f, q) /\ Plain(f, q)
  BY <1>4, <1>5, <1>6 DEF IsState, Plain
<1>8. IsState(f, kept)
  BY <1>2
<1> QED BY <1>1, <1>3, <1>7, <1>8, PlainJoin

-----------------------------------------------------------------------------
(* The states of the solver. *)

Fun == Function(prog, 0)

(* No wait is larger than the field of its counter can hold, and no position *)
(* has reached the largest one.                                              *)
Unclamped ==
    \A p \in Points(prog) :
        /\ p[2] < Len(prog[p[1]]) => Fits(prog[p[1]][p[2] + 1], lat[p])
        /\ \A k \in DOMAIN lat[p] : lat[p][k].pos < PosMax

(* When the properties of WaitSolver hold: the runs solver_in_order and      *)
(* solver_mixed are an instance where this is true and one where it is not.  *)
Predictable == ReturnsInOrder(Fun) /\ WritesKnown(Fun) /\ Unclamped

LEMMA ProgramFacts ==
    ASSUME prog \in Programs
    PROVE  /\ WellFormed(Fun) /\ Fun.family = "legacy" /\ Fun.ops = Operations(prog)
           /\ \A b \in Blocks : /\ prog[b] \in Seq(Operations(prog)) /\ Len(prog[b]) \in Nat
                                /\ \A i \in 1..Len(prog[b]) : prog[b][i] \in Operations(prog)
           /\ \A op \in Operations(prog) :
                 op.count \in Nat /\ (op.kind = "issuer" => op.count > 0)
           /\ \A moves \in {prog.enter, prog.again} :
                 /\ moves \in SUBSET (Values \X Values)
                 /\ \A l, m \in moves : l[2] = m[2] => l = m
                 /\ Targets(moves) \subseteq Values /\ Targets(moves) = Arguments
<1>1. IsProgram(prog)
  BY SolverAssumption
<1>2. /\ WellFormed(Fun) /\ Fun.family = "legacy" /\ Fun.ops = Operations(prog)
      /\ Fun.moves = prog.enter \union prog.again
  BY <1>1 DEF IsProgram, Fun, Function
<1>3. \A moves \in {prog.enter, prog.again} : moves \in SUBSET (Values \X Values)
  BY <1>2 DEF WellFormed
<1>4. ASSUME NEW moves \in {prog.enter, prog.again} PROVE Targets(moves) \subseteq Values
  BY <1>3 DEF Targets
<1>5. \A moves \in {prog.enter, prog.again} : Targets(moves) = Arguments
  BY <1>1 DEF IsProgram, Arguments
<1>6. \A b \in Blocks : prog[b] \in Seq(Operations(prog))
  BY <1>1 DEF IsProgram
<1>7. \A b \in Blocks : Len(prog[b]) \in Nat
                        /\ \A i \in 1..Len(prog[b]) : prog[b][i] \in Operations(prog)
  <2> HIDE DEF Operations
  <2> QED BY <1>6
<1>8. /\ \A op \in Operations(prog) : op.count \in Nat /\ (op.kind = "issuer" => op.count > 0)
      /\ \A moves \in {prog.enter, prog.again} : \A l, m \in moves : l[2] = m[2] => l = m
  BY <1>1 DEF IsProgram
<1> QED BY <1>2, <1>3, <1>4, <1>5, <1>6, <1>7, <1>8

LEMMA PointFacts ==
    ASSUME NEW q
    PROVE  /\ \A b \in Blocks : \A i \in 0..Len(q[b]) : <<b, i>> \in Points(q)
           /\ \A p \in Points(q) : /\ p = <<p[1], p[2]>> /\ p[1] \in Blocks
                                   /\ p[2] \in 0..Len(q[p[1]])
BY DEF Points

LEMMA EdgeFacts ==
    ASSUME prog \in Programs, NEW b \in Blocks, NEW e \in EdgesInto(b)
    PROVE  /\ e[1] \in Blocks /\ Exit(e[1]) \in Points(prog)
           /\ e[2] \in SUBSET (Values \X Values)
           /\ \A l, m \in e[2] : l[2] = m[2] => l = m
           /\ Targets(e[2]) \subseteq Values /\ Targets(e[2]) \subseteq Dominating(b)
<1>1. e[1] \in Blocks
  BY DEF EdgesInto, Blocks
<1>2. Len(prog[e[1]]) \in Nat
  BY <1>1, ProgramFacts
<1>3. Exit(e[1]) \in Points(prog)
  BY <1>1, <1>2, PointFacts DEF Exit
<1>4. e[2] = {} \/ (b = "body" /\ e[2] \in {prog.enter, prog.again})
  BY DEF EdgesInto, Blocks
<1>5. CASE e[2] = {}
  BY <1>1, <1>3, <1>5 DEF Targets
<1>6. CASE b = "body" /\ e[2] \in {prog.enter, prog.again}
  <2>1. Targets(e[2]) \subseteq Dominating(b)
    BY <1>6, ProgramFacts DEF Dominating
  <2> QED BY <1>1, <1>3, <1>6, <2>1, ProgramFacts
<1> QED BY <1>4, <1>5, <1>6

(* The solver's states are well formed, hold only what the counters can tell *)
(* apart, and no token without a reason.                                     *)
Sound(l) ==
    /\ DOMAIN l = Points(prog)
    /\ \A p \in Points(prog) : IsState(Fun, l[p])
    /\ ReturnsInOrder(Fun) => \A p \in Points(prog) : Plain(Fun, l[p])
    /\ \A b \in Blocks : \A i \in 1..Len(prog[b]) :
          Supported(prog[b][i], l[<<b, i - 1>>], l[<<b, i>>])

LEMMA TransferSupported ==
    ASSUME NEW f, WellFormed(f), f.family = "legacy", NEW op \in f.ops, NEW t, IsState(f, t)
    PROVE  Supported(op, t, Transfer(op, t))
<1> DEFINE u == Transfer(op, t)
           w == Kept(op, t)
<1>1. SUFFICES ASSUME NEW k \in DOMAIN u
               PROVE  \/ Fresh(op, k)
                      \/ \E j \in DOMAIN t : Feeds(op, j, k) /\ AgedToken(op, j, t[j]).pos <= u[k].pos
  BY DEF Supported
<1>2. Merges(u[k], Parts(op, w, k)) /\ IsState(f, u)
  BY TransferShape
<1>3. DOMAIN w \subseteq DOMAIN t /\ \A j \in DOMAIN w : w[j] = t[j]
  BY KeptFacts
<1>4. u[k].pos \in Nat
  BY <1>2, TokenFacts DEF IsState
<1> HIDE DEF u, w
<1>5. PICK a \in Parts(op, w, k) : u[k].pos = a.pos
  BY <1>2 DEF Merges
<1>6. \/ Fresh(op, k)
      \/ \E j \in DOMAIN w : Feeds(op, j, k) /\ a = AgedToken(op, j, w[j])
  BY <1>5 DEF Parts
<1> QED BY <1>3, <1>4, <1>5, <1>6

LEMMA SupportGrows ==
    ASSUME NEW f, WellFormed(f), f.family = "legacy", NEW op \in f.ops,
           op.kind = "issuer" => op.count > 0, NEW t, NEW t2, NEW u, IsState(f, t),
           IsState(f, t2), IsState(f, u), Below(t, t2), Supported(op, t, u)
    PROVE  Supported(op, t2, u)
<1>1. SUFFICES ASSUME NEW k \in DOMAIN u, ~Fresh(op, k)
               PROVE  \E j \in DOMAIN t2 :
                         Feeds(op, j, k) /\ AgedToken(op, j, t2[j]).pos <= u[k].pos
  BY DEF Supported
<1>2. PICK j \in DOMAIN t : Feeds(op, j, k) /\ AgedToken(op, j, t[j]).pos <= u[k].pos
  BY <1>1 DEF Supported
<1>3. j \in DOMAIN t2 /\ t2[j].pos <= t[j].pos
  BY DEF Below, Covers
<1>4. t[j] \in TokenType(f) /\ t2[j] \in TokenType(f) /\ u[k].pos \in Nat
  BY <1>3, TokenFacts DEF IsState
<1>5. AgedToken(op, j, t2[j]).pos <= AgedToken(op, j, t[j]).pos
      /\ AgedToken(op, j, t2[j]).pos \in Nat /\ AgedToken(op, j, t[j]).pos \in Nat
  <2>1. j[1] = j[1]
    OBVIOUS
  <2> DEFINE a == t2[j]
             b == t[j]
  <2>2. a \in TokenType(f) /\ b \in TokenType(f) /\ a.pos <= b.pos
    BY <1>3, <1>4
  <2> HIDE DEF a, b
  <2>3. /\ AgedToken(op, j, a).pos \in Nat /\ AgedToken(op, j, b).pos \in Nat
        /\ AgedToken(op, j, a).pos <= AgedToken(op, j, b).pos
    BY <2>1, <2>2, AgedPosition
  <2> QED BY <2>3 DEF a, b
<1> QED BY <1>2, <1>3, <1>4, <1>5

LEMMA IncomingFacts ==
    ASSUME prog \in Programs, Sound(lat), NEW b \in Blocks, NEW e \in EdgesInto(b)
    PROVE  /\ IsState(Fun, Incoming(e, b))
           /\ ReturnsInOrder(Fun) => Plain(Fun, Incoming(e, b))
<1> DEFINE x == lat[Exit(e[1])]
           r == Rekey(x, e[2])
<1>1. WellFormed(Fun)
  BY ProgramFacts
<1>2. IsState(Fun, x) /\ (ReturnsInOrder(Fun) => Plain(Fun, x))
  BY EdgeFacts DEF Sound
<1>3. e[2] \in SUBSET (Values \X Values) /\ \A l, m \in e[2] : l[2] = m[2] => l = m
  BY EdgeFacts
<1> HIDE DEF x
<1>4. IsState(Fun, r) /\ (ReturnsInOrder(Fun) => Plain(Fun, r))
  BY <1>1, <1>2, <1>3, RekeyFacts, PlainRekey
<1> HIDE DEF r
<1>5. /\ IsState(Fun, CollapseEscaping(r, Dominating(b)))
      /\ ReturnsInOrder(Fun) => Plain(Fun, CollapseEscaping(r, Dominating(b)))
  BY <1>1, <1>4, CollapseFacts, PlainCollapse
<1> QED BY <1>5 DEF Incoming, r, x

LEMMA FlowFacts ==
    ASSUME prog \in Programs, Sound(lat), NEW p \in Points(prog)
    PROVE  /\ \A t \in Flows(p) : /\ IsState(Fun, t)
                                  /\ ReturnsInOrder(Fun) => Plain(Fun, t)
           /\ p[2] # 0 =>
                /\ prog[p[1]][p[2]] \in Operations(prog) /\ <<p[1], p[2] - 1>> \in Points(prog)
                /\ Flows(p) = {Transfer(prog[p[1]][p[2]], lat[<<p[1], p[2] - 1>>])}
<1>1. p[1] \in Blocks /\ p[2] \in 0..Len(prog[p[1]]) /\ Len(prog[p[1]]) \in Nat
  BY PointFacts, ProgramFacts
<1>2. CASE p[2] = 0
  BY <1>1, <1>2, IncomingFacts DEF Flows
<1>3. CASE p[2] # 0
  <2> DEFINE op == prog[p[1]][p[2]]
             q == <<p[1], p[2] - 1>>
  <2>1. p[2] \in 1..Len(prog[p[1]]) /\ p[2] - 1 \in 0..Len(prog[p[1]])
    BY <1>1, <1>3
  <2>2. op \in Operations(prog) /\ op \in Fun.ops
    BY <1>1, <2>1, ProgramFacts
  <2>3. q \in Points(prog)
    BY <1>1, <2>1, PointFacts
  <2>4. IsState(Fun, lat[q]) /\ (ReturnsInOrder(Fun) => Plain(Fun, lat[q]))
    BY <2>3 DEF Sound
  <2>5. Flows(p) = {Transfer(op, lat[q])}
    BY <1>3 DEF Flows
  <2>6. WellFormed(Fun) /\ Fun.family = "legacy"
    BY ProgramFacts
  <2> HIDE DEF op, q
  <2>7. IsState(Fun, Transfer(op, lat[q]))
        /\ (ReturnsInOrder(Fun) => Plain(Fun, Transfer(op, lat[q])))
    BY <2>2, <2>4, <2>6, TransferShape, PlainTransfer
  <2> QED BY <1>3, <2>2, <2>3, <2>5, <2>7 DEF op, q
<1> QED BY <1>2, <1>3

LEMMA VisitedFacts ==
    ASSUME prog \in Programs, Sound(lat), NEW p \in Points(prog)
    PROVE  /\ IsState(Fun, Visited(p)) /\ Below(lat[p], Visited(p))
           /\ \A t \in Flows(p) : Below(t, Visited(p))
           /\ ReturnsInOrder(Fun) => Plain(Fun, Visited(p))
           /\ \A k \in DOMAIN Visited(p) : \E t \in Flows(p) \union {lat[p]} :
                 k \in DOMAIN t /\ Visited(p)[k].pos = t[k].pos
<1>1. IsState(Fun, lat[p]) /\ (ReturnsInOrder(Fun) => Plain(Fun, lat[p]))
  BY DEF Sound
<1>2. \A t \in Flows(p) : IsState(Fun, t) /\ (ReturnsInOrder(Fun) => Plain(Fun, t))
  BY FlowFacts
<1> QED BY <1>1, <1>2, JoinAllFacts DEF Visited

(* A visit of the solver keeps its states sound. *)
LEMMA VisitSound ==
    ASSUME prog \in Programs, Sound(lat), NEW p \in Points(prog)
    PROVE  Sound([lat EXCEPT ![p] = Visited(p)])
<1> DEFINE l == [lat EXCEPT ![p] = Visited(p)]
<1>1. DOMAIN l = Points(prog) /\ l[p] = Visited(p)
      /\ \A q \in Points(prog) : q # p => l[q] = lat[q]
  BY DEF Sound
<1>2. /\ IsState(Fun, Visited(p)) /\ Below(lat[p], Visited(p))
      /\ ReturnsInOrder(Fun) => Plain(Fun, Visited(p))
  BY VisitedFacts
<1> HIDE DEF l
<1>3. \A q \in Points(prog) : IsState(Fun, l[q])
  BY <1>1, <1>2 DEF Sound
<1>4. ReturnsInOrder(Fun) => \A q \in Points(prog) : Plain(Fun, l[q])
  BY <1>1, <1>2 DEF Sound
<1>5. ASSUME NEW b \in Blocks, NEW i \in 1..Len(prog[b])
      PROVE  Supported(prog[b][i], l[<<b, i - 1>>], l[<<b, i>>])
  <2> DEFINE op == prog[b][i]
             q == <<b, i - 1>>
             r == <<b, i>>
  <2>1. /\ WellFormed(Fun) /\ Fun.family = "legacy" /\ op \in Fun.ops
        /\ op.kind = "issuer" => op.count > 0
    BY <1>5, ProgramFacts
  <2>2. q \in Points(prog) /\ r \in Points(prog) /\ q # r
    <3>1. Len(prog[b]) \in Nat
      BY ProgramFacts
    <3>2. i - 1 \in 0..Len(prog[b]) /\ i \in 0..Len(prog[b]) /\ i - 1 # i
      BY <3>1
    <3> QED BY <3>2, PointFacts
  <2>3. Supported(op, lat[q], lat[r])
    BY <1>5 DEF Sound
  <2>4. IsState(Fun, lat[q]) /\ IsState(Fun, lat[r])
    BY <2>2 DEF Sound
  <2>5. CASE p = r
    <3>1. l[q] = lat[q] /\ l[r] = Visited(r)
      BY <1>1, <2>2, <2>5
    <3>2. r[2] # 0 /\ r[1] = b /\ r[2] = i
      OBVIOUS
    <3>3. Flows(r) = {Transfer(op, lat[q])}
      BY <2>2, <3>2, FlowFacts
    <3>4. Supported(op, lat[q], Transfer(op, lat[q]))
      BY <2>1, <2>4, TransferSupported
    <3>5. \A k \in DOMAIN Visited(r) : \E t \in {Transfer(op, lat[q]), lat[r]} :
             k \in DOMAIN t /\ Visited(r)[k].pos = t[k].pos
      BY <2>2, <3>3, VisitedFacts
    <3> HIDE DEF op, q, r
    <3>6. Supported(op, lat[q], Visited(r))
      BY <2>3, <3>4, <3>5 DEF Supported
    <3> QED BY <3>1, <3>6 DEF op, q, r
  <2>6. CASE p = q
    <3>1. l[q] = Visited(q) /\ l[r] = lat[r]
      BY <1>1, <2>2, <2>6
    <3>2. IsState(Fun, Visited(q)) /\ Below(lat[q], Visited(q))
      BY <1>2, <2>6
    <3> HIDE DEF op, q, r
    <3>3. Supported(op, Visited(q), lat[r])
      BY <2>1, <2>3, <2>4, <3>2, SupportGrows
    <3> QED BY <3>1, <3>3 DEF op, q, r
  <2>7. CASE p # q /\ p # r
    BY <1>1, <2>2, <2>3, <2>7
  <2> QED BY <2>5, <2>6, <2>7
<1> QED BY <1>1, <1>3, <1>4, <1>5 DEF Sound, l

-----------------------------------------------------------------------------
(* The invariant. *)

Typed ==
    /\ prog \in Programs
    /\ sweep \in Seq(Points(prog)) /\ phase \in {"init", "solve", "run"}
    /\ block \in Blocks /\ at \in 0..Len(prog[block]) /\ trips \in 0..MaxTrips
    /\ IsState(Fun, local)
    /\ ReturnsInOrder(Fun) => Plain(Fun, local)
    /\ \E n \in Nat : IsFlight(Function(prog, n), flight)

(* The wave runs what the solver has left, once nothing changes any more. *)
Phased ==
    /\ phase # "run" => block = "pre" /\ at = 0 /\ flight = <<>>
    /\ phase = "run" => \A p \in Points(prog) : Visited(p) = lat[p]

IInv ==
    /\ Typed
    /\ Sound(lat)
    /\ Phased
    /\ phase = "run" /\ Predictable =>
          Tracks(local, lat[<<block, at>>]) /\ Cov(Fun, local, flight)

(* How many operations may be in flight makes no difference to a state. *)
LEMMA SameFunction ==
    ASSUME prog \in Programs, NEW n \in Nat
    PROVE  /\ WellFormed(Function(prog, n)) /\ Function(prog, n).family = "legacy"
           /\ Function(prog, n).ops = Operations(prog) /\ Function(prog, n).flights = n
           /\ \A s : IsState(Function(prog, n), s) <=> IsState(Fun, s)
           /\ \A s, fl : Cov(Function(prog, n), s, fl) <=> Cov(Fun, s, fl)
<1> DEFINE g == Function(prog, n)
<1>1. /\ g.family = "legacy" /\ g.ops = Operations(prog) /\ g.flights = n /\ g.others = {}
      /\ g.moves = prog.enter \union prog.again
      /\ Fun.family = "legacy" /\ Fun.ops = Operations(prog) /\ Fun.flights = 0
      /\ Fun.moves = prog.enter \union prog.again /\ Fun.others = {}
  BY DEF Function, Fun
<1>2. WellFormed(Fun)
  BY ProgramFacts
<1> HIDE DEF g
<1>3. /\ Issuing(g) = Issuing(Fun) /\ SourceRegs(g) = SourceRegs(Fun)
  BY <1>1 DEF Issuing, SourceRegs
<1>4. \A k : IsKey(g, k) <=> IsKey(Fun, k)
  BY <1>1, <1>3 DEF IsKey
<1>5. TokenType(g) = TokenType(Fun)
  BY <1>1 DEF TokenType
<1>6. \A s : IsState(g, s) <=> IsState(Fun, s)
  BY <1>4, <1>5 DEF IsState
<1>7. \A op : IsOperation(g, op) <=> IsOperation(Fun, op)
  BY <1>1 DEF IsOperation
<1>8. \A op : IsIssuer(g, op) <=> IsIssuer(Fun, op)
  BY <1>1, <1>3 DEF IsIssuer
<1>9. WellFormed(g)
  BY <1>1, <1>2, <1>3, <1>7, <1>8 DEF WellFormed
<1>10. \A e : Names(g, e) = Names(Fun, e)
  BY <1>3 DEF Names
<1>11. \A s, c : Recorded(g, s, c) = Recorded(Fun, s, c)
  BY <1>1, <1>10 DEF Recorded
<1>12. \A s, e, v, d : Knows(g, s, e, v, d) <=> Knows(Fun, s, e, v, d)
  BY <1>11 DEF Knows
<1>13. \A s, e, d, x : Covered(g, s, e, d, x) <=> Covered(Fun, s, e, d, x)
  BY <1>10, <1>12 DEF Covered
<1>14. \A s, fl : Cov(g, s, fl) <=> Cov(Fun, s, fl)
  BY <1>13 DEF Cov
<1> QED BY <1>1, <1>6, <1>9, <1>14 DEF g

LEMMA LargerFlight ==
    ASSUME NEW n \in Nat, NEW m \in Nat, n <= m, NEW fl, IsFlight(Function(prog, n), fl)
    PROVE  IsFlight(Function(prog, m), fl)
<1> DEFINE g == Function(prog, n)
           h == Function(prog, m)
<1>1. /\ g.family = h.family /\ g.ops = h.ops /\ g.flights = n /\ h.flights = m
  BY DEF Function
<1> HIDE DEF g, h
<1>2. Issuing(g) = Issuing(h) /\ SourceRegs(g) = SourceRegs(h)
  BY <1>1 DEF Issuing, SourceRegs
<1>3. FlightType(g) = FlightType(h)
  BY <1>1, <1>2 DEF FlightType
<1>4. \A e : IsEntry(g, e) <=> IsEntry(h, e)
  BY <1>1, <1>2, <1>3 DEF IsEntry
<1>5. IsFlight(g, fl)
  BY DEF g
<1>6. PICK k \in 0..n : fl \in [1..k -> FlightType(h)]
  BY <1>1, <1>3, <1>5 DEF IsFlight
<1>7. k \in 0..h.flights
  BY <1>1
<1>8. IsFlight(h, fl)
  BY <1>4, <1>5, <1>6, <1>7 DEF IsFlight
<1> QED BY <1>8 DEF h

(* Legacy instructions wait for nothing by themselves. *)
LEMMA LegacyReady ==
    ASSUME prog \in Programs, NEW n \in Nat, NEW fl, IsFlight(Function(prog, n), fl), NEW op
    PROVE  InstructionReady(fl, op)
<1>1. ASSUME NEW i \in DOMAIN fl PROVE fl[i].unread = {} /\ fl[i].event # "SccWrite"
  <2>1. IsEntry(Function(prog, n), fl[i]) /\ Function(prog, n).family = "legacy"
    BY SameFunction DEF IsFlight
  <2>2. fl[i].event \in DOMAIN Rules("legacy")
    BY <2>1, SameFunction, EntryFacts
  <2>3. fl[i].event # "SccWrite"
    BY <2>2, RuleFacts
  <2> QED BY <2>1, <2>3 DEF IsEntry
<1> QED BY <1>1 DEF InstructionReady

LEMMA TracksItself ==
    ASSUME NEW s
    PROVE  Tracks(s, s)
BY DEF Tracks

LEMMA TracksBelow ==
    ASSUME NEW f, NEW s, NEW t, IsState(f, s), Plain(f, s), Tracks(s, t)
    PROVE  Below(s, t)
<1>1. \A k \in DOMAIN s : s[k].pos \in Nat
  BY TokenFacts DEF IsState
<1> QED BY <1>1 DEF Tracks, Below, Covers, Plain, PlainToken

-----------------------------------------------------------------------------
(* The steps of the solver. *)

LEMMA OrderFacts ==
    ASSUME NEW p \in Programs
    PROVE  InOrder(p) \in Seq(Points(p))
<1> DEFINE a == Len(p.pre)
           b == Len(p.body)
           c == Len(p.post)
<1>1. p.pre \in Seq(Operations(p)) /\ p.body \in Seq(Operations(p))
      /\ p.post \in Seq(Operations(p))
  BY SolverAssumption DEF IsProgram, Blocks
<1>2. a \in Nat /\ b \in Nat /\ c \in Nat
  BY <1>1
<1>3. /\ \A i \in 0..a : <<"pre", i>> \in Points(p)
      /\ \A i \in 0..b : <<"body", i>> \in Points(p)
      /\ \A i \in 0..c : <<"post", i>> \in Points(p)
  BY PointFacts DEF Blocks
<1> HIDE DEF a, b, c
<1>4. InOrder(p) = [n \in 1..(a + b + c + 3) |->
                      CASE n <= a + 1                 -> <<"pre", n - 1>>
                        [] n > (a + 1) + (b + 1)      -> <<"post", n - (a + 1) - (b + 1) - 1>>
                        [] OTHER                      -> <<"body", n - (a + 1) - 1>>]
  BY DEF InOrder, a, b, c
<1>5. ASSUME NEW n \in 1..(a + b + c + 3) PROVE InOrder(p)[n] \in Points(p)
  <2>1. CASE n <= a + 1
    <3>1. n - 1 \in 0..a /\ ~(n > (a + 1) + (b + 1))
      BY <1>2, <2>1
    <3>2. InOrder(p)[n] = <<"pre", n - 1>>
      BY <1>4, <2>1, <3>1
    <3> QED BY <3>1, <3>2, <1>3
  <2>2. CASE n > (a + 1) + (b + 1)
    <3>1. n - (a + 1) - (b + 1) - 1 \in 0..c /\ ~(n <= a + 1)
      BY <1>2, <2>2
    <3>2. InOrder(p)[n] = <<"post", n - (a + 1) - (b + 1) - 1>>
      BY <1>4, <2>2, <3>1
    <3> QED BY <3>1, <3>2, <1>3
  <2>3. CASE ~(n <= a + 1) /\ ~(n > (a + 1) + (b + 1))
    <3>1. n - (a + 1) - 1 \in 0..b
      BY <1>2, <2>3
    <3>2. InOrder(p)[n] = <<"body", n - (a + 1) - 1>>
      BY <1>4, <2>3
    <3> QED BY <3>1, <3>2, <1>3
  <2> QED BY <2>1, <2>2, <2>3
<1>6. a + b + c + 3 \in Nat
  BY <1>2
<1> DEFINE m == a + b + c + 3
<1>7. InOrder(p) \in [1..m -> Points(p)] /\ m \in Nat
  BY <1>4, <1>5, <1>6
<1> HIDE DEF m
<1> QED BY <1>7

LEMMA NothingPending ==
    ASSUME NEW f
    PROVE  /\ IsState(f, Empty) /\ Plain(f, Empty)
           /\ f.flights \in Nat => IsFlight(f, <<>>)
           /\ \A s : Cov(f, s, <<>>)
<1>1. DOMAIN Empty = {} /\ Empty = [k \in DOMAIN Empty |-> Empty[k]]
  BY DEF Empty
<1>2. IsState(f, Empty) /\ Plain(f, Empty)
  BY <1>1 DEF IsState, Plain
<1>3. DOMAIN <<>> = {} /\ <<>> \in [1..0 -> FlightType(f)]
  OBVIOUS
<1>4. f.flights \in Nat => IsFlight(f, <<>>)
  BY <1>3 DEF IsFlight
<1>5. \A s : Cov(f, s, <<>>)
  BY <1>3 DEF Cov
<1> QED BY <1>2, <1>4, <1>5

LEMMA Initially == Init => IInv
<1>1. SUFFICES ASSUME Init PROVE IInv
  OBVIOUS
<1>2. /\ prog \in Programs /\ lat = [p \in Points(prog) |-> Empty]
      /\ sweep = InOrder(prog) /\ phase = "init" /\ block = "pre" /\ at = 0 /\ trips = 0
      /\ local = Empty /\ flight = <<>>
  BY <1>1 DEF Init
<1>3. Fun.flights = 0
  BY DEF Fun, Function
<1>4. IsState(Fun, Empty) /\ Plain(Fun, Empty) /\ IsFlight(Fun, <<>>)
  BY <1>3, NothingPending
<1>5. Typed
  <2>1. block \in Blocks /\ at \in 0..Len(prog[block])
    <3>1. block \in Blocks /\ Len(prog[block]) \in Nat
      BY <1>2, ProgramFacts DEF Blocks
    <3> QED BY <3>1, <1>2
  <2>2. trips \in 0..MaxTrips
    BY <1>2, SolverAssumption
  <2>3. sweep \in Seq(Points(prog))
    BY <1>2, OrderFacts
  <2>4. \E n \in Nat : IsFlight(Function(prog, n), flight)
    BY <1>2, <1>4 DEF Fun
  <2> QED BY <1>2, <1>4, <2>1, <2>2, <2>3, <2>4 DEF Typed
<1>6. Sound(lat)
  <2>1. ASSUME NEW b \in Blocks, NEW i \in 1..Len(prog[b])
        PROVE  Supported(prog[b][i], lat[<<b, i - 1>>], lat[<<b, i>>])
    <3>1. Len(prog[b]) \in Nat
      BY <1>2, ProgramFacts
    <3>2. i \in 0..Len(prog[b])
      BY <3>1
    <3>3. lat[<<b, i>>] = Empty
      BY <1>2, <3>2, PointFacts
    <3>4. DOMAIN lat[<<b, i>>] = {}
      BY <3>3 DEF Empty
    <3> QED BY <3>4 DEF Supported
  <2>2. DOMAIN lat = Points(prog) /\ \A p \in Points(prog) : lat[p] = Empty
    BY <1>2
  <2> QED BY <1>4, <2>1, <2>2 DEF Sound
<1>7. Phased
  BY <1>2 DEF Phased
<1> QED BY <1>2, <1>5, <1>6, <1>7 DEF IInv

(* A visit changes one state of the solver, and the wave has not started. *)
LEMMA VisitStep ==
    ASSUME IInv, phase # "run", NEW p \in Points(prog),
           lat' = [lat EXCEPT ![p] = Visited(p)], phase' = phase,
           sweep' \in Seq(Points(prog)), UNCHANGED <<prog, wave>>
    PROVE  IInv'
<1>1. Typed /\ Sound(lat) /\ Phased /\ prog \in Programs
  BY DEF IInv, Typed
<1>2. /\ prog' = prog /\ block' = block /\ at' = at /\ trips' = trips /\ local' = local
      /\ flight' = flight /\ Fun' = Fun /\ Points(prog)' = Points(prog)
  BY DEF wave, Fun
<1>3. Typed'
  BY <1>1, <1>2 DEF Typed
<1>4. Sound([lat EXCEPT ![p] = Visited(p)])
  BY <1>1, VisitSound
<1> DEFINE l == [lat EXCEPT ![p] = Visited(p)]
<1>5. lat' = l
  OBVIOUS
<1> HIDE DEF l
<1>6. Sound(lat)'
  BY <1>2, <1>4, <1>5 DEF Sound, l
<1>7. Phased'
  BY <1>1, <1>2 DEF Phased
<1> QED BY <1>3, <1>6, <1>7 DEF IInv

(* Steps that leave the function and the states of the solver alone. *)
LEMMA SameSolver ==
    ASSUME UNCHANGED <<prog, lat>>
    PROVE  /\ Fun' = Fun /\ (Points(prog))' = Points(prog) /\ Predictable' = Predictable
           /\ Sound(lat)' = Sound(lat)
           /\ \A p \in Points(prog) : Visited(p)' = Visited(p)
<1>1. prog' = prog /\ lat' = lat
  OBVIOUS
<1>2. Fun' = Fun /\ (Points(prog))' = Points(prog)
  BY <1>1 DEF Fun
<1>3. Unclamped' = Unclamped /\ Sound(lat)' = Sound(lat)
  BY <1>1, <1>2 DEF Unclamped, Sound
<1>4. \A p \in Points(prog) : Visited(p)' = Visited(p)
  BY <1>1 DEF Visited, Flows, Incoming, EdgesInto, Exit, Dominating, Results, Arguments
<1>5. Predictable' = Predictable
  BY <1>2, <1>3 DEF Predictable
<1> QED BY <1>2, <1>3, <1>4, <1>5

(* The solver stops when no visit changes anything; the wave then starts.    *)
LEMMA ConvergedStep == IInv /\ Converged => IInv'
<1>1. SUFFICES ASSUME IInv, Converged PROVE IInv'
  OBVIOUS
<1>2. /\ Typed /\ Sound(lat) /\ Phased /\ prog \in Programs
      /\ phase = "solve" /\ \A p \in Points(prog) : Visited(p) = lat[p]
  BY <1>1 DEF IInv, Typed, Converged
<1>3. /\ prog' = prog /\ lat' = lat /\ sweep' = sweep /\ block' = block /\ at' = at
      /\ trips' = trips /\ flight' = flight /\ phase' = "run" /\ local' = lat[<<"pre", 0>>]
  BY <1>1 DEF Converged
<1>4. /\ Fun' = Fun /\ (Points(prog))' = Points(prog) /\ Sound(lat)'
      /\ \A p \in Points(prog) : Visited(p)' = Visited(p)
  BY <1>2, <1>3, SameSolver
<1>5. block = "pre" /\ at = 0 /\ flight = <<>>
  BY <1>2 DEF Phased
<1>6. <<"pre", 0>> \in Points(prog)
  <2>1. Len(prog["pre"]) \in Nat
    BY <1>2, ProgramFacts DEF Blocks
  <2>2. 0 \in 0..Len(prog["pre"])
    BY <2>1
  <2> QED BY <2>2, PointFacts DEF Blocks
<1>7. IsState(Fun, local') /\ (ReturnsInOrder(Fun) => Plain(Fun, local'))
  BY <1>2, <1>3, <1>6 DEF Sound
<1>8. Typed'
  BY <1>2, <1>3, <1>4, <1>7 DEF Typed
<1>9. Phased'
  BY <1>2, <1>3, <1>4 DEF Phased
<1>10. Tracks(local', lat'[<<block', at'>>])
  BY <1>3, <1>5, TracksItself
<1>11. Cov(Fun', local', flight')
  BY <1>3, <1>4, <1>5, NothingPending
<1> QED BY <1>4, <1>8, <1>9, <1>10, <1>11 DEF IInv

-----------------------------------------------------------------------------
(* The steps of the wave. *)

(* In what the wave can see once the solver has stopped, nothing is missing. *)
LEMMA RunFacts ==
    ASSUME IInv, phase = "run"
    PROVE  /\ prog \in Programs /\ WellFormed(Fun) /\ Fun.family = "legacy"
           /\ block \in Blocks /\ Len(prog[block]) \in Nat /\ at \in 0..Len(prog[block])
           /\ Sound(lat) /\ <<block, at>> \in Points(prog)
           /\ \A p \in Points(prog) : /\ IsState(Fun, lat[p])
                                      /\ ReturnsInOrder(Fun) => Plain(Fun, lat[p])
                                      /\ \A t \in Flows(p) : Below(t, lat[p])
           /\ IsState(Fun, local) /\ (ReturnsInOrder(Fun) => Plain(Fun, local))
<1>1. /\ prog \in Programs /\ Sound(lat) /\ Phased /\ Typed
  BY DEF IInv, Typed
<1>2. \A p \in Points(prog) : Visited(p) = lat[p]
  BY <1>1 DEF Phased
<1>3. ASSUME NEW p \in Points(prog) PROVE \A t \in Flows(p) : Below(t, lat[p])
  <2>1. \A t \in Flows(p) : Below(t, Visited(p))
    BY <1>1, VisitedFacts
  <2> QED BY <2>1, <1>2
<1>4. WellFormed(Fun) /\ Fun.family = "legacy"
  BY <1>1, ProgramFacts
<1>5. block \in Blocks /\ at \in 0..Len(prog[block])
  BY <1>1 DEF Typed
<1>6. Len(prog[block]) \in Nat /\ <<block, at>> \in Points(prog)
  BY <1>1, <1>5, ProgramFacts, PointFacts
<1> QED BY <1>1, <1>3, <1>4, <1>5, <1>6 DEF Sound, Typed

(* The operations in flight stay what they are, whatever the state knows.    *)
LEMMA RunFlight ==
    ASSUME NEW f, WellFormed(f), NEW op \in f.ops, NEW fl, IsFlight(f, fl),
           InstructionReady(fl, op), Cardinality(DOMAIN fl) + op.count <= f.flights
    PROVE  IsFlight(f, Run(fl, op))
<1>1. CASE op.kind \in {"issuer", "signal"}
  <2>1. op \in Issuing(f)
    BY <1>1 DEF Issuing
  <2> QED BY <2>1, RunIssue
<1>2. CASE op.kind \notin {"issuer", "signal"}
  <2>1. DOMAIN Meaning(op) \subseteq Values
    BY MeaningFacts DEF WellFormed, IsOperation
  <2> QED BY <1>2, <2>1, RunPassive, RebindFacts
<1> QED BY <1>1, <1>2

LEMMA StepStep == IInv /\ Step => IInv'
<1>1. SUFFICES ASSUME IInv, Step PROVE IInv'
  OBVIOUS
<1> DEFINE op == NextOp
           q == <<block, at>>
           r == <<block, at + 1>>
<1>2. /\ phase = "run" /\ at < Len(prog[block]) /\ WaitDone(flight, Requirement(op, local))
      /\ prog' = prog /\ lat' = lat /\ sweep' = sweep /\ phase' = phase /\ block' = block
      /\ trips' = trips /\ at' = at + 1
      /\ flight' = Run(flight, op) /\ local' = Transfer(op, local)
  BY <1>1 DEF Step, Emitted, solver
<1>3. /\ Typed /\ Phased /\ Sound(lat) /\ prog \in Programs
      /\ phase = "run" /\ Predictable => Tracks(local, lat[q]) /\ Cov(Fun, local, flight)
  BY <1>1 DEF IInv, Typed
<1>4. /\ WellFormed(Fun) /\ Fun.family = "legacy" /\ block \in Blocks
      /\ Len(prog[block]) \in Nat /\ at \in 0..Len(prog[block])
      /\ IsState(Fun, local) /\ (ReturnsInOrder(Fun) => Plain(Fun, local))
      /\ \A p \in Points(prog) : /\ IsState(Fun, lat[p])
                                 /\ ReturnsInOrder(Fun) => Plain(Fun, lat[p])
                                 /\ \A t \in Flows(p) : Below(t, lat[p])
  BY <1>1, <1>2, RunFacts
<1>5. at + 1 \in 1..Len(prog[block]) /\ at + 1 \in 0..Len(prog[block]) /\ (at + 1) - 1 = at
  BY <1>2, <1>4
<1>6. q \in Points(prog) /\ r \in Points(prog)
  BY <1>4, <1>5, PointFacts
<1>7. /\ op \in Operations(prog) /\ Fun.ops = Operations(prog) /\ op.count \in Nat
      /\ op.kind = "issuer" => op.count > 0
  BY <1>3, <1>4, <1>5, ProgramFacts DEF NextOp
<1>8. Flows(r) = {Transfer(op, lat[q])} /\ Supported(op, lat[q], lat[r])
  <2>1. r[1] = block /\ r[2] = at + 1 /\ r[2] # 0
    BY <1>5
  <2>2. r[2] # 0 =>
          Flows(r) = {Transfer(prog[r[1]][r[2]], lat[<<r[1], r[2] - 1>>])}
    BY <1>3, <1>6, FlowFacts
  <2>3. Supported(prog[block][at + 1], lat[<<block, (at + 1) - 1>>], lat[<<block, at + 1>>])
    BY <1>3, <1>4, <1>5 DEF Sound
  <2> QED BY <2>1, <2>2, <2>3, <1>5 DEF NextOp
<1>9. PICK n \in Nat : IsFlight(Function(prog, n), flight)
  BY <1>3 DEF Typed
<1> DEFINE m == n + op.count
           g == Function(prog, m)
<1>10. m \in Nat /\ n <= m
  BY <1>7
<1>11. /\ WellFormed(g) /\ g.family = "legacy" /\ g.ops = Operations(prog) /\ g.flights = m
       /\ \A s : IsState(g, s) <=> IsState(Fun, s)
       /\ \A s, fl : Cov(g, s, fl) <=> Cov(Fun, s, fl)
  BY <1>3, <1>10, SameFunction
<1>12. IsFlight(g, flight) /\ InstructionReady(flight, op)
  BY <1>3, <1>9, <1>10, LargerFlight, LegacyReady
<1>13. Cardinality(DOMAIN flight) + op.count <= g.flights
  <2>1. Cardinality(DOMAIN flight) \in 0..Function(prog, n).flights
    BY <1>3, <1>9, SameFunction, FlightFacts
  <2>2. Function(prog, n).flights = n
    BY DEF Function
  <2> QED BY <2>1, <2>2, <1>7, <1>11
<1> HIDE DEF op, q, r, m, g
<1>14. IsState(Fun, Transfer(op, local))
       /\ (ReturnsInOrder(Fun) => Plain(Fun, Transfer(op, local)))
  <2>1. IsState(Fun, Transfer(op, local))
    BY <1>4, <1>7, TransferShape
  <2>2. ReturnsInOrder(Fun) => Plain(Fun, Transfer(op, local))
    BY <1>4, <1>7, PlainTransfer
  <2> QED BY <2>1, <2>2
<1>15. IsFlight(g, Run(flight, op))
  BY <1>7, <1>11, <1>12, <1>13, RunFlight
<1>16. Typed'
  <2>1. Fun' = Fun /\ (Points(prog))' = Points(prog)
    BY <1>2, SameSolver
  <2>2. IsFlight(Function(prog', m), flight')
    BY <1>2, <1>15 DEF g
  <2>3. at' \in 0..Len(prog'[block']) /\ block' \in Blocks
    BY <1>2, <1>4, <1>5
  <2> QED BY <1>2, <1>3, <1>10, <1>14, <2>1, <2>2, <2>3 DEF Typed
<1>17. Phased' /\ Sound(lat)' /\ Predictable' = Predictable /\ Fun' = Fun
  BY <1>2, <1>3, SameSolver DEF Phased
<1>18. ASSUME Predictable
       PROVE  Tracks(local', lat'[<<block', at'>>]) /\ Cov(Fun, local', flight')
  <2>1. Tracks(local, lat[q]) /\ Cov(Fun, local, flight)
    BY <1>2, <1>3, <1>18
  <2>2. Cov(g, local, flight) /\ IsState(g, local)
    BY <2>1, <1>4, <1>11
  <2>3. Cov(g, Transfer(op, local), Run(flight, op))
    BY <2>2, <1>2, <1>7, <1>11, <1>12, <1>13, CovExecute
  <2>4. ReturnsInOrder(Fun) /\ WritesKnown(Fun) /\ Unclamped
    BY <1>18 DEF Predictable
  <2>5. Fits(op, lat[q]) /\ \A k \in DOMAIN lat[r] : lat[r][k].pos < PosMax
    <3>1. q[1] = block /\ q[2] = at
      BY DEF q
    <3>2. q[2] < Len(prog[q[1]]) => Fits(prog[q[1]][q[2] + 1], lat[q])
      BY <1>6, <2>4 DEF Unclamped
    <3>3. \A k \in DOMAIN lat[r] : lat[r][k].pos < PosMax
      BY <1>6, <2>4 DEF Unclamped
    <3> QED BY <3>1, <3>2, <3>3, <1>2 DEF op, NextOp
  <2>6. /\ IsState(Fun, lat[q]) /\ IsState(Fun, lat[r]) /\ Plain(Fun, lat[q])
        /\ Plain(Fun, local)
    BY <1>4, <1>6, <2>4
  <2>7. Below(Transfer(op, lat[q]), lat[r])
    BY <1>4, <1>6, <1>8
  <2>8. Tracks(Transfer(op, local), lat[r])
    BY <1>4, <1>7, <1>8, <2>1, <2>4, <2>5, <2>6, <2>7, TracksStep
  <2>9. r = <<block', at'>>
    BY <1>2 DEF r
  <2> QED BY <1>2, <1>11, <2>3, <2>8, <2>9
<1> QED BY <1>16, <1>17, <1>18 DEF IInv

(* What is in flight when the wave takes edge e into block b is known to the *)
(* solver at the entry of b.                                                 *)
LEMMA CovEdge ==
    ASSUME IInv, phase = "run", Predictable, at = Len(prog[block]),
           NEW b \in Blocks, NEW e \in EdgesInto(b), e[1] = block,
           NEW n \in Nat, IsFlight(Function(prog, n), flight)
    PROVE  Cov(Fun, lat[<<b, 0>>], Rebind(flight, Meanings(e, b)))
<1> DEFINE x == lat[Exit(block)]
           y == Rekey(x, e[2])
           z == lat[<<b, 0>>]
           f == Function(prog, n)
           src == Meanings(e, b)
           gl == Rebind(flight, src)
           dom == Dominating(b)
<1>1. /\ prog \in Programs /\ Sound(lat) /\ IsState(Fun, local)
      /\ \A p \in Points(prog) : /\ IsState(Fun, lat[p])
                                 /\ ReturnsInOrder(Fun) => Plain(Fun, lat[p])
                                 /\ \A t \in Flows(p) : Below(t, lat[p])
      /\ ReturnsInOrder(Fun) => Plain(Fun, local)
      /\ <<block, at>> \in Points(prog)
  BY RunFacts
<1>2. Tracks(local, x) /\ Cov(Fun, local, flight) /\ ReturnsInOrder(Fun)
  BY DEF IInv, Exit, Predictable
<1>3. /\ WellFormed(f)
      /\ \A s : IsState(f, s) <=> IsState(Fun, s)
      /\ \A s, fl : Cov(f, s, fl) <=> Cov(Fun, s, fl)
  BY <1>1, SameFunction
<1>4. /\ e[2] \in SUBSET (Values \X Values) /\ Targets(e[2]) \subseteq Values
      /\ \A l, m \in e[2] : l[2] = m[2] => l = m
      /\ Targets(e[2]) \subseteq dom
  BY <1>1, EdgeFacts
<1>5. IsFlight(f, flight)
  OBVIOUS
<1>6. /\ DOMAIN src = Targets(e[2]) \union (Values \ dom) /\ DOMAIN src \subseteq Values
      /\ \A v \in DOMAIN src : src[v] = {m[1] : m \in {m \in e[2] : m[2] = v}}
  BY <1>4 DEF Meanings
<1>7. IsState(Fun, x) /\ Exit(block) = <<block, at>>
  BY <1>1 DEF Exit
<1>8. <<b, 0>> \in Points(prog)
  <2>1. Len(prog[b]) \in Nat
    BY <1>1, ProgramFacts
  <2>2. 0 \in 0..Len(prog[b])
    BY <2>1
  <2> QED BY <2>2, PointFacts
<1>9. Below(CollapseEscaping(y, dom), z)
  <2>1. Incoming(e, b) \in Flows(<<b, 0>>)
    BY DEF Flows
  <2>2. Incoming(e, b) = CollapseEscaping(y, dom)
    BY DEF Incoming
  <2> QED BY <1>1, <1>8, <2>1, <2>2
<1>10. IsState(Fun, z)
  BY <1>1, <1>8
<1> HIDE DEF f, src, dom, x, z
<1>11. Below(local, x)
  BY <1>1, <1>2, TracksBelow
<1>12. Cov(f, x, flight)
  <2>1. Same(flight, flight)
    BY DEF Same
  <2> QED BY <1>1, <1>2, <1>3, <1>5, <1>7, <1>11, <2>1, CovExtend
<1>13. IsState(f, y) /\ Below(x, y) /\ \A m \in e[2] : Carries(x, y, m[1], m[2])
  <2>1. IsState(f, x)
    BY <1>3, <1>7
  <2> QED BY <1>3, <1>4, <2>1, RekeyFacts
<1>14. /\ IsFlight(f, gl) /\ Same(flight, gl)
       /\ \A i \in DOMAIN flight :
             gl[i].vals = (flight[i].vals \ DOMAIN src) \union
                {v \in DOMAIN src : src[v] \intersect flight[i].vals # {}}
  BY <1>3, <1>5, <1>6, RebindFacts
<1> HIDE DEF y, gl
<1>15. ASSUME NEW i \in DOMAIN flight, NEW v \in gl[i].vals
       PROVE  /\ v \in dom
              /\ v \in flight[i].vals \/ \E u \in flight[i].vals : Carries(x, y, u, v)
  <2>1. flight[i].vals \subseteq Values
    BY <1>3, <1>5, EntryFacts DEF IsFlight
  <2>2. CASE v \in flight[i].vals \ DOMAIN src
    BY <2>1, <2>2, <1>6
  <2>3. CASE v \in DOMAIN src /\ src[v] \intersect flight[i].vals # {}
    <3>1. PICK m \in e[2] : m[2] = v /\ m[1] \in flight[i].vals
      BY <2>3, <1>6
    <3>2. v \in Targets(e[2])
      BY <3>1 DEF Targets
    <3> QED BY <3>1, <3>2, <1>4, <1>13
  <2> QED BY <1>14, <2>2, <2>3
<1>16. Cov(f, y, gl)
  <2>1. IsState(f, x)
    BY <1>3, <1>7
  <2> QED BY <2>1, <1>3, <1>5, <1>12, <1>13, <1>14, <1>15, CovExtend
<1>17. InScope(gl, dom)
  BY <1>14, <1>15 DEF InScope, Same
<1> DEFINE w == CollapseEscaping(y, dom)
<1>18. Cov(f, w, gl) /\ IsState(f, w)
  <2>1. Cov(f, w, gl)
    BY <1>3, <1>13, <1>14, <1>16, <1>17, CovCollapse
  <2>2. IsState(f, w)
    BY <1>3, <1>13, CollapseFacts
  <2> QED BY <2>1, <2>2
<1>19. Below(w, z) /\ IsState(f, z)
  BY <1>3, <1>9, <1>10
<1> HIDE DEF w
<1>20. Cov(f, z, gl)
  <2>1. Same(gl, gl)
    BY DEF Same
  <2> QED BY <1>3, <1>14, <1>18, <1>19, <2>1, CovExtend
<1> QED BY <1>3, <1>20 DEF gl, src, z

LEMMA GotoStep ==
    ASSUME IInv, NEW b \in Blocks, Goto(b)
    PROVE  IInv'
<1>1. PICK e \in EdgesInto(b) :
        /\ e[1] = block
        /\ b = "body" => trips < MaxTrips
        /\ trips' = IF b = "body" THEN trips + 1 ELSE trips
        /\ flight' = Rebind(flight, Meanings(e, b))
  BY DEF Goto
<1>2. /\ phase = "run" /\ at = Len(prog[block]) /\ block' = b /\ at' = 0
      /\ local' = lat[<<b, 0>>] /\ prog' = prog /\ lat' = lat /\ sweep' = sweep
      /\ phase' = phase
  BY DEF Goto, solver
<1>3. /\ prog \in Programs /\ Sound(lat) /\ Typed /\ Phased
      /\ \A p \in Points(prog) : /\ IsState(Fun, lat[p])
                                 /\ ReturnsInOrder(Fun) => Plain(Fun, lat[p])
  BY <1>2, RunFacts DEF IInv
<1>4. 0 \in 0..Len(prog[b]) /\ <<b, 0>> \in Points(prog)
  <2>1. Len(prog[b]) \in Nat
    BY <1>3, ProgramFacts
  <2>2. 0 \in 0..Len(prog[b])
    BY <2>1
  <2> QED BY <2>2, PointFacts
<1>5. PICK n \in Nat : IsFlight(Function(prog, n), flight)
  BY <1>3 DEF Typed
<1>6. IsFlight(Function(prog, n), flight')
  <2> DEFINE f == Function(prog, n)
             src == Meanings(e, b)
  <2>1. WellFormed(f)
    BY <1>3, SameFunction
  <2>2. DOMAIN src \subseteq Values
    BY <1>3, EdgeFacts DEF Meanings
  <2>3. IsFlight(f, flight)
    BY <1>5
  <2> HIDE DEF f, src
  <2>4. IsFlight(f, Rebind(flight, src))
    BY <2>1, <2>2, <2>3, RebindFacts
  <2> QED BY <2>4, <1>1 DEF f, src
<1>7. trips' \in 0..MaxTrips
  BY <1>1, <1>3, SolverAssumption DEF Typed
<1>8. /\ Fun' = Fun /\ (Points(prog))' = Points(prog) /\ Predictable' = Predictable
      /\ Sound(lat)' /\ \A p \in Points(prog) : Visited(p)' = Visited(p)
  BY <1>2, <1>3, SameSolver
<1>9. Typed'
  <2>1. \E k \in Nat : IsFlight(Function(prog', k), flight')
    BY <1>2, <1>6
  <2>2. IsState(Fun, local') /\ (ReturnsInOrder(Fun) => Plain(Fun, local'))
    BY <1>2, <1>3, <1>4
  <2> QED BY <1>2, <1>3, <1>4, <1>7, <1>8, <2>1, <2>2 DEF Typed
<1>10. Phased'
  BY <1>2, <1>3, <1>8 DEF Phased
<1>11. ASSUME Predictable
       PROVE  Tracks(local', lat'[<<block', at'>>]) /\ Cov(Fun', local', flight')
  <2>1. Cov(Fun, lat[<<b, 0>>], Rebind(flight, Meanings(e, b)))
    BY <1>1, <1>2, <1>5, <1>11, CovEdge
  <2> QED BY <2>1, <1>1, <1>2, <1>8, TracksItself
<1> QED BY <1>8, <1>9, <1>10, <1>11 DEF IInv

LEMMA CompleteStep ==
    ASSUME IInv, NEW i \in DOMAIN flight, Complete(i)
    PROVE  IInv'
<1>1. /\ MayComplete(flight, i) /\ flight' = Without(flight, i) /\ prog' = prog /\ lat' = lat
      /\ sweep' = sweep /\ phase' = phase /\ block' = block /\ at' = at /\ trips' = trips
      /\ local' = local
  BY DEF Complete, solver
<1>2. Typed /\ Sound(lat) /\ Phased /\ prog \in Programs
  BY DEF IInv, Typed
<1>3. phase = "run"
  <2>1. flight # <<>>
    OBVIOUS
  <2> QED BY <1>2, <2>1 DEF Phased
<1>4. PICK n \in Nat : IsFlight(Function(prog, n), flight)
  BY <1>2 DEF Typed
<1> DEFINE f == Function(prog, n)
<1>5. /\ WellFormed(f) /\ IsFlight(f, flight)
      /\ \A s : IsState(f, s) <=> IsState(Fun, s)
      /\ \A s, fl : Cov(f, s, fl) <=> Cov(Fun, s, fl)
  BY <1>2, <1>4, SameFunction
<1>6. /\ Fun' = Fun /\ (Points(prog))' = Points(prog) /\ Predictable' = Predictable
      /\ Sound(lat)' /\ \A p \in Points(prog) : Visited(p)' = Visited(p)
  BY <1>1, <1>2, SameSolver
<1> HIDE DEF f
<1>7. IsFlight(f, Without(flight, i))
  BY <1>5, WithoutFacts
<1>8. Typed'
  <2>1. \E k \in Nat : IsFlight(Function(prog', k), flight')
    BY <1>1, <1>7 DEF f
  <2> QED BY <1>1, <1>2, <1>6, <2>1 DEF Typed
<1>9. Phased'
  BY <1>1, <1>2, <1>3, <1>6 DEF Phased
<1>10. ASSUME Predictable
       PROVE  Tracks(local', lat'[<<block', at'>>]) /\ Cov(Fun', local', flight')
  <2>1. Tracks(local, lat[<<block, at>>]) /\ Cov(Fun, local, flight) /\ IsState(Fun, local)
    BY <1>2, <1>3, <1>10 DEF IInv, Typed
  <2>2. Cov(f, local, flight) /\ IsState(f, local)
    BY <1>5, <2>1
  <2>3. Cov(f, local, Without(flight, i))
    BY <1>1, <1>5, <2>2, CovComplete
  <2> QED BY <1>1, <1>5, <1>6, <2>1, <2>3
<1> QED BY <1>6, <1>8, <1>9, <1>10 DEF IInv

LEMMA SolveStep == IInv /\ Solve => IInv'
<1>1. SUFFICES ASSUME IInv, Solve PROVE IInv'
  OBVIOUS
<1>2. CASE FirstVisit
  <2>1. Typed /\ Sound(lat) /\ Phased /\ phase = "init"
    BY <1>1, <1>2 DEF IInv, FirstVisit
  <2>2. CASE sweep = <<>>
    <3>1. /\ phase' = "solve" /\ prog' = prog /\ lat' = lat /\ sweep' = sweep
          /\ block' = block /\ at' = at /\ trips' = trips /\ local' = local /\ flight' = flight
      BY <1>2, <2>2 DEF FirstVisit, wave
    <3>2. Fun' = Fun /\ (Points(prog))' = Points(prog) /\ Sound(lat)'
      BY <2>1, <3>1, SameSolver
    <3>3. Typed' /\ Phased'
      BY <2>1, <3>1, <3>2 DEF Typed, Phased
    <3> QED BY <3>1, <3>2, <3>3 DEF IInv
  <2>3. CASE sweep # <<>>
    <3>1. /\ lat' = [lat EXCEPT ![Head(sweep)] = Visited(Head(sweep))]
          /\ sweep' = Tail(sweep) /\ phase' = phase /\ UNCHANGED <<prog, wave>>
      BY <1>2, <2>3 DEF FirstVisit
    <3>2. Head(sweep) \in Points(prog) /\ Tail(sweep) \in Seq(Points(prog))
      BY <2>1, <2>3 DEF Typed
    <3> QED BY <1>1, <2>1, <3>1, <3>2, VisitStep
  <2> QED BY <2>2, <2>3
<1>3. CASE \E p \in Points(prog) : Revisit(p)
  <2>1. PICK p \in Points(prog) : Revisit(p)
    BY <1>3
  <2>2. /\ phase = "solve" /\ lat' = [lat EXCEPT ![p] = Visited(p)]
        /\ sweep' = sweep /\ phase' = phase /\ UNCHANGED <<prog, wave>>
    BY <2>1 DEF Revisit
  <2>3. sweep' \in Seq(Points(prog))
    BY <1>1, <2>2 DEF IInv, Typed
  <2> QED BY <1>1, <2>2, <2>3, VisitStep
<1>4. CASE Converged
  BY <1>1, <1>4, ConvergedStep
<1> QED BY <1>1, <1>2, <1>3, <1>4 DEF Solve

LEMMA Stutter == IInv /\ UNCHANGED vars => IInv'
<1>1. SUFFICES ASSUME IInv, UNCHANGED vars PROVE IInv'
  OBVIOUS
<1>2. /\ prog' = prog /\ lat' = lat /\ sweep' = sweep /\ phase' = phase /\ block' = block
      /\ at' = at /\ trips' = trips /\ local' = local /\ flight' = flight
  BY <1>1 DEF vars
<1>3. /\ Fun' = Fun /\ (Points(prog))' = Points(prog) /\ Predictable' = Predictable
      /\ Sound(lat)' = Sound(lat) /\ \A p \in Points(prog) : Visited(p)' = Visited(p)
  BY <1>2, SameSolver
<1>4. Typed /\ Sound(lat) /\ Phased
  BY <1>1 DEF IInv
<1>5. Typed' /\ Phased'
  BY <1>2, <1>3, <1>4 DEF Typed, Phased
<1> QED BY <1>1, <1>2, <1>3, <1>4, <1>5 DEF IInv

(* The states of the solver and of the rewrite are well formed, the solver's *)
(* hold nothing without a reason, and whatever is in flight is known to the  *)
(* rewrite (visitOperation, visitBlockTransfer, rewriteBlock, rewriteOp).    *)
THEOREM Invariance == Spec => []IInv
<1>1. IInv /\ [Next]_vars => IInv'
  <2>1. SUFFICES ASSUME IInv, [Next]_vars PROVE IInv'
    OBVIOUS
  <2>2. CASE Solve
    BY <2>1, <2>2, SolveStep
  <2>3. CASE Step
    BY <2>1, <2>3, StepStep
  <2>4. CASE \E b \in Blocks : Goto(b)
    BY <2>1, <2>4, GotoStep
  <2>5. CASE \E i \in DOMAIN flight : Complete(i)
    BY <2>1, <2>5, CompleteStep
  <2>6. CASE Finished
    BY <2>1, <2>6, Stutter DEF Finished
  <2>7. CASE UNCHANGED vars
    BY <2>1, <2>7, Stutter
  <2> QED BY <2>1, <2>2, <2>3, <2>4, <2>5, <2>6, <2>7 DEF Next
<1> QED BY Initially, <1>1, PTL DEF Spec

-----------------------------------------------------------------------------
(* The properties. *)

(* No operation of the rewritten function is issued before its operands are  *)
(* ready, whichever way the wave takes through the blocks, if every counter  *)
(* returns in order, reads that are ordered by tokens can tell which of the  *)
(* tokens are writes, and no wait is too large for its field (rewriteOp,     *)
(* visitBlockTransfer, joinWith).                                            *)
THEOREM OperandsAreReady == Spec => [](Predictable => OperandsReady)
<1>1. IInv => (Predictable => OperandsReady)
  <2>1. SUFFICES ASSUME IInv, Predictable, phase = "run", at < Len(prog[block]),
                        WaitDone(flight, Emitted)
                 PROVE  ~ReadsTooEarly(flight, NextOp)
    BY DEF OperandsReady
  <2>2. prog \in Programs /\ Typed /\ Cov(Fun, local, flight) /\ IsState(Fun, local)
    BY <2>1 DEF IInv, Typed
  <2>3. PICK n \in Nat : IsFlight(Function(prog, n), flight)
    BY <2>2 DEF Typed
  <2> DEFINE f == Function(prog, n)
  <2>4. /\ WellFormed(f) /\ IsState(f, local) /\ Cov(f, local, flight) /\ IsFlight(f, flight)
    BY <2>2, <2>3, SameFunction
  <2>5. InstructionReady(flight, NextOp)
    BY <2>2, <2>3, LegacyReady
  <2>6. WaitDone(flight, Requirement(NextOp, local))
    BY <2>1 DEF Emitted
  <2> HIDE DEF f
  <2> QED BY <2>4, <2>5, <2>6, ReadyToRead
<1> QED BY Invariance, <1>1, PTL

(* Whatever the rewrite has pending at the end of a block, the state of the  *)
(* solver that the next block starts from has pending too, at no larger      *)
(* position, if the function is Predictable as above (rewriteBlock,          *)
(* visitBlockTransfer).                                                      *)
THEOREM SolverCovers == Spec => [](Predictable => SolverCoversRewrite)
<1>1. IInv => (Predictable => SolverCoversRewrite)
  <2>1. SUFFICES ASSUME IInv, Predictable, phase = "run", at = Len(prog[block])
                 PROVE  \A k \in DOMAIN local :
                           /\ k \in DOMAIN lat[Exit(block)]
                           /\ lat[Exit(block)][k].pos <= local[k].pos
                           /\ local[k].events \subseteq lat[Exit(block)][k].events
    BY DEF SolverCoversRewrite
  <2>2. Tracks(local, lat[Exit(block)])
    BY <2>1 DEF IInv, Exit
  <2>3. \A k \in DOMAIN local : local[k].pos \in Nat
    BY <2>1, TokenFacts DEF IInv, Typed, IsState
  <2> QED BY <2>2, <2>3 DEF Tracks
<1> QED BY Invariance, <1>1, PTL
=============================================================================
