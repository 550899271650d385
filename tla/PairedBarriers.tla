--------------------------- MODULE PairedBarriers ---------------------------
(***************************************************************************)
(* Barriers from the pass that splits them to the waves that meet at them. *)
(*                                                                         *)
(* waveamd-split-barriers turns every full barrier of a loop body into an  *)
(* arrive and a wait.  waveamd-machine-multi-wave-specialize clones the    *)
(* body into the two arms of a uniform_if, one per wave class, and numbers *)
(* the barrier sites.  The arms are then scheduled, each into any order    *)
(* its token graph allows.  waveamd-barrier-cleanup merges what lies       *)
(* side by side again: two full barriers into one, an arrive and its wait  *)
(* back into a full barrier - in a specialized body only if both arms can  *)
(* be rewritten alike, elsewhere by one scan of the block.                 *)
(* waveamd-finalize-barrier-protocols accepts the result or rejects it.    *)
(* What is accepted is run by the waves of a workgroup, each in the arm of *)
(* its class.                                                              *)
(*                                                                         *)
(* A token is named by the operation that makes it: "uses" is the set of   *)
(* the operations whose tokens an operation takes.                         *)
(***************************************************************************)
EXTENDS Naturals, FiniteSets, Sequences, SequencesExt

CONSTANTS
    Programs,       \* loop bodies: sequences of operations, sites still empty
    Waves,          \* the waves of the workgroup
    Trips,          \* iterations of the loop
    ArriveBase      \* the arrive split off barrier b is operation b + ArriveBase

ASSUME BodiesAreFinite == Trips \in Nat /\ ArriveBase \in Nat

VARIABLES
    source,     \* the body as specialize saw it: the reference for what it orders
    paired,     \* the body is specialized: it lives in the arms of a uniform_if
    phase,      \* "schedule", "validate", "clean", "run" or "rejected"
    rest,       \* rest[c]: operations of arm c not scheduled yet
    arms,       \* arms[c]: the operations of arm c in order
    cursor,     \* where collapseBlock stands in a body that is not specialized
    classOf,    \* the class of each wave
    pc, trip,   \* next operation and iteration of each wave
    atBarrier,  \* waves that have signalled a full barrier and wait for it
    arrived,    \* arrived[w][h]: arrives of wave w on handle h
    pending     \* pending[w]: memory operations in flight, <<trip, id>>

progVars == <<source, paired, classOf>>
waveVars == <<pc, trip, atBarrier, arrived, pending>>
vars == <<progVars, phase, rest, arms, cursor, waveVars>>

Classes == {1, 2}
ArmsInUse == IF paired THEN Classes ELSE {1}

-----------------------------------------------------------------------------
(* Operations. *)

NoInst(op) == op.kind \in {"join", "free"}

Memory(op) == op.kind = "mem"

Flattenable_Any(op) == NoInst(op)

\* A token join is looked through; a completion-free token never is.
Flattenable(op) == op.kind = "join"

ProtocolOp(op) == op.kind \in {"full", "arrive", "wait"}

Ids(seq) == {seq[i].id : i \in DOMAIN seq}
At(seq, t) == CHOOSE i \in DOMAIN seq : seq[i].id = t

\* The memory operations that have completed once token t is available.
Completions(seq, t) ==
    LET C[u \in Ids(seq)] ==
            LET op == seq[At(seq, u)]
            IN  CASE Memory(op) -> {u}
                  [] op.kind = "free" -> {}
                  [] OTHER -> UNION {C[v] : v \in op.uses}
    IN  C[t]

\* Every operation that t follows in the token graph.
Ancestors(seq, t) ==
    LET A[u \in Ids(seq)] ==
            LET uses == seq[At(seq, u)].uses
            IN  uses \cup UNION {A[v] : v \in uses}
    IN  A[t]

-----------------------------------------------------------------------------
(* Splitting and specializing. *)

SplitOp(op) ==
    IF op.kind # "full" THEN <<op>>
    ELSE <<[op EXCEPT !.kind = "arrive", !.id = @ + ArriveBase, !.handle = op.id],
           [op EXCEPT !.kind = "wait", !.handle = op.id,
                      !.uses = {op.id + ArriveBase}, !.ticket = op.id + ArriveBase]>>

SplitBarriers(seq) == FlattenSeq([i \in DOMAIN seq |-> SplitOp(seq[i])])

SiteOf_WaitOwn(seq, i) ==
    Cardinality({k \in 1 .. i - 1 : ProtocolOp(seq[k])})

\* A full barrier or an arrive opens a site, a wait belongs to its arrive's.
SiteOf(seq, i) ==
    LET anchor == IF seq[i].kind = "wait" THEN At(seq, seq[i].ticket) ELSE i
    IN  Cardinality({k \in 1 .. anchor - 1 : seq[k].kind \in {"full", "arrive"}})

BarrierLineage(seq) ==
    [i \in DOMAIN seq |->
        IF ProtocolOp(seq[i]) THEN [seq[i] EXCEPT !.sites = {SiteOf(seq, i)}] ELSE seq[i]]

Init ==
    /\ paired \in BOOLEAN
    /\ \E body \in Programs, split \in BOOLEAN :
          source = BarrierLineage(IF split THEN SplitBarriers(body) ELSE body)
    /\ classOf \in [Waves -> ArmsInUse]
    /\ phase = "schedule"
    /\ rest = [c \in Classes |-> IF c \in ArmsInUse THEN ToSet(source) ELSE {}]
    /\ arms = [c \in Classes |-> <<>>]
    /\ cursor = 1
    /\ pc = [w \in Waves |-> 1]
    /\ trip = [w \in Waves |-> 1]
    /\ atBarrier = {}
    /\ arrived = [w \in Waves |-> [h \in {op.handle : op \in ToSet(source)} |-> 0]]
    /\ pending = [w \in Waves |-> {}]

-----------------------------------------------------------------------------
(* The scheduler places ready operations; which one is its cost model's     *)
(* affair, except that an operation without an instruction goes first.      *)

Ready(c) ==
    {op \in rest[c] : \A other \in rest[c] : other.id \notin op.uses \cup {op.ticket}}

Placeable(c) ==
    LET silent == {op \in Ready(c) : NoInst(op)}
    IN  IF silent = {} THEN Ready(c)
        ELSE {CHOOSE op \in silent : \A other \in silent : op.id <= other.id}

ScheduleOp(c) ==
    /\ phase = "schedule"
    /\ rest[c] # {}
    /\ \A d \in Classes : d < c => rest[d] = {}
    /\ \E op \in Placeable(c) :
          /\ rest' = [rest EXCEPT ![c] = @ \ {op}]
          /\ arms' = [arms EXCEPT ![c] = Append(@, op)]
    /\ UNCHANGED <<progVars, phase, cursor, waveVars>>

Scheduled ==
    /\ phase = "schedule"
    /\ \A c \in Classes : rest[c] = {}
    /\ phase' = IF paired THEN "validate" ELSE "clean"
    /\ UNCHANGED <<progVars, rest, arms, cursor, waveVars>>

-----------------------------------------------------------------------------
(* Validation of a paired uniform_if. *)

Protocol(seq) == SelectSeq(seq, ProtocolOp)

SiteGroups(seq) == {op.sites : op \in ToSet(Protocol(seq))}

Group(seq, sites) == {i \in DOMAIN seq : ProtocolOp(seq[i]) /\ seq[i].sites = sites}

\* Groups do not overlap; each is one full barrier, or one arrive and one wait.
ValidGroups(seq) ==
    /\ \A s, t \in SiteGroups(seq) : s = t \/ s \cap t = {}
    /\ \A s \in SiteGroups(seq) :
          LET kinds == [k \in {"full", "arrive", "wait"} |->
                           Cardinality({i \in Group(seq, s) : seq[i].kind = k})]
          IN  \/ kinds["full"] = 1 /\ kinds["arrive"] + kinds["wait"] = 0
              \/ kinds["full"] = 0 /\ kinds["arrive"] = 1 /\ kinds["wait"] = 1

SameHandles(left, right) ==
    \A op \in ToSet(left) : op.kind = "arrive" =>
        \E other \in ToSet(right) :
            other.kind = "arrive" /\ other.sites = op.sites /\ other.handle = op.handle

Signature(seq) == [i \in DOMAIN Protocol(seq) |->
                      <<Protocol(seq)[i].kind, Protocol(seq)[i].sites>>]

CompareProtocols_AnyOrder(left, right) == ToSet(Signature(left)) = ToSet(Signature(right))

CompareProtocols(left, right) == Signature(left) = Signature(right)

ValidatePairedIf ==
    /\ ValidGroups(arms[1]) /\ ValidGroups(arms[2])
    /\ SameHandles(arms[1], arms[2])
    /\ CompareProtocols(arms[1], arms[2])

Validate ==
    /\ phase = "validate"
    /\ phase' = IF ValidatePairedIf THEN "clean" ELSE "rejected"
    /\ UNCHANGED <<progVars, rest, arms, cursor, waveVars>>

-----------------------------------------------------------------------------
(* Merge plans.  Operations i < j of a sequence are adjacent if nothing but *)
(* operations without an instruction lies between them; 0 is no operation.  *)

Following(seq, i) ==
    LET after == {j \in i + 1 .. Len(seq) : ~NoInst(seq[j])}
    IN  IF after = {} THEN 0 ELSE CHOOSE j \in after : \A k \in after : j <= k

Previous(seq, i) ==
    LET before == {j \in 1 .. i - 1 : ~NoInst(seq[j])}
    IN  IF before = {} THEN 0 ELSE CHOOSE j \in before : \A k \in before : j >= k

\* The tokens met when those in "from" are traced back to before operation i,
\* through operation i itself and what lies between i and j.
Traced(seq, i, j, from) ==
    LET T[t \in Ids(seq)] ==
            LET k == At(seq, t)
                through == k = i \/ (i < k /\ k < j /\ Flattenable(seq[k]))
            IN  {t} \cup IF through THEN UNION {T[u] : u \in seq[k].uses} ELSE {}
    IN  UNION {T[t] : t \in from}

Before(seq, i, tokens) == {t \in tokens : At(seq, t) < i}
Blocked(seq, i, j, tokens) ==
    \E t \in tokens : LET k == At(seq, t) IN i < k /\ k < j /\ ~Flattenable(seq[k])

FullOperands_Second(seq, i, j) == seq[j].uses

FullOperands(seq, i, j) == seq[i].uses \cup seq[j].uses

CanMergeFull(seq, i, j) ==
    /\ i # 0 /\ j # 0
    /\ seq[i].kind = "full" /\ seq[j].kind = "full"
    /\ Following(seq, i) = j
    /\ ~Blocked(seq, i, j, Traced(seq, i, j, FullOperands(seq, i, j)))
    /\ paired => seq[i].sites \cap seq[j].sites = {}

\* Operation "full" takes the place of i, j goes, and the tokens of both are its.
Replace(seq, i, j, full) ==
    LET old == {seq[i].id, seq[j].id}
    IN  [k \in 1 .. Len(seq) - 1 |->
            IF k = i THEN full
            ELSE [seq[IF k < j THEN k ELSE k + 1] EXCEPT
                     !.uses = {IF t \in old THEN full.id ELSE t : t \in @}]]

MergeFull(seq, i, j) ==
    LET deps == Before(seq, i, Traced(seq, i, j, FullOperands(seq, i, j)))
    IN  Replace(seq, i, j, [seq[i] EXCEPT !.uses = deps, !.sites = @ \cup seq[j].sites])

CanMergeSplit(seq, i, j) ==
    /\ i # 0 /\ j # 0
    /\ seq[i].kind = "arrive" /\ seq[j].kind = "wait"
    /\ Following(seq, i) = j
    /\ seq[j].handle = seq[i].handle /\ seq[j].ticket = seq[i].id
    /\ LET tokens == Traced(seq, i, j, seq[j].uses)
       IN  seq[i].id \in tokens /\ ~Blocked(seq, i, j, tokens)
    /\ paired => seq[i].sites = seq[j].sites

MergeSplit(seq, i, j) ==
    LET deps == Before(seq, i, Traced(seq, i, j, seq[j].uses))
    IN  Replace(seq, i, j, [seq[j] EXCEPT !.kind = "full", !.uses = deps, !.ticket = 0])

-----------------------------------------------------------------------------
(* Cleanup of a paired uniform_if: a rewrite is planned in both arms, by     *)
(* site, and made in both or in none.                                       *)

OpAt(seq, sites, kind) ==
    LET at == {i \in Group(seq, sites) : seq[i].kind = kind}
    IN  IF at = {} THEN 0 ELSE CHOOSE i \in at : TRUE

PlannedArms_First == {1}

\* The arms a rewrite must be possible in before it is made in both.
PlannedArms == Classes

PairedFull(i) ==
    LET j == Following(arms[1], i)
    IN  /\ j # 0 /\ arms[1][i].kind = "full" /\ arms[1][j].kind = "full"
        /\ \A c \in PlannedArms :
              CanMergeFull(arms[c], OpAt(arms[c], arms[1][i].sites, "full"),
                                    OpAt(arms[c], arms[1][j].sites, "full"))

PairedSplit(i) ==
    LET j == Following(arms[1], i)
    IN  /\ j # 0 /\ arms[1][i].kind = "arrive" /\ arms[1][j].kind = "wait"
        /\ \A c \in PlannedArms :
              CanMergeSplit(arms[c], OpAt(arms[c], arms[1][i].sites, "arrive"),
                                     OpAt(arms[c], arms[1][i].sites, "wait"))

PairedCandidates == {i \in DOMAIN arms[1] : PairedFull(i) \/ PairedSplit(i)}

\* One pass of tryApplyPairedRewrite: the first candidate of the then arm.
CleanPaired ==
    /\ phase = "clean" /\ paired
    /\ \E i \in PairedCandidates :
          /\ \A k \in 1 .. i - 1 : ~(PairedFull(k) \/ PairedSplit(k))
          /\ LET first == arms[1][i].sites
                 second == arms[1][Following(arms[1], i)].sites
             IN  arms' = [c \in Classes |->
                     IF c \notin PlannedArms THEN arms[c]
                     ELSE IF arms[1][i].kind = "full"
                          THEN MergeFull(arms[c], OpAt(arms[c], first, "full"),
                                                  OpAt(arms[c], second, "full"))
                          ELSE MergeSplit(arms[c], OpAt(arms[c], first, "arrive"),
                                                   OpAt(arms[c], first, "wait"))]
    /\ UNCHANGED <<progVars, phase, rest, cursor, waveVars>>

\* No rewrite is left: the protocols are compared again, and once more by the
\* finalize pass, which then drops the site numbers (kept here to tell sites apart).
FinishPaired ==
    /\ phase = "clean" /\ paired
    /\ PairedCandidates = {}
    /\ phase' = IF ValidatePairedIf THEN "run" ELSE "rejected"
    /\ UNCHANGED <<progVars, rest, arms, cursor, waveVars>>

-----------------------------------------------------------------------------
(* Cleanup of any other block: one scan. *)

TryCollapseWithPrevious_Never(seq, i) == [seq |-> seq, at |-> i]

TryCollapseWithPrevious(seq, i) ==
    IF CanMergeFull(seq, Previous(seq, i), i)
    THEN [seq |-> MergeFull(seq, Previous(seq, i), i), at |-> Previous(seq, i)]
    ELSE [seq |-> seq, at |-> i]

\* The scan stays on what it merged, for it may merge again; else it moves on.
CollapseBlock ==
    /\ phase = "clean" /\ ~paired
    /\ cursor <= Len(arms[1])
    /\ LET j == Following(arms[1], cursor)
       IN  \/ /\ CanMergeFull(arms[1], cursor, j)
              /\ arms' = [arms EXCEPT ![1] = MergeFull(@, cursor, j)]
              /\ UNCHANGED cursor
           \/ /\ CanMergeSplit(arms[1], cursor, j)
              /\ \E merged \in {MergeSplit(arms[1], cursor, j)} :
                    LET collapsed == TryCollapseWithPrevious(merged, cursor)
                    IN  /\ arms' = [arms EXCEPT ![1] = collapsed.seq]
                        /\ cursor' = collapsed.at
           \/ /\ ~CanMergeFull(arms[1], cursor, j)
              /\ ~CanMergeSplit(arms[1], cursor, j)
              /\ cursor' = cursor + 1
              /\ UNCHANGED arms
    /\ UNCHANGED <<progVars, phase, rest, waveVars>>

FinishBlock ==
    /\ phase = "clean" /\ ~paired
    /\ cursor > Len(arms[1])
    /\ phase' = "run"
    /\ UNCHANGED <<progVars, rest, arms, cursor, waveVars>>

-----------------------------------------------------------------------------
(* The waves.  An instruction waits for the memory operations behind the     *)
(* tokens it takes (waveamd-insert-ticket-waits).  A full barrier lets the   *)
(* workgroup go when every wave has signalled it; a wait on a handle passes  *)
(* when every wave has arrived as often as the waiting one.                  *)

Arm(w) == arms[classOf[w]]
Running(w) == phase = "run" /\ trip[w] <= Trips
Op(w) == Arm(w)[pc[w]]

TokensReady(w) ==
    \A t \in Op(w).uses :
        \A m \in Completions(Arm(w), t) : <<trip[w], m>> \notin pending[w]

\* pc and trip after the waves in W have executed one operation.
Advance(W) ==
    /\ pc' = [w \in Waves |->
                 IF w \notin W THEN pc[w]
                 ELSE IF pc[w] = Len(Arm(w)) THEN 1 ELSE pc[w] + 1]
    /\ trip' = [w \in Waves |->
                   IF w \in W /\ pc[w] = Len(Arm(w)) THEN trip[w] + 1 ELSE trip[w]]

Execute(w) ==
    /\ Running(w) /\ w \notin atBarrier
    /\ NoInst(Op(w)) \/ TokensReady(w)
    /\ CASE NoInst(Op(w)) ->
                Advance({w}) /\ UNCHANGED <<atBarrier, arrived, pending>>
         [] Memory(Op(w)) ->
                /\ Advance({w})
                /\ pending' = [pending EXCEPT ![w] = @ \cup {<<trip[w], Op(w).id>>}]
                /\ UNCHANGED <<atBarrier, arrived>>
         [] Op(w).kind = "arrive" ->
                /\ Advance({w})
                /\ arrived' = [arrived EXCEPT ![w][Op(w).handle] = @ + 1]
                /\ UNCHANGED <<atBarrier, pending>>
         [] Op(w).kind = "wait" ->
                /\ \A v \in Waves : arrived[v][Op(w).handle] >= arrived[w][Op(w).handle]
                /\ Advance({w})
                /\ UNCHANGED <<atBarrier, arrived, pending>>
         [] Op(w).kind = "full" ->
                /\ atBarrier' = atBarrier \cup {w}
                /\ UNCHANGED <<pc, trip, arrived, pending>>
    /\ UNCHANGED <<progVars, phase, rest, arms, cursor>>

Release ==
    /\ atBarrier = Waves
    /\ Advance(Waves)
    /\ atBarrier' = {}
    /\ UNCHANGED <<progVars, phase, rest, arms, cursor, arrived, pending>>

CompleteMemory(w) ==
    /\ \E m \in pending[w] : pending' = [pending EXCEPT ![w] = @ \ {m}]
    /\ UNCHANGED <<progVars, phase, rest, arms, cursor, pc, trip, atBarrier, arrived>>

Finished == phase = "rejected" \/ (phase = "run" /\ \A w \in Waves : ~Running(w))

Done == Finished /\ (\A w \in Waves : pending[w] = {}) /\ UNCHANGED vars

Next ==
    \/ \E c \in Classes : ScheduleOp(c)
    \/ Scheduled \/ Validate
    \/ CleanPaired \/ FinishPaired
    \/ CollapseBlock \/ FinishBlock
    \/ \E w \in Waves : Execute(w) \/ CompleteMemory(w)
    \/ Release
    \/ Done

Spec == Init /\ [][Next]_vars
FairSpec == Spec /\ WF_vars(Next)

-----------------------------------------------------------------------------
(* Properties. *)

\* Types; every site number is one that specializeLoop handed out.
TypeOK ==
    /\ paired \in BOOLEAN
    /\ phase \in {"schedule", "validate", "clean", "run", "rejected"}
    /\ classOf \in [Waves -> Classes]
    /\ \A c \in Classes : \A op \in ToSet(arms[c]) :
          op.sites \subseteq
             0 .. Cardinality({o \in ToSet(source) : o.kind \in {"full", "arrive"}}) - 1
    /\ cursor \in 1 .. Len(source) + 1
    /\ \A w \in Waves : trip[w] \in 1 .. Trips + 1 /\ (Running(w) => pc[w] \in DOMAIN Arm(w))
    /\ atBarrier \subseteq Waves

\* The barriers wave w has reached on object "bar" (a handle, or 0 for the full
\* barrier), oldest first, each with its iteration.
Met(w, bar) ==
    LET On(op) == IF bar = 0 THEN op.kind = "full" ELSE op.kind = "arrive" /\ op.handle = bar
        Reached(n, k) == LET ops == SelectSeq(SubSeq(Arm(w), 1, n), On)
                         IN  [i \in DOMAIN ops |-> <<k, ops[i].sites>>]
        inside == IF w \in atBarrier THEN pc[w] ELSE pc[w] - 1
    IN  FlattenSeq([k \in 1 .. trip[w] |->
            Reached(IF k < trip[w] THEN Len(Arm(w)) ELSE inside, k)])

\* Two waves, whatever their classes, meet at the same sites of the same iteration
\* in the same order on every barrier object: no wave is released by an arrival
\* meant for another site (validatePairedIf, cleanupPairedIf).
SameRendezvous ==
    phase = "run" =>
        \A v, w \in Waves : \A bar \in {0} \cup DOMAIN arrived[v] :
            IsPrefix(Met(v, bar), Met(w, bar)) \/ IsPrefix(Met(w, bar), Met(v, bar))

\* The memory operations that must have completed in all waves before memory
\* operation m of the same iteration: a barrier of the source lies between.
OrderedBefore(m) ==
    UNION {Completions(source, b) : b \in {t \in Ancestors(source, m) :
               source[At(source, t)].kind \in {"full", "wait"}}}

\* Splitting, scheduling and merging keep what a barrier orders: when a wave has
\* issued a memory operation that follows a barrier, the operations the barrier
\* waited for in the source have been issued and completed in every wave
\* (applyFullBarrier, applySplitBarrier and the dependencies they collect).
BarrierOrders ==
    \A w, v \in Waves : \A flight \in pending[w] :
        \A m \in OrderedBefore(flight[2]) :
            /\ <<flight[1], m>> \notin pending[v]
            /\ \/ trip[v] > flight[1]
               \/ trip[v] = flight[1] /\ At(Arm(v), m) < pc[v]

\* Merging neither loses nor adds a completion: a barrier of the output waits for
\* exactly what the source barriers of its sites waited for. In particular a token
\* that was stripped of its completion stays stripped (TokenDepCollector).
CompletionsKept ==
    \A c \in ArmsInUse : phase \in {"clean", "run"} =>
        \A op \in ToSet(arms[c]) : op.kind \in {"full", "wait"} =>
            Completions(arms[c], op.id) =
                UNION {Completions(source, o.id) : o \in
                          {s \in ToSet(source) : s.kind \in {"full", "wait"}
                                                 /\ s.sites \subseteq op.sites}}

\* Once the first comparison has accepted the arms, every rewrite leaves them with
\* the same protocol: the later comparisons never reject (tryApplyPairedFull,
\* tryApplyPairedSplit commit to both arms or to none).
ProtocolPreserved == (phase = "clean" /\ paired) => ValidatePairedIf

\* One scan of a block that is not specialized leaves nothing to merge, although a
\* barrier made from an arrive and a wait appears behind the scan (collapseBlock,
\* mergeSplitBarrier).
ScanComplete ==
    (phase = "run" /\ ~paired) =>
        \A i \in DOMAIN arms[1] :
            LET j == Following(arms[1], i)
            IN  ~CanMergeFull(arms[1], i, j) /\ ~CanMergeSplit(arms[1], i, j)

\* The pipeline ends, and what it accepts runs to the end: no wave waits for a wave
\* of the other class for ever.
Termination == <>Finished
=============================================================================
