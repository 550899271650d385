---------------------------- MODULE NativeBarrier ----------------------------
(***************************************************************************)
(* The native (gfx1250) path of waveamd-materialize-split-barriers.        *)
(*                                                                         *)
(* A function is a straight-line body of barrier operations, in a loop or  *)
(* not.  The pass first validates it (Accepts) and then expands every      *)
(* operation into hardware barrier instructions (Code).  The model takes   *)
(* every body of at most MaxLen operations the pass accepts and runs its   *)
(* expansion on all the waves of a cluster of workgroups.                  *)
(*                                                                         *)
(* The hardware has one barrier per workgroup and one per cluster.  It     *)
(* counts signals, not waves: nothing but the validation keeps a wave from *)
(* signalling twice.                                                       *)
(***************************************************************************)
EXTENDS Integers, FiniteSets, Sequences

CONSTANTS Waves,      \* the waves of the cluster
          Groups,     \* its workgroups
          GroupOf,    \* GroupOf[w]: the workgroup of wave w
          MaxLen,     \* bound: the longest body
          MaxRounds   \* bound: iterations of a looped body

ASSUME NativeAssumption ==
    /\ IsFiniteSet(Waves) /\ IsFiniteSet(Groups) /\ Waves # {}
    /\ GroupOf \in [Waves -> Groups]
    /\ \A g \in Groups : \E w \in Waves : GroupOf[w] = g
    /\ MaxLen \in Nat /\ MaxRounds \in Nat \ {0}

Members(g) == {w \in Waves : GroupOf[w] = g}

(* The barrier operations of a function: two arrive/wait pairs (the ids name *)
(* the SSA tie of validateArriveWaitPairs), a full workgroup barrier, two    *)
(* cluster barriers and a call, whose callee holds a workgroup barrier.      *)
Operations ==
    {[kind |-> "arrive", id |-> 1], [kind |-> "wait", id |-> 1],
     [kind |-> "arrive", id |-> 2], [kind |-> "wait", id |-> 2],
     [kind |-> "full", id |-> 3], [kind |-> "cluster", id |-> 4],
     [kind |-> "cluster", id |-> 5], [kind |-> "call", id |-> 6]}
Ids == 1..6
ClusterIds == {4, 5}
WorkgroupIds == Ids \ ClusterIds

(* The bodies a function can hold: every operation occurs once. *)
Bodies ==
    {b \in UNION {[1..n -> Operations] : n \in 1..MaxLen} :
        \A i, j \in DOMAIN b : i # j => b[i] # b[j]}

(* validateArriveWaitPairs: every wait has its arrive, every arrive its wait. *)
PairsMatch(b) ==
    \A i \in DOMAIN b :
        /\ b[i].kind = "wait" =>
              \E j \in DOMAIN b : j < i /\ b[j] = [kind |-> "arrive", id |-> b[i].id]
        /\ b[i].kind = "arrive" =>
              \E j \in DOMAIN b : i < j /\ b[j] = [kind |-> "wait", id |-> b[i].id]

(* validateClusterBarriers: not inside structured control flow. *)
ClusterPlacement(b, looped) == looped => \A i \in DOMAIN b : b[i].kind # "cluster"

(* Mutant: a call between the two halves of a pair goes unnoticed. *)
Conflicts_IgnoreCalls(op) == op.kind # "call"

(* findNativeBarrierConflict: any barrier operation, or a call. *)
Conflicts(op) == op.kind \in {"arrive", "wait", "cluster", "full", "call"}

(* validateNativeBarrierPair: nothing that uses the hardware barrier between *)
(* an arrive and its wait.                                                   *)
PairsDisjoint(b) ==
    \A i, j \in DOMAIN b :
        (b[i].kind = "arrive" /\ b[j].kind = "wait" /\ b[i].id = b[j].id) =>
            \A k \in (i + 1)..(j - 1) : ~Conflicts(b[k])

Accepts(b, looped) ==
    PairsMatch(b) /\ ClusterPlacement(b, looped) /\ PairsDisjoint(b)

(* Mutants of the cluster expansion: the wave elected first signals the      *)
(* cluster before its workgroup is complete; nobody waits for the cluster.   *)
Code_SignalEarly(kind) ==
    CASE kind = "arrive"  -> <<"signal">>
      [] kind = "wait"    -> <<"wait">>
      [] kind = "full"    -> <<"signal", "wait">>
      [] kind = "call"    -> <<"signal", "wait">>
      [] kind = "cluster" -> <<"isfirst", "elected", "wait", "cwait">>
Code_NoClusterWait(kind) ==
    CASE kind = "arrive"  -> <<"signal">>
      [] kind = "wait"    -> <<"wait">>
      [] kind = "full"    -> <<"signal", "wait">>
      [] kind = "call"    -> <<"signal", "wait">>
      [] kind = "cluster" -> <<"isfirst", "wait", "elected">>

(* What each operation becomes: materializeNativeSplitBarriers,              *)
(* materializeFullWorkgroupBarriers, materializeClusterBarriers.             *)
Code(kind) ==
    CASE kind = "arrive"  -> <<"signal">>
      [] kind = "wait"    -> <<"wait">>
      [] kind = "full"    -> <<"signal", "wait">>
      [] kind = "call"    -> <<"signal", "wait">>
      [] kind = "cluster" -> <<"isfirst", "wait", "elected", "cwait">>

-----------------------------------------------------------------------------
VARIABLES
    body,       \* the accepted body
    rounds,     \* how often it runs
    at,         \* at[w]: the wave's operation
    step,       \* step[w]: the wave's instruction in its expansion
    round,      \* round[w]: completed iterations
    first,      \* first[w]: SCC of its last s_barrier_signal_isfirst
    count,      \* count[g]: signals of the workgroup barrier's generation
    ready,      \* ready[w]: the workgroup barrier has completed for w
    ccount,     \* signals of the cluster barrier's generation
    cready,     \* cready[w]: the cluster barrier has completed for w
    arrived,    \* arrived[w][id]: history, signals for operation id
    left,       \* left[w][id]: history, completed waits for operation id
    csignals    \* csignals[g][id]: history, cluster signals of g for id

hw == <<count, ready, ccount, cready>>
vars == <<body, rounds, at, step, round, first, count, ready, ccount, cready,
          arrived, left, csignals>>

TypeOK ==
    /\ body \in Bodies /\ rounds \in 1..MaxRounds
    /\ at \in [Waves -> 1..(Len(body) + 1)] /\ step \in [Waves -> 1..4]
    /\ round \in [Waves -> 0..MaxRounds] /\ first \in [Waves -> BOOLEAN]
    /\ \A g \in Groups : count[g] \in 0..(Cardinality(Members(g)) - 1)
    /\ ready \in [Waves -> BOOLEAN]
    /\ ccount \in 0..(Cardinality(Groups) - 1)
    /\ cready \in [Waves -> BOOLEAN]
    /\ arrived \in [Waves -> [Ids -> 0..MaxRounds]]
    /\ left \in [Waves -> [Ids -> 0..MaxRounds]]
    /\ csignals \in [Groups -> [Ids -> 0..1]]

Init ==
    /\ \E looped \in BOOLEAN :
          /\ body \in {b \in Bodies : Accepts(b, looped)}
          /\ rounds = IF looped THEN MaxRounds ELSE 1
    /\ at = [w \in Waves |-> 1] /\ step = [w \in Waves |-> 1]
    /\ round = [w \in Waves |-> 0] /\ first = [w \in Waves |-> FALSE]
    /\ count = [g \in Groups |-> 0] /\ ready = [w \in Waves |-> FALSE]
    /\ ccount = 0 /\ cready = [w \in Waves |-> FALSE]
    /\ arrived = [w \in Waves |-> [i \in Ids |-> 0]]
    /\ left = [w \in Waves |-> [i \in Ids |-> 0]]
    /\ csignals = [g \in Groups |-> [i \in Ids |-> 0]]

-----------------------------------------------------------------------------
Running(w) == at[w] <= Len(body)
OpId(w) == body[at[w]].id
Instr(w) == Code(body[at[w]].kind)[step[w]]

(* Is the instruction the last of its operation? *)
Last(w) == step[w] = Len(Code(body[at[w]].kind))

NextInstr(w) ==
    /\ IF ~Last(w)
         THEN /\ step' = [step EXCEPT ![w] = @ + 1]
              /\ UNCHANGED <<at, round>>
         ELSE /\ step' = [step EXCEPT ![w] = 1]
              /\ IF at[w] = Len(body) /\ round[w] + 1 < rounds
                   THEN at' = [at EXCEPT ![w] = 1]
                   ELSE at' = [at EXCEPT ![w] = @ + 1]
              /\ round' = [round EXCEPT ![w] =
                              IF at[w] = Len(body) THEN @ + 1 ELSE @]
    /\ UNCHANGED <<body, rounds>>

(* The workgroup barrier counts one more signal; the last one releases all. *)
SignalWorkgroup(g) ==
    IF count[g] + 1 = Cardinality(Members(g))
      THEN /\ count' = [count EXCEPT ![g] = 0]
           /\ ready' = [v \in Waves |-> ready[v] \/ v \in Members(g)]
      ELSE count' = [count EXCEPT ![g] = @ + 1] /\ UNCHANGED ready

SignalCluster ==
    IF ccount + 1 = Cardinality(Groups)
      THEN ccount' = 0 /\ cready' = [v \in Waves |-> TRUE]
      ELSE ccount' = ccount + 1 /\ UNCHANGED cready

(* s_barrier_signal *)
Signal(w) ==
    /\ Running(w) /\ Instr(w) = "signal"
    /\ SignalWorkgroup(GroupOf[w])
    /\ arrived' = [arrived EXCEPT ![w][OpId(w)] = @ + 1]
    /\ NextInstr(w)
    /\ UNCHANGED <<first, ccount, cready, left, csignals>>

(* s_barrier_signal_isfirst: also tells whether it was the generation's first. *)
SignalIsFirst(w) ==
    /\ Running(w) /\ Instr(w) = "isfirst"
    /\ first' = [first EXCEPT ![w] = count[GroupOf[w]] = 0]
    /\ SignalWorkgroup(GroupOf[w])
    /\ arrived' = [arrived EXCEPT ![w][OpId(w)] = @ + 1]
    /\ NextInstr(w)
    /\ UNCHANGED <<ccount, cready, left, csignals>>

Leave(w) == left' = IF Last(w) THEN [left EXCEPT ![w][OpId(w)] = @ + 1] ELSE left

(* s_barrier_wait *)
Wait(w) ==
    /\ Running(w) /\ Instr(w) = "wait"
    /\ ready[w]
    /\ ready' = [ready EXCEPT ![w] = FALSE]
    /\ Leave(w)
    /\ NextInstr(w)
    /\ UNCHANGED <<first, count, ccount, cready, arrived, csignals>>

(* Mutants: every wave signals the cluster; none does. *)
IsElected_All(w) == TRUE
IsElected_None(w) == FALSE

IsElected(w) == first[w]

(* uniform_if isFirst { s_barrier_signal cluster } *)
Elected(w) ==
    /\ Running(w) /\ Instr(w) = "elected"
    /\ IF IsElected(w)
         THEN /\ SignalCluster
              /\ csignals' = [csignals EXCEPT ![GroupOf[w]][OpId(w)] = @ + 1]
         ELSE UNCHANGED <<ccount, cready, csignals>>
    /\ Leave(w)
    /\ NextInstr(w)
    /\ UNCHANGED <<first, count, ready, arrived>>

(* s_barrier_wait cluster *)
ClusterWait(w) ==
    /\ Running(w) /\ Instr(w) = "cwait"
    /\ cready[w]
    /\ cready' = [cready EXCEPT ![w] = FALSE]
    /\ Leave(w)
    /\ NextInstr(w)
    /\ UNCHANGED <<first, count, ready, ccount, arrived, csignals>>

Wave(w) ==
    Signal(w) \/ SignalIsFirst(w) \/ Wait(w) \/ Elected(w) \/ ClusterWait(w)

Finished == (\A w \in Waves : ~Running(w)) /\ UNCHANGED vars

Next == (\E w \in Waves : Wave(w)) \/ Finished

(* The hardware issues from every resident wave. *)
Fairness == \A w \in Waves : WF_vars(Wave(w))
Spec == Init /\ [][Next]_vars
FairSpec == Spec /\ Fairness

-----------------------------------------------------------------------------
(* Properties *)

(* One cluster signal per workgroup and cluster barrier, and none before the *)
(* whole workgroup has arrived (materializeNativeClusterArrival).            *)
OneClusterSignal ==
    \A g \in Groups, id \in Ids :
        /\ csignals[g][id] <= 1
        /\ csignals[g][id] = 1 => \A w \in Members(g) : arrived[w][id] = 1

(* A barrier never completes a generation while a member still has to take   *)
(* note of the previous one: no completion is lost between back-to-back      *)
(* barriers.                                                                 *)
NoLostCompletion ==
    [][/\ \A w \in Waves :
            count[GroupOf[w]] # 0 /\ count'[GroupOf[w]] = 0 => ~ready[w]
       /\ ccount # 0 /\ ccount' = 0 => \A w \in Waves : ~cready[w]]_vars

(* The barrier operations of one scope, as the abstract barrier of the waves *)
(* that share it.                                                            *)
Abstract(ws, ids) == INSTANCE WorkgroupBarrier
    WITH Waves <- ws, Slots <- ids,
         arrived <- [w \in ws |-> [i \in ids |-> arrived[w][i]]],
         passed <- [w \in ws |-> [i \in ids |-> left[w][i]]]

BarrierStep(ws, ids) == Abstract(ws, ids)!Next \/ UNCHANGED Abstract(ws, ids)!vars

(* Validation and expansion (materializeNativeBarriers) implement, on the    *)
(* one hardware barrier of a workgroup, a barrier of its own for every       *)
(* barrier operation: each step is a step of the abstract barrier over the   *)
(* waves of each workgroup, and over the cluster's for a cluster barrier, or *)
(* a stutter.                                                                *)
ImplementsBarrier ==
    [][(\A g \in Groups : BarrierStep(Members(g), WorkgroupIds))
       /\ BarrierStep(Waves, ClusterIds)]_vars

(* Every wave of every accepted function gets through its barriers. *)
Termination == <>(\A w \in Waves : ~Running(w))
=============================================================================
