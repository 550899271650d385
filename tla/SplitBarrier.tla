---------------------------- MODULE SplitBarrier ----------------------------
(***************************************************************************)
(* The code the legacy (LDS-emulated) path of                              *)
(* waveamd-materialize-split-barriers emits, running on all the waves of   *)
(* one workgroup.  Every static barrier site owns one LDS dword that only  *)
(* counts up.  Kernel entry zeroes the dwords and meets at one hardware    *)
(* s_barrier.  barrier_arrive is a returning LDS atomic add whose result,  *)
(* the ticket, is only read by barrier_wait; barrier_wait rounds the       *)
(* ticket up to the end of its generation and polls the dword.             *)
(*                                                                         *)
(* Memory operations are asynchronous: the wave issues one and goes on,    *)
(* the LDS performs it later.  The waits the model contains are the ones   *)
(* waveamd-insert-ticket-waits puts in front of a consumer of a token or   *)
(* of a loaded register.                                                   *)
(***************************************************************************)
EXTENDS Integers, FiniteSets, Sequences

CONSTANTS Waves,        \* the waves of the workgroup
          Slots,        \* the static barrier sites; each owns one LDS dword
          Modulus,      \* the number of values of an LDS dword (2^32)
          Body,         \* the loop body: a sequence of [op, slot] records
          Rounds        \* how often the loop runs (uniform across waves)

W == Cardinality(Waves)

Ops == {"store", "arrive", "wait"}

(* An arrive of slot s is open before position i: its wait is still to come. *)
OpenBefore(i, s) ==
    \E j \in 1..Len(Body) :
        /\ j < i
        /\ Body[j] = [op |-> "arrive", slot |-> s]
        /\ \A k \in 1..Len(Body) :
              j < k /\ k < i => Body[k] # [op |-> "wait", slot |-> s]

ASSUME WavesAssumption == IsFiniteSet(Waves) /\ Waves # {}

(* getExpectedWaves admits only powers of two, so a workgroup divides the   *)
(* dword's range; at most 16 waves share a workgroup, far below half of it. *)
ASSUME ModulusAssumption ==
    Modulus \in Nat /\ \E k \in 1..Modulus : Modulus = 2 * (k * W)

(* validateArriveWaitPairs and SSA dominance: in the loop body the arrives  *)
(* and waits of one handle alternate, and no pair crosses the back edge.    *)
ASSUME BodyAssumption ==
    /\ Body \in Seq([op : Ops, slot : Slots])
    /\ Len(Body) > 0
    /\ \A i \in 1..Len(Body) :
          /\ Body[i].op = "arrive" => ~OpenBefore(i, Body[i].slot)
          /\ Body[i].op = "wait" => OpenBefore(i, Body[i].slot)
    /\ \A s \in Slots : ~OpenBefore(Len(Body) + 1, s)

ASSUME RoundsAssumption == Rounds \in Nat

VARIABLES
    counter,        \* counter[s]: the LDS dword of site s
    phase,          \* phase[w]: where the wave is inside the emitted code
    pos,            \* pos[w]: its position in Body
    round,          \* round[w]: completed loop iterations
    zeroing,        \* zeroing[w]: init stores of w the LDS has not performed
    stores,         \* stores[w]: <<s, n>>: a store before arrive n of s in flight
    adding,         \* adding[w]: slots whose arrive atomic is in flight
    ticket,         \* ticket[w][s]: the value the last arrive returned
    target,         \* target[w]: the value the poll loop waits for
    seen,           \* seen[w]: the value the last poll load returned
    issued,         \* issued[w][s]: history, arrives issued
    arrived,        \* arrived[w][s]: history, arrives the LDS performed
    passed          \* passed[w][s]: history, waits completed

vars == <<counter, phase, pos, round, zeroing, stores, adding, ticket, target,
          seen, issued, arrived, passed>>

Dwords == 0..(Modulus - 1)
Phases == {"entry", "drain", "startup", "run", "poll", "loading", "check",
           "done"}

TypeOK ==
    /\ counter \in [Slots -> Dwords]
    /\ phase \in [Waves -> Phases]
    /\ pos \in [Waves -> 1..Len(Body)]
    /\ round \in [Waves -> Nat]
    /\ zeroing \in [Waves -> SUBSET Slots]
    /\ stores \in [Waves -> SUBSET (Slots \X Nat)]
    /\ adding \in [Waves -> SUBSET Slots]
    /\ ticket \in [Waves -> [Slots -> Dwords]]
    /\ target \in [Waves -> Dwords]
    /\ seen \in [Waves -> Dwords]
    /\ issued \in [Waves -> [Slots -> Nat]]
    /\ arrived \in [Waves -> [Slots -> Nat]]
    /\ passed \in [Waves -> [Slots -> Nat]]

(* LDS and registers hold anything when the kernel starts. *)
Init ==
    /\ counter \in [Slots -> Dwords]
    /\ phase = [w \in Waves |-> "entry"]
    /\ pos = [w \in Waves |-> 1]
    /\ round = [w \in Waves |-> 0]
    /\ zeroing = [w \in Waves |-> {}]
    /\ stores = [w \in Waves |-> {}]
    /\ adding = [w \in Waves |-> {}]
    /\ ticket = [w \in Waves |-> [s \in Slots |-> 0]]
    /\ target = [w \in Waves |-> 0]
    /\ seen = [w \in Waves |-> 0]
    /\ issued = [w \in Waves |-> [s \in Slots |-> 0]]
    /\ arrived = [w \in Waves |-> [s \in Slots |-> 0]]
    /\ passed = [w \in Waves |-> [s \in Slots |-> 0]]

-----------------------------------------------------------------------------
(* The arithmetic of barrier_wait, on dwords. *)

(* Mutant: the mask is taken from twice the wave count. *)
TicketBase_DoubleMask(t) == t - (t % (2 * W))

(* base = ticket & ~(W - 1); W is a power of two. *)
TicketBase(t) == t - (t % W)

(* Mutants: the target keeps the 33rd bit; the generation is not rounded up. *)
Target_NoWrap(t) == TicketBase(t) + W
Target_CurrentBase(t) == TicketBase(t)

(* target = base + W, wrapping. *)
Target(t) == (TicketBase(t) + W) % Modulus

(* Mutants: the plain unsigned comparison; waiting for the exact value. *)
PollContinues_Unsigned(v, goal) == v < goal
PollContinues_Differs(v, goal) == v # goal

(* delta = seen + (~target + 1), wrapping; go on polling while delta >= 2^31. *)
PollContinues(v, goal) == (v - goal) % Modulus >= Modulus \div 2

-----------------------------------------------------------------------------
(* Kernel entry. *)

(* emitBarrierInitStores: one lane of every wave stores 0 to every dword. *)
InitStores(w) ==
    /\ phase[w] = "entry"
    /\ zeroing' = [zeroing EXCEPT ![w] = Slots]
    /\ phase' = [phase EXCEPT ![w] = "drain"]
    /\ UNCHANGED <<counter, pos, round, stores, adding, ticket, target, seen,
                   issued, arrived, passed>>

(* The LDS performs one of those stores. *)
PerformZero(w, s) ==
    /\ s \in zeroing[w]
    /\ counter' = [counter EXCEPT ![s] = 0]
    /\ zeroing' = [zeroing EXCEPT ![w] = @ \ {s}]
    /\ UNCHANGED <<phase, pos, round, stores, adding, ticket, target, seen,
                   issued, arrived, passed>>

(* The startup s_barrier consumes the store tokens: it is issued drained. *)
ReachStartup(w) ==
    /\ phase[w] = "drain"
    /\ zeroing[w] = {}
    /\ phase' = [phase EXCEPT ![w] = "startup"]
    /\ UNCHANGED <<counter, pos, round, zeroing, stores, adding, ticket, target,
                   seen, issued, arrived, passed>>

(* Mutant: the zeroing stores are not followed by a barrier. *)
StartupOpen_NoBarrier == TRUE

(* The hardware barrier lets a wave go once every wave has reached it. *)
StartupOpen == \A v \in Waves : phase[v] \notin {"entry", "drain"}

LeaveStartup(w) ==
    /\ phase[w] = "startup"
    /\ StartupOpen
    /\ phase' = [phase EXCEPT ![w] = IF Rounds = 0 THEN "done" ELSE "run"]
    /\ UNCHANGED <<counter, pos, round, zeroing, stores, adding, ticket, target,
                   seen, issued, arrived, passed>>

-----------------------------------------------------------------------------
(* The kernel's loop. *)

At(w, op, s) ==
    /\ phase[w] = "run"
    /\ Body[pos[w]] = [op |-> op, slot |-> s]

(* The wave finishes the operation at pos[w], coming from phase "run" or "check". *)
Advance(w) ==
    IF pos[w] < Len(Body)
      THEN /\ pos' = [pos EXCEPT ![w] = @ + 1]
           /\ phase' = [phase EXCEPT ![w] = "run"]
           /\ UNCHANGED round
      ELSE /\ pos' = [pos EXCEPT ![w] = 1]
           /\ round' = [round EXCEPT ![w] = @ + 1]
           /\ phase' = [phase EXCEPT ![w] =
                           IF round[w] + 1 < Rounds THEN "run" ELSE "done"]

(* A memory write whose token the next arrive of s depends on. *)
Store(w, s) ==
    /\ At(w, "store", s)
    /\ stores' = [stores EXCEPT ![w] = @ \union {<<s, issued[w][s]>>}]
    /\ Advance(w)
    /\ UNCHANGED <<counter, zeroing, adding, ticket, target, seen, issued,
                   arrived, passed>>

PerformStore(w, st) ==
    /\ st \in stores[w]
    /\ stores' = [stores EXCEPT ![w] = @ \ {st}]
    /\ UNCHANGED <<counter, phase, pos, round, zeroing, adding, ticket, target,
                   seen, issued, arrived, passed>>

(* Mutant: the atomic is issued without waiting for its dependencies. *)
Drained_NoWait(w, s) == TRUE

(* The dependency tokens of an arrive have drained: the ticket-wait pass     *)
(* treats ds_add_rtn as a writing issuer, so it waits for every token.       *)
Drained(w, s) == \A st \in stores[w] : st[1] # s

(* materializeArrive: issue ds_add_rtn_u32 and go on without the result. *)
Arrive(w, s) ==
    /\ At(w, "arrive", s)
    /\ Drained(w, s)
    /\ adding' = [adding EXCEPT ![w] = @ \union {s}]
    /\ issued' = [issued EXCEPT ![w][s] = @ + 1]
    /\ Advance(w)
    /\ UNCHANGED <<counter, zeroing, stores, ticket, target, seen, arrived,
                   passed>>

(* The LDS performs the atomic and returns the old value. *)
PerformAdd(w, s) ==
    /\ s \in adding[w]
    /\ ticket' = [ticket EXCEPT ![w][s] = counter[s]]
    /\ counter' = [counter EXCEPT ![s] = (@ + 1) % Modulus]
    /\ adding' = [adding EXCEPT ![w] = @ \ {s}]
    /\ arrived' = [arrived EXCEPT ![w][s] = @ + 1]
    /\ UNCHANGED <<phase, pos, round, zeroing, stores, target, seen, issued,
                   passed>>

(* materializeWait: read the ticket, which waits for the atomic to return,   *)
(* and compute the target.                                                   *)
BeginWait(w, s) ==
    /\ At(w, "wait", s)
    /\ s \notin adding[w]
    /\ target' = [target EXCEPT ![w] = Target(ticket[w][s])]
    /\ phase' = [phase EXCEPT ![w] = "poll"]
    /\ UNCHANGED <<counter, pos, round, zeroing, stores, adding, ticket, seen,
                   issued, arrived, passed>>

(* materializePollLoad: the first load, and the load after s_sleep in the loop. *)
PollLoad(w) ==
    /\ phase[w] = "poll"
    /\ phase' = [phase EXCEPT ![w] = "loading"]
    /\ UNCHANGED <<counter, pos, round, zeroing, stores, adding, ticket, target,
                   seen, issued, arrived, passed>>

(* The LDS performs the load. *)
PerformLoad(w) ==
    /\ phase[w] = "loading"
    /\ seen' = [seen EXCEPT ![w] = counter[Body[pos[w]].slot]]
    /\ phase' = [phase EXCEPT ![w] = "check"]
    /\ UNCHANGED <<counter, pos, round, zeroing, stores, adding, ticket, target,
                   issued, arrived, passed>>

(* finishPoll: compare, and sleep and load again or fall out of the loop. *)
PollAgain(w) ==
    /\ phase[w] = "check"
    /\ PollContinues(seen[w], target[w])
    /\ phase' = [phase EXCEPT ![w] = "poll"]
    /\ UNCHANGED <<counter, pos, round, zeroing, stores, adding, ticket, target,
                   seen, issued, arrived, passed>>

EndWait(w) ==
    /\ phase[w] = "check"
    /\ ~PollContinues(seen[w], target[w])
    /\ passed' = [passed EXCEPT ![w][Body[pos[w]].slot] = @ + 1]
    /\ Advance(w)
    /\ UNCHANGED <<counter, zeroing, stores, adding, ticket, target, seen,
                   issued, arrived>>

-----------------------------------------------------------------------------
Wave(w) ==
    \/ InitStores(w)
    \/ ReachStartup(w)
    \/ LeaveStartup(w)
    \/ \E s \in Slots : Store(w, s) \/ Arrive(w, s) \/ BeginWait(w, s)
    \/ PollLoad(w)
    \/ PollAgain(w)
    \/ EndWait(w)

(* What the memory pipeline owes wave w. *)
Memory(w) ==
    \/ \E s \in Slots : PerformZero(w, s) \/ PerformAdd(w, s)
    \/ \E st \in stores[w] : PerformStore(w, st)
    \/ PerformLoad(w)

(* s_endpgm in every wave. *)
Finished ==
    /\ \A w \in Waves : phase[w] = "done" /\ stores[w] = {}
    /\ UNCHANGED vars

Next == (\E w \in Waves : Wave(w) \/ Memory(w)) \/ Finished

(* The hardware issues from every resident wave in turn (s_sleep yields the  *)
(* slot), and the memory pipeline completes what was issued.                 *)
Fairness == \A w \in Waves : WF_vars(Wave(w)) /\ WF_vars(Memory(w))

Spec == Init /\ [][Next]_vars
FairSpec == Spec /\ Fairness

-----------------------------------------------------------------------------
(* Properties *)

(* A wave completes its n-th wait on a site only after every wave's n-th     *)
(* arrive on it has been performed, through counter wrap-around and stale    *)
(* poll values (materializeWait, finishPoll).                                *)
NoEarlyRelease ==
    \A w, v \in Waves, s \in Slots : passed[w][s] <= arrived[v][s]

(* A store issued before an arrive has been performed by the time any wave   *)
(* completes the matching wait: the dependency tokens of materializeArrive   *)
(* order it before the atomic.                                               *)
Publication ==
    \A w, v \in Waves : \A st \in stores[v] : passed[w][st[1]] <= st[2]

(* The startup s_barrier: no zeroing store of emitBarrierInitStores is still *)
(* on its way when some wave has issued an arrive, so no arrival is lost.    *)
NoLateZero ==
    \A w, v \in Waves, s \in Slots : issued[w][s] > 0 => zeroing[v] = {}

(* The two's complement comparison of finishPoll keeps its sign: between its *)
(* arrive and the end of its wait a wave sees at most a whole generation     *)
(* before and less than a generation after its target.                       *)
PollInWindow ==
    \A w \in Waves : phase[w] = "check" =>
        \/ (seen[w] - target[w]) % Modulus < W
        \/ (target[w] - seen[w]) % Modulus <= W

(* Every wave gets through all its barriers: the poll loop never misses the  *)
(* generation it waits for, even when faster waves have moved on.            *)
Termination == <>(\A w \in Waves : phase[w] = "done")

(* The emitted code implements the barrier the kernel asked for. *)
Abstract == INSTANCE WorkgroupBarrier
ImplementsBarrier == Abstract!Spec
-----------------------------------------------------------------------------
(* The inductive invariant behind the safety properties (SplitBarrierProofs). *)

Waiting(w) == phase[w] \in {"poll", "loading", "check"}
Entering(w) == phase[w] \in {"entry", "drain", "startup"}

(* One pair at a time: an arrive is issued, performed, then waited for. *)
PairInv(w, s) ==
    /\ issued[w][s] = arrived[w][s] + (IF s \in adding[w] THEN 1 ELSE 0)
    /\ issued[w][s] = passed[w][s] + (IF OpenBefore(pos[w], s) THEN 1 ELSE 0)
    /\ passed[w][s] <= arrived[w][s]

(* Where a wave is in its program, and what it has in flight. *)
ControlInv ==
    /\ \A w \in Waves : Waiting(w) => /\ Body[pos[w]].op = "wait"
                                     /\ Body[pos[w]].slot \notin adding[w]
    /\ \A w \in Waves, s \in Slots : PairInv(w, s)
    /\ \A w \in Waves : \A st \in stores[w] : st[2] = issued[w][st[1]]

(* Entry: nobody runs before everybody's zeroing stores are performed. *)
EntryInv ==
    \A w \in Waves :
       /\ phase[w] # "drain" => zeroing[w] = {}
       /\ ~Entering(w) => StartupOpen
       /\ Entering(w) => /\ pos[w] = 1
                         /\ \A s \in Slots : issued[w][s] = 0

(* Some wave has zeroed the dword of site s. *)
Zeroed(s) == \E w \in Waves : phase[w] # "entry" /\ s \notin zeroing[w]

(* Wave v is a slowest wave at site s: no wave is more than one arrival      *)
(* ahead of it, and the dword counts the arrivals of all.                    *)
Slowest(v, s) ==
    /\ \A w \in Waves : /\ arrived[w][s] \in {arrived[v][s], arrived[v][s] + 1}
                        /\ passed[w][s] <= arrived[v][s]
    /\ Zeroed(s) =>
          counter[s] = (arrived[v][s] * W
                        + Cardinality({w \in Waves :
                                         arrived[w][s] = arrived[v][s] + 1}))
                       % Modulus

CounterInv == \A s \in Slots : \E v \in Waves : Slowest(v, s)

(* A returned ticket lies in the wave's own generation. *)
TicketInv ==
    \A w \in Waves, s \in Slots :
       arrived[w][s] = passed[w][s] + 1 =>
          \E r \in 0..(W - 1) :
             ticket[w][s] = (passed[w][s] * W + r) % Modulus

(* Wave w waits for the end of generation g of site s, and what its last     *)
(* load saw of it.                                                           *)
PollsFor(w, s, g) ==
    /\ target[w] = ((g + 1) * W) % Modulus
    /\ phase[w] = "check" =>
          \E t \in (g * W)..((g + 2) * W - 1) :
             /\ seen[w] = t % Modulus
             /\ t >= (g + 1) * W => \A v \in Waves : arrived[v][s] >= g + 1

PollInv ==
    \A w \in Waves : Waiting(w) =>
       PollsFor(w, Body[pos[w]].slot, passed[w][Body[pos[w]].slot])

IInv == TypeOK /\ ControlInv /\ EntryInv /\ CounterInv /\ TicketInv /\ PollInv
=============================================================================
