------------------------------- MODULE StreamK -------------------------------
(***************************************************************************)
(* The Stream-K GEMM kernel: persistent workgroups ("workers") compute     *)
(* their parts of the output tiles, hand partial sums over through scratch *)
(* memory, and the last worker that arrives at a tile adds them up.        *)
(*                                                                         *)
(* A partial sum is abstracted to what was summed: the launch, the worker, *)
(* the tile and the interval of its k iterations.  Each wave of a          *)
(* workgroup handles its own fragment of every tile: its stores, loads and *)
(* output are those of its fragment.  Wave 0 (the one with work-item 0)    *)
(* runs the atomics for the workgroup.                                     *)
(*                                                                         *)
(* Device memory is coherent only through the acquire-release atomics: a   *)
(* wave sees what another workgroup stored once that workgroup released it *)
(* on a tile counter and the wave acquired the same counter afterwards.    *)
(* fresh[w] is what wave w is sure to see; reading anything else gives     *)
(* Stale.                                                                  *)
(***************************************************************************)
EXTENDS StreamKPartition, Sequences

CONSTANTS Shapes,       \* the problem shapes
          NumWaves,     \* waves of a workgroup
          Launches      \* bound: launches that share one workspace

ASSUME StreamKAssumption ==
    /\ \A s \in Shapes :
          /\ s \in [m : Nat \ {0}, n : Nat \ {0}, k : Nat \ {0}, workers : Nat,
                    xcds : Nat, group : Nat]
          /\ Valid(s)
    /\ NumWaves \in Nat \ {0}
    /\ Launches \in Nat \ {0}

WaveIds == 0..(NumWaves - 1)
IsLead(w) == w[2] = 0
Waves(s) == Workers(s) \X WaveIds

(* The fragments of the scratch slots: <<worker, slot, wave>>. *)
Fragments(s) == Workers(s) \X Slots \X WaveIds
Stale == [launch |-> 0, by |-> 0, tile |-> 0, from |-> 0, to |-> 0]

VARIABLES
    shape,      \* the shape of the problem
    launch,     \* the current launch
    pc,         \* pc[w]: what wave w does next
    tile,       \* tile[w]: the tile it works on
    count,      \* count[w]: the arrival count the wave knows
    mailbox,    \* mailbox[p]: the LDS word of worker p
    counter,    \* counter[t]: the arrival counter of tile t
    scratch,    \* scratch[f]: the partial sum in fragment f
    fresh,      \* fresh[w]: the fragments whose value w is sure to see
    released,   \* released[t]: the fragments released on the counter of t
    acc,        \* acc[w]: the partial sums wave w has added up
    output      \* output[x][v]: the sums in fragment v of the tile at place x

vars == <<shape, launch, pc, tile, count, mailbox, counter, scratch, fresh,
          released, acc, output>>

Partial == [launch : 0..Launches, by : Nat, tile : Nat, from : Nat, to : Nat]

Steps == {"tile", "stored", "publish", "mail", "mailed", "elect", "acquire",
          "reduce", "reduced", "reset", "resetdone", "written", "done"}

TypeOK ==
    /\ shape \in Shapes
    /\ launch \in 1..Launches
    /\ pc \in [Waves(shape) -> Steps]
    /\ tile \in [Waves(shape) -> Nat]
    /\ count \in [Waves(shape) -> Int]
    /\ mailbox \in [Workers(shape) -> Int]
    /\ counter \in [Tiles(shape) -> Int]
    /\ scratch \in [Fragments(shape) -> Partial]
    /\ fresh \in [Waves(shape) -> SUBSET Fragments(shape)]
    /\ released \in [Tiles(shape) -> SUBSET Fragments(shape)]
    /\ acc \in [Waves(shape) -> Seq(Partial)]
    /\ output \in [Places(shape) -> [WaveIds -> Seq(Partial)]]

(* The state in which a kernel starts: its caches hold nothing stale. *)
KernelEntry(s) ==
    /\ pc' = [w \in Waves(s) |-> "tile"]
    /\ tile' = [w \in Waves(s) |-> EntryTile(s, w[1])]
    /\ count' = [w \in Waves(s) |-> 0]
    /\ fresh' = [w \in Waves(s) |-> Fragments(s)]
    /\ acc' = [w \in Waves(s) |-> <<>>]

(* The host clears the counters once, before the first launch. *)
Init ==
    /\ shape \in Shapes
    /\ launch = 1
    /\ pc = [w \in Waves(shape) |-> "tile"]
    /\ tile = [w \in Waves(shape) |-> EntryTile(shape, w[1])]
    /\ count = [w \in Waves(shape) |-> 0]
    /\ mailbox = [p \in Workers(shape) |-> 0]
    /\ counter = [t \in Tiles(shape) |-> 0]
    /\ scratch = [f \in Fragments(shape) |-> Stale]
    /\ fresh = [w \in Waves(shape) |-> Fragments(shape)]
    /\ released = [t \in Tiles(shape) |-> {}]
    /\ acc = [w \in Waves(shape) |-> <<>>]
    /\ output = [x \in Places(shape) |-> [v \in WaveIds |-> <<>>]]

-----------------------------------------------------------------------------
Goto(w, step) == pc' = [pc EXCEPT ![w] = step]

(* The loop over the worker's tiles. *)
Advance(ws) ==
    /\ pc' = [w \in Waves(shape) |->
                IF w \notin ws THEN pc[w]
                ELSE IF HasNext(shape, w[1], tile[w]) THEN "tile" ELSE "done"]
    /\ tile' = [w \in Waves(shape) |->
                IF w \in ws /\ HasNext(shape, w[1], tile[w])
                  THEN tile[w] + TileStep(shape) ELSE tile[w]]

(* What wave w computes for its tile. *)
Computed(w, from, to) ==
    [launch |-> launch, by |-> w[1], tile |-> tile[w], from |-> from, to |-> to]

WriteOutput(w, sums) ==
    output' = [output EXCEPT ![Place(shape, tile[w])][w[2]] = sums]

(* _emit_streamk_full_tile: a whole tile goes straight to the output. *)
WholeTile(w) ==
    /\ pc[w] = "tile"
    /\ IsWholeTile(shape, w[1], tile[w])
    /\ WriteOutput(w, <<Computed(w, 0, shape.k)>>)
    /\ Goto(w, "written")
    /\ UNCHANGED <<shape, launch, tile, count, mailbox, counter, scratch, fresh,
                   released, acc>>

(* _emit_streamk_partial, _store_streamk_partial.  The new value is unknown  *)
(* to everybody else.                                                        *)
StorePartial(w) ==
    LET p == w[1]
        t == tile[w]
        f == <<p, StoreSlot(shape, p, t), w[2]>>
    IN  /\ pc[w] = "tile"
        /\ ~IsWholeTile(shape, p, t)
        /\ scratch' = [scratch EXCEPT ![f] =
                          Computed(w, KBegin(shape, p, t), KEnd(shape, p, t))]
        /\ fresh' = [u \in Waves(shape) |->
                        IF u = w THEN fresh[u] \union {f} ELSE fresh[u] \ {f}]
        /\ released' = [c \in Tiles(shape) |-> released[c] \ {f}]
        /\ Goto(w, "stored")
        /\ UNCHANGED <<shape, launch, tile, count, mailbox, counter, acc, output>>

(* The barriers of the kernel.  A wave arrives with its own accesses         *)
(* complete; what follows runs after everybody has arrived.  The atomics     *)
(* that follow two of them are masked off in all waves but the first.        *)
AfterBarrier(step, w) ==
    CASE step = "stored"  -> IF IsLead(w) THEN "publish" ELSE "mailed"
      [] step = "mailed"  -> "elect"
      [] step = "reduced" -> IF IsLead(w) THEN "reset" ELSE "resetdone"

Barrier(p, step) ==
    /\ \A w \in Waves(shape) : w[1] = p => pc[w] = step
    /\ pc' = [w \in Waves(shape) |-> IF w[1] = p THEN AfterBarrier(step, w) ELSE pc[w]]
    /\ UNCHANGED <<shape, launch, tile, count, mailbox, counter, scratch, fresh,
                   released, acc, output>>

(* The barriers that end a tile. *)
TileBarrier(p, step) ==
    /\ step = "written" => ~Pipelined(shape)
    /\ \A w \in Waves(shape) : w[1] = p => pc[w] = step
    /\ Advance({w \in Waves(shape) : w[1] = p})
    /\ UNCHANGED <<shape, launch, count, mailbox, counter, scratch, fresh,
                   released, acc, output>>

(* The end of a tile in the pipelined kernel.  The barriers around its LDS   *)
(* buffers, which keep the waves closer together, are left out.              *)
LeaveTile(w) ==
    /\ Pipelined(shape)
    /\ pc[w] = "written"
    /\ Advance({w})
    /\ UNCHANGED <<shape, launch, count, mailbox, counter, scratch, fresh,
                   released, acc, output>>

(* What a release of wave w makes visible: after a barrier, the completed    *)
(* stores of its whole workgroup, and what it knew before.                   *)
Publishes(w) == {f \in Fragments(shape) : f[1] = w[1]} \union fresh[w]

(* global_atomic_add_acq_rel on the counter of the wave's tile. *)
AtomicAdd(w, value) ==
    LET t == tile[w]
    IN  /\ counter' = [counter EXCEPT ![t] = @ + value]
        /\ released' = [released EXCEPT ![t] = @ \union Publishes(w)]
        /\ fresh' = [fresh EXCEPT ![w] = @ \union released[t]]

(* _publish_streamk_partial: wave 0 arrives at the tile, *)
Publish(w) ==
    /\ pc[w] = "publish"
    /\ AtomicAdd(w, 1)
    /\ count' = [count EXCEPT ![w] = counter[tile[w]] + 1]
    /\ Goto(w, "mail")
    /\ UNCHANGED <<shape, launch, tile, mailbox, scratch, acc, output>>

(* and tells the other waves through the mailbox. *)
Mail(w) ==
    /\ pc[w] = "mail"
    /\ mailbox' = [mailbox EXCEPT ![w[1]] = count[w]]
    /\ Goto(w, "mailed")
    /\ UNCHANGED <<shape, launch, tile, count, counter, scratch, fresh, released,
                   acc, output>>

(* Mutant: the last but one arrival reduces. *)
IsLast_OneEarly(c, t) == c + 1 >= Parts(shape, t)

IsLast(c, t) == c = Parts(shape, t)

(* Mutant: a wave looks at its own register instead of the mailbox. *)
ArrivalCount_Own(w) == count[w]

ArrivalCount(w) == mailbox[w[1]]

(* Every wave reads the mailbox; the waves of the last worker reduce. *)
Elect(w) ==
    /\ pc[w] = "elect"
    /\ count' = [count EXCEPT ![w] = ArrivalCount(w)]
    /\ IF IsLast(ArrivalCount(w), tile[w])
         THEN Goto(w, "acquire") /\ UNCHANGED tile
         ELSE Advance({w})
    /\ UNCHANGED <<shape, launch, mailbox, counter, scratch, fresh, released,
                   acc, output>>

(* Mutant: only wave 0 acquires the partial sums. *)
Acquire_LeadOnly(w) ==
    /\ pc[w] = "acquire"
    /\ IF IsLead(w) THEN AtomicAdd(w, 0) ELSE UNCHANGED <<counter, released, fresh>>
    /\ acc' = [acc EXCEPT ![w] = <<>>]
    /\ Goto(w, "reduce")
    /\ UNCHANGED <<shape, launch, tile, count, mailbox, scratch, output>>

(* _finish_streamk_reduction: every wave acquires by adding zero, *)
Acquire(w) ==
    /\ pc[w] = "acquire"
    /\ AtomicAdd(w, 0)
    /\ acc' = [acc EXCEPT ![w] = <<>>]
    /\ Goto(w, "reduce")
    /\ UNCHANGED <<shape, launch, tile, count, mailbox, scratch, output>>

(* loads the owners' partial sums in the order of the workers,               *)
(* (_load_streamk_owner_registers, _reduce_streamk_partial_columns)          *)
Reduce(w) ==
    LET t == tile[w]
        owner == FirstOwner(shape, t) + Len(acc[w])
        f == <<owner, OwnerSlot(shape, owner, t), w[2]>>
        value == IF f \in fresh[w] THEN scratch[f] ELSE Stale
    IN  /\ pc[w] = "reduce" /\ owner <= LastOwner(shape, t)
        /\ acc' = [acc EXCEPT ![w] = Append(@, value)]
        /\ UNCHANGED <<shape, launch, pc, tile, count, mailbox, counter, scratch,
                       fresh, released, output>>

(* and stores the sum (_reduce_and_store_streamk_partials). *)
StoreReduced(w) ==
    /\ pc[w] = "reduce"
    /\ FirstOwner(shape, tile[w]) + Len(acc[w]) > LastOwner(shape, tile[w])
    /\ WriteOutput(w, acc[w])
    /\ acc' = [acc EXCEPT ![w] = <<>>]
    /\ Goto(w, "reduced")
    /\ UNCHANGED <<shape, launch, tile, count, mailbox, counter, scratch, fresh,
                   released>>

(* Mutant: the counter is not taken back. *)
ResetValue_None(w) == 0

(* Wave 0 takes the arrivals back. *)
ResetValue(w) == 0 - Parts(shape, tile[w])

Reset(w) ==
    /\ pc[w] = "reset"
    /\ AtomicAdd(w, ResetValue(w))
    /\ Goto(w, "resetdone")
    /\ UNCHANGED <<shape, launch, tile, count, mailbox, scratch, acc, output>>

AllDone == \A w \in Waves(shape) : pc[w] = "done"

(* The host launches the kernel again on the same workspace: the runner's    *)
(* stream runs one kernel after the other.                                   *)
Relaunch ==
    /\ AllDone /\ launch < Launches
    /\ launch' = launch + 1
    /\ KernelEntry(shape)
    /\ released' = [t \in Tiles(shape) |-> {}]
    /\ UNCHANGED <<shape, mailbox, counter, scratch, output>>

Finished == AllDone /\ launch = Launches /\ UNCHANGED vars

Wave(w) ==
    \/ WholeTile(w) \/ LeaveTile(w) \/ StorePartial(w) \/ Publish(w) \/ Mail(w)
    \/ Elect(w) \/ Acquire(w) \/ Reduce(w) \/ StoreReduced(w) \/ Reset(w)

Workgroup(p) ==
    \/ \E step \in {"stored", "mailed", "reduced"} : Barrier(p, step)
    \/ \E step \in {"written", "resetdone"} : TileBarrier(p, step)

Next ==
    \/ \E w \in Waves(shape) : Wave(w)
    \/ \E p \in Workers(shape) : Workgroup(p)
    \/ Relaunch
    \/ Finished

(* A resident workgroup runs until it ends; no other fairness is needed, in  *)
(* particular none between workgroups, because none waits for another.       *)
Fairness == WF_vars(Next)

Spec == Init /\ [][Next]_vars /\ Fairness
-----------------------------------------------------------------------------
(* Properties *)

(* The partial sums in a fragment of the output make up one whole tile, the  *)
(* one that belongs there, all of this launch, in the order of k.            *)
IsTileSum(x, sums) ==
    /\ sums # <<>>
    /\ \A i \in DOMAIN sums :
          /\ sums[i].launch = launch
          /\ sums[i].tile = sums[1].tile /\ Place(shape, sums[i].tile) = x
          /\ sums[i].from = IF i = 1 THEN 0 ELSE sums[i - 1].to
    /\ sums[Len(sums)].to = shape.k

(* docs/Gfx950StreamKSameKernelReductionDesign.md: "the last arrival         *)
(* reduce[s] and store[s] the result", for every tile and launch, whatever   *)
(* the order of the workers (_publish_streamk_partial).                      *)
OutputExact ==
    AllDone => \A x \in Places(shape), v \in WaveIds : IsTileSum(x, output[x][v])

(* "Last reducers reset their counters": a launch leaves the workspace as it *)
(* found it (checkStreamKCounters of the calibration runner).                *)
CountersReset == AllDone => \A t \in Tiles(shape) : counter[t] = 0

(* "No workgroup spins on another workgroup": a workgroup that is not done   *)
(* can take a step of its own, so that the grid may exceed what fits on the  *)
(* device.                                                                   *)
WorkgroupStep(p) == Workgroup(p) \/ \E v \in WaveIds : Wave(<<p, v>>)
NeverWaits ==
    \A p \in Workers(shape) :
        (\E v \in WaveIds : pc[<<p, v>>] # "done") => ENABLED WorkgroupStep(p)

(* No launch writes a fragment of the output or of the scratch memory twice: *)
(* there is one reducer per tile, and no worker needs a third slot.          *)
WrittenOnce ==
    [][/\ \A x \in Places(shape), v \in WaveIds :
            output'[x][v] # output[x][v] =>
                \A i \in DOMAIN output[x][v] : output[x][v][i].launch < launch
       /\ \A f \in Fragments(shape) :
            scratch'[f] # scratch[f] => scratch[f].launch < launch]_vars

(* Every launch ends: a worker's loop covers a finite interval and no step   *)
(* of it spins on a counter that another worker has to change                *)
(* (_emit_streamk_kernel, _publish_streamk_partial).                         *)
Termination == <>(AllDone /\ launch = Launches)
=============================================================================
