# Verification of the Wave compiler's barriers, waits and Stream-K kernel

The repository is an MLIR compiler for AMD GPUs. Kernels written in the `wave`
dialect (or in C, through `wavec`, or in Python) are lowered to the
`waveamdmachine` dialect, scheduled, register-allocated, and printed as assembly.
Most of it is sequential rewriting. What is concurrent is the code it *emits*: the
waves of a workgroup synchronise through barriers, and every wave issues memory
operations that complete later, out of sight of the program, until a wait says
otherwise. The parts that decide whether that is right are modelled here:

* `waveamd-split-barriers`, `waveamd-machine-multi-wave-specialize`,
  `waveamd-barrier-cleanup` and `waveamd-finalize-barrier-protocols` split the
  barriers of a loop, clone the loop per wave class, and merge barriers again;
* `waveamd-materialize-split-barriers` turns `barrier_arrive`/`barrier_wait` pairs
  into an LDS protocol or into hardware barrier instructions;
* `waveamd-insert-ticket-waits` decides where a wave has to wait for memory;
* `waveamd-insert-hazard-waits` decides where it has to let the pipeline settle;
* the Stream-K GEMM kernel, built by `wave_matmul.py`, lets workgroups hand partial
  sums to each other without ever waiting for one another.

Source paths below are relative to the repository's root.

## Inventory

| Component | State | Operations | What makes it correct |
|---|---|---|---|
| Split barriers, LDS emulation (`WaveAMDSplitBarriers.cpp`, `WaveAMDMaterializeSplitBarriers.cpp`) | one LDS dword per barrier site, a ticket and a target per wave | zero at entry, arrive (atomic add), wait (poll) | no wave leaves before all have arrived; stores before the arrive are visible after the wait; everyone gets through; all of it across counter wrap |
| LDS reservation (same file) | size attributes, the M0 definition graph, addresses of LDS operations | reserve, move chain roots, move single addresses, set attributes | each address moves once; dwords overlap nothing |
| Native barriers (same file) | one hardware barrier per workgroup, one per cluster | validate, expand split, full and cluster barriers | operations that share one hardware barrier never mix; one cluster signal per workgroup; no deadlock |
| Ticket waits (`WaveAMDMachineWaitcnt.cpp`) | a lattice of tokens (counter, value, position, events) per program point | require, wait, issue, derive, join, branch, collapse; solver; rewrite | no operand is read and no pending register overwritten before its memory operation has returned |
| Hazard waits (`WaveAMDHazardWaits.cpp`, latencies in `InstructionExecutionState.cpp`) | ages of physical, SSA, co-execution, lgkm and scratch-base hazards per program point | require, issue, age, join, branch; solver; rewrite | enough wait states on every path, none wasted |
| Barrier cleanup, multi-wave specialisation (`WaveAMDBarrierCleanup.cpp`, `WaveAMDMachineMultiWaveSpecialize.cpp`) | barrier sites of the two arms of a paired `uniform_if`, token operands of barriers | split, number sites, validate, merge in both arms, merge by a scan | both arms meet at the same sites; merged barriers order what the originals did |
| Stream-K reduction (`python/mlir/dialects/wave_matmul.py`, `wave-matmul-calibrate-runner.cpp`) | a counter per tile, two scratch slots per worker, an LDS mailbox per workgroup | compute, store partial, publish, elect, acquire, reduce, reset | every tile is the sum of its parts, once; counters end at zero; nobody waits |
| Scheduler (`WaveAMDMachineGreedySchedule.cpp`, `WaveAMDMachineScheduleModel.cpp`) | a dependence graph and a ready list | pick and commit an instruction | tokens and barriers keep their order |
| Cost model (`lib/Dialect/WaveAMDMachine/CostModel`) | simulated cycles per wave and unit | select a wave, commit, rendezvous | only performance depends on it |
| Register allocation (`Transforms/RegAlloc`) | live intervals, assignments, relief candidates | allocate, spill, retry | checked at run time by `WaveAMDRegAllocVerification.cpp` |
| LDS allocation (`WaveResolveAllocs.cpp`) | live ranges and offsets | place, reuse | live ranges do not overlap |
| Selection, index expressions, assembly, frontends, Python, tools, runtime | none that outlives a call | pure functions | tested by FileCheck |

How they interact: `waveamd-split-barriers` replaces `s_barrier` by pairs; the
scheduler moves the halves apart; cleanup may merge them back; materialization
expands them and changes the LDS layout under every other LDS operation; register
allocation assigns registers; ticket waits reads registers and tokens and inserts
`s_waitcnt`; hazard waits runs last and inserts `s_nop` and `s_wait_alu`. The LDS protocol is right only because of those waits: nothing but
the token on the arrive's atomic orders earlier stores before it.

The hard behaviours, and where each bites, are the `hazards` of PROJECT.json.

## Modules

### WorkgroupBarrier: what a barrier promises

Every wave arrives at and leaves each site; nobody leaves for the n-th time before
everybody has arrived for the n-th time. Nothing about mechanisms.

### SplitBarrier: the LDS emulation

The unit of interleaving is one emitted instruction of one wave, or one memory
operation the LDS performs. `phase[w]` and `pos[w]` are the program counter;
`counter[s]` the dword; `zeroing`, `stores`, `adding` what is in flight; `ticket`,
`target`, `seen` the registers. `issued`, `arrived` and `passed` are history.

| Action | Code |
|---|---|
| `InitStores`, `ReachStartup`, `LeaveStartup` | `emitBarrierInitStores` |
| `Store`, `Arrive` | the kernel's stores; `materializeArrive` with its `after` token |
| `BeginWait` | `materializeWait` (`TicketBase`, `Target`) |
| `PollLoad`, `PollAgain`, `EndWait` | `materializePollLoop`, `finishPoll` (`PollContinues`) |
| `PerformZero`, `PerformStore`, `PerformAdd`, `PerformLoad` | the LDS, in any order |

The guards `Drained` (arrive) and `s \notin adding[w]` (wait) are the waits that
ticket waits inserts before a consumer of a token or of a loaded register.

`Body` is the kernel's loop as a sequence of operations; `BodyAssumption` says
that the pairs of one handle alternate. The passes guarantee it because
`waveamd-split-barriers` makes a handle per barrier; the legacy path does not check
it for hand-written input (a listed hazard). The loop runs equally often in all
waves: `isUnderWaveConditional` keeps barriers out of wave-dependent conditionals.
`ModulusAssumption` is `getExpectedWaves`'s power of two, as the weaker fact that an
even number of generations fits the dword.

### LDSReservation: room for the dwords

One run of `reserveLDSForBarriers` and `setLDSAttrs` on a function given by its M0
definition graph: `def[m]` says whether an M0 value is a move, an add to an SGPR, an
add to another M0 value, a DMA issue delay of one, or a block argument. Chains are
moved at their root (`ShiftRoot`) in the order of a hash set, other operations one by
one (`ShiftOp`), except those that keep their LDS address in a descriptor, which
`shiftLDSAddressOperand` passes over without an error. Only the tensor DMA operations are of
that kind, on a target with native barriers, for which `materializeFunc` does not take this
path; so `ShiftedOnce` says that such an address stays where it is, not that this is
right. Every error exit is an action. `before` keeps the attributes on
entry. Immediates are abstracted to the number of bytes added, so folding constants
(`foldSGPRByteOffsets`) leaves no trace, and the overflow of an unsigned byte count is
left out.

### NativeBarrier: hardware barriers

`Accepts` is the validation, `Code` the expansion. The model takes *every* body up to
a length that validation accepts, and runs its expansion on hardware that counts
signals and knows nothing about operations. A call stands for a callee with a
workgroup barrier. `Abstract` maps the operations of each scope to WorkgroupBarrier.
Cluster barriers in a loop built from plain branches are accepted by the pass and are
not among the bodies.

### WaitLattice, TicketWaits, WaitSolver: ticket waits

`WaitLattice` has the operators: `MergeTokens` and `Join` (the lattice), `Requirement`
(what an operation waits for), `ApplyWait`, `RecordIssue`, `Derived`, `Transfer`,
`Rekey` (branch operands), `CollapseEscaping`, `CanDealloc`; then the hardware, a
sequence of operations in flight, each with the values that are not ready before it is
done and the registers it has yet to read. A value forwarded by a token operation, a
read or a branch becomes one of the values of everything it waits for (`Rebind`), which
is what its meaning is.

Both counter families are there. On a split-counter target the X counter counts
operations whose source registers have not been read; keys `<<"x", register, group>>`
are the code's source tokens (`SourceKeys`), a wait for loads or for scalar memory drops
them as well (`ReadBy`), a memory operation of the other group and every branch and
barrier wait for them in hardware (`SwitchGroup`, `DrainX`). `AfterSignal` is what an
`s_barrier_wait` proves of the SCC write of its own signal. The hardware side assumes
that registers are read in the order of issue, that the implicit waits above really
happen, and that SCC writes complete in order.

`TicketWaits` follows one path: any sequence of the operations of a pool, with joins
of arbitrary other states, branches and ends of scopes in between. `ExistingWait` takes
thresholds below the maxima, since the pass ignores a `vmcnt` or `lgkmcnt` at its
maximum. `WaitSolver` has a whole function of three blocks: the solver's first sweep in
program order, revisits in any order until nothing changes, then the rewritten function
on the hardware. The solver's states only grow, as `visitOperation` does it. The rewrite
starts a block from the solver's state at its entry and computes the other states again;
its state (`local`) is carried along with the wave that runs the block, and decides the
wait (`Emitted`) in front of the wave's next operation (`NextOp`).

### HazardState, HazardWaits: hazard waits

`HazardState` has the analysis state and its operators: latencies per target, what an
operation needs (`Required`), what it leaves behind (`Produced`, `CoexecProduced`,
`AddScratchBase`, `AddPendingLgkm`), aging, joining, the transfer of an operation and of
a region branch. `HazardWaits` takes a program of a first block, one structured
conditional or loop and a last block, computes the fixpoint of the analysis (`at`, the state
at each point; `Visited`, `Incoming`), and lets a wave run any path of the rewritten program. The wave's own record (`past`, `slots`,
`gap`, `settled`) holds the exact age of every producer it has issued and is independent
of the analysis. `Edges` has two numbers per edge: the wait states the analysis counts
and the branches the emitter prints (`lib/Target/Wave/AMDGPU.cpp`).

### PairedBarriers: splitting, specialising, cleaning up, running

One loop body goes through the passes in order: `Init` splits and specialises it (or
not), `ScheduleOp` places its operations in any order the tokens allow, `Validate`
compares the arms, `CleanPaired` and `CollapseBlock` merge barriers, `FinishPaired`
compares again; then waves of either class run their arms, with memory operations that
complete later. The scheduler's cost model is over-approximated by "any ready operation,
those without an instruction first". Bodies are flat blocks without nested regions, and
the errors about misplaced attributes are left out. A wait for a handle is that of an
ideal barrier; what the hardware or its emulation makes of it is in NativeBarrier and
SplitBarrier. The coordinator that
lets the arms of a specialised loop meet while they are scheduled does not cover
arrives, so the arms can order an arrive differently; the pass then rejects the
function, which is a compile error and no miscompilation, and the model does the same.

### StreamKPartition, StreamK: the Stream-K kernel

`StreamKPartition` has the arithmetic on iterations: intervals of workers, owners of
tiles, slots, and the place of a tile in the matrix. `StreamK` runs the workgroups: a
wave computes its fragment of a tile, stores it whole or to a slot; after a workgroup
barrier wave 0 adds itself to the tile's counter with an acquire-release atomic, puts
the answer in the mailbox, and all waves decide whether this workgroup is the last and
reduces. A partial sum is what it sums: launch, worker, tile and interval of k. Memory is
conservative: a wave sees another workgroup's store only if it was released on a
counter (`Publishes`) that the wave has acquired (`fresh`); anything else reads as
`Stale`. A tile ends with a workgroup barrier (`TileBarrier`), except in the pipelined
kernel for aligned shapes with several tiles per worker and more than two k steps: there
a wave goes on to its next tile alone (`LeaveTile`, guarded by `Pipelined`). The barriers
around the LDS buffers of the inputs, which keep the waves closer together, are left out, so
the model lets them run further apart than the code does.

### MC modules

The `MC` modules hold the instances: loop bodies, a cluster of two by two waves, pools of
memory operations, families of programs, problem shapes. Operators named `X_Something`
next to an operator `X` are mutants: plausible bugs, each of which makes a property fail.

## Runs

| Run | Instance | Checks |
|---|---|---|
| `split` | 2 waves, sites with overlapping windows and a handle used twice, dword of 8 values, 5 rounds, fair | type, `NoEarlyRelease`, `Publication`, `NoLateZero`, `PollInWindow`, refinement of WorkgroupBarrier, `Termination` |
| `lds` | all M0 graphs of 3 values, 2 LDS operations, all attribute combinations | type, `SlotsApart`, `ShiftedOnce` |
| `native` | all accepted bodies up to 3 operations, 2 x 2 waves, 2 rounds, fair | type, `OneClusterSignal`, `NoLostCompletion`, refinement of WorkgroupBarrier per scope, `Termination` |
| `ticket` | three pools: vector memory with scratch stores and saturating counters; scalar and LDS operations on one counter; split counters with X counter and barrier signals | type, `NoEarlyRead`, `NoClobber`, `LatticeCovers`, `DeallocSafe` |
| `ticket_escaped_load` | the vector pool, without joins | finding: `NoPendingWrite` does not hold |
| `solver_in_order` | two families of loops and conditionals, loads in order | `OperandsReady`, `SolverCoversRewrite` |
| `solver_mixed` | scalar and LDS loads on one counter | finding: `OperandsReady` does not hold |
| `hazard` | gfx942, gfx950, gfx1250: straight-line programs of 3 or 4 operations, conditionals and loops around every pair of producer and consumer, MFMAs of one length per program | type, `WaitStatesCounted`, `NoWastedWait`, `GapAfterWait`, `ForwardingSettled` |
| `hazard_mixed` | MFMAs of 2 and of 4 passes on the same registers | finding: `WaitStatesElapsed` does not hold |
| `hazard_branch` | edges without a printed branch | finding: `WaitStatesElapsed` does not hold |
| `paired` | 5 loop bodies, split or not, specialised or not, 2 waves of any classes, 2 iterations, fair | type, `SameRendezvous`, `BarrierOrders`, `CompletionsKept`, `ProtocolPreserved`, `ScanComplete`, `Termination` |
| `streamk` | 5 shapes of 2 or 3 workers, 2 waves each, 2 launches on one workspace, fair | type, `OutputExact`, `CountersReset`, `NeverWaits`, `WrittenOnce`, `Termination` |

Why the bounds are enough to be interesting. A dword of 8 values wraps after four
generations of two waves; five rounds pass it. A poll can meet the next generation with
two waves already. Two workgroups of two waves are the least with an elected and a not
elected wave and a cluster that is not a workgroup. Wait fields of two or three values
let thresholds reach the maximum with three operations in flight (`flights`, per
function, is 3 or 4); `PosMax` 2 makes positions saturate. Loops run twice, so that what
is left over by one iteration meets the next. The Stream-K shapes have a worker with a
tail, a whole tile and a head, a tile with three owners, a worker whose head is empty, and
aligned grids with and without the pipeline; the second launch meets what the first left in the workspace. Latencies in
HazardState are the code's own numbers, not scaled down; `MostPasses` (64) bounds the
passes of an operation, and with it how long a hazard lasts.

Fairness. `split` assumes that each wave that can step does eventually (the hardware
issues from all resident waves; the poll loop sleeps) and that the memory pipeline
completes what it was given; `native` assumes the former. All waves of a workgroup are
resident together, which the hardware guarantees. `streamk` and `paired` only assume that
something happens as long as something can (`WF_vars(Next)`), which is less: no
workgroup waits for another (so no residency of the grid is assumed), and behaviours are
finite. Deadlock is checked in every run.

## Findings

* `ticket_escaped_load`: a load whose value leaves its scope is remembered only by its
  counter, and the check for overlapping register definitions skips such entries. An
  operation that takes over the register is issued while the load is still going to
  write it. `NoClobber` is the part that holds: loads still in scope.
* `solver_mixed`: the solver's states grow, but the transfer is not monotone: a wait
  for zero drops tokens. With out-of-order returns on one counter the solver can keep a stale
  token, assume a wait because of it, and drop a load that the rewrite leaves
  pending. It does not happen in the programs of `solver_in_order`, whose loads return in
  order and whose waits fit their fields; for a wait that does not fit, see `Unclamped`
  under Proofs.
* `hazard_mixed`: one entry per span and kind stands for all producers, with the larger
  limit, countdown and pass count. A short MFMA that writes registers with the entry of a longer
  one becomes a long one, and an exact SrcC reader, which has to wait after
  a short MFMA only, does not wait. With MFMAs of one length (`hazard`) nothing is lost.
* `hazard_branch`: the analysis ages hazards for yields and region entries for which no
  instruction is printed. `WaitStatesCounted` is what holds: the countdowns are right if
  those branches are counted.

Disagreements that are not runs: docs/Gfx950SplitBarrierEmulation.md:206-207 and 342 say
that an arrive does not drain the tokens it depends on; the emitted atomic takes them
(`WaveAMDMaterializeSplitBarriers.cpp:854`) and ticket waits drains them. The code is the
safe one: without the stall `Publication` fails, which the mutant `Drained_NoWait`
shows. `streamk_worker_segments` (wave_matmul.py:132-153), a host-side reference,
numbers the slots of a worker by partial sum, the kernel by head and other; nobody
reads one's slots with the other's numbers.

## Proofs

Eight modules, 43 theorems, all for every value of the constants.

`SplitBarrierProofs`, for every set of waves, set of sites, loop body that
meets `BodyAssumption`, number of rounds and dword width:

| Theorem | States |
|---|---|
| `TypeCorrect` | `Spec => []TypeOK` |
| `Invariance` | `Spec => []IInv` |
| `Safety` | `Spec => []NoEarlyRelease` |
| `Published` | `Spec => []Publication` |
| `EntryOrdered` | `Spec => []NoLateZero` |
| `InWindow` | `Spec => []PollInWindow` |
| `Refinement` | `Spec => ImplementsBarrier`, i.e. `Abstract!Spec` |

`NoEarlyRelease` is not inductive: it says nothing about dwords, tickets or targets.
`IInv` adds

* `ControlInv`: per wave and site, arrives issued, performed and waited for differ by at
  most the pair that is open at the wave's position;
* `EntryInv`: nobody runs before all zeroing stores are performed;
* `CounterInv`: at each site there is a slowest wave; everyone else is level with it or one
  arrival ahead; and the dword is the total of all arrivals, modulo its range;
* `TicketInv`: the ticket of an open pair was drawn in the generation of that pair;
* `PollInv`: the target is the end of that generation, and a value that was seen at or
  past the target proves that all waves have arrived.

The arithmetic is in five lemmas on `%` (`ModUnique` to `ModNext`, `Widths`) and three
on the code: `TargetOfTicket` (rounding a wrapped ticket up), `PollDecides` (the sign
test is exact within a generation of the target) and `PollWindow`. `AdderIsSlowest` is
the heart of `CounterInv`: a wave that performs an arrive is level with the slowest,
since to be ahead it would have to be past a wait that nobody is past yet.

`LDSReservationProofs`, for every number of M0 values and LDS operations, every definition
graph and all sizes: `TypeCorrect`, `BarrierDwordsApart` (`SlotsApart`) and
`AddressesShiftedOnce` (`ShiftedOnce`), from `Invariance`. `IInv` says of a run in progress
that exactly the used chain roots no longer in `roots` have moved, by `ReservedBytes`,
exactly the operations outside chains no longer in `ops`, and that a root that has moved
feeds LDS addresses only (`InvMoved`); and that sizes and attributes are those computed
from the attributes on entry (`InvSizes`). That a chain leads to a root, and to one root
only, is an induction along the chain, done by a least counterexample (`LeastNumber`).

`StreamKProofs`, for every shape that `IsShape` accepts, any number of waves per
workgroup and of launches. Its first part is about the operators of StreamKPartition, the
arithmetic on which the rest depends:

| Theorem | States |
|---|---|
| `IntervalsPartition` | intervals of workers are not empty, adjacent and cover all iterations |
| `OwnerExact` | `_streamk_owner` gives the worker whose interval holds the iteration |
| `OwnersVisit` | a worker is between first and last owner of a tile exactly if it visits the tile |
| `PartsFit` | the parts of successive owners of a tile are adjacent and cover its k |
| `TwoSlotsSuffice` | partial tiles of a worker have different slots, and reader and writer agree |
| `PlacesBijective` | the tile mapping gives every tile a place of its own in the matrix |

The second part is about the kernel: `TypeCorrect`, `CountersAreReset` (`CountersReset`),
`OutputIsExact` (`OutputExact`) and `NothingWrittenTwice` (`WrittenOnce`). The invariant is
built in layers, each from the one before:

* `Control` (`WaveInv`, `SyncInv`): a wave is at a tile of its worker, at a step that fits
  the tile, and the waves of a workgroup are in the same phase or one phase apart, unless
  the shape is `Pipelined`. The mailbox can be shared by all waves because of it; a
  pipelined kernel has no shared tile and does not use it;
* `Protocol` (`CountInv`, `CounterInv`): the answers of the atomic at one tile are
  different numbers up to the number of workers that have arrived; the counter is that
  number until the reducer has reset it. So exactly one worker is the last, and all parts are
  there when it is;
* `Handover` (`ScratchInv`, `ReleasedInv`, `FreshInv`, `AccInv`): a fragment of a slot holds
  the part of this launch once it is stored and that of an earlier launch before; what a
  worker stored is released when it has arrived; a reducer has acquired the fragments of
  every owner; its accumulator is the sum of the first owners' parts, in order;
* `IInv` (`WholeInv`, `SharedInv`): output tiles that are written whole or reduced are those of
  this launch once written, and those of an earlier one before.

`OutputExact` alone is not inductive for the obvious reason that it speaks of the end of a launch
only; `WrittenOnce` needs `IInv` because a write is known to be the first only by the place
of its writer.

The third part is what can be proved of progress. `NeverWaits` says what is enabled, and
`Termination` is liveness; neither can be stated to the prover. What they rest on can:

* `NobodyWaits`: while a wave of a workgroup is not done, a wave of the *same* workgroup
  meets the guards of one of its actions (`MayMove`) or all waves of the workgroup are at the same
  barrier (`MayPass`). No state of another workgroup occurs in these guards, so no
  residency of the grid is needed;
* `StepsGoForward`: every step takes some wave forward in its order (tiles, then steps of
  a tile, then parts summed) and no wave back, or starts a launch when all are done;
* `WorkIsFinite`: the tiles a wave visits and the parts a reducer sums are bounded by the
  shape.

From these to `Termination` an induction over that order is missing; it stays with
TLC.

`NativeBarrierProofs`, for all finite sets of waves and workgroups and every body that
validation accepts: `TypeCorrect`, `ClusterSignalledOnce` (`OneClusterSignal`),
`CompletionsKept` (`NoLostCompletion`) and `Refinement` (`ImplementsBarrier`). `IInv` has

* `BodyInv`: what acceptance means: an arrive is followed by its wait, and a body with a
  cluster barrier is not a loop;
* `LockStep` and `CountInv`: every wave of a workgroup works towards the same signal
  (`Point`), and the hardware counts the waves that have given theirs and not been let
  go (`Waiting`). This is where "operations that share one hardware barrier never mix"
  comes from: the hardware knows no operations, but no wave can be a signal ahead;
* `HistoryInv`: how often a wave has arrived and left follows from its iteration and place,
  which turns `LockStep` into the refinement's guard;
* `SignalInv`, `FirstInv`, `ClusterInv`: at a cluster operation either the workgroup has
  signalled the cluster or exactly one wave claims it, and the cluster's count is the number of
  workgroups that have signalled the one operation that others have not (`CPending`);
* `OpenInv`: no generation has all its signals and is still open.

`WaitLatticeProofs` has what the next two modules share: for every well-formed function,
counter width and largest position, one lemma per operator of WaitLattice on how
it keeps the relation `Cov` between a wait state and what is in flight.

`TicketWaitsProofs`, for every set of functions that meets `TicketAssumption`: `TypeCorrect`, `StateCovers` (`LatticeCovers`),
`ValuesReady` (`NoEarlyRead`), `RegistersFree` (`NoClobber`) and `DeallocCorrect`
(`DeallocSafe`). `LatticeCovers` is not inductive: its wait position may be 0 only because
of other tokens on the counter, and those can be dropped. `IInv` is

* `Cov`: each operation in flight is known (`Knows`) under every value that needs it: there is
  a token with its event whose position is at most the number of younger operations
  (`Behind`), or which is out of order, or the counter is `Mixed`;
* `Mixed` looks only at events remembered under a name that outlives the operation
  (`Names`: a result of an operation with that event, or the unknown value), and `Cov` says
  that every operation is also known under such a name. An operation can overtake another on its
  counter only when the two make the counter `Mixed` (`OvertakenMixed`), so a
  completion never makes a position too large (`CovComplete`);
* a register still to be read has a source token whose position is at most the number
  of younger operations with registers to read, all of one group (`IsFlight`);
* `InScope`: only values in scope stand for operations in flight, which is why
  `collapseEscaping` may forget the others (`CovCollapse`).

The lemmas of WaitLatticeProofs on which this rests are `CovSignal`, `CovWait`, `CovSwitch`,
`CovIssue`, `CovExtend` (joins, derived tokens, branches), `CovCollapse`, `CovDrain`,
`CovRead` and `CovComplete`; TicketWaitsProofs has one per step that puts them together. `TicketAssumption` says what the pass takes from the
IR: SSA, one event per value, only scalar loads out of order, and that no message is issued
next to barrier signals: the only message, `s_sendmsg dealloc_vgprs`, is inserted by the
pass itself in front of `s_endpgm` (`WaveAMDMachineWaitcnt.cpp:2097`). TLC evaluates it in
the `ticket` run.

`WaitSolverProofs`, for every set of programs that meets `SolverAssumption` (blocks of any
length, any operations of the legacy counters, loop or conditional), any number of trips
and any order of the solver's visits:

| Theorem | States |
|---|---|
| `Invariance` | `Spec => []IInv` |
| `OperandsAreReady` | `Spec => [](Predictable => OperandsReady)` |
| `SolverCovers` | `Spec => [](Predictable => SolverCoversRewrite)` |

The properties do not hold of every function, as `solver_mixed` shows: the solver never
takes back a token that an early visit found, the rewrite never sees it, and the two can
then wait differently. `Predictable` says when they cannot:

* `ReturnsInOrder`: no scalar loads, and one kind of event on the LDS counter. Without it a
  stale token can change what a wait must be (`solver_mixed`);
* `WritesKnown`: whether a token is a write's is clear from its counter, or no reading
  operation has token operands. Otherwise a stale token can make a read wait that need not;
* `Unclamped`: no wait reaches the largest value of its field and no position saturates.
  A clamped wait is for less than the position it stands for, so a stale token far behind
  can shorten the solver's wait. TLC finds this too: in front of the loop `a = load; b = load`,
  in the loop `use v; n = load; load; use a`; with a field of two bits (`CounterMax` 3) a
  consumer reads too early although all loads return in order, and with one value more it
  does not. The code has fields of up to 63 in which as many loads would have to be in flight.

TLC has checked that all programs of `solver_in_order` are `Predictable` when they run, so the
condition excludes none of them. `IInv` is

* `Typed`: the solver's states, the rewrite's and what is in flight are well formed, and
  the wave is at a point of the function;
* `Sound`: states of functions that return in order are never `Mixed` (`Plain`), and
  every token behind an operation was made by it or comes from one in front of it, at no
  smaller position (`Supported`). This is the only thing that is known of a stale token;
* `Phased`: when the wave runs, every state is what a visit would leave there;
* `Tracks`, if `Predictable`: inside a block the solver's state has all tokens of the rewrite's, at the
  same positions; those it has beyond are behind everything the rewrite has on the
  same counter. So the nearest token that an operation needs is the rewrite's, if it has
  any, and the two emit the same wait (`TracksStep`);
* `Cov`, if `Predictable`: the rewrite's state knows of everything in flight. At the end of
  a block the solver's state covers the rewrite's, which carries `Cov` into the next one
  (`CovEdge`); inside, the lemmas of WaitLatticeProofs apply unchanged.

`HazardWaitsProofs`, for all programs of the five shapes, with blocks of any length and
operations that meet `IsOperation`:

| Theorem | States |
|---|---|
| `TypeCorrect` | `Spec => []TypeOK` |
| `Invariance` | `Spec => []IInv` |
| `EnoughWaits` | `Spec => [](UniformMfmas => WaitStatesCounted)` |
| `NoneWasted` | `Spec => [](UniformMfmas => NoWastedWait)` |
| `GapKept` | `Spec => []GapAfterWait` |
| `Settled` | `Spec => []ForwardingSettled` |

`UniformMfmas` is the hypothesis that `hazard_mixed` shows to be needed: MFMAs with the same
result or accumulator registers take as many passes. The `hazard` run has only such
programs. The inserted waits are computed from the state of the rewrite, but a block
starts from the state of the analysis, so `IInv` is about both:

* `Covers`: a state knows of each open hazard of the wave's past, with at least the
  wait states it has left (`HazardCover`), of each coexecution hazard with the VALU slots it has
  left (`SlotCover`), of the SGPR writes since a base was written (`BaseCover`), of a wait that
  drained lgkmcnt and nothing followed (`GapCover`), which in turn needs the number of LDS
  operations not waited for (`PendingCover`). It holds of the rewrite's state (`local`), which
  is aged by the inserted waits too, and of the analysis' state at the same point (`at`), which
  is not;
* `Fixpoint`: once the analysis is done, the transfer of a point's state is `Below` the
  next point's, along operations and edges (`IncomingIs`: a block has at most two
  predecessors, and both are joined). `Covers` is upward closed, which carries it
  over the edges;
* `Companions`: a new definition of a register drops its value hazards `MfmaStore` and
  `Permlane32Swap` (`Replaced`). They are not covered; a physical hazard of the same age,
  limit and at least the same need stands in for each (`RequiredTwins`);
* `AllKnown`: with uniform MFMAs an entry's limit and passes are those of its
  producer, whatever was merged into it. A wide store's limit may differ; its consumers wait
  for what remains, so that the merged entry is still right (`RequiredStore`);
* `AllExact`: in straight-line code each entry is some producer's, with exactly the wait states
  it has left. With `WaitIsEnough` this makes the wait equal to what that producer needs.

TLC has checked `IInv` on the programs of the `hazard` run.

Only model-checked: liveness (`Termination`; fairness is out of the prover's reach),
`NeverWaits` in the form that says what is enabled (`NobodyWaits` is the same of the guards), and
PairedBarriers. Its properties are about what a barrier orders through a graph of tokens
(`Completions`, `Traced`) and about sequences that passes filter and join: functions
defined by recursion over data, of which the provers cannot do the induction.

## Plan

Done: the modules above. What is left, in this order:

1. Proofs about PairedBarriers, with the recursion over the token graph replaced by an
   invariant of the passes.
2. Ticket waits: expert counters and the mode switch, calls and returns, `exec_if`.
3. Hazard waits: the reorderings before the analysis and `waveamd-hazard-repair`.

## Not modelled

Instruction selection, index expressions, layout and memory coalescing: pure rewriting
without protocol state, over expressions far beyond small instances. Register and
LDS allocation: sequential, with verifiers of their own in the repository. Hardware
register preservation: rewriting of one block. Cost model: decides the order of
instructions only, through the scheduler, which PairedBarriers over-approximates.
Assembly printing apart from branches and wait fields, frontends, bindings, tools and
runtime: formatting and I/O. Most of the repository's lines are of these kinds, which is
why the models cover a small share of them: of the code that has state shared between
waves, workgroups or operations in flight, what is missing is named above and in
the components' notes.
