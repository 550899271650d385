----------------------------- MODULE TicketWaits -----------------------------
(***************************************************************************)
(* One path through a function that waveamd-insert-ticket-waits rewrites:  *)
(* the wait state the pass computes along the path next to the operations  *)
(* the hardware has in flight.                                             *)
(*                                                                         *)
(* A path is any sequence of the function's operations.  Where paths meet, *)
(* the pass joins the state with the one of the other path, which can be   *)
(* anything (JoinOther); block arguments take the tokens of their operands *)
(* (Branch); values whose definition does not dominate the next block are  *)
(* collapsed (Leave).                                                      *)
(***************************************************************************)
EXTENDS WaitLattice

CONSTANTS Funcs,        \* the functions: WellFormed, with two more fields
                        \*   drains  whether the branches drain the X counter
                        \*   locals  values defined in a block that others skip
                        \* and flights as the bound on what is in flight
          MaxJoins      \* bound: how often another path is joined

ASSUME TicketAssumption ==
    MaxJoins \in Nat /\ \A f \in Funcs : WellFormed(f)

VARIABLES
    func,       \* the function
    state,      \* the pass's WaitState here
    flight,     \* the operations in flight, oldest first
    visible,    \* the values defined on the path and still in scope
    joins       \* joins so far

vars == <<func, state, flight, visible, joins>>

TypeOK ==
    /\ func \in Funcs
    /\ IsState(func, state)
    /\ \E n \in 0..func.flights : flight \in [1..n -> FlightType(func)]
    /\ visible \subseteq Values
    /\ joins \in 0..MaxJoins

Init ==
    /\ func \in Funcs
    /\ state = Empty
    /\ flight = <<>>
    /\ visible = {}
    /\ joins = 0

Executable(op) == op.values \union op.tokens \subseteq visible

(* The wave passes the wait in front of op and issues op. *)
Execute(op) ==
    /\ Executable(op)
    /\ Cardinality(DOMAIN flight) + op.count <= func.flights
    /\ WaitDone(flight, Requirement(op, state))
    /\ InstructionReady(flight, op)
    /\ state' = Transfer(op, state)
    /\ flight' = Run(flight, op)
    /\ visible' = visible \union op.results
    /\ UNCHANGED <<func, joins>>

(* A wait that was in the function already: observeRegularWaitcnt. *)
ExistingWait(c, n) ==
    LET req == [d \in {c} |-> n]
    IN  /\ WaitDone(flight, req)
        /\ state' = ApplyWait(state, req)
        /\ UNCHANGED <<func, flight, visible, joins>>

Complete(i) ==
    /\ MayComplete(flight, i)
    /\ flight' = Without(flight, i)
    /\ UNCHANGED <<func, state, visible, joins>>

Read(i) ==
    /\ MayRead(flight, i)
    /\ flight' = [flight EXCEPT ![i].unread = {}]
    /\ UNCHANGED <<func, state, visible, joins>>

JoinOther(t) ==
    /\ joins < MaxJoins
    /\ state' = Join(state, t)
    /\ joins' = joins + 1
    /\ UNCHANGED <<func, flight, visible>>

Branch(m) ==
    /\ m[1] \in visible
    /\ func.drains => Outstanding(flight, "x") = 0
    /\ state' = IF func.drains THEN DrainX(Rekey(state, {m})) ELSE Rekey(state, {m})
    /\ flight' = Rebind(flight, [v \in {m[2]} |-> {m[1]}])
    /\ visible' = visible \union {m[2]}
    /\ UNCHANGED <<func, joins>>

Leave(v) ==
    /\ v \in visible
    /\ visible' = visible \ {v}
    /\ state' = CollapseEscaping(state, visible \ {v})
    /\ flight' = Rebind(flight, [u \in {v} |-> {}])
    /\ UNCHANGED <<func, joins>>

Next ==
    \/ \E op \in func.ops : Execute(op)
    \/ \E c \in Counters(func.family) \intersect DOMAIN CounterMax, n \in 0..1 :
          ExistingWait(c, n)
    \/ \E i \in DOMAIN flight : Complete(i) \/ Read(i)
    \/ \E t \in func.others : JoinOther(t)
    \/ \E m \in func.moves : Branch(m)
    \/ \E v \in func.locals : Leave(v)

Spec == Init /\ [][Next]_vars

-----------------------------------------------------------------------------
(* Properties *)

Issues(op) ==
    /\ Executable(op)
    /\ WaitDone(flight, Requirement(op, state))
    /\ InstructionReady(flight, op)

(* docs/WaveMemoryModel.md, "A load data consumer must wait for its data":   *)
(* an operation that the emitted wait lets go finds its operands loaded and  *)
(* the writes it is ordered after performed, whatever path led here          *)
(* (computeRequirement, applyWait, joinWith).                                *)
NoEarlyRead == \A op \in func.ops : ReadsTooEarly(flight, op) => ~Issues(op)

(* op would define a register that is still to be written or read. *)
Clobbers(op) ==
    \E i \in DOMAIN flight :
        ({RegOf[v] : v \in flight[i].vals} \union flight[i].unread)
            \intersect DefRegs(op) # {}

(* No operation defines a register that a load of a value still in scope is  *)
(* about to write, or that an operation in flight is about to read           *)
(* (requireOverlappingRegisterDef, requireExecDef, applyWait).               *)
NoClobber == \A op \in func.ops : Clobbers(op) => ~Issues(op)

(* The same for every load in flight, in scope or not: the test              *)
(* def_overlap_waits_on_pending_lgkm_load expects an instruction that        *)
(* redefines a register to wait for the load that is pending in it.          *)
NoPendingWrite ==
    \A op \in func.ops : Issues(op) /\ op.kind = "generic" =>
        \A i \in DOMAIN flight, r \in op.results : RegOf[r] \notin flight[i].regs

Later(i) == {j \in DOMAIN flight : j > i /\ flight[j].ctr = flight[i].ctr}

(* What the lattice means (bumpCounter, dropDrained, mergeInto): everything  *)
(* in flight that a visible value needs is known under that value, and every *)
(* register still to be read under its name, at no more than the distance    *)
(* from the youngest operation of the counter unless the counter is waited   *)
(* for at 0 anyway.                                                          *)
LatticeCovers ==
    \A i \in DOMAIN flight :
        /\ \A v \in flight[i].vals :
              LET k == <<flight[i].ctr, v>>
              IN  /\ k \in DOMAIN state
                  /\ flight[i].event \in state[k].events
                  /\ flight[i].ooo => state[k].ooo
                  /\ flight[i].writes => state[k].writes
                  /\ WaitPosition(state, k) <= Cardinality(Later(i))
        /\ \A r \in flight[i].unread :
              LET k == <<"x", r, Group(flight[i].event)>>
              IN  /\ k \in DOMAIN state
                  /\ WaitPosition(state, k) <=
                        Cardinality({j \in DOMAIN flight : j > i /\ flight[j].unread # {}})

(* s_sendmsg dealloc_vgprs is sent only when no scratch store is in flight,  *)
(* whatever became of the values that stood for it (canDeallocVGPRs).        *)
DeallocSafe ==
    CanDealloc(state) => \A i \in DOMAIN flight : flight[i].event # "ScratchStore"
=============================================================================
