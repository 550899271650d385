----------------------------- MODULE HazardWaits -----------------------------
(***************************************************************************)
(* The pass waveamd-insert-hazard-waits on small functions, and a wave     *)
(* that runs the result.                                                   *)
(*                                                                         *)
(* A program has a first block, at most one structured conditional or loop *)
(* and a last block.  The analysis is run to its fixpoint; then a wave     *)
(* takes any path, and at every operation the mitigation that the rewrite  *)
(* inserts there is computed from the block's entry state, as rewriteBlock *)
(* does.  What the hardware sees is kept apart from what the pass believes: *)
(* every producer the wave has issued, with its exact age.                 *)
(***************************************************************************)
EXTENDS HazardState, Sequences

CONSTANTS Families,     \* sets of programs: records [targets, shapes, pre, first,
                        \* second, post] with the sequences each block may hold
          MaxTrips      \* bound: times a loop is entered again

Blocks == {"pre", "first", "second", "post"}
Shapes == {"straight", "if", "ifelse", "while", "dowhile"}

(* s_wait_alu is an instruction of gfx12 and later.                          *)
IsOperation(t, op) ==
    /\ op.passes \in 0..MostPasses /\ op.count \in Nat
    /\ op.kind = "wait_alu" => ~CDNA(t)

IsFamily(f) ==
    /\ f.shapes \subseteq Shapes
    /\ \A blocks \in {f.pre, f.first, f.second, f.post} : \A seq \in blocks :
          /\ Len(seq) \in Nat /\ DOMAIN seq = 1..Len(seq)
          /\ \A t \in f.targets : \A n \in 1..Len(seq) : IsOperation(t, seq[n])

ASSUME HazardAssumption ==
    /\ LgkmDefault \in Nat \ {0} /\ MaxTrips \in Nat
    /\ \A f \in Families : IsFamily(f)

VARIABLES
    prog,       \* the program
    at,         \* at[b][n]: the analysis' state before operation n of block b, or
                \* at the end of b
    solved,     \* the analysis is done
    block,      \* the block the wave is in
    pos,        \* and the operation it issues next
    local,      \* the rewrite's state there
    trips,      \* how often the loop was entered again
    past,       \* the hazards produced so far, with their ages
    slots,      \* the coexecution hazards, with the VALU slots since
    gap,        \* instructions since a wait that drained lgkmcnt, 1 for many
    pending,    \* LDS operations issued and not waited for
    settled     \* settled[b]: SGPR writes since the last write of base b

vars == <<prog, at, solved, block, pos, local, trips, past, slots, gap,
          pending, settled>>

(* The control flow of a program: the edges, and whether the emitter prints  *)
(* a branch for each (emitUniformIf, emitUniformLoop).  The analysis counts  *)
(* one wait state on every edge.                                             *)
Edges(shape) ==
    CASE shape = "straight" -> {}
      [] shape = "if" -> {<<"pre", "first", 1>>, <<"pre", "post", 1>>,
                          <<"first", "post", 0>>}
      [] shape = "ifelse" -> {<<"pre", "first", 1>>, <<"pre", "second", 1>>,
                              <<"first", "post", 1>>, <<"second", "post", 0>>}
      [] shape = "while" -> {<<"pre", "first", 1>>, <<"pre", "post", 1>>,
                             <<"first", "first", 1>>, <<"first", "post", 1>>}
      [] shape = "dowhile" -> {<<"pre", "first", 0>>, <<"first", "first", 1>>,
                               <<"first", "post", 1>>}

Init ==
    /\ \E f \in Families : \E t \in f.targets, shape \in f.shapes, a \in f.pre,
                              b \in f.first, c \in f.second, d \in f.post :
          prog = [target |-> t, shape |-> shape, pre |-> a, first |-> b, second |-> c,
                  post |-> d]
    /\ at = [b \in Blocks |-> [n \in 1..(Len(prog[b]) + 1) |-> NoHazards]]
    /\ solved = FALSE
    /\ block = "pre" /\ pos = 1
    /\ local = NoHazards
    /\ trips = 0
    /\ past = {} /\ slots = {}
    /\ gap = 1 /\ pending = 0
    /\ settled = [b \in ScratchBases |-> ScratchBaseWrites]
-----------------------------------------------------------------------------
(* The analysis. *)

(* visitBlockTransfer, visitRegionBranchControlFlowTransfer: the state at    *)
(* the entry of a block, which has at most two predecessors.                 *)
Incoming(b) ==
    LET into == {e \in Edges(prog.shape) : e[2] = b}
        one == CHOOSE e \in into : TRUE
        other == CHOOSE e \in into : e = one => into = {one}
        along(e) == TransferBranch(at[e[1]][Len(prog[e[1]]) + 1])
    IN  IF into = {} THEN at[b][1]
        ELSE JoinWith(JoinWith(at[b][1], along(one)), along(other))

(* visitOperation: the state at point n of a block. *)
Visited(b, n) ==
    IF n = 1 THEN Incoming(b)
    ELSE JoinWith(at[b][n], Transfer(prog.target, prog[b][n - 1], at[b][n - 1]))

(* All points are visited until nothing changes. *)
Solve ==
    /\ ~solved
    /\ at' = [b \in Blocks |-> [n \in 1..(Len(prog[b]) + 1) |-> Visited(b, n)]]
    /\ solved' = (at' = at)
    /\ UNCHANGED <<prog, block, pos, local, trips, past, slots, gap, pending, settled>>
-----------------------------------------------------------------------------
(* The rewrite. *)
Op == prog[block][pos]
Issuing == solved /\ pos <= Len(prog[block])

(* rewriteOp: the mitigation before an operation, and the state after it. *)
Mitigation ==
    LET t == prog.target
        wait == RequiredWait(t, Op, local)
        s1 == Advance(local, wait, TRUE)
        valu == IF NeedsValuMitigation(Op, s1) THEN 1 ELSE 0
        s2 == Advance(s1, valu, TRUE)
        vnops == RequiredVNops(Op, s2)
        s3 == AdvanceCoexec(Advance(s2, vnops, TRUE), vnops)
        alu == IF NeedsScratchBaseWait(t, Op, s3) THEN 1 ELSE 0
        s4 == IF alu = 1 THEN ClearScratchBase(Advance(s3, 1, TRUE)) ELSE s3
    IN  [wait |-> wait, valu |-> valu, vnops |-> vnops, alu |-> alu,
         total |-> wait + valu + vnops + alu, state |-> s4]

(* The wave issues the mitigation and the operation.                         *)
(* Ages of what it produced before: in wait states, in branches the analysis *)
(* counts and the emitter drops, in VALU slots, in SGPR writes.              *)
Elapse(xs, states, dropped) ==
    {[entry |-> x.entry, age |-> x.age + states, dropped |-> x.dropped + dropped] :
        x \in {x \in xs : x.age + states < x.entry.limit}}

ElapseSlots(ys, n) ==
    {[entry |-> y.entry, slots |-> y.slots + n] :
        y \in {y \in ys : y.slots + n < Larger(y.entry[3], y.entry[4])}}

Cap(n, most) == IF n > most THEN most ELSE n

Issue ==
    LET t == prog.target
        m == Mitigation
        n == IF NoMachineInst(Op) THEN 0 ELSE Op.count
        waitsAlu == Op.kind = "wait_alu"
        drains == Waitcnt(Op) /\ Op.passes < LgkmDefault /\ pending > Op.passes
        writes == IF SGPRWrite(Op) THEN Op.count ELSE 0
    IN  /\ Issuing
        /\ local' = Transfer(t, Op, m.state)
        /\ pos' = pos + 1
        /\ past' = {x \in Elapse(past, m.total + n, 0) :
                      waitsAlu => x.entry.key[2] \notin AluKinds}
                   \union {[entry |-> e, age |-> 0, dropped |-> 0] : e \in Produced(t, Op)}
        /\ slots' = ElapseSlots(slots, m.vnops + (IF VALUForCoexec(Op) THEN n ELSE 0))
                    \union {[entry |-> e, slots |-> 0] : e \in CoexecProduced(t, Op)}
        /\ gap' = IF drains THEN 0 ELSE Cap(gap + m.total + n, 1)
        /\ pending' = IF Waitcnt(Op) /\ Op.passes < LgkmDefault THEN Cap(pending, Op.passes)
                      ELSE IF DS(Op) THEN pending + 1 ELSE pending
        /\ settled' = [b \in ScratchBases |->
                         IF SGPRWrite(Op) /\ b \in Op.def THEN 0
                         ELSE IF waitsAlu \/ m.alu = 1 THEN ScratchBaseWrites
                         ELSE Cap(settled[b] + writes, ScratchBaseWrites)]
        /\ UNCHANGED <<prog, at, solved, block, trips>>

(* The wave leaves a block.  Nested blocks are rewritten from their own      *)
(* entry states, the rest of the parent from the state after the operation.  *)
Branch(e) ==
    /\ solved /\ pos = Len(prog[block]) + 1
    /\ e[1] = block
    /\ e[2] = block => trips < MaxTrips
    /\ trips' = IF e[2] = block THEN trips + 1 ELSE trips
    /\ block' = e[2] /\ pos' = 1
    /\ local' = at[e[2]][1]
    /\ past' = Elapse(past, e[3], 1 - e[3])
    /\ UNCHANGED <<prog, at, solved, slots, gap, pending, settled>>

Done ==
    /\ solved /\ pos = Len(prog[block]) + 1
    /\ \A e \in Edges(prog.shape) : e[1] # block
    /\ UNCHANGED vars

Next == Solve \/ Issue \/ (\E e \in Edges(prog.shape) : Branch(e)) \/ Done

Spec == Init /\ [][Next]_vars
-----------------------------------------------------------------------------
(* Properties *)

Hazard == [limit : 1..MostLimit, remaining : 1..MostLimit, passes : 0..MostPasses]

IsHazards(h) ==
    /\ h = [k \in DOMAIN h |-> h[k]]
    /\ \A k \in DOMAIN h : h[k] \in Hazard /\ h[k].remaining <= h[k].limit

Forwarding == [wmma : 0..MostLimit, valu : 0..MostLimit]

IsCoexec(c) ==
    /\ c = [k \in DOMAIN c |-> c[k]]
    /\ \A k \in DOMAIN c : c[k] \in Forwarding

IsState(s) ==
    /\ s = [lgkmToValu |-> s.lgkmToValu, lgkmPending |-> s.lgkmPending,
            hazards |-> s.hazards, coexec |-> s.coexec, scratchBase |-> s.scratchBase]
    /\ s.lgkmToValu \in 0..1 /\ s.lgkmPending \in 0..(LgkmDefault + 1)
    /\ IsHazards(s.hazards)
    /\ IsCoexec(s.coexec)
    /\ s.scratchBase \in [ScratchBases -> 0..ScratchBaseWrites]

(* "malformed hazard age" (waitForHazardAge) never happens: no state has a   *)
(* hazard with more wait states left than it began with, or with none left.  *)
TypeOK ==
    /\ block \in Blocks /\ pos \in 1..(Len(prog[block]) + 1)
    /\ trips \in 0..MaxTrips
    /\ IsState(local)
    /\ \A b \in Blocks : \A n \in 1..(Len(prog[b]) + 1) : IsState(at[b][n])
    /\ settled \in [ScratchBases -> 0..ScratchBaseWrites]
    /\ gap \in 0..1 /\ pending \in Nat

(* The wait states the next operation needs from a producer. *)
Needs(x) ==
    Max({0} \union {Required(prog.target, Op, a, x.entry.key[1], x.entry.key[2], x.entry) :
                    a \in Accesses(Op)})

(* docs/HazardMitigationDesign.md: "At a consumer, the rewrite inserts the   *)
(* maximum needed s_nop count across active SSA and physical hazards": every *)
(* operation issues late enough after every producer on the wave's path.     *)
WaitStatesElapsed ==
    Issuing => \A x \in past : x.age + Mitigation.total >= Needs(x)

(* MFMAs that share their result or their accumulator take as many passes.   *)
Operations == UNION {{prog[b][n] : n \in 1..Len(prog[b])} : b \in Blocks}
UniformMfmas ==
    \A o \in Operations, p \in Operations :
        MFMA(o) /\ MFMA(p) /\ (o.def = p.def \/ o.acc = p.acc) => o.passes = p.passes

(* The same, if the branches that the analysis counts on an edge were there: *)
(* whatever paths meet, the countdowns are those of the youngest producer.   *)
WaitStatesCounted ==
    Issuing => \A x \in past : x.age + x.dropped + Mitigation.total >= Needs(x)

(* In straight-line code no s_nop is wasted: one fewer would be too few.     *)
NoWastedWait ==
    Issuing /\ prog.shape = "straight" /\ Mitigation.wait > 0 =>
        \E x \in past : x.age + Mitigation.wait = Needs(x)

(* A VALU operation does not directly follow a wait that drained lgkmcnt,    *)
(* branches not counted (needsValuMitigation).                               *)
GapAfterWait ==
    Issuing /\ VALU(Op) /\ LgkmWaitNeedsValuGap(prog.target) =>
        gap + Mitigation.total >= 1

(* gfx1250: enough VALU slots separate a transcendental or matrix operation  *)
(* from what it must not execute with, and no scratch access uses a base     *)
(* register that is still being forwarded.                                   *)
ForwardingSettled ==
    Issuing =>
        /\ \A x \in slots :
              x.slots + Mitigation.vnops >=
                CoexecSlots(Op, x.entry[1], x.entry[2],
                            [wmma |-> x.entry[3], valu |-> x.entry[4]])
        /\ Op.kind = "scratch" /\ ScratchBaseHazard(prog.target) =>
              \A b \in ScratchBases : settled[b] = ScratchBaseWrites \/ Mitigation.alu = 1
=============================================================================
