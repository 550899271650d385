----------------------------- MODULE WaitSolver -----------------------------
(***************************************************************************)
(* waveamd-insert-ticket-waits on a whole function: the dataflow solver,   *)
(* the rewrite, and the rewritten function on the hardware.                *)
(*                                                                         *)
(* The function has three blocks.  "pre" runs first; "body" is a loop or a *)
(* conditional block; "post" runs last.  The solver keeps a wait state for *)
(* every program point <<block, i>>, the point after the i-th operation,   *)
(* and lets it grow by joins.  The rewrite starts each block from the      *)
(* solver's state at its entry and recomputes the rest of the block; its   *)
(* state is carried along with the wave that runs the block.               *)
(* The programs are for targets of the legacy counter family.              *)
(***************************************************************************)
EXTENDS WaitLattice, Sequences

CONSTANTS Programs,     \* [pre, body, post : Seq(Op), loop : BOOLEAN,
                        \*  enter, again : set of <<operand, body argument>>]
          MaxTrips      \* bound: how often the body runs

Blocks == {"pre", "body", "post"}
Operations(p) == UNION {{p[b][i] : i \in 1..Len(p[b])} : b \in Blocks}
Targets(moves) == {m[2] : m \in moves}

(* Program p as a function with at most n operations in flight. *)
Function(p, n) ==
    [family |-> "legacy", ops |-> Operations(p), moves |-> p.enter \union p.again,
     others |-> {}, flights |-> n]

(* A branch passes one operand for each of the block's arguments; lat::issue *)
(* counts an issue at least once.                                            *)
IsProgram(p) ==
    /\ \A b \in Blocks : p[b] \in Seq(Operations(p))
    /\ WellFormed(Function(p, 0))
    /\ \A op \in Operations(p) : op.count \in Nat /\ (op.kind = "issuer" => op.count > 0)
    /\ p.loop \in BOOLEAN
    /\ \A moves \in {p.enter, p.again} : \A l, m \in moves : l[2] = m[2] => l = m
    /\ Targets(p.enter) = Targets(p.again)

ASSUME SolverAssumption == MaxTrips \in Nat /\ \A p \in Programs : IsProgram(p)

VARIABLES
    prog,       \* the function
    lat,        \* lat[p]: the solver's state at point p
    sweep,      \* points still to be visited by the solver's first pass
    phase,      \* "init", "solve" or "run"
    block, at,  \* the wave is before operation at + 1 of block
    trips,      \* how often it has entered the body
    local,      \* the state of the rewrite there
    flight      \* the operations in flight, oldest first

vars == <<prog, lat, sweep, phase, block, at, trips, local, flight>>
solver == <<lat, sweep, phase>>
wave == <<block, at, trips, local, flight>>

Points(p) == UNION {{<<b, i>> : i \in 0..Len(p[b])} : b \in Blocks}

(* Control flow: the edges into a block, with the block arguments they set. *)
EdgesInto(b) ==
    CASE b = "pre"  -> {}
      [] b = "body" -> {<<"pre", prog.enter>>} \union
                       (IF prog.loop THEN {<<"body", prog.again>>} ELSE {})
      [] b = "post" -> {<<"body", {}>>} \union
                       (IF prog.loop THEN {} ELSE {<<"pre", {}>>})

Results(b) == UNION {prog[b][i].results : i \in 1..Len(prog[b])}
Arguments == Targets(prog.enter)

(* The values whose definition dominates block b. *)
Dominating(b) ==
    Results("pre") \union
    (IF b = "body" \/ (b = "post" /\ prog.loop)
       THEN Results("body") \union Arguments ELSE {}) \union
    (IF b = "post" THEN Results("post") ELSE {})

Exit(b) == <<b, Len(prog[b])>>

(* visitBlockTransfer *)
Incoming(e, b) == CollapseEscaping(Rekey(lat[Exit(e[1])], e[2]), Dominating(b))

(* What a visit of point p finds there. *)
Flows(p) ==
    IF p[2] = 0 THEN {Incoming(e, p[1]) : e \in EdgesInto(p[1])}
    ELSE {Transfer(prog[p[1]][p[2]], lat[<<p[1], p[2] - 1>>])}

JoinAll(s, ts) ==
    [k \in DOMAIN s \union UNION {DOMAIN t : t \in ts} |->
        MergeTokens({t[k] : t \in {t \in ts \union {s} : k \in DOMAIN t}})]

(* Mutant: only the first state that reaches a point counts. *)
Visited_KeepFirst(p) == IF lat[p] # Empty THEN lat[p] ELSE JoinAll(Empty, Flows(p))

(* visitOperation, visitBlockTransfer: join into what the point has.  A      *)
(* state that was found on an earlier visit is never taken back.             *)
Visited(p) == JoinAll(lat[p], Flows(p))

InOrder(p) ==
    [n \in 1..(Len(p.pre) + Len(p.body) + Len(p.post) + 3) |->
        LET pre == Len(p.pre) + 1  body == Len(p.body) + 1
        IN  CASE n <= pre        -> <<"pre", n - 1>>
              [] n > pre + body  -> <<"post", n - pre - body - 1>>
              [] OTHER           -> <<"body", n - pre - 1>>]

Init ==
    /\ prog \in Programs
    /\ lat = [p \in Points(prog) |-> Empty]
    /\ sweep = InOrder(prog)
    /\ phase = "init"
    /\ block = "pre" /\ at = 0 /\ trips = 0
    /\ local = Empty
    /\ flight = <<>>

(* DataFlowSolver: initialize visits every point in program order ... *)
FirstVisit ==
    /\ phase = "init"
    /\ IF sweep = <<>>
         THEN phase' = "solve" /\ UNCHANGED <<lat, sweep>>
         ELSE /\ lat' = [lat EXCEPT ![Head(sweep)] = Visited(Head(sweep))]
              /\ sweep' = Tail(sweep)
              /\ UNCHANGED phase
    /\ UNCHANGED <<prog, wave>>

(* ... then points are visited again while something in front of them changes. *)
Revisit(p) ==
    /\ phase = "solve"
    /\ Visited(p) # lat[p]
    /\ lat' = [lat EXCEPT ![p] = Visited(p)]
    /\ UNCHANGED <<prog, sweep, phase, wave>>

Converged ==
    /\ phase = "solve"
    /\ \A p \in Points(prog) : Visited(p) = lat[p]
    /\ phase' = "run"
    /\ local' = lat[<<"pre", 0>>]
    /\ UNCHANGED <<prog, lat, sweep, block, at, trips, flight>>

NextOp == prog[block][at + 1]

(* The wait that rewriteOp puts in front of the next operation. *)
Emitted == Requirement(NextOp, local)

(* rewriteBlock, rewriteOp: the state behind an operation is computed from   *)
(* the one in front of it, not taken from the solver.                        *)
Step ==
    /\ phase = "run"
    /\ at < Len(prog[block])
    /\ WaitDone(flight, Emitted)
    /\ flight' = Run(flight, NextOp)
    /\ local' = Transfer(NextOp, local)
    /\ at' = at + 1
    /\ UNCHANGED <<prog, solver, block, trips>>

(* What the values stand for after edge e into block b: the arguments for    *)
(* the operands, the ones that do not dominate b for nothing any more.       *)
Meanings(e, b) ==
    [v \in Targets(e[2]) \union (Values \ Dominating(b)) |->
        {m[1] : m \in {m \in e[2] : m[2] = v}}]

Goto(b) ==
    /\ phase = "run"
    /\ at = Len(prog[block])
    /\ \E e \in EdgesInto(b) :
          /\ e[1] = block
          /\ b = "body" => trips < MaxTrips
          /\ trips' = IF b = "body" THEN trips + 1 ELSE trips
          /\ flight' = Rebind(flight, Meanings(e, b))
    /\ block' = b
    /\ at' = 0
    /\ local' = lat[<<b, 0>>]
    /\ UNCHANGED <<prog, solver>>

Complete(i) ==
    /\ MayComplete(flight, i)
    /\ flight' = Without(flight, i)
    /\ UNCHANGED <<prog, solver, block, at, trips, local>>

(* s_endpgm drains by itself. *)
Finished ==
    /\ phase = "run"
    /\ block = "post" /\ at = Len(prog.post) /\ flight = <<>>
    /\ UNCHANGED vars

Solve == FirstVisit \/ (\E p \in Points(prog) : Revisit(p)) \/ Converged

Next ==
    \/ Solve
    \/ Step
    \/ \E b \in Blocks : Goto(b)
    \/ \E i \in DOMAIN flight : Complete(i)
    \/ Finished

Spec == Init /\ [][Next]_vars

-----------------------------------------------------------------------------
(* Properties *)

(* A load data consumer must wait for its data (docs/WaveMemoryModel.md):    *)
(* no operation of the rewritten function is issued before its operands are  *)
(* ready, on any path through the blocks (rewriteOp, joinWith).              *)
OperandsReady ==
    (phase = "run" /\ at < Len(prog[block]) /\ WaitDone(flight, Emitted))
       => ~ReadsTooEarly(flight, NextOp)

(* "Shared dispatch for analysis and rewrite: same state transfer": whatever *)
(* the rewrite still has pending at the end of a block, the state the solver *)
(* hands to the next block has pending too, at no larger position            *)
(* (rewriteBlock, visitBlockTransfer).                                       *)
SolverCoversRewrite ==
    (phase = "run" /\ at = Len(prog[block])) =>
        LET t == lat[Exit(block)]
        IN  \A k \in DOMAIN local : /\ k \in DOMAIN t
                                    /\ t[k].pos <= local[k].pos
                                    /\ local[k].events \subseteq t[k].events
=============================================================================
