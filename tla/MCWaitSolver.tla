---------------------------- MODULE MCWaitSolver ----------------------------
(* Small functions for WaitSolver. *)
EXTENDS WaitSolver, SequencesExt

Use(v) ==
    [family |-> "legacy", kind |-> "generic", event |-> "none", count |-> 0,
     ooo |-> FALSE, writes |-> FALSE, results |-> {}, values |-> {v}, tokens |-> {},
     srcs |-> {}, fixed |-> {}, completes |-> {}, drains |-> FALSE]
Load(event, v) ==
    [Use(v) EXCEPT !.kind = "issuer", !.event = event, !.count = 1,
                   !.ooo = event = "Smem", !.results = {v}, !.values = {}]

(* Every value has a register of its own; "c" is never pending. *)
Registers == [v \in {"a", "b", "c", "i", "n", "v"} |-> v]
LegacyMax == [vm |-> 3, vs |-> 3, lgkm |-> 3]

(* A use follows its definition. *)
UsesFollow(ops) ==
    \A j \in 1..Len(ops) : \A x \in ops[j].values \intersect {"a", "b"} :
        \E k \in 1..(j - 1) : x \in ops[k].results

(* All bodies made of some of these operations, with the next value of the   *)
(* argument "v" loaded at the end.                                           *)
BodiesOf(events) ==
    {Append(ops, Load(events["n"], "n")) :
        ops \in {o \in SetToAllKPermutations(
                         {Load(events["a"], "a"), Use("a"),
                          Load(events["b"], "b"), Use("v")}) : UsesFollow(o)}}

FunctionsOf(events) ==
    {[pre |-> IF first = "i" THEN <<Load(events["i"], "i")>> ELSE <<>>,
      body |-> ops, loop |-> loop,
      post |-> IF ~loop THEN <<Use(first)>>
               ELSE IF Load(events["b"], "b") \in Range(ops) THEN <<Use("b")>>
               ELSE <<Use("v")>>,
      enter |-> {<<first, "v">>}, again |-> {<<"n", "v">>}] :
        first \in {"i", "c"}, loop \in BOOLEAN, ops \in BodiesOf(events)}

(* Loads that return in order on each of their counters. *)
InOrderFunctions ==
    FunctionsOf([i |-> "Vmem", a |-> "Vmem", b |-> "Vmem", n |-> "Vmem"]) \union
    FunctionsOf([i |-> "Lds", a |-> "Vmem", b |-> "Lds", n |-> "Vmem"])

(* Scalar and LDS loads on one counter. *)
MixedFunctions ==
    FunctionsOf([i |-> "Lds", a |-> "Smem", b |-> "Lds", n |-> "Smem"])
=============================================================================
