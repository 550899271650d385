---------------------------- MODULE MCTicketWaits ----------------------------
(* Small functions for TicketWaits. *)
EXTENDS TicketWaits

Plain(kind, results, values, tokens) ==
    [family |-> "legacy", kind |-> kind, event |-> "none", count |-> 0, ooo |-> FALSE,
     writes |-> FALSE, results |-> results, values |-> values, tokens |-> tokens,
     srcs |-> {}, fixed |-> {}, completes |-> {}, drains |-> FALSE]

Issuer(event, count, writes, results, values, tokens) ==
    [Plain("issuer", results, values, tokens) EXCEPT
        !.event = event, !.count = count, !.writes = writes, !.ooo = event = "Smem"]

(* Vector memory: a load, a scratch store of what it loaded, a load of two   *)
(* instructions after the store, a move into the first load's register, and  *)
(* a fence on both loads' tokens.                                            *)
VectorPool ==
    {Issuer("Vmem", 1, FALSE, {"x", "tx"}, {}, {}),
     Issuer("ScratchStore", 1, TRUE, {"ts"}, {"x"}, {}),
     Issuer("Vmem", 2, FALSE, {"y", "ty"}, {}, {"ts"}),
     Plain("generic", {"z"}, {"y"}, {}),
     Plain("token", {"tj"}, {}, {"tx", "ty"}),
     Plain("barrier", {}, {}, {"tj"})}

(* LDS and scalar memory on one counter: a scalar load and its use, an LDS   *)
(* store, a load of the stored place, its use, an issue-only token of the    *)
(* load, and a fence on that and on a block argument.                        *)
LgkmPool ==
    {Issuer("Smem", 1, FALSE, {"a"}, {}, {}),
     Plain("generic", {}, {"a"}, {}),
     Issuer("Lds", 1, TRUE, {"td"}, {}, {}),
     Issuer("Lds", 1, FALSE, {"c", "tc"}, {}, {"td"}),
     Plain("generic", {}, {"c"}, {}),
     Plain("free", {"tf"}, {}, {"tc"}),
     Plain("barrier", {}, {}, {"tf", "tp"})}

(* The split counters with the X counter: a load, a store, a scalar load,    *)
(* writes of the load's address register and of the exec mask, and a barrier *)
(* whose signal writes SCC.                                                  *)
Split(op, srcs) == [op EXCEPT !.family = "split", !.srcs = srcs]
SplitPool ==
    {Split(Issuer("Vmem", 1, FALSE, {"x"}, {}, {}), {"r2"}),
     Split(Issuer("VmemStore", 1, TRUE, {"ts"}, {}, {}), {"r3"}),
     Split(Issuer("Smem", 1, FALSE, {"a"}, {}, {}), {"s1"}),
     Split(Plain("generic", {"w"}, {}, {}), {}),
     Split([Plain("generic", {}, {"x"}, {}) EXCEPT !.fixed = {"exec"}], {}),
     Split([Issuer("SccWrite", 1, FALSE, {"scc", "tk"}, {}, {"tp"}) EXCEPT
               !.kind = "signal", !.drains = TRUE], {}),
     Split(Plain("generic", {}, {"scc", "a"}, {}), {}),
     Split([Plain("barrier", {}, {}, {"tk"}) EXCEPT
               !.completes = {"scc", "tk"}, !.drains = TRUE], {})}

Tokens == {"tx", "ts", "ty", "tj", "tc", "td", "tf", "tp", "tk"}
Registers ==
    [v \in {"x", "y", "z", "a", "c", "w", "scc"} \union Tokens |->
        CASE v \in {"x", "z"} -> "r0" [] v \in {"y", "c"} -> "r1" [] v = "w" -> "r2"
          [] v = "a" -> "s0" [] OTHER -> "none"]

(* Another path has one of the pool's results pending. *)
SingleTokens(pool) ==
    UNION {{[k \in {<<Counter(op), v>>} |->
                [pos |-> p, events |-> {op.event}, ooo |-> op.ooo,
                 writes |-> op.writes]] :
              v \in op.results \ MemTokens, p \in 0..1} :
           op \in {o \in pool : o.kind = "issuer"}}

(* A branch passes a load's token on; blocks that others skip define a value *)
(* and a store's token.                                                      *)
VectorFunc == [family |-> "legacy", ops |-> VectorPool, moves |-> {<<"tx", "ty">>},
               locals |-> {"x", "ts"}, others |-> SingleTokens(VectorPool),
               drains |-> FALSE, flights |-> 4]
LgkmFunc == [family |-> "legacy", ops |-> LgkmPool, moves |-> {<<"tc", "tp">>},
             locals |-> {"a", "td"}, others |-> SingleTokens(LgkmPool),
             drains |-> FALSE, flights |-> 4]

(* Another path has a scalar load that has not read its address. *)
SplitFunc == [family |-> "split", ops |-> SplitPool, moves |-> {<<"ts", "tp">>},
              locals |-> {},
              others |-> {[k \in {<<"x", "s1", "Smem">>} |->
                             [pos |-> 0, events |-> {"Smem"}, ooo |-> TRUE,
                              writes |-> FALSE]]},
              drains |-> TRUE, flights |-> 3]

AllFuncs == {VectorFunc, LgkmFunc, SplitFunc}
OnlyVector == {VectorFunc}

Maxima == [vm |-> 2, vs |-> 1, lgkm |-> 2, load |-> 2, store |-> 2, km |-> 2,
           x |-> 2]
=============================================================================
