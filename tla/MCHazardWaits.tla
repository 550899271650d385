---------------------------- MODULE MCHazardWaits ----------------------------
(* Small programs for HazardWaits. *)
EXTENDS HazardWaits

MakeOp(kind, uses, acc, def, passes, count) ==
    [kind |-> kind, uses |-> uses, acc |-> acc, def |-> def, passes |-> passes,
     count |-> count]
Plain(kind, uses, def) == MakeOp(kind, uses, {}, def, 0, 1)

V0 == {"v0"}
V1 == {"v1"}
V01 == {"v0", "v1"}
S0 == {"s0"}

(* Three MFMAs: a chain on v0, one that overlaps it, one that reads v0. *)
Mfmas(p) == {MakeOp("mfma", {V1}, V0, V0, p, 1), MakeOp("mfma", {}, V01, V01, p, 1),
             MakeOp("mfma", {V0}, V1, V1, p, 1)}
Nop(n) == MakeOp("nop", {}, {}, {}, 0, n)
Wait(n) == MakeOp("waitcnt", {}, {}, {}, n, 1)
Valu == Plain("valu", {V0}, V0)
Trans == Plain("trans", {V1}, V0)
Ds == Plain("ds", {V1}, V0)
WideStore(latency) == MakeOp("store", {V01}, {}, {}, latency, 1)

Vector == {Valu, Trans, Plain("dstsel", {V1}, V0)}
Scalar == {Plain("readfirstlane", {V0}, S0), Plain("valu", {V0}, {"vcc"}), Plain("cmpx", {V0}, {})}
Readers == {Plain("valu", {{"vcc"}, V1}, V1), Plain("valu", {S0}, V1),
            Plain("load", {S0, V1}, V0), Plain("permlane32swap", {V01}, V01)}
M0Ops == {Plain("salu", {}, {"m0"}), Plain("dma", {{"m0"}, V0}, {})}

CdnaOps(p) == Mfmas(p) \union Vector \union Scalar \union Readers \union M0Ops
              \union {WideStore(1), WideStore(2), Ds, Nop(2)}

Producers(p) == Mfmas(p) \union Scalar \union {Trans, WideStore(2)}
Consumers(p) == Mfmas(p) \union {Valu, Ds, Plain("readfirstlane", {V0}, S0)} \union Readers

(* gfx1250: forwarding between VALU operations, and scratch bases. *)
Gfx1250Ops ==
    {MakeOp("wmma", {V0}, V1, V1, 1, 1), MakeOp("wmma", {V1}, V0, V0, 2, 1), Valu, Trans,
     Plain("valu", {V1}, V0), MakeOp("salu", {}, {}, S0, 0, 5), Plain("salu", {}, S0),
     Plain("salu", {}, {"s102"}), Plain("readfirstlane", {V0}, {"s103"}),
     Plain("scratch", {V0}, {}), Plain("load", {S0}, V0), Plain("wait_alu", {}, {}), Nop(1)}
Gfx1250Producers == {MakeOp("wmma", {V1}, V0, V0, 2, 1), Trans, Plain("salu", {}, {"s102"}),
                     Plain("readfirstlane", {V0}, {"s103"})}

(* The gap after a wait. *)
LgkmOps == {Ds, Wait(0), Wait(1), Valu, Nop(1), Plain("salu", {}, S0)}

Family(targets, shapes, pre, first, second, post) ==
    [targets |-> targets, shapes |-> shapes, pre |-> pre, first |-> first,
     second |-> second, post |-> post]
One(ops) == [1..1 -> ops]
UpTo(n, ops) == UNION {[1..i -> ops] : i \in 0..n}
None == {<<>>}

Straight(t, ops, n) == Family({t}, {"straight"}, [1..n -> ops], None, None, None)

Structured(t, pres, firsts, posts) ==
    Family({t}, {"if", "while", "dowhile"}, pres, firsts, None, posts)

(* All MFMAs of a program have the same number of passes. *)
UniformFamilies ==
    UNION {{Straight("gfx950", CdnaOps(p), 3),
            Structured("gfx950", One(Producers(p)), One(CdnaOps(p)), One(Consumers(p))),
            Family({"gfx950"}, {"ifelse"}, One(Producers(p)),
                   One({Trans, Nop(2)} \union Mfmas(p)),
                   One({Trans, Nop(2)} \union Mfmas(p)), One(Consumers(p)))} : p \in {2, 4}}
    \union
    {Structured("gfx942", One(Producers(4)), One(CdnaOps(4)), One(Consumers(4))),
     Straight("gfx942", LgkmOps, 4),
     Structured("gfx942", UpTo(2, LgkmOps), UpTo(1, LgkmOps), One(LgkmOps)),
     Straight("gfx1250", Gfx1250Ops, 4),
     Structured("gfx1250", One(Gfx1250Producers), One(Gfx1250Ops), One(Gfx1250Ops))}

(* MFMAs of different lengths that write the same registers. *)
MixedFamilies == {Straight("gfx942", Mfmas(2) \union Mfmas(4), 3)}

(* The branches that are not printed. *)
BranchFamilies ==
    {Structured("gfx950", One({Trans, Nop(1)}), One({Trans, Valu, Nop(1)}), One({Valu}))}
=============================================================================
