----------------------------- MODULE HazardState -----------------------------
(***************************************************************************)
(* The state of the hazard analysis (WaveAMDHazardWaits.cpp): which        *)
(* register accesses must still be kept apart, and how an operation        *)
(* changes that.                                                           *)
(*                                                                         *)
(* A span is a set of register units; M0, VCC and EXEC are units too.  An  *)
(* operation is a record                                                   *)
(*   [kind, uses, acc, def, passes, count]                                 *)
(* with the spans it reads, the span of operand 2 of an MFMA or WMMA, the  *)
(* span it writes ({} for none), the passes of an MFMA (the VALU slots of  *)
(* a WMMA, the latency of a wide store's data, the limit of an s_waitcnt)  *)
(* and the wait states it takes.                                           *)
(*                                                                         *)
(* hazards maps <<span, kind>> to [limit, remaining, passes]: the physical *)
(* hazards of the code, its counters for VCC, EXEC and the M0 capture of   *)
(* an LDS DMA, and the hazards of SSA values.  After register allocation   *)
(* an operand of span s is the last value written to s, so a value is      *)
(* named by its span and a new definition replaces it.                     *)
(***************************************************************************)
EXTENDS Integers, FiniteSets, FiniteSetsExt

CONSTANT LgkmDefault    \* the lgkmcnt that waits for nothing

VGPR == {"v0", "v1"}
ScratchBases == {"s102", "s103"}
SGPR == {"s0"} \union ScratchBases

(* The traits of the operations. *)
LegacyVALU(op) == op.kind \in {"valu", "trans", "dstsel", "readfirstlane",
                               "permlane32swap", "cmpx"}
MFMA(op) == op.kind = "mfma"
XdlWmma(op) == op.kind = "wmma"
VALU(op) == LegacyVALU(op) \/ MFMA(op) \/ XdlWmma(op)
LDSDma(op) == op.kind = "dma"
VMEM(op) == op.kind \in {"load", "store", "scratch"} \/ LDSDma(op)
DS(op) == op.kind = "ds"
Waitcnt(op) == op.kind = "waitcnt"
M0Writer(op) == op.def = {"m0"}
NoMachineInst(op) == Waitcnt(op)
XdlResultConsumer(op) == VMEM(op) \/ DS(op) \/ LegacyVALU(op)
VALUForCoexec(op) == VALU(op) \/ LDSDma(op)
CoexecVALU(op) == LegacyVALU(op) /\ op.kind # "trans"
SGPRWrite(op) == (op.kind = "salu" \/ VALUForCoexec(op)) /\ op.def \intersect SGPR # {}

(* The targets: makeHazardConfig. *)
CDNA(t) == t \in {"gfx942", "gfx950"}
LegacyWaitCounters(t) == t # "gfx1250"
LgkmWaitNeedsValuGap(t) == LegacyWaitCounters(t) /\ t # "gfx950"
CoexecHazards(t) == t = "gfx1250"
ScratchBaseHazard(t) == t = "gfx1250"

ValuReadlane(t) == IF CDNA(t) THEN 1 ELSE 0
ValuPermlane(t) == IF t = "gfx950" THEN 2 ELSE 0
ValuMfma == 2
SGPRToVALU(t) == IF CDNA(t) THEN 2 ELSE 0
SGPRToVMEM == 5
ExecLatency(t) == IF CDNA(t) THEN 4 ELSE 0
TransLatency(t) == IF CDNA(t) THEN 1 ELSE 0
DstSelLatency(t) == IF CDNA(t) THEN 1 ELSE 0
M0Delay == 1
M0DmaCapture(t) == IF t = "gfx950" THEN 1 ELSE 0
ScratchBaseWrites == 10

(* Bounds: no operation takes more passes, and no hazard lasts longer. *)
MostPasses == 64
MostLimit == MostPasses + 4

(* The latencies of a p-pass MFMA on the CDNA targets. *)
XdlResult(t, p) ==
    IF t = "gfx950" /\ p # 2 THEN p + 4 ELSE p + 3
XdlSrcCOverlap(t, p) == IF t = "gfx950" THEN p + 2 ELSE p + 1
XdlSrcCExact(t, p) == IF p = 2 THEN 2 ELSE 0
XdlSrcCReadWar(t, p) == IF p = 2 THEN 1 ELSE p - 1
-----------------------------------------------------------------------------
(* Merging: the larger of each countdown. *)
Larger(a, b) == IF a > b THEN a ELSE b

(* Mutant: the entry that was there first stays. *)
MergeEntry_First(x, y) == x

MergeEntry(x, y) == [i \in DOMAIN x |-> Larger(x[i], y[i])]

Merge(f, g) ==
    [k \in DOMAIN f \union DOMAIN g |->
        IF k \notin DOMAIN g THEN f[k]
        ELSE IF k \notin DOMAIN f THEN g[k]
        ELSE MergeEntry(f[k], g[k])]

NoHazards == [lgkmToValu |-> 0, lgkmPending |-> 0, hazards |-> <<>>,
              coexec |-> <<>>, scratchBase |-> [b \in ScratchBases |-> 0]]

(* Mutant: the coexecution hazards of the other path are dropped. *)
JoinWith_OwnCoexec(s, r) ==
    [s EXCEPT !.lgkmToValu = Larger(@, r.lgkmToValu),
              !.lgkmPending = Larger(@, r.lgkmPending),
              !.hazards = Merge(@, r.hazards),
              !.scratchBase = MergeEntry(@, r.scratchBase)]

(* HazardState::joinWith *)
JoinWith(s, r) ==
    [lgkmToValu |-> Larger(s.lgkmToValu, r.lgkmToValu),
     lgkmPending |-> Larger(s.lgkmPending, r.lgkmPending),
     hazards |-> Merge(s.hazards, r.hazards),
     coexec |-> Merge(s.coexec, r.coexec),
     scratchBase |-> MergeEntry(s.scratchBase, r.scratchBase)]

Less(n, count) == IF n > count THEN n - count ELSE 0

(* Mutant: a hazard that has expired stays. *)
Aged_Kept(f, count) ==
    [k \in DOMAIN f |-> [f[k] EXCEPT !.remaining = Less(@, count)]]

(* advanceValueHazards, advancePhysicalHazards: entries end at zero. *)
Aged(f, count) ==
    [k \in {k \in DOMAIN f : f[k].remaining > count} |->
        [f[k] EXCEPT !.remaining = @ - count]]

(* advanceHazards *)
Advance(s, count, lgkm) ==
    LET aged == [s EXCEPT !.hazards = Aged(@, count)]
    IN  IF lgkm THEN [aged EXCEPT !.lgkmToValu = Less(@, count)] ELSE aged

(* advanceCoexecHazards: entries end when both slots are zero. *)
AgedCoexec(f, count) ==
    [k \in {k \in DOMAIN f : f[k].wmma > count \/ f[k].valu > count} |->
        [wmma |-> Less(f[k].wmma, count), valu |-> Less(f[k].valu, count)]]

AdvanceCoexec(s, count) == [s EXCEPT !.coexec = AgedCoexec(@, count)]

(* advanceScratchBaseHazards *)
AdvanceScratchBase(s, count) ==
    [s EXCEPT !.scratchBase = [b \in ScratchBases |-> Less(@[b], count)]]
-----------------------------------------------------------------------------
(* The wait states that must lie between the producer of a hazard h of kind  *)
(* k on a span and an access of op: getPhysicalUseWait, getPhysicalDefWait,  *)
(* getVccReadWait, getRequiredSsaWait.  An access is <<role, span>>.         *)
Accesses(op) ==
    {<<"use", x>> : x \in op.uses}
    \union (IF op.acc # {} THEN {<<"acc", op.acc>>} ELSE {})
    \union (IF op.def # {} THEN {<<"def", op.def>>} ELSE {})
    \union (IF MFMA(op) \/ op.kind = "permlane32swap"
              THEN {<<"use", {"exec"}>>} ELSE {})

Required(t, op, access, span, k, h) ==
    LET role == access[1]
        reads == role \in {"use", "acc"}
        vgpr == access[2] \subseteq VGPR
    IN  IF access[2] \intersect span = {} THEN 0 ELSE
        CASE k = "MfmaWrite" /\ MFMA(op) /\ role = "use" -> XdlResult(t, h.passes)
          [] k = "MfmaWrite" /\ MFMA(op) /\ role = "acc" ->
                IF access[2] = span THEN XdlSrcCExact(t, h.passes)
                ELSE XdlSrcCOverlap(t, h.passes)
          [] k = "MfmaWrite" /\ XdlResultConsumer(op) -> XdlResult(t, h.passes)
          [] k = "MfmaSrcCRead" /\ role = "def" /\ (LegacyVALU(op) \/ DS(op) \/ VMEM(op)) ->
                XdlSrcCReadWar(t, h.passes)
          [] k = "ValuWriteVGPR" /\ reads /\ MFMA(op) -> ValuMfma
          [] k = "ValuWriteVGPR" /\ reads /\ op.kind = "readfirstlane" -> ValuReadlane(t)
          [] k = "ValuWriteVGPR" /\ reads /\ op.kind = "permlane32swap" -> ValuPermlane(t)
          [] k = "TransWriteVGPR" /\ reads /\ vgpr /\ LegacyVALU(op) /\ op.kind # "trans" ->
                TransLatency(t)
          [] k = "DstSelWriteVGPR" /\ vgpr /\ VALU(op) -> DstSelLatency(t)
          [] k = "ValuWriteSGPR" /\ reads /\ VMEM(op) -> SGPRToVMEM
          [] k = "ValuWriteSGPR" /\ reads /\ LegacyVALU(op) -> SGPRToVALU(t)
          [] k = "StoreWriteData" /\ role = "def" /\ vgpr /\ VALU(op) -> h.limit
          [] k = "ValuWriteVcc" /\ reads /\ VALU(op) -> SGPRToVALU(t)
          [] k = "ExecWrite" /\ reads -> ExecLatency(t)
          [] k = "M0Write" /\ reads -> M0Delay
          [] k = "M0DmaCapture" /\ role = "def" -> M0DmaCapture(t)
          [] k = "MfmaStore" /\ reads /\ access[2] = span /\ op.kind = "store" -> h.limit
          [] k = "Permlane32Swap" /\ reads /\ access[2] = span
                /\ op.kind = "permlane32swap" -> h.limit
          [] OTHER -> 0

(* Mutant: a consumer waits for the longest latency of the hazard. *)
WaitForAge_Limit(h, required) == IF required > 0 THEN h.remaining ELSE 0

(* waitForHazardAge *)
WaitForAge(h, required) == Less(required, h.limit - h.remaining)

(* max(getRequiredSsaWait, getRequiredPhysicalWait) *)
RequiredWait(t, op, s) ==
    Max({0} \union {WaitForAge(s.hazards[k], Required(t, op, a, k[1], k[2], s.hazards[k])) :
                    k \in DOMAIN s.hazards, a \in Accesses(op)})

(* What an operation produces: addProducedHazards.                           *)
Entry(span, kind, limit, passes) ==
    [key |-> <<span, kind>>, limit |-> limit, passes |-> passes]

Produced(t, op) ==
    LET d == op.def
        p == op.passes
        valu == LegacyVALU(op)
        all ==
          (IF MFMA(op) THEN {Entry(d, "MfmaWrite", XdlResult(t, p), p),
                             Entry(d, "MfmaStore", XdlResult(t, p), 0),
                             Entry(op.acc, "MfmaSrcCRead", XdlSrcCReadWar(t, p), p)}
           ELSE {})
          \union (IF valu /\ d # {} /\ d \subseteq VGPR
                    THEN {Entry(d, "ValuWriteVGPR",
                                Max({ValuMfma, ValuReadlane(t), ValuPermlane(t)}), 0),
                          Entry(d, "Permlane32Swap", ValuPermlane(t), 0)} ELSE {})
          \union (IF valu /\ d # {} /\ d \subseteq SGPR
                    THEN {Entry(d, "ValuWriteSGPR", Larger(SGPRToVALU(t), SGPRToVMEM), 0)}
                    ELSE {})
          \union (IF valu /\ d = {"vcc"} THEN {Entry(d, "ValuWriteVcc", SGPRToVALU(t), 0)}
                    ELSE {})
          \union (IF op.kind = "cmpx" THEN {Entry({"exec"}, "ExecWrite", ExecLatency(t), 0)}
                    ELSE {})
          \union (IF op.kind = "trans" THEN {Entry(d, "TransWriteVGPR", TransLatency(t), 0)}
                    ELSE {})
          \union (IF op.kind = "dstsel" THEN {Entry(d, "DstSelWriteVGPR", DstSelLatency(t), 0)}
                    ELSE {})
          \union (IF op.kind = "store" /\ p > 0
                    THEN {Entry(x, "StoreWriteData", p, 0) : x \in op.uses} ELSE {})
          \union (IF M0Writer(op) THEN {Entry({"m0"}, "M0Write", M0Delay, 0)} ELSE {})
          \union (IF LDSDma(op) THEN {Entry({"m0"}, "M0DmaCapture", M0DmaCapture(t), 0)}
                    ELSE {})
    IN  {e \in all : e.limit > 0}

ValueKinds == {"M0Write", "MfmaStore", "Permlane32Swap"}

Replaced(op, f) ==
    [k \in {k \in DOMAIN f : k[2] \notin ValueKinds \/ k[1] # op.def} |-> f[k]]

NewHazards(t, op) ==
    [k \in {e.key : e \in Produced(t, op)} |->
        LET e == CHOOSE e \in Produced(t, op) : e.key = k
        IN  [limit |-> e.limit, remaining |-> e.limit, passes |-> e.passes]]

AddProduced(t, op, s) ==
    [s EXCEPT !.hazards = Merge(Replaced(op, @), NewHazards(t, op))]
-----------------------------------------------------------------------------
(* Coexecution on gfx1250: how many VALU slots must lie between a transcendental *)
(* or matrix operation and an access of op.                                  *)
CoexecProduced(t, op) ==
    IF CoexecHazards(t) /\ op.kind = "trans"
      THEN {<<op.def, "TransDef", 0, 1>>} \union {<<x, "TransUse", 0, 1>> : x \in op.uses}
    ELSE IF CoexecHazards(t) /\ XdlWmma(op)
      THEN {<<op.def, "WmmaDef", op.passes + 1, op.passes>>}
           \union {<<x, "WmmaUse", 0, op.passes>> : x \in op.uses}
    ELSE {}

NewCoexec(t, op) ==
    [k \in {<<e[1], e[2]>> : e \in CoexecProduced(t, op)} |->
        LET e == CHOOSE e \in CoexecProduced(t, op) : <<e[1], e[2]>> = k
        IN  [wmma |-> e[3], valu |-> e[4]]]

AddCoexec(t, op, s) == [s EXCEPT !.coexec = Merge(@, NewCoexec(t, op))]

(* Whether an access of op meets a coexecution hazard, and in which field:   *)
(* getTransCoexecWait, getWmmaCoexecWait.  The accumulator of a WMMA is      *)
(* forwarded and not part of the hazard.                                     *)
CoexecSlots(op, span, k, h) ==
    LET used == \E x \in op.uses : x \intersect span # {}
        defined == op.def \intersect span # {}
    IN  CASE k = "TransDef" /\ VALUForCoexec(op) /\ op.kind # "trans"
               /\ (used \/ op.acc \intersect span # {}) -> h.valu
          [] k = "TransUse" /\ VALUForCoexec(op) /\ op.kind # "trans" /\ defined -> h.valu
          [] k = "WmmaDef" /\ XdlWmma(op) /\ used -> h.wmma
          [] k = "WmmaDef" /\ CoexecVALU(op) /\ (used \/ defined) -> h.valu
          [] k = "WmmaUse" /\ CoexecVALU(op) /\ defined -> h.valu
          [] OTHER -> 0

(* getRequiredCoexecVNops *)
RequiredVNops(op, s) ==
    Max({0} \union {CoexecSlots(op, k[1], k[2], s.coexec[k]) : k \in DOMAIN s.coexec})

(* addProducedScratchBaseHazards, needsScratchBaseWait *)
AddScratchBase(t, op, s) ==
    IF ScratchBaseHazard(t) /\ SGPRWrite(op)
      THEN [s EXCEPT !.scratchBase =
              [b \in ScratchBases |-> IF b \in op.def THEN ScratchBaseWrites ELSE @[b]]]
      ELSE s

NeedsScratchBaseWait(t, op, s) ==
    ScratchBaseHazard(t) /\ op.kind = "scratch" /\ \E b \in ScratchBases : s.scratchBase[b] # 0

ClearScratchBase(s) == [s EXCEPT !.scratchBase = [b \in ScratchBases |-> 0]]

(* applySWaitAlu, for an s_wait_alu that waits for everything. *)
AluKinds == {"TransWriteVGPR", "ValuWriteVGPR", "ValuWriteSGPR"}

ApplySWaitAlu(op, s) ==
    IF op.kind # "wait_alu" THEN s
    ELSE ClearScratchBase(
           [s EXCEPT !.hazards = [k \in {k \in DOMAIN @ : k[2] \notin AluKinds} |-> @[k]]])

(* addPendingLgkmIssue; LDS operations are the issuers here. *)
AddPendingLgkm(t, op, s) ==
    IF ~LegacyWaitCounters(t) \/ ~DS(op) THEN s
    ELSE [s EXCEPT !.lgkmPending = Min({LgkmDefault + 1, @ + 1})]

(* applyLgkmWait *)
ApplyLgkmWait(t, op, s) ==
    IF ~Waitcnt(op) \/ op.passes >= LgkmDefault THEN s
    ELSE [s EXCEPT
            !.lgkmPending = Min({@, op.passes}),
            !.lgkmToValu = IF s.lgkmPending > op.passes /\ LgkmWaitNeedsValuGap(t)
                             THEN Larger(@, 1) ELSE @]

NeedsValuMitigation(op, s) == s.lgkmToValu > 0 /\ VALU(op)

(* transferHazards for an operation that is not a branch. *)
Transfer(t, op, s) ==
    LET a == IF NoMachineInst(op) THEN s ELSE Advance(s, op.count, TRUE)
        b == IF VALUForCoexec(op) THEN AdvanceCoexec(a, op.count) ELSE a
        c == IF SGPRWrite(op) THEN AdvanceScratchBase(b, op.count) ELSE b
        d == AddProduced(t, op, ApplySWaitAlu(op, c))
        e == AddScratchBase(t, op, AddCoexec(t, op, d))
    IN  ApplyLgkmWait(t, op, AddPendingLgkm(t, op, e))

(* Mutant: a branch counts as a gap after a wait. *)
TransferBranch_Lgkm(s) == Advance(s, 1, TRUE)

(* transferHazards for a branch or terminator, and the entry of a region     *)
(* (visitRegionBranchControlFlowTransfer).                                   *)
TransferBranch(s) == Advance(s, 1, FALSE)
=============================================================================
