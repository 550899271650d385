----------------------------- MODULE WaitLattice -----------------------------
(***************************************************************************)
(* The lattice and the transfer function of waveamd-insert-ticket-waits.   *)
(*                                                                         *)
(* A wait state is a function from keys <<counter, value>> to tokens.  The *)
(* token of a value says at which position of the hardware counter the     *)
(* operations the value depends on are at least: position p means that p   *)
(* operations were issued to the counter after them, so that waiting for   *)
(* counter <= p is enough.                                                 *)
(*                                                                         *)
(* On targets with the X counter, keys <<"x", register, group>> stand for  *)
(* registers that an operation in flight has yet to read.  The expert      *)
(* counters are left out.                                                  *)
(***************************************************************************)
EXTENDS Integers, FiniteSets, FiniteSetsExt

CONSTANTS CounterMax,   \* CounterMax[c]: all ones in the wait field of c, for the
                        \* counters the instance uses
          PosMax,       \* the largest unsigned position (2^32 - 1)
          MemTokens,    \* the values of type mem.token
          RegOf         \* RegOf[v]: the register of a data value, or "none"

(* The key of what no visible value names any more: Value() in the code. *)
Unknown == "unknown"

Values == DOMAIN RegOf

ASSUME LatticeAssumption ==
    /\ PosMax \in Nat
    /\ Unknown \notin Values
    /\ \A c \in DOMAIN CounterMax :
          CounterMax[c] \in 1..PosMax /\ (c \in {"vm", "lgkm"} => CounterMax[c] > 1)

(* getWaitcntCounterMapping: the counter an event completes on, for targets  *)
(* of the "legacy" family and for "split" ones, which have an X counter.     *)
LegacyRules ==
    [Vmem |-> "vm", Flat |-> "vm", VmemStore |-> "vs", ScratchStore |-> "vs",
     Lds |-> "lgkm", Smem |-> "lgkm", Gds |-> "lgkm", Message |-> "lgkm"]
SplitRules ==
    [Vmem |-> "load", VmemStore |-> "store", ScratchStore |-> "store",
     Lds |-> "ds", Smem |-> "km", Message |-> "km", SccWrite |-> "km",
     Async |-> "async", Tensor |-> "tensor"]
Rules(family) == IF family = "legacy" THEN LegacyRules ELSE SplitRules
Counters(family) ==
    {Rules(family)[e] : e \in DOMAIN Rules(family)} \union
    (IF family = "legacy" THEN {} ELSE {"x"})
Counter(op) == Rules(op.family)[op.event]

(* Vector memory and scalar memory are the two groups of the X counter. *)
VmemSources == {"Vmem", "VmemStore", "ScratchStore"}
UsesX(op) == op.family = "split" /\ op.event \in VmemSources \union {"Smem"}
Group(event) == IF event \in VmemSources THEN "Vmem" ELSE "Smem"
IsSource(k) == k[1] = "x"

Empty == [k \in {} |-> 0]

(* Mutant: two kinds of events on one counter are taken to return in order. *)
RequiresZeroWait_Never(c, events) == FALSE

(* Events on one counter that do not return in order: wait for all of them. *)
RequiresZeroWait(c, events) ==
    \/ c = "km" /\ ("Smem" \in events \/ Cardinality(events) > 1)
    \/ c = "lgkm" /\ Cardinality(events) > 1
    \/ c = "x" /\ events \intersect VmemSources # {} /\ "Smem" \in events

ActiveEvents(s, c) == UNION {s[k].events : k \in {k \in DOMAIN s : k[1] = c}}

(* Mutant: of two positions the larger is kept. *)
MergeTokens_Max(ts) ==
    [pos |-> Max({t.pos : t \in ts}), events |-> UNION {t.events : t \in ts},
     ooo |-> \E t \in ts : t.ooo, writes |-> \E t \in ts : t.writes]

(* mergeInto, insertOrMin: the least position, all the constraints. *)
MergeTokens(ts) ==
    [pos |-> Min({t.pos : t \in ts}), events |-> UNION {t.events : t \in ts},
     ooo |-> \E t \in ts : t.ooo, writes |-> \E t \in ts : t.writes]

(* WaitLattice::joinWith *)
Join(s, t) ==
    [k \in DOMAIN s \union DOMAIN t |->
        MergeTokens({u[k] : u \in {u \in {s, t} : k \in DOMAIN u}})]

Restricted(s, keys) == [k \in keys |-> s[k]]

-----------------------------------------------------------------------------
(* What an operation has to wait for. *)

ReadOnlyIssuer(op) == op.kind = "issuer" /\ ~op.writes

WaitPosition(s, k) ==
    IF s[k].ooo \/ RequiresZeroWait(k[1], ActiveEvents(s, k[1]))
      THEN 0 ELSE s[k].pos

(* requireIssuerToken: reads overlap, unless they follow a write. *)
TokenNeeded(op, token) == ~ReadOnlyIssuer(op) \/ token.writes

(* The registers op writes: its results, and what it writes without saying   *)
(* so (fixed registers, the exec mask).                                      *)
DefRegs(op) == ({RegOf[r] : r \in op.results} \ {"none"}) \union op.fixed

(* requireOverlappingRegisterDef, requireExecDef: op writes a register in    *)
(* which a value is pending, or which has yet to be read.                    *)
Redefines(op, k) ==
    IF IsSource(k) THEN k[2] \in DefRegs(op)
    ELSE k[2] # Unknown /\ RegOf[k[2]] \in DefRegs(op)

(* computeRequirement: the keys op waits for. *)
NeededKeys(op, s) ==
    {k \in DOMAIN s :
        \/ k[2] \in op.values
        \/ k[2] \in op.tokens /\ TokenNeeded(op, s[k])
        \/ Redefines(op, k)}

(* clampSaturatedCounterFields: all ones in a field means no wait, except    *)
(* that the legacy store counter may be waited for at its maximum.           *)
Clamp(c, n) ==
    IF c = "vs" THEN IF n > CounterMax[c] THEN CounterMax[c] ELSE n
    ELSE IF n >= CounterMax[c] THEN CounterMax[c] - 1 ELSE n

(* dropIssuedEvent: s_barrier_wait proves that the SCC write of its own      *)
(* signal has completed, which leaves one operation less behind older ones.  *)
AfterSignal(op, s) ==
    LET hit == {k \in DOMAIN s : /\ k[1] = "km" /\ k[2] \in op.completes
                                 /\ "SccWrite" \in s[k].events}
        done == Min({s[k].pos : k \in hit})
        older(k) == k[1] = "km" /\ s[k].pos > done
        left == {k \in DOMAIN s : k \in hit => s[k].events # {"SccWrite"}}
    IN  IF hit = {} THEN s
        ELSE [k \in left |->
                [s[k] EXCEPT !.events = IF k \in hit THEN @ \ {"SccWrite"} ELSE @,
                             !.pos = IF older(k) THEN @ - 1 ELSE @]]

(* The wait in front of op: a threshold for some of the counters. *)
Requirement(op, s) ==
    IF op.kind \in {"token", "free"} THEN Empty
    ELSE LET t == AfterSignal(op, s)
             keys == NeededKeys(op, t)
         IN  [c \in {k[1] : k \in keys} |->
                 Clamp(c, Min({WaitPosition(t, k) : k \in {k \in keys : k[1] = c}}))]

(* dropDrained: a wait for n drains the positions from n on; what may return *)
(* out of order is only known to be drained by a wait for 0.                 *)
DrainedBy(s, k, req) ==
    /\ k[1] \in DOMAIN req
    /\ s[k].pos >= req[k[1]]
    /\ \/ req[k[1]] = 0
       \/ ~s[k].ooo /\ ~RequiresZeroWait(k[1], ActiveEvents(s, k[1]))

(* Mutant: a wait for loads says the same of stores. *)
ReadBy_IgnoreStores(s, k, req) ==
    \/ k[3] = "Smem" /\ "km" \in DOMAIN req /\ req["km"] = 0
    \/ k[3] = "Vmem" /\ "load" \in DOMAIN req /\ s[k].pos >= req["load"]

(* dropXGroup: what has returned has read its registers.  Positions of the X *)
(* counter count stores too, so a wait for loads says nothing while a store  *)
(* is pending.                                                               *)
ReadBy(s, k, req) ==
    \/ k[3] = "Smem" /\ "km" \in DOMAIN req /\ req["km"] = 0
    \/ /\ k[3] = "Vmem" /\ "load" \in DOMAIN req
       /\ \A j \in DOMAIN s : j[1] # "store"
       /\ s[k].pos >= req["load"]

(* Mutant: every token of the counter is dropped. *)
ApplyWait_Forget(s, req) ==
    Restricted(s, {k \in DOMAIN s : k[1] \notin DOMAIN req})

(* applyWait: the X counter comes last. *)
ApplyWait(s, req) ==
    LET waited == Restricted(s, {k \in DOMAIN s : IsSource(k) \/ ~DrainedBy(s, k, req)})
        read == Restricted(waited, {k \in DOMAIN waited :
                                       ~(IsSource(k) /\ ReadBy(waited, k, req))})
    IN  Restricted(read, {k \in DOMAIN read : ~(IsSource(k) /\ DrainedBy(read, k, req))})

-----------------------------------------------------------------------------
(* What an operation does to the state. *)

(* Mutant: positions grow past the largest unsigned value. *)
Bumped_NoLimit(p, n) == p + n

(* bumpCounter, saturating. *)
Bumped(p, n) == IF n > PosMax - p THEN PosMax ELSE p + n

(* recordIssue, lat::issue, lat::issueSources: results start at position 0;  *)
(* without results there is only the unknown key to remember the events by.  *)
(* Vector memory also reads the exec mask.                                   *)
SourceKeys(op) ==
    IF ~UsesX(op) THEN {}
    ELSE {"x"} \X (op.srcs \union (IF op.event = "Smem" THEN {} ELSE {"exec"}))
               \X {Group(op.event)}

RecordIssue(op, s) ==
    LET c == Counter(op)
        new == [pos |-> 0, events |-> {op.event}, ooo |-> op.ooo,
                writes |-> op.writes]
        bumped == {c} \union (IF UsesX(op) THEN {"x"} ELSE {})
        older == [k \in DOMAIN s |->
                    IF k[1] \in bumped THEN [s[k] EXCEPT !.pos = Bumped(@, op.count)]
                                       ELSE s[k]]
        tagged == {<<c, r>> : r \in op.results}
        keys == tagged \union SourceKeys(op)
        issued == [k \in DOMAIN older \union keys |->
                     IF k \in tagged THEN new
                     ELSE IF k \in keys THEN [new EXCEPT !.writes = FALSE]
                     ELSE older[k]]
    IN  IF tagged # {} THEN issued
        ELSE Join(issued, [k \in {<<c, Unknown>>} |-> new])

(* applyImplicitXGroupSwitch, applyImplicitXDrain: the hardware itself lets  *)
(* the other group read its registers first.                                 *)
SwitchGroup(op, s) ==
    IF ~UsesX(op) THEN s
    ELSE Restricted(s, {k \in DOMAIN s : IsSource(k) => k[3] = Group(op.event)})
DrainX(s) == Restricted(s, {k \in DOMAIN s : ~IsSource(k)})

(* mergeSources: per counter, the tokens of the sources under a new name. *)
Derived(s, sources, results) ==
    LET from(c) == {k \in DOMAIN s : k[1] = c /\ k[2] \in sources}
        counters == {c \in {k[1] : k \in DOMAIN s} : from(c) # {}}
    IN  [k \in counters \X results |-> MergeTokens({s[j] : j \in from(k[1])})]

(* runTransfer *)
Transfer(op, s) ==
    LET waited == ApplyWait(AfterSignal(op, s), Requirement(op, s))
        issued == RecordIssue(op, SwitchGroup(op, waited))
        after(t, sources, results) == Join(t, Derived(t, sources, results))
        next == CASE op.kind = "issuer"  ->
                       IF op.writes THEN issued
                       ELSE after(issued, op.tokens, op.results \intersect MemTokens)
                  [] op.kind = "signal"  -> RecordIssue(op, waited)
                  [] op.kind = "barrier" ->
                       after(waited, op.values \union op.tokens, op.results)
                  [] op.kind = "token"   -> after(s, op.tokens, op.results)
                  [] op.kind = "free"    -> s
                  [] op.kind = "generic" -> waited
    IN  IF op.drains THEN DrainX(next) ELSE next

(* propagateOperandsThrough: moves is a set of <<operand, block argument>>. *)
Rekey(s, moves) ==
    LET keys == UNION {{<<k[1], m[2]>> : k \in {k \in DOMAIN s : k[2] = m[1]}} :
                          m \in moves}
        operand(v) == (CHOOSE m \in moves : m[2] = v)[1]
    IN  Join(s, [k \in keys |-> s[<<k[1], operand(k[2])>>]])

(* collapseEscaping: what is no longer visible is kept as the unknown token. *)
CollapseEscaping(s, visible) ==
    LET gone == {k \in DOMAIN s : ~IsSource(k) /\ k[2] \notin visible \union {Unknown}}
    IN  Join(Restricted(s, DOMAIN s \ gone),
             [k \in {<<g[1], Unknown>> : g \in gone} |->
                 MergeTokens({s[g] : g \in {g \in gone : g[1] = k[1]}})])

(* Mutant: any store will do. *)
CanDealloc_AnyStore(s) == \E k \in DOMAIN s : k[1] \in {"vs", "store"}

(* canDeallocVGPRs: before s_endpgm the wave gives its VGPRs back if stores  *)
(* are pending, but not while one of them goes to scratch memory.            *)
CanDealloc(s) ==
    /\ \E k \in DOMAIN s : k[1] \in {"vs", "store"}
    /\ \A k \in DOMAIN s : k[1] \in {"vs", "store"} => "ScratchStore" \notin s[k].events

-----------------------------------------------------------------------------
(***************************************************************************)
(* The hardware: a sequence of the operations in flight, oldest first.     *)
(* Each carries the values that are not ready before it has completed, the *)
(* registers it is going to write and, until it has read them, the ones it *)
(* reads.                                                                  *)
(***************************************************************************)

Outstanding(flight, c) ==
    Cardinality({i \in DOMAIN flight : IF c = "x" THEN flight[i].unread # {}
                                                  ELSE flight[i].ctr = c})

(* Loads of one kind return in order; scalar loads in any order; LDS and     *)
(* scalar operations share a counter but not a queue.                        *)
Ordered(e, f) ==
    /\ e.ctr = f.ctr
    /\ ~e.ooo /\ ~f.ooo
    /\ e.event = f.event \/ e.ctr \notin {"lgkm", "km"}

MayComplete(flight, i) ==
    /\ flight[i].unread = {}
    /\ \A j \in DOMAIN flight : j < i => ~Ordered(flight[j], flight[i])

(* Registers are read in the order of issue. *)
MayRead(flight, i) ==
    flight[i].unread # {} /\ \A j \in DOMAIN flight : j < i => flight[j].unread = {}

Without(flight, i) ==
    [j \in 1..(Cardinality(DOMAIN flight) - 1) |->
        IF j < i THEN flight[j] ELSE flight[j + 1]]

(* s_waitcnt lets the wave go; all ones in a vmcnt or lgkmcnt field is no wait. *)
WaitDone(flight, req) ==
    \A c \in DOMAIN req :
        \/ Outstanding(flight, c) <= req[c]
        \/ c \in {"vm", "lgkm"} /\ req[c] >= CounterMax[c]

(* What an instruction waits for by itself: the other group of the X counter, *)
(* all of the X counter, or the signal of its barrier.                       *)
InstructionReady(flight, op) ==
    \A i \in DOMAIN flight :
        /\ flight[i].unread # {} =>
              ~op.drains /\ (UsesX(op) => Group(flight[i].event) = Group(op.event))
        /\ flight[i].event = "SccWrite" => flight[i].vals \intersect op.completes = {}

(* Values take a new meaning: v now needs what the operands sources[v] need. *)
Rebind(flight, sources) ==
    LET new == DOMAIN sources
    IN  [i \in DOMAIN flight |->
            [flight[i] EXCEPT !.vals =
                (@ \ new) \union {v \in new : sources[v] \intersect @ # {}}]]

(* The instruction op is issued. *)
Run(flight, op) ==
    LET sources == [v \in op.results |->
            CASE op.kind = "barrier" -> op.values \union op.tokens
              [] op.kind = "token" -> op.tokens
              [] ReadOnlyIssuer(op) -> IF v \in MemTokens THEN op.tokens ELSE {}
              [] OTHER -> {}]
        older == Rebind(flight, sources)
        n == Cardinality(DOMAIN flight)
        m == IF op.kind \in {"issuer", "signal"} THEN op.count ELSE 0
    IN  [i \in 1..(n + m) |->
            IF i <= n THEN older[i]
            ELSE [ctr |-> Counter(op), event |-> op.event, ooo |-> op.ooo,
                  writes |-> op.writes, vals |-> op.results,
                  unread |-> {k[2] : k \in SourceKeys(op)},
                  regs |-> {RegOf[r] : r \in op.results} \ {"none"}]]

(* Running op now would read a value that is not there yet, or move a memory *)
(* access before a write its token orders it after.                          *)
ReadsTooEarly(flight, op) ==
    op.kind \notin {"token", "free"} /\
    \E i \in DOMAIN flight :
        \/ flight[i].vals \intersect op.values # {}
        \/ /\ flight[i].vals \intersect op.tokens # {}
           /\ ReadOnlyIssuer(op) => flight[i].writes

-----------------------------------------------------------------------------
(***************************************************************************)
(* What the pass may rely on in a function f: a record with the fields     *)
(*   family  the counters of its target                                    *)
(*   ops     its operations                                                *)
(*   moves   <<operand, block argument>> pairs of its branches             *)
(*   others  wait states other paths may bring                             *)
(*   flights how many operations may be in flight                          *)
(***************************************************************************)

Issuing(f) == {op \in f.ops : op.kind \in {"issuer", "signal"}}
SourceRegs(f) == {"exec"} \union UNION {op.srcs : op \in f.ops}

IsKey(f, k) ==
    \/ \E c \in DOMAIN CounterMax \ {"x"}, v \in Values \union {Unknown} :
          k = <<c, v>> /\ c \in Counters(f.family)
    \/ \E r \in SourceRegs(f), g \in {"Vmem", "Smem"} :
          k = <<"x", r, g>> /\ f.family = "split"

TokenType(f) ==
    [pos : 0..PosMax, events : (SUBSET DOMAIN Rules(f.family)) \ {{}},
     ooo : BOOLEAN, writes : BOOLEAN]

IsState(f, s) ==
    /\ s = [k \in DOMAIN s |-> s[k]]
    /\ \A k \in DOMAIN s : IsKey(f, k) /\ s[k] \in TokenType(f)

(* What all operations have in common: values are in SSA form, and what only *)
(* moves tokens defines no register.                                         *)
IsOperation(f, op) ==
    /\ op.family = f.family
    /\ op.kind \in {"issuer", "signal", "barrier", "token", "free", "generic"}
    /\ op.values \union op.tokens \union op.results \subseteq Values
    /\ op.results \intersect op.tokens = {}
    /\ op.drains \in BOOLEAN /\ op.writes \in BOOLEAN
    /\ op.kind \in {"token", "free"} => DefRegs(op) = {}

(* What is issued to a counter: only scalar loads return out of order, a     *)
(* signal writes SCC, what drains the X counter is not issued to it, and a   *)
(* value is the result of one operation (the WaitcntInfo of the operations). *)
IsIssuer(f, op) ==
    /\ op.event \in DOMAIN Rules(f.family) /\ Counter(op) \in DOMAIN CounterMax
    /\ op.count \in Nat /\ op.ooo = (op.event = "Smem")
    /\ op.kind = "signal" => op.event = "SccWrite"
    /\ op.drains => ~UsesX(op)
    /\ \A p \in Issuing(f) : op.results \intersect p.results # {} => op.event = p.event

(* A function has no message next to its signals: the only message there is, *)
(* s_sendmsg dealloc_vgprs, is put in front of s_endpgm by the pass itself,  *)
(* after the analysis.                                                       *)
WellFormed(f) ==
    /\ f.family \in {"legacy", "split"} /\ f.flights \in Nat
    /\ f.family = "split" => "x" \in DOMAIN CounterMax
    /\ SourceRegs(f) \intersect Values = {}
    /\ \A op \in f.ops : IsOperation(f, op)
    /\ \A op \in Issuing(f) : IsIssuer(f, op)
    /\ \A o, p \in Issuing(f) : ~(o.event = "Message" /\ p.event = "SccWrite")
    /\ f.moves \subseteq Values \X Values
    /\ \A t \in f.others : IsState(f, t)

(* An operation in flight. *)
FlightType(f) ==
    [ctr : DOMAIN CounterMax, event : DOMAIN Rules(f.family), ooo : BOOLEAN,
     writes : BOOLEAN, vals : SUBSET Values, unread : SUBSET SourceRegs(f),
     regs : SUBSET {RegOf[v] : v \in Values}]
=============================================================================
