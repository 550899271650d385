--------------------------- MODULE LDSReservation ---------------------------
(***************************************************************************)
(* How the legacy path of waveamd-materialize-split-barriers makes room in *)
(* LDS for the barrier dwords.                                             *)
(*                                                                         *)
(* Without dynamic LDS the dwords go behind the fixed allocation.  With    *)
(* dynamic LDS, which begins where the fixed allocation ends, they go to   *)
(* offset 0 and every LDS address of the function moves up.  An address is *)
(* a VGPR or an M0 value; M0 values form chains (an add to an M0 value, a  *)
(* DMA issue delay), which are moved once, at their root.  An operation    *)
(* that keeps its LDS address in a descriptor is passed over.              *)
(***************************************************************************)
EXTENDS Integers, FiniteSets

CONSTANTS N,            \* the M0 values of the function are 1..N
          LDSOps,       \* its LDS operations
          Counts,       \* numbers of split barriers
          FixedSizes,   \* values of the LDS size attributes
          DynamicSizes  \* values of the dynamic LDS size attributes

ASSUME SizesAssumption ==
    /\ N \in Nat
    /\ Counts \subseteq Nat
    /\ FixedSizes \subseteq Nat
    /\ DynamicSizes \subseteq Nat

M0s == 1..N
VGPR == 0
Descriptor == -1
Absent == -1

Linked == {"add_m0", "delay"}

VARIABLES
    def,        \* def[m]: how M0 value m is defined, and from which M0 value
    use,        \* use[op]: the M0 value that addresses op, VGPR or Descriptor
    other,      \* M0 values with a use that is not an LDS address
    flagged,    \* M0 values whose definition has a live SCC result
    count,      \* split barriers
    before,     \* LDS size attributes of the function on entry
    attrs,      \* LDS size attributes now
    base,       \* offset of the first barrier dword
    fixed,      \* fixed LDS bytes after the reservation
    roots,      \* chain roots still to be moved
    ops,        \* LDS operations still to be looked at
    moved,      \* moved[m]: bytes added to the definition of m
    opMoved,    \* opMoved[op]: bytes added to the address of op alone
    phase       \* "start", "shift", "done" or "error"

func == <<def, use, other, flagged, count, before>>
vars == <<func, attrs, base, fixed, roots, ops, moved, opMoved, phase>>

Defs(m) == [kind : {"mov", "add_sgpr", "argument"}, of : {0}]
           \union [kind : Linked, of : 1..(m - 1)]

(* The attributes: wave.lds_size, waveamdmachine.lds_size (the total) and    *)
(* the two spellings of dynamic_lds_size.                                    *)
Attrs == [wave : FixedSizes \union {Absent}, machine : FixedSizes \union {Absent},
          waveDyn : DynamicSizes \union {Absent},
          machineDyn : DynamicSizes \union {Absent}]

TypeOK ==
    /\ \A m \in M0s : def[m] \in Defs(m)
    /\ use \in [LDSOps -> M0s \union {VGPR, Descriptor}]
    /\ base \in Nat /\ fixed \in Nat
    /\ roots \subseteq M0s /\ ops \subseteq LDSOps
    /\ moved \in [M0s -> Nat] /\ opMoved \in [LDSOps -> Nat]
    /\ phase \in {"start", "shift", "done", "error"}

(* getUnsignedAttr, getDynamicLDSBytes, getFixedLDSBytes: the fixed size is  *)
(* the wave attribute, or what the total leaves beside the dynamic size.     *)
Bytes(attr) == IF attr = Absent THEN 0 ELSE attr
DynamicBytes(a) == IF Bytes(a.waveDyn) # 0 THEN a.waveDyn ELSE Bytes(a.machineDyn)
FixedBytes(a) ==
    IF Bytes(a.wave) # 0 \/ Bytes(a.machine) = 0
      THEN Bytes(a.wave)
      ELSE a.machine - DynamicBytes(a)

(* Mutant: a total smaller than the dynamic size is not refused. *)
SizesValid_AnyTotal(a) ==
    {Bytes(a.waveDyn), Bytes(a.machineDyn)} \ {0} \subseteq {DynamicBytes(a)}

SizesValid(a) ==
    /\ {Bytes(a.waveDyn), Bytes(a.machineDyn)} \ {0} \subseteq {DynamicBytes(a)}
    /\ Bytes(a.wave) = 0 /\ Bytes(a.machine) # 0 => a.machine >= DynamicBytes(a)

AlignTo(value, align) == ((value + align - 1) \div align) * align
ReservedBytes == AlignTo(count * 4, 16)

(* findM0ChainRoot *)
Root(m) ==
    LET root[i \in M0s] == IF def[i].kind \in Linked THEN root[def[i].of] ELSE i
    IN  root[m]

(* collectM0ChainRoots: the roots that have a chain hanging from them. *)
ChainRoots == {Root(m) : m \in {m \in M0s : def[m].kind \in Linked}}

(* Mutant: an operation that uses a chain's root itself is not in the chain. *)
ChainOps_LinksOnly ==
    {op \in LDSOps : use[op] \in M0s /\ def[use[op]].kind \in Linked}

(* collectUsedM0Chains *)
ChainOps == {op \in LDSOps : use[op] \in M0s /\ Root(use[op]) \in ChainRoots}

(* m0ChainOnlyAddressesLDS *)
OnlyAddressesLDS(root) == \A m \in M0s : Root(m) = root => m \notin other

Init ==
    /\ def \in {d \in [M0s -> UNION {Defs(m) : m \in M0s}] :
                   \A m \in M0s : d[m] \in Defs(m)}
    /\ use \in [LDSOps -> M0s \union {VGPR, Descriptor}]
    /\ other \in SUBSET M0s
    /\ flagged \in SUBSET {m \in M0s : def[m].kind = "add_sgpr"}
    /\ before \in Attrs
    /\ attrs = before
    /\ count \in Counts
    /\ base = 0 /\ fixed = 0
    /\ roots = {} /\ ops = {}
    /\ moved = [m \in M0s |-> 0] /\ opMoved = [op \in LDSOps |-> 0]
    /\ phase = "start"

Fail == phase' = "error" /\ UNCHANGED <<func, attrs, base, fixed, roots, ops,
                                        moved, opMoved>>

(* Mutant: the end of the fixed allocation is rounded down. *)
BaseOffset_RoundDown(a) ==
    IF DynamicBytes(a) # 0 THEN 0 ELSE (FixedBytes(a) \div 4) * 4

BaseOffset(a) == IF DynamicBytes(a) # 0 THEN 0 ELSE AlignTo(FixedBytes(a), 4)

(* reserveLDSForBarriers, up to the call of shiftExistingLDSAddresses. *)
Reserve ==
    /\ phase = "start"
    /\ SizesValid(attrs)
    /\ base' = BaseOffset(attrs)
    /\ IF DynamicBytes(attrs) # 0
         THEN /\ fixed' = FixedBytes(attrs) + ReservedBytes
              /\ roots' = {Root(use[op]) : op \in ChainOps}
              /\ ops' = LDSOps \ ChainOps
         ELSE /\ fixed' = base' + ReservedBytes
              /\ UNCHANGED <<roots, ops>>
    /\ phase' = "shift"
    /\ UNCHANGED <<func, attrs, moved, opMoved>>

ReserveFails == phase = "start" /\ ~SizesValid(attrs) /\ Fail

(* shiftM0Value: only what comes from an SGPR can be moved. *)
Shiftable(m) == def[m].kind \in {"mov", "add_sgpr"}

RootMovable(r) == Shiftable(r) /\ r \notin flagged /\ OnlyAddressesLDS(r)

(* shiftM0ChainRoot; the roots come in the order of a hash set. *)
ShiftRoot(r) ==
    /\ phase = "shift"
    /\ r \in roots
    /\ RootMovable(r)
    /\ moved' = [moved EXCEPT ![r] = @ + ReservedBytes]
    /\ roots' = roots \ {r}
    /\ UNCHANGED <<func, attrs, base, fixed, ops, opMoved, phase>>

ShiftRootFails(r) == phase = "shift" /\ r \in roots /\ ~RootMovable(r) /\ Fail

(* shiftLDSAddressOperand: op gets an address of its own, unless its first   *)
(* operand is neither M0 nor a VGPR: then it is left as it is.               *)
ShiftOp(op) ==
    /\ phase = "shift" /\ roots = {}
    /\ op \in ops
    /\ use[op] \in M0s => Shiftable(use[op])
    /\ opMoved' = IF use[op] = Descriptor
                    THEN opMoved
                    ELSE [opMoved EXCEPT ![op] = @ + ReservedBytes]
    /\ ops' = ops \ {op}
    /\ UNCHANGED <<func, attrs, base, fixed, roots, moved, phase>>

ShiftOpFails(op) ==
    /\ phase = "shift" /\ roots = {}
    /\ op \in ops
    /\ use[op] \in M0s /\ ~Shiftable(use[op])
    /\ Fail

(* setLDSAttrs *)
Finish ==
    /\ phase = "shift" /\ roots = {} /\ ops = {}
    /\ attrs' = [attrs EXCEPT !.wave = fixed,
                              !.machine = IF @ = Absent THEN Absent
                                                        ELSE fixed + DynamicBytes(attrs)]
    /\ phase' = "done"
    /\ UNCHANGED <<func, base, fixed, roots, ops, moved, opMoved>>

Stopped == phase \in {"done", "error"} /\ UNCHANGED vars

Next ==
    \/ Reserve \/ ReserveFails \/ Finish \/ Stopped
    \/ \E r \in M0s : ShiftRoot(r) \/ ShiftRootFails(r)
    \/ \E op \in LDSOps : ShiftOp(op) \/ ShiftOpFails(op)

Spec == Init /\ [][Next]_vars

-----------------------------------------------------------------------------
(* Properties *)

(* By how much the address of an LDS operation has changed. *)
Shift(op) == opMoved[op] + (IF use[op] \in M0s THEN moved[Root(use[op])] ELSE 0)

(* Every LDS address has moved by the same amount, however many chains and   *)
(* operations share its M0 value, and nothing else that reads an M0 value    *)
(* has changed (shiftExistingLDSAddresses).  An address in a descriptor      *)
(* stays: only the tensor DMA operations have one, on a target whose         *)
(* barriers are native and need no room in LDS.                              *)
ShiftedOnce ==
    phase = "done" =>
        /\ \A op \in LDSOps :
              Shift(op) = IF DynamicBytes(before) # 0 /\ use[op] # Descriptor
                            THEN ReservedBytes ELSE 0
        /\ \A m \in other : moved[Root(m)] = 0

(* No byte the function used, fixed or dynamic, falls on a barrier dword at  *)
(* its new place; the dwords lie in the fixed allocation and the dynamic     *)
(* part behind it, by the attributes the next reader finds (setLDSAttrs,     *)
(* assignBarrierSlots).                                                      *)
SlotsApart ==
    phase = "done" =>
        LET dyn == DynamicBytes(before)
            shift == IF dyn # 0 THEN ReservedBytes ELSE 0
            used == {shift + b : b \in 0..(FixedBytes(before) + dyn - 1)}
            dwords == base..(base + 4 * count - 1)
        IN  /\ dwords \intersect used = {}
            /\ dwords \subseteq 0..(FixedBytes(attrs) - 1)
            /\ used \subseteq 0..(FixedBytes(attrs) + DynamicBytes(attrs) - 1)
            /\ attrs.machine # Absent =>
                  attrs.machine = FixedBytes(attrs) + DynamicBytes(attrs)
            /\ base % 4 = 0
=============================================================================
