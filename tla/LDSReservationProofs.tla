------------------------ MODULE LDSReservationProofs ------------------------
(***************************************************************************)
(* Proofs about LDSReservation, for any number of M0 values, LDS           *)
(* operations and barriers and all sizes.                                  *)
(***************************************************************************)
EXTENDS LDSReservation, WellFoundedInduction, TLAPS

-----------------------------------------------------------------------------
(* The root of a chain. *)

(* A set of natural numbers has a least element. *)
LEMMA LeastNumber ==
    ASSUME NEW T \in SUBSET Nat, T # {}
    PROVE  \E n \in T : \A k \in T : n <= k
<1> DEFINE R == OpToRel(<, Nat)
<1>1. \A x, y \in Nat : <<y, x>> \in R <=> y < x
  BY DEF OpToRel
<1>2. IsWellFoundedOn(R, Nat)
  BY NatLessThanWellFounded
<1>3. PICK n \in T : \A k \in T : ~(<<k, n>> \in R)
  <2> HIDE DEF R
  <2> QED BY <1>2, WFMin
<1>4. \A k \in T : ~(k < n)
  BY <1>1, <1>3
<1> QED BY <1>4

(* The recursive definition of findM0ChainRoot has a solution: links lead to *)
(* smaller numbers.                                                          *)
LEMMA RootDefined ==
    ASSUME \A m \in M0s : def[m] \in Defs(m)
    PROVE  \E f : f = [i \in M0s |-> IF def[i].kind \in Linked THEN f[def[i].of] ELSE i]
<1> DEFINE Solves(f, n) ==
        f = [i \in 1..n |-> IF def[i].kind \in Linked THEN f[def[i].of] ELSE i]
           Bad == {n \in 0..N : ~ \E f : Solves(f, n)}
<1>1. Bad = {}
  <2>1. SUFFICES ASSUME Bad # {} PROVE FALSE
    OBVIOUS
  <2>0. Bad \in SUBSET Nat
    BY SizesAssumption
  <2>2. PICK n \in Bad : \A k \in Bad : n <= k
    <3> HIDE DEF Bad
    <3> QED BY <2>0, <2>1, LeastNumber
  <2>3. n # 0
    <3>1. Solves([i \in 1..0 |-> 0], 0)
      OBVIOUS
    <3> QED BY <3>1
  <2>4. n - 1 \in 0..N /\ n - 1 \notin Bad
    BY <2>2, <2>3, SizesAssumption
  <2>5. PICK g : Solves(g, n - 1)
    BY <2>4
  <2> DEFINE h == [i \in 1..n |-> IF i < n THEN g[i]
                                  ELSE IF def[i].kind \in Linked THEN g[def[i].of] ELSE i]
  <2>6. ASSUME NEW i \in 1..n
        PROVE  h[i] = IF def[i].kind \in Linked THEN h[def[i].of] ELSE i
    <3>0. n \in 0..N
      BY <2>2
    <3>1. i \in M0s
      BY <3>0, SizesAssumption DEF M0s
    <3>2. def[i].kind \in Linked => def[i].of \in 1..(i - 1)
      BY <3>1 DEF Defs, Linked
    <3>3. CASE i < n
      <4>1. i \in 1..(n - 1)
        BY <3>3, <2>2, SizesAssumption
      <4>2. h[i] = g[i]
        BY <3>3
      <4>3. g[i] = IF def[i].kind \in Linked THEN g[def[i].of] ELSE i
        BY <4>1, <2>5
      <4>4. def[i].kind \in Linked => h[def[i].of] = g[def[i].of]
        BY <3>2, <4>1, <2>2
      <4> QED BY <4>2, <4>3, <4>4
    <3>4. CASE i = n
      <4>1. def[i].kind \in Linked => h[def[i].of] = g[def[i].of]
        BY <3>2, <3>4, <2>2
      <4> QED BY <3>4, <4>1
    <3> QED BY <3>3, <3>4, <2>2, SizesAssumption
  <2>7. Solves(h, n)
    BY <2>6
  <2> QED BY <2>2, <2>7
<1>2. N \in 0..N
  BY SizesAssumption
<1> QED BY <1>1, <1>2 DEF M0s

(* The root of an M0 value is an M0 value. *)
LEMMA RootType ==
    ASSUME \A m \in M0s : def[m] \in Defs(m)
    PROVE  \A m \in M0s : Root(m) \in M0s
<1> DEFINE Body(f) == [i \in M0s |-> IF def[i].kind \in Linked THEN f[def[i].of] ELSE i]
           R == CHOOSE f : f = Body(f)
           Bad == {m \in M0s : R[m] \notin M0s}
<1>1. R = Body(R)
  <2>1. \E f : f = Body(f)
    BY RootDefined
  <2> QED BY <2>1
<1>2. \A m \in M0s : Root(m) = R[m]
  BY DEF Root
<1>3. \A m \in M0s : R[m] = IF def[m].kind \in Linked THEN R[def[m].of] ELSE m
  <2> HIDE DEF R
  <2> QED BY <1>1
<1> HIDE DEF R
<1>4. Bad = {}
  <2>1. SUFFICES ASSUME Bad # {} PROVE FALSE
    OBVIOUS
  <2>2. Bad \subseteq Nat
    BY DEF M0s
  <2>3. PICK n \in Bad : \A k \in Bad : n <= k
    BY <2>1, <2>2, LeastNumber
  <2>4. n \in M0s /\ def[n].kind \in Linked
    BY <2>3, <1>3
  <2>5. def[n].of \in 1..(n - 1)
    BY <2>4 DEF Defs, Linked
  <2>6. def[n].of \in Bad /\ def[n].of < n
    BY <2>3, <2>4, <2>5, <1>3, SizesAssumption DEF M0s
  <2> QED BY <2>3, <2>4, <2>5, <2>6, SizesAssumption DEF M0s
<1> QED BY <1>2, <1>4

-----------------------------------------------------------------------------
(* The layout. *)

(* alignTo rounds up. *)
LEMMA AlignUp ==
    ASSUME NEW v \in Nat, NEW a \in {4, 16}
    PROVE  /\ AlignTo(v, a) \in Nat
           /\ AlignTo(v, a) >= v
           /\ AlignTo(v, a) % 4 = 0
<1>1. CASE a = 4
  BY <1>1 DEF AlignTo
<1>2. CASE a = 16
  BY <1>2 DEF AlignTo
<1> QED BY <1>1, <1>2

(* What the attributes of an accepted function say. *)
LEMMA AttrBytes ==
    ASSUME NEW a \in Attrs, SizesValid(a)
    PROVE  /\ DynamicBytes(a) \in Nat
           /\ FixedBytes(a) \in Nat
<1>1. /\ a.wave \in Nat \union {Absent} /\ a.machine \in Nat \union {Absent}
      /\ a.waveDyn \in Nat \union {Absent} /\ a.machineDyn \in Nat \union {Absent}
  BY SizesAssumption DEF Attrs
<1>2. /\ Bytes(a.wave) \in Nat /\ Bytes(a.machineDyn) \in Nat
      /\ Bytes(a.waveDyn) # 0 => a.waveDyn \in Nat
      /\ Bytes(a.machine) # 0 => a.machine \in Nat
  BY <1>1 DEF Bytes
<1>3. DynamicBytes(a) \in Nat
  BY <1>2 DEF DynamicBytes
<1>4. Bytes(a.wave) = 0 /\ Bytes(a.machine) # 0 => a.machine - DynamicBytes(a) \in Nat
  BY <1>2, <1>3 DEF SizesValid
<1> QED BY <1>2, <1>3, <1>4 DEF FixedBytes

LEMMA Layout ==
    ASSUME NEW a \in Attrs, SizesValid(a), count \in Counts
    PROVE  /\ ReservedBytes \in Nat
           /\ ReservedBytes >= 4 * count
           /\ BaseOffset(a) \in Nat
           /\ BaseOffset(a) % 4 = 0
           /\ DynamicBytes(a) = 0 => BaseOffset(a) >= FixedBytes(a)
           /\ DynamicBytes(a) # 0 => BaseOffset(a) = 0
<1>1. count \in Nat
  BY SizesAssumption
<1>2. count * 4 \in Nat
  BY <1>1
<1>3. ReservedBytes \in Nat /\ ReservedBytes >= 4 * count
  BY <1>1, <1>2, AlignUp DEF ReservedBytes
<1>4. AlignTo(FixedBytes(a), 4) \in Nat /\ AlignTo(FixedBytes(a), 4) >= FixedBytes(a)
      /\ AlignTo(FixedBytes(a), 4) % 4 = 0
  BY AttrBytes, AlignUp
<1> QED BY <1>3, <1>4 DEF BaseOffset

-----------------------------------------------------------------------------
(* The inductive invariant.  TypeOK alone says nothing of the attributes     *)
(* from which base and fixed are computed; ShiftedOnce is about the last     *)
(* state only, and needs to know which roots and operations are still to be  *)
(* moved in every state before.                                              *)

Dynamic == DynamicBytes(before) # 0

UsedRoots == IF Dynamic THEN {Root(use[op]) : op \in ChainOps} ELSE {}

Unchained == IF Dynamic THEN LDSOps \ ChainOps ELSE {}

InDescriptor == {op \in LDSOps : use[op] = Descriptor}

InvFunc ==
    /\ count \in Counts
    /\ before \in Attrs
    /\ other \subseteq M0s

InvSizes ==
    /\ phase # "done" => attrs = before
    /\ phase \in {"shift", "done"} =>
          /\ SizesValid(before)
          /\ base = BaseOffset(before)
          /\ fixed = ReservedBytes + (IF Dynamic THEN FixedBytes(before) ELSE base)
    /\ phase = "done" =>
          attrs = [before EXCEPT !.wave = fixed,
                                 !.machine = IF @ = Absent THEN Absent
                                                 ELSE fixed + DynamicBytes(before)]

InvMoved ==
    /\ phase = "start" =>
          /\ roots = {} /\ ops = {}
          /\ \A m \in M0s : moved[m] = 0
          /\ \A op \in LDSOps : opMoved[op] = 0
    /\ phase \in {"shift", "done"} =>
          /\ roots \subseteq UsedRoots
          /\ \A m \in M0s : moved[m] = IF m \in UsedRoots \ roots THEN ReservedBytes ELSE 0
          /\ \A m \in UsedRoots \ roots : OnlyAddressesLDS(m)
          /\ ops \subseteq Unchained
          /\ \A op \in LDSOps : opMoved[op] = IF op \in (Unchained \ ops) \ InDescriptor THEN ReservedBytes ELSE 0
    /\ phase = "done" => roots = {} /\ ops = {}

IInv == TypeOK /\ InvFunc /\ InvSizes /\ InvMoved

(* The function itself never changes, and with it nothing that depends on it. *)
LEMMA Frame ==
    ASSUME UNCHANGED func
    PROVE  /\ UsedRoots' = UsedRoots
           /\ Unchained' = Unchained
           /\ InDescriptor' = InDescriptor
           /\ ReservedBytes' = ReservedBytes
           /\ Dynamic' = Dynamic
           /\ \A m \in M0s : Root(m)' = Root(m)
           /\ \A m \in M0s : OnlyAddressesLDS(m)' = OnlyAddressesLDS(m)
<1> USE DEF func
<1>1. \A m : Root(m)' = Root(m)
  BY DEF Root
<1>2. ReservedBytes' = ReservedBytes /\ Dynamic' = Dynamic
  BY DEF ReservedBytes, Dynamic
<1>3. ChainOps' = ChainOps
  BY DEF ChainOps, ChainRoots, Root
<1>4. UsedRoots' = UsedRoots /\ Unchained' = Unchained
  BY <1>2, <1>3 DEF UsedRoots, Unchained, Root
<1>5. \A m : OnlyAddressesLDS(m)' = OnlyAddressesLDS(m)
  BY DEF OnlyAddressesLDS, Root
<1>6. InDescriptor' = InDescriptor
  BY DEF InDescriptor
<1> QED BY <1>1, <1>2, <1>4, <1>5, <1>6

LEMMA UsedRootsType ==
    ASSUME TypeOK
    PROVE  UsedRoots \subseteq M0s
<1>1. \A op \in ChainOps : use[op] \in M0s
  BY DEF ChainOps
<1>2. \A m \in M0s : Root(m) \in M0s
  BY RootType DEF TypeOK
<1> QED BY <1>1, <1>2 DEF UsedRoots

LEMMA InitIInv == Init => IInv
<1> SUFFICES ASSUME Init PROVE IInv
  OBVIOUS
<1>1. TypeOK
  BY DEF Init, TypeOK
<1>2. InvFunc
  BY DEF Init, InvFunc
<1>3. InvSizes
  BY DEF Init, InvSizes
<1>4. InvMoved
  BY DEF Init, InvMoved
<1> QED BY <1>1, <1>2, <1>3, <1>4 DEF IInv

-----------------------------------------------------------------------------
(* Each step preserves the invariant. *)

LEMMA StepReserve == ASSUME IInv, Reserve PROVE IInv'
<1> USE DEF IInv
<1>1. UNCHANGED func /\ attrs = before /\ SizesValid(before) /\ before \in Attrs
  BY DEF Reserve, InvSizes, InvFunc
<1>2. count \in Counts
  BY DEF InvFunc
<1>3. ReservedBytes \in Nat /\ BaseOffset(before) \in Nat /\ FixedBytes(before) \in Nat
  BY <1>1, <1>2, Layout, AttrBytes
<1>4. roots' = UsedRoots /\ ops' = Unchained
  BY <1>1 DEF Reserve, UsedRoots, Unchained, Dynamic, InvMoved
<1>5. base' = BaseOffset(before)
      /\ fixed' = ReservedBytes + (IF Dynamic THEN FixedBytes(before) ELSE base')
  BY <1>1, <1>3 DEF Reserve, Dynamic
<1>6. UsedRoots \subseteq M0s /\ Unchained \subseteq LDSOps
  BY UsedRootsType DEF Unchained
<1>7. TypeOK'
  <2>1. base' \in Nat /\ fixed' \in Nat
    BY <1>3, <1>5
  <2>2. roots' \subseteq M0s /\ ops' \subseteq LDSOps
    BY <1>4, <1>6
  <2> QED BY <1>1, <2>1, <2>2 DEF TypeOK, Reserve, func
<1>8. InvFunc'
  BY <1>1 DEF InvFunc, func
<1>9. InvSizes'
  <2>1. before' = before /\ attrs' = attrs /\ phase' = "shift"
    BY DEF Reserve, func
  <2>2. ReservedBytes' = ReservedBytes /\ Dynamic' = Dynamic
    BY <1>1, Frame
  <2> QED BY <1>1, <1>5, <2>1, <2>2 DEF InvSizes
<1>10. InvMoved'
  <2>1. phase = "start" /\ phase' = "shift" /\ moved' = moved /\ opMoved' = opMoved
    BY DEF Reserve
  <2>2. (UsedRoots \ roots)' = {} /\ (Unchained \ ops)' = {}
    BY <1>1, <1>4, Frame
  <2> QED BY <1>1, <1>4, <2>1, <2>2, Frame DEF InvMoved
<1> QED BY <1>7, <1>8, <1>9, <1>10

LEMMA StepFail == ASSUME IInv, phase # "done", Fail PROVE IInv'
<1> USE DEF IInv
<1>1. TypeOK'
  BY DEF Fail, TypeOK, func
<1>2. InvFunc'
  BY DEF Fail, InvFunc, func
<1>3. InvSizes'
  BY DEF Fail, InvSizes, func
<1>4. InvMoved'
  BY DEF Fail, InvMoved
<1> QED BY <1>1, <1>2, <1>3, <1>4

LEMMA StepShiftRoot == ASSUME IInv, NEW r \in M0s, ShiftRoot(r) PROVE IInv'
<1> USE DEF IInv
<1>1. UNCHANGED func /\ phase = "shift" /\ phase' = "shift" /\ r \in roots
  BY DEF ShiftRoot
<1>2. ReservedBytes \in Nat
  BY <1>1, Layout DEF InvSizes, InvFunc
<1>3. /\ moved' = [moved EXCEPT ![r] = moved[r] + ReservedBytes]
      /\ roots' = roots \ {r}
      /\ OnlyAddressesLDS(r)
      /\ UNCHANGED <<attrs, base, fixed, ops, opMoved>>
  BY DEF ShiftRoot, RootMovable
<1>4. moved[r] = 0 /\ r \in UsedRoots
  BY <1>1 DEF InvMoved
<1>5. TypeOK'
  BY <1>1, <1>2, <1>3 DEF TypeOK, func
<1>6. InvFunc'
  BY <1>1 DEF InvFunc, func
<1>7. InvSizes'
  <2>1. ReservedBytes' = ReservedBytes /\ Dynamic' = Dynamic /\ before' = before
    BY <1>1, Frame DEF func
  <2> QED BY <1>1, <1>3, <2>1 DEF InvSizes
<1>8. InvMoved'
  <2>1. (UsedRoots \ roots)' = (UsedRoots \ roots) \union {r}
    BY <1>1, <1>3, <1>4, Frame
  <2>2. /\ UsedRoots' = UsedRoots /\ Unchained' = Unchained
         /\ ReservedBytes' = ReservedBytes /\ InDescriptor' = InDescriptor
    BY <1>1, Frame
  <2>3. \A m \in M0s : moved'[m] = IF m \in (UsedRoots \ roots)' THEN ReservedBytes ELSE 0
    BY <1>1, <1>2, <1>3, <1>4, <2>1 DEF InvMoved, TypeOK
  <2>4. UsedRoots \subseteq M0s
    BY UsedRootsType
  <2>5. \A m \in (UsedRoots \ roots)' : OnlyAddressesLDS(m)'
    BY <1>1, <1>3, <2>1, <2>4, Frame DEF InvMoved
  <2>6. roots' \subseteq UsedRoots'
    BY <1>1, <1>3, <2>2 DEF InvMoved
  <2> QED BY <1>1, <1>3, <2>2, <2>3, <2>5, <2>6 DEF InvMoved
<1> QED BY <1>5, <1>6, <1>7, <1>8

LEMMA StepShiftOp == ASSUME IInv, NEW op \in LDSOps, ShiftOp(op) PROVE IInv'
<1> USE DEF IInv
<1>1. UNCHANGED func /\ phase = "shift" /\ phase' = "shift" /\ op \in ops
  BY DEF ShiftOp
<1>2. ReservedBytes \in Nat
  BY <1>1, Layout DEF InvSizes, InvFunc
<1>3. /\ opMoved' = IF op \in InDescriptor THEN opMoved
                      ELSE [opMoved EXCEPT ![op] = opMoved[op] + ReservedBytes]
      /\ ops' = ops \ {op}
      /\ UNCHANGED <<attrs, base, fixed, roots, moved>>
  BY DEF ShiftOp, InDescriptor
<1>4. opMoved[op] = 0 /\ op \in Unchained
  BY <1>1 DEF InvMoved
<1>5. TypeOK'
  BY <1>1, <1>2, <1>3 DEF TypeOK, func
<1>6. InvFunc'
  BY <1>1 DEF InvFunc, func
<1>7. InvSizes'
  <2>1. ReservedBytes' = ReservedBytes /\ Dynamic' = Dynamic /\ before' = before
    BY <1>1, Frame DEF func
  <2> QED BY <1>1, <1>3, <2>1 DEF InvSizes
<1>8. InvMoved'
  <2>1. /\ UsedRoots' = UsedRoots /\ Unchained' = Unchained
         /\ ReservedBytes' = ReservedBytes /\ InDescriptor' = InDescriptor
    BY <1>1, Frame
  <2>2. (Unchained \ ops)' = (Unchained \ ops) \union {op}
    BY <1>1, <1>3, <1>4, <2>1
  <2>3. \A x \in LDSOps :
           opMoved'[x] = IF x \in (Unchained \ ops)' \ InDescriptor THEN ReservedBytes ELSE 0
    BY <1>1, <1>2, <1>3, <1>4, <2>2 DEF InvMoved, TypeOK
  <2>4. UsedRoots \subseteq M0s
    BY UsedRootsType
  <2>5. \A m \in (UsedRoots \ roots)' : OnlyAddressesLDS(m)'
    BY <1>1, <1>3, <2>1, <2>4, Frame DEF InvMoved
  <2> QED BY <1>1, <1>3, <2>1, <2>3, <2>5 DEF InvMoved
<1> QED BY <1>5, <1>6, <1>7, <1>8

LEMMA StepFinish == ASSUME IInv, Finish PROVE IInv'
<1> USE DEF IInv
<1>1. UNCHANGED func /\ phase = "shift" /\ phase' = "done" /\ roots = {} /\ ops = {}
  BY DEF Finish
<1>2. UNCHANGED <<base, fixed, roots, ops, moved, opMoved>>
  BY DEF Finish
<1>3. attrs = before
  BY <1>1 DEF InvSizes
<1>4. TypeOK'
  BY <1>1, <1>2 DEF TypeOK, func
<1>5. InvFunc'
  BY <1>1 DEF InvFunc, func
<1>6. InvSizes'
  <2>1. ReservedBytes' = ReservedBytes /\ Dynamic' = Dynamic /\ before' = before
    BY <1>1, Frame DEF func
  <2> QED BY <1>1, <1>2, <1>3, <2>1 DEF InvSizes, Finish
<1>7. InvMoved'
  <2>1. /\ UsedRoots' = UsedRoots /\ Unchained' = Unchained
         /\ ReservedBytes' = ReservedBytes /\ InDescriptor' = InDescriptor
    BY <1>1, Frame
  <2>2. UsedRoots \subseteq M0s
    BY UsedRootsType
  <2>3. \A m \in (UsedRoots \ roots)' : OnlyAddressesLDS(m)'
    BY <1>1, <1>2, <2>1, <2>2, Frame DEF InvMoved
  <2> QED BY <1>1, <1>2, <2>1, <2>3 DEF InvMoved
<1> QED BY <1>4, <1>5, <1>6, <1>7

LEMMA StepStutter == ASSUME IInv, UNCHANGED vars PROVE IInv'
<1> USE DEF IInv
<1>1. UNCHANGED func /\ UNCHANGED <<attrs, base, fixed, roots, ops, moved, opMoved, phase>>
  BY DEF vars
<1>2. TypeOK'
  BY <1>1 DEF TypeOK, func
<1>3. InvFunc'
  BY <1>1 DEF InvFunc, func
<1>4. InvSizes'
  <2>1. ReservedBytes' = ReservedBytes /\ Dynamic' = Dynamic /\ before' = before
    BY <1>1, Frame DEF func
  <2> QED BY <1>1, <2>1 DEF InvSizes
<1>5. InvMoved'
  <2>1. /\ UsedRoots' = UsedRoots /\ Unchained' = Unchained
         /\ ReservedBytes' = ReservedBytes /\ InDescriptor' = InDescriptor
    BY <1>1, Frame
  <2>2. UsedRoots \subseteq M0s
    BY UsedRootsType
  <2>3. phase \in {"shift", "done"} => \A m \in (UsedRoots \ roots)' : OnlyAddressesLDS(m)'
    BY <1>1, <2>1, <2>2, Frame DEF InvMoved
  <2> QED BY <1>1, <2>1, <2>3 DEF InvMoved
<1> QED BY <1>2, <1>3, <1>4, <1>5

LEMMA Step == IInv /\ [Next]_vars => IInv'
<1> SUFFICES ASSUME IInv, [Next]_vars PROVE IInv'
  OBVIOUS
<1>1. CASE Reserve
  BY <1>1, StepReserve
<1>2. CASE ReserveFails
  BY <1>2, StepFail DEF ReserveFails
<1>3. CASE Finish
  BY <1>3, StepFinish
<1>4. CASE Stopped
  BY <1>4, StepStutter DEF Stopped
<1>5. ASSUME NEW r \in M0s, ShiftRoot(r) PROVE IInv'
  BY <1>5, StepShiftRoot
<1>6. ASSUME NEW r \in M0s, ShiftRootFails(r) PROVE IInv'
  BY <1>6, StepFail DEF ShiftRootFails
<1>7. ASSUME NEW op \in LDSOps, ShiftOp(op) PROVE IInv'
  BY <1>7, StepShiftOp
<1>8. ASSUME NEW op \in LDSOps, ShiftOpFails(op) PROVE IInv'
  BY <1>8, StepFail DEF ShiftOpFails
<1>9. CASE UNCHANGED vars
  BY <1>9, StepStutter
<1> QED BY <1>1, <1>2, <1>3, <1>4, <1>5, <1>6, <1>7, <1>8, <1>9 DEF Next

(* The inductive invariant holds throughout reserveLDSForBarriers. *)
THEOREM Invariance == Spec => []IInv
BY InitIInv, Step, PTL DEF Spec

(* Offsets and sizes are natural numbers and the roots still to be moved are *)
(* M0 values in every state of reserveLDSForBarriers.                        *)
THEOREM TypeCorrect == Spec => []TypeOK
<1>1. IInv => TypeOK
  BY DEF IInv
<1> QED BY Invariance, <1>1, PTL

-----------------------------------------------------------------------------
(* What the invariant says of the last state. *)

(* The next reader of the attributes finds the sizes that were meant, also   *)
(* where the fixed size is 0 and has to be computed from the total.          *)
LEMMA FinalSizes ==
    ASSUME IInv, phase = "done"
    PROVE  /\ DynamicBytes(attrs) = DynamicBytes(before)
           /\ FixedBytes(attrs) = fixed
           /\ attrs.machine # Absent => attrs.machine = fixed + DynamicBytes(before)
<1> USE DEF IInv
<1>1. /\ before \in Attrs /\ SizesValid(before) /\ fixed \in Nat
      /\ attrs = [before EXCEPT !.wave = fixed,
                                !.machine = IF @ = Absent THEN Absent
                                                ELSE fixed + DynamicBytes(before)]
  BY DEF InvSizes, InvFunc, TypeOK
<1>2. DynamicBytes(before) \in Nat
  BY <1>1, AttrBytes
<1>3. /\ attrs.wave = fixed
      /\ attrs.machine = IF before.machine = Absent THEN Absent
                         ELSE fixed + DynamicBytes(before)
      /\ attrs.waveDyn = before.waveDyn
      /\ attrs.machineDyn = before.machineDyn
  BY <1>1 DEF Attrs
<1>4. DynamicBytes(attrs) = DynamicBytes(before)
  BY <1>3 DEF DynamicBytes
<1>5. Bytes(attrs.wave) = fixed
  BY <1>1, <1>3 DEF Bytes, Absent
<1>6. CASE before.machine = Absent
  <2>1. Bytes(attrs.machine) = 0
    BY <1>3, <1>6 DEF Bytes
  <2> QED BY <1>3, <1>4, <1>5, <1>6, <2>1 DEF FixedBytes
<1>7. CASE before.machine # Absent
  <2>1. attrs.machine = fixed + DynamicBytes(before)
    BY <1>3, <1>7
  <2>2. fixed = 0 => attrs.machine - DynamicBytes(attrs) = 0
    BY <1>2, <1>4, <2>1
  <2> QED BY <1>4, <1>5, <2>1, <2>2 DEF FixedBytes
<1> QED BY <1>6, <1>7

LEMMA Apart == IInv => SlotsApart
<1> SUFFICES ASSUME IInv, phase = "done" PROVE SlotsApart
  BY DEF SlotsApart
<1> DEFINE dyn == DynamicBytes(before)
           shift == IF dyn # 0 THEN ReservedBytes ELSE 0
           used == {shift + b : b \in 0..(FixedBytes(before) + dyn - 1)}
           dwords == base..(base + 4 * count - 1)
<1>1. /\ before \in Attrs /\ SizesValid(before) /\ count \in Counts
      /\ base = BaseOffset(before)
      /\ fixed = ReservedBytes + (IF dyn # 0 THEN FixedBytes(before) ELSE base)
  BY DEF IInv, InvSizes, InvFunc, Dynamic
<1>2. dyn \in Nat /\ FixedBytes(before) \in Nat /\ count \in Nat
  BY <1>1, AttrBytes, SizesAssumption
<1>3. /\ ReservedBytes \in Nat /\ ReservedBytes >= 4 * count
      /\ base \in Nat /\ base % 4 = 0
      /\ dyn = 0 => base >= FixedBytes(before)
      /\ dyn # 0 => base = 0
  BY <1>1, Layout
<1>4. /\ DynamicBytes(attrs) = dyn
      /\ FixedBytes(attrs) = fixed
      /\ attrs.machine # Absent => attrs.machine = fixed + dyn
  BY FinalSizes
<1>5. \A x \in used : /\ x \in Nat
                      /\ shift <= x /\ x <= shift + FixedBytes(before) + dyn - 1
  BY <1>2, <1>3
<1>6. \A x \in dwords : x \in Nat /\ base <= x /\ x <= base + 4 * count - 1
  BY <1>2, <1>3
<1>7. dwords \intersect used = {}
  <2> HIDE DEF used, dwords
  <2>1. CASE dyn = 0
    BY <1>2, <1>3, <1>5, <1>6, <2>1
  <2>2. CASE dyn # 0
    BY <1>2, <1>3, <1>5, <1>6, <2>2
  <2> QED BY <2>1, <2>2
<1>8. dwords \subseteq 0..(fixed - 1)
  <2> HIDE DEF dwords
  <2>1. CASE dyn = 0
    BY <1>1, <1>2, <1>3, <1>6, <2>1
  <2>2. CASE dyn # 0
    BY <1>1, <1>2, <1>3, <1>6, <2>2
  <2> QED BY <2>1, <2>2
<1>9. used \subseteq 0..(fixed + dyn - 1)
  <2> HIDE DEF used
  <2>1. CASE dyn = 0
    BY <1>1, <1>2, <1>3, <1>5, <2>1
  <2>2. CASE dyn # 0
    BY <1>1, <1>2, <1>3, <1>5, <2>2
  <2> QED BY <2>1, <2>2
<1> QED BY <1>3, <1>4, <1>7, <1>8, <1>9 DEF SlotsApart

LEMMA Once == IInv => ShiftedOnce
<1> SUFFICES ASSUME IInv, phase = "done" PROVE ShiftedOnce
  BY DEF ShiftedOnce
<1>1. /\ use \in [LDSOps -> M0s \union {VGPR, Descriptor}]
      /\ \A m \in M0s : Root(m) \in M0s
      /\ other \subseteq M0s
  BY RootType DEF IInv, TypeOK, InvFunc
<1>2. /\ \A m \in M0s : moved[m] = IF m \in UsedRoots THEN ReservedBytes ELSE 0
      /\ \A m \in UsedRoots : OnlyAddressesLDS(m)
      /\ \A op \in LDSOps :
            opMoved[op] = IF op \in Unchained \ InDescriptor THEN ReservedBytes ELSE 0
  BY DEF IInv, InvMoved
<1>3. ReservedBytes \in Nat
  BY Layout DEF IInv, InvSizes, InvFunc
<1>4. ASSUME NEW op \in LDSOps
      PROVE  Shift(op) = IF Dynamic /\ use[op] # Descriptor THEN ReservedBytes ELSE 0
  <2>1. CASE ~Dynamic
    BY <1>1, <1>2, <2>1 DEF Shift, UsedRoots, Unchained
  <2>2. CASE Dynamic /\ op \in ChainOps
    <3>1. /\ use[op] \in M0s /\ use[op] # Descriptor
          /\ Root(use[op]) \in UsedRoots /\ op \notin Unchained
      BY <2>2 DEF Descriptor, M0s, ChainOps, UsedRoots, Unchained
    <3> QED BY <1>1, <1>2, <1>3, <2>2, <3>1 DEF Shift
  <2>3. CASE Dynamic /\ op \notin ChainOps
    <3>1. op \in Unchained
      BY <2>3 DEF Unchained
    <3>2. use[op] \in M0s => Root(use[op]) \notin UsedRoots
      BY <2>3 DEF ChainOps, UsedRoots
    <3>3. use[op] \in M0s => use[op] # Descriptor
      BY DEF Descriptor, M0s
    <3>4. op \in InDescriptor <=> use[op] = Descriptor
      BY DEF InDescriptor
    <3> QED BY <1>1, <1>2, <1>3, <2>3, <3>1, <3>2, <3>3, <3>4 DEF Shift
  <2> QED BY <2>1, <2>2, <2>3
<1>5. ASSUME NEW m \in other
      PROVE  moved[Root(m)] = 0
  <2>1. Root(m) \in UsedRoots => m \notin other
    BY <1>1, <1>2 DEF OnlyAddressesLDS
  <2> QED BY <1>1, <1>2, <2>1
<1> QED BY <1>4, <1>5 DEF ShiftedOnce, Dynamic

(* Whatever the sizes, alignments and number of barriers: no byte the        *)
(* function used falls on a barrier dword, and the size attributes cover     *)
(* both (reserveLDSForBarriers, setLDSAttrs).                                *)
THEOREM BarrierDwordsApart == Spec => []SlotsApart
BY Invariance, Apart, PTL

(* Whatever chains of M0 values the function has and in whatever order their *)
(* roots are visited: every LDS address in M0 or a VGPR moves by the same    *)
(* amount, and no other reader of M0 sees a change                           *)
(* (shiftExistingLDSAddresses).                                              *)
THEOREM AddressesShiftedOnce == Spec => []ShiftedOnce
BY Invariance, Once, PTL
=============================================================================
