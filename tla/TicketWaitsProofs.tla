-------------------------- MODULE TicketWaitsProofs --------------------------
(***************************************************************************)
(* Proofs about TicketWaits, for all functions, values, registers, counter *)
(* widths and bounds that its assumptions allow.  The actions only put the *)
(* lemmas of WaitLatticeProofs together.                                   *)
(***************************************************************************)
EXTENDS TicketWaits, WaitLatticeProofs

(* The inductive invariant: Cov is the inductive form of LatticeCovers. *)
IInv ==
    /\ TypeOK
    /\ IsFlight(func, flight)
    /\ InScope(flight, visible)
    /\ Cov(func, state, flight)

-----------------------------------------------------------------------------
(* The steps. *)

LEMMA Holds ==
    ASSUME IInv
    PROVE  /\ func \in Funcs /\ WellFormed(func) /\ IsState(func, state)
           /\ IsFlight(func, flight) /\ InScope(flight, visible) /\ Cov(func, state, flight)
           /\ visible \subseteq Values /\ joins \in 0..MaxJoins
BY TicketAssumption DEF IInv, TypeOK

LEMMA Together ==
    ASSUME IInv, func' = func, IsState(func, state'), IsFlight(func, flight'),
           InScope(flight', visible'), Cov(func, state', flight'),
           visible' \subseteq Values, joins' \in 0..MaxJoins
    PROVE  IInv'
<1>1. \E n \in 0..func.flights : flight' \in [1..n -> FlightType(func)]
  BY DEF IsFlight
<1>2. TypeOK'
  BY <1>1 DEF IInv, TypeOK
<1> QED BY <1>2 DEF IInv

LEMMA StepExecute ==
    ASSUME IInv, NEW op \in func.ops, Execute(op)
    PROVE  IInv'
<1>1. /\ func \in Funcs /\ WellFormed(func) /\ IsState(func, state)
      /\ IsFlight(func, flight) /\ InScope(flight, visible) /\ Cov(func, state, flight)
      /\ visible \subseteq Values /\ joins \in 0..MaxJoins
  BY Holds
<1>2. /\ Cardinality(DOMAIN flight) + op.count <= func.flights
      /\ WaitDone(flight, Requirement(op, state)) /\ InstructionReady(flight, op)
      /\ state' = Transfer(op, state) /\ flight' = Run(flight, op)
      /\ visible' = visible \union op.results /\ func' = func /\ joins' = joins
  BY DEF Execute
<1>3. /\ IsState(func, Transfer(op, state)) /\ IsFlight(func, Run(flight, op))
      /\ Cov(func, Transfer(op, state), Run(flight, op))
  BY <1>1, <1>2, CovExecute
<1>4. InScope(Run(flight, op), visible \union op.results)
  BY <1>1, <1>2, RunScope
<1>5. op.results \subseteq Values
  BY <1>1 DEF WellFormed, IsOperation
<1> QED BY <1>1, <1>2, <1>3, <1>4, <1>5, Together

LEMMA StepExistingWait ==
    ASSUME IInv, NEW c \in Counters(func.family) \intersect DOMAIN CounterMax, NEW n \in 0..1,
           ExistingWait(c, n)
    PROVE  IInv'
<1> DEFINE req == [d \in {c} |-> n]
<1>1. /\ WellFormed(func) /\ IsState(func, state) /\ IsFlight(func, flight)
      /\ InScope(flight, visible) /\ Cov(func, state, flight)
      /\ visible \subseteq Values /\ joins \in 0..MaxJoins
  BY Holds
<1>2. /\ WaitDone(flight, req) /\ state' = ApplyWait(state, req) /\ func' = func
      /\ flight' = flight /\ visible' = visible /\ joins' = joins
  BY DEF ExistingWait
<1>3. \A d \in DOMAIN req : /\ d \in DOMAIN CounterMax /\ req[d] \in Nat
                            /\ d \in {"vm", "lgkm"} => req[d] < CounterMax[d]
  BY LatticeAssumption
<1> HIDE DEF req
<1>4. Waited(flight, req)
  BY <1>2, <1>3, DoneWaited
<1>5. IsState(func, ApplyWait(state, req)) /\ Cov(func, ApplyWait(state, req), flight)
  BY <1>1, <1>4, ApplyFacts, CovWait
<1> QED BY <1>1, <1>2, <1>5, Together

LEMMA StepComplete ==
    ASSUME IInv, NEW i \in DOMAIN flight, Complete(i)
    PROVE  IInv'
<1> DEFINE gl == Without(flight, i)
<1>1. /\ WellFormed(func) /\ IsState(func, state) /\ IsFlight(func, flight)
      /\ InScope(flight, visible) /\ Cov(func, state, flight)
      /\ visible \subseteq Values /\ joins \in 0..MaxJoins
  BY Holds
<1>2. /\ MayComplete(flight, i) /\ flight' = gl /\ state' = state /\ func' = func
      /\ visible' = visible /\ joins' = joins
  BY DEF Complete
<1>3. /\ IsFlight(func, gl)
      /\ \A j \in DOMAIN gl : \E k \in DOMAIN flight : gl[j] = flight[k]
  BY <1>1, WithoutFacts
<1>4. Cov(func, state, gl)
  BY <1>1, <1>2, CovComplete
<1> HIDE DEF gl
<1>5. InScope(gl, visible)
  BY <1>1, <1>3 DEF InScope
<1> QED BY <1>1, <1>2, <1>3, <1>4, <1>5, Together

LEMMA StepRead ==
    ASSUME IInv, NEW i \in DOMAIN flight, Read(i)
    PROVE  IInv'
<1> DEFINE gl == HasRead(flight, i)
<1>1. /\ WellFormed(func) /\ IsState(func, state) /\ IsFlight(func, flight)
      /\ InScope(flight, visible) /\ Cov(func, state, flight)
      /\ visible \subseteq Values /\ joins \in 0..MaxJoins
  BY Holds
<1>2. /\ MayRead(flight, i) /\ flight' = gl /\ state' = state /\ func' = func
      /\ visible' = visible /\ joins' = joins
  BY DEF Read, HasRead
<1>3. /\ IsFlight(func, gl) /\ Cov(func, state, gl)
      /\ \A j \in DOMAIN gl : gl[j].vals = flight[j].vals
  BY <1>1, <1>2, CovRead
<1>4. DOMAIN gl = DOMAIN flight
  BY DEF HasRead
<1> HIDE DEF gl
<1>5. InScope(gl, visible)
  BY <1>1, <1>3, <1>4 DEF InScope
<1> QED BY <1>1, <1>2, <1>3, <1>5, Together

LEMMA StepJoinOther ==
    ASSUME IInv, NEW t \in func.others, JoinOther(t)
    PROVE  IInv'
<1>1. /\ WellFormed(func) /\ IsState(func, state) /\ IsFlight(func, flight)
      /\ InScope(flight, visible) /\ Cov(func, state, flight)
      /\ visible \subseteq Values /\ joins \in 0..MaxJoins
  BY Holds
<1>2. /\ joins < MaxJoins /\ state' = Join(state, t) /\ joins' = joins + 1 /\ func' = func
      /\ flight' = flight /\ visible' = visible
  BY DEF JoinOther
<1>3. IsState(func, t)
  BY <1>1 DEF WellFormed
<1>4. IsState(func, Join(state, t)) /\ Below(state, Join(state, t))
  BY <1>1, <1>3, JoinFacts
<1>5. Same(flight, flight)
  BY DEF Same
<1>6. Cov(func, Join(state, t), flight)
  BY <1>1, <1>4, <1>5, CovExtend
<1>7. joins' \in 0..MaxJoins
  BY <1>1, <1>2, TicketAssumption
<1> QED BY <1>1, <1>2, <1>4, <1>6, <1>7, Together

LEMMA StepBranch ==
    ASSUME IInv, NEW m \in func.moves, Branch(m)
    PROVE  IInv'
<1> DEFINE sources == [v \in {m[2]} |-> {m[1]}]
           gl == Rebind(flight, sources)
           t == Rekey(state, {m})
<1>1. /\ WellFormed(func) /\ IsState(func, state) /\ IsFlight(func, flight)
      /\ InScope(flight, visible) /\ Cov(func, state, flight)
      /\ visible \subseteq Values /\ joins \in 0..MaxJoins
  BY Holds
<1>2. /\ func.drains => Outstanding(flight, "x") = 0
      /\ state' = IF func.drains THEN DrainX(t) ELSE t
      /\ flight' = gl /\ visible' = visible \union {m[2]} /\ func' = func /\ joins' = joins
  BY DEF Branch
<1>3. m \in Values \X Values
  BY <1>1 DEF WellFormed
<1>4. m[2] \in Values /\ DOMAIN sources = {m[2]} /\ sources[m[2]] = {m[1]}
  BY <1>3
<1>5. IsState(func, t) /\ Below(state, t) /\ Carries(state, t, m[1], m[2])
  <2>1. {m} \in SUBSET (Values \X Values) /\ \A l, n \in {m} : l[2] = n[2] => l = n
    BY <1>3
  <2>2. \A n \in {m} : Carries(state, t, n[1], n[2])
    BY <1>1, <2>1, RekeyFacts
  <2> QED BY <1>1, <2>1, <2>2, RekeyFacts
<1> HIDE DEF sources
<1>6. /\ IsFlight(func, gl) /\ Same(flight, gl)
      /\ \A i \in DOMAIN flight :
            gl[i].vals = (flight[i].vals \ DOMAIN sources) \union
               {v \in DOMAIN sources : sources[v] \intersect flight[i].vals # {}}
  BY <1>1, <1>4, RebindFacts
<1>7. InScope(gl, visible \union {m[2]})
  BY <1>1, <1>4, RebindScope
<1> HIDE DEF gl, t
<1>8. Cov(func, t, gl)
  <2>1. \A i \in DOMAIN flight : \A v \in gl[i].vals :
           v \in flight[i].vals \/ \E u \in flight[i].vals : Carries(state, t, u, v)
    BY <1>4, <1>5, <1>6
  <2> QED BY <1>1, <1>5, <1>6, <2>1, CovExtend
<1>9. IsState(func, state') /\ Cov(func, state', gl)
  <2>1. CASE func.drains
    <3>1. \A i \in DOMAIN flight : flight[i].unread = {}
      BY <1>1, <1>2, <2>1, DistanceFacts
    <3>2. \A i \in DOMAIN gl : gl[i].unread = {}
      BY <1>6, <3>1 DEF Same
    <3>3. IsState(func, DrainX(t)) /\ Cov(func, DrainX(t), gl)
      BY <1>1, <1>5, <1>6, <1>8, <3>2, CovDrain
    <3> QED BY <1>2, <2>1, <3>3
  <2>2. CASE ~func.drains
    BY <1>2, <1>5, <1>8, <2>2
  <2> QED BY <2>1, <2>2
<1>10. visible' \subseteq Values
  BY <1>1, <1>2, <1>4
<1> QED BY <1>1, <1>2, <1>6, <1>7, <1>9, <1>10, Together

LEMMA StepLeave ==
    ASSUME IInv, NEW v, Leave(v)
    PROVE  IInv'
<1> DEFINE sources == [u \in {v} |-> {}]
           gl == Rebind(flight, sources)
           vis == visible \ {v}
           t == CollapseEscaping(state, vis)
<1>1. /\ WellFormed(func) /\ IsState(func, state) /\ IsFlight(func, flight)
      /\ InScope(flight, visible) /\ Cov(func, state, flight)
      /\ visible \subseteq Values /\ joins \in 0..MaxJoins
  BY Holds
<1>2. /\ v \in visible /\ visible' = vis /\ state' = t /\ flight' = gl /\ func' = func
      /\ joins' = joins
  BY DEF Leave
<1>3. v \in Values /\ DOMAIN sources = {v} /\ sources[v] = {}
  BY <1>1, <1>2
<1> HIDE DEF sources
<1>4. /\ IsFlight(func, gl) /\ Same(flight, gl)
      /\ \A i \in DOMAIN flight :
            gl[i].vals = (flight[i].vals \ DOMAIN sources) \union
               {w \in DOMAIN sources : sources[w] \intersect flight[i].vals # {}}
  BY <1>1, <1>3, RebindFacts
<1> HIDE DEF gl
<1>5. \A i \in DOMAIN flight : gl[i].vals = flight[i].vals \ {v}
  BY <1>3, <1>4
<1>6. InScope(gl, vis)
  BY <1>1, <1>4, <1>5 DEF InScope, Same
<1>7. Cov(func, state, gl)
  BY <1>1, <1>4, <1>5, BelowItself, CovExtend
<1> HIDE DEF vis
<1>8. IsState(func, t)
  BY <1>1, CollapseFacts
<1>9. Cov(func, t, gl)
  BY <1>1, <1>4, <1>6, <1>7, CovCollapse
<1>10. vis \subseteq Values
  BY <1>1 DEF vis
<1> QED BY <1>1, <1>2, <1>4, <1>6, <1>8, <1>9, <1>10, Together

-----------------------------------------------------------------------------
(* The theorems. *)

(* The invariant holds from the empty state on, through every operation,     *)
(* existing wait, completion, read, join, branch and leaving of a block.     *)
THEOREM Invariance == Spec => []IInv
<1>1. Init => IInv
  <2>1. SUFFICES ASSUME Init PROVE IInv
    OBVIOUS
  <2>2. WellFormed(func) /\ func \in Funcs /\ func.flights \in Nat
    BY <2>1, TicketAssumption DEF Init, WellFormed
  <2>3. DOMAIN Empty = {} /\ Empty = [k \in DOMAIN Empty |-> Empty[k]]
    BY DEF Empty
  <2>4. IsState(func, state)
    BY <2>1, <2>3 DEF Init, IsState
  <2>5. DOMAIN flight = {} /\ flight \in [1..0 -> FlightType(func)]
    BY <2>1 DEF Init
  <2>6. \E n \in 0..func.flights : flight \in [1..n -> FlightType(func)]
    BY <2>2, <2>5
  <2>7. TypeOK
    BY <2>1, <2>2, <2>4, <2>6, TicketAssumption DEF Init, TypeOK
  <2>8. IsFlight(func, flight) /\ InScope(flight, visible) /\ Cov(func, state, flight)
    BY <2>5, <2>6 DEF IsFlight, InScope, Cov
  <2> QED BY <2>7, <2>8 DEF IInv
<1>2. IInv /\ [Next]_vars => IInv'
  <2>1. SUFFICES ASSUME IInv, [Next]_vars PROVE IInv'
    OBVIOUS
  <2>2. CASE Next
    <3>1. CASE \E op \in func.ops : Execute(op)
      BY <2>1, <3>1, StepExecute
    <3>2. CASE \E c \in Counters(func.family) \intersect DOMAIN CounterMax, n \in 0..1 :
                  ExistingWait(c, n)
      BY <2>1, <3>2, StepExistingWait
    <3>3. CASE \E i \in DOMAIN flight : Complete(i) \/ Read(i)
      BY <2>1, <3>3, StepComplete, StepRead
    <3>4. CASE \E t \in func.others : JoinOther(t)
      BY <2>1, <3>4, StepJoinOther
    <3>5. CASE \E m \in func.moves : Branch(m)
      BY <2>1, <3>5, StepBranch
    <3>6. CASE \E v \in func.locals : Leave(v)
      BY <2>1, <3>6, StepLeave
    <3> QED BY <2>2, <3>1, <3>2, <3>3, <3>4, <3>5, <3>6 DEF Next
  <2>3. CASE UNCHANGED vars
    BY <2>1, <2>3 DEF vars, IInv, TypeOK
  <2> QED BY <2>1, <2>2, <2>3
<1> QED BY <1>1, <1>2, PTL DEF Spec

(* Positions stay below the largest unsigned value, keys and tokens are      *)
(* those of the function's target, and nothing is in flight beyond the bound *)
(* (WaitToken, bumpCounter).                                                 *)
THEOREM TypeCorrect == Spec => []TypeOK
BY Invariance, PTL DEF IInv

(* The state of the pass covers what is in flight: under every visible value *)
(* and every register still to be read there is a token whose wait position  *)
(* is no more than the number of younger operations on the counter           *)
(* (joinWith, bumpCounter, dropDrained, dropXGroup, collapseEscaping).       *)
THEOREM StateCovers == Spec => []LatticeCovers
<1>1. IInv => LatticeCovers
  <2>1. SUFFICES ASSUME IInv, NEW i \in DOMAIN flight
                 PROVE  /\ \A v \in flight[i].vals :
                              LET k == <<flight[i].ctr, v>>
                              IN  /\ k \in DOMAIN state
                                  /\ flight[i].event \in state[k].events
                                  /\ flight[i].ooo => state[k].ooo
                                  /\ flight[i].writes => state[k].writes
                                  /\ WaitPosition(state, k) <= Cardinality(Later(i))
                        /\ \A r \in flight[i].unread :
                              LET k == <<"x", r, Group(flight[i].event)>>
                              IN  /\ k \in DOMAIN state
                                  /\ WaitPosition(state, k) <=
                                        Cardinality({j \in DOMAIN flight :
                                                       j > i /\ flight[j].unread # {}})
    BY DEF LatticeCovers
  <2> DEFINE e == flight[i]
             d == Cardinality(Behind(flight, i))
             x == Cardinality(Unread(flight, i))
  <2>2. /\ WellFormed(func) /\ IsState(func, state) /\ IsFlight(func, flight)
        /\ Cov(func, state, flight)
    BY <2>1, Holds
  <2>3. Covered(func, state, e, d, x) /\ d \in Nat /\ x \in Nat /\ IsEntry(func, e)
    BY <2>2, DistanceFacts DEF Cov, IsFlight
  <2>4. Later(i) = Behind(flight, i)
        /\ {j \in DOMAIN flight : j > i /\ flight[j].unread # {}} = Unread(flight, i)
    BY DEF Later, Behind, Unread
  <2> HIDE DEF d, x
  <2>5. ASSUME NEW v \in e.vals
        PROVE  /\ <<e.ctr, v>> \in DOMAIN state
               /\ e.event \in state[<<e.ctr, v>>].events
               /\ e.ooo => state[<<e.ctr, v>>].ooo
               /\ e.writes => state[<<e.ctr, v>>].writes
               /\ WaitPosition(state, <<e.ctr, v>>) <= d
    <3>1. Knows(func, state, e, v, d) /\ (e.writes => state[<<e.ctr, v>>].writes)
      BY <2>3 DEF Covered
    <3>2. WaitPosition(state, <<e.ctr, v>>) <= d
      BY <2>2, <2>3, <3>1, CoveredPosition
    <3> QED BY <3>1, <3>2 DEF Knows
  <2>6. ASSUME NEW r \in e.unread
        PROVE  /\ <<"x", r, Group(e.event)>> \in DOMAIN state
               /\ WaitPosition(state, <<"x", r, Group(e.event)>>) <= x
    <3> HIDE DEF e
    <3> QED BY <2>2, <2>3, CoveredSource
  <2> QED BY <2>4, <2>5, <2>6 DEF d, x
<1> QED BY <1>1, Invariance, PTL

(* An operation that the inserted wait lets go reads no value that is still  *)
(* being loaded and follows every write its tokens order it after, on every  *)
(* path (computeRequirement).                                                *)
THEOREM ValuesReady == Spec => []NoEarlyRead
<1>1. IInv => NoEarlyRead
  <2>1. SUFFICES ASSUME IInv, NEW op \in func.ops, ReadsTooEarly(flight, op), Issues(op)
                 PROVE  FALSE
    BY DEF NoEarlyRead
  <2>2. /\ WellFormed(func) /\ IsState(func, state) /\ IsFlight(func, flight)
        /\ Cov(func, state, flight)
    BY <2>1, Holds
  <2>3. WaitDone(flight, Requirement(op, state)) /\ InstructionReady(flight, op)
    BY <2>1 DEF Issues
  <2> QED BY <2>1, <2>2, <2>3, ReadyToRead
<1> QED BY <1>1, Invariance, PTL

(* An operation that the inserted wait lets go defines no register that a    *)
(* value in scope is still to be loaded into and none that an operation in   *)
(* flight has still to read (requireOverlappingRegisterDef, requireExecDef). *)
THEOREM RegistersFree == Spec => []NoClobber
<1>1. IInv => NoClobber
  <2>1. SUFFICES ASSUME IInv, NEW op \in func.ops, Clobbers(op), Issues(op)
                 PROVE  FALSE
    BY DEF NoClobber
  <2>2. /\ WellFormed(func) /\ IsState(func, state) /\ IsFlight(func, flight)
        /\ Cov(func, state, flight) /\ IsOperation(func, op)
    BY <2>1, Holds DEF WellFormed
  <2>3. /\ WaitDone(flight, Requirement(op, state)) /\ InstructionReady(flight, op)
        /\ op.kind \notin {"token", "free"}
    <3>1. DefRegs(op) # {}
      BY <2>1 DEF Clobbers
    <3> QED BY <2>1, <2>2, <3>1 DEF Issues, IsOperation
  <2> DEFINE t == AfterSignal(op, state)
  <2>4. PICK i \in DOMAIN flight :
           ({RegOf[v] : v \in flight[i].vals} \union flight[i].unread)
              \intersect DefRegs(op) # {}
    BY <2>1 DEF Clobbers
  <2>5. IsState(func, t) /\ Cov(func, t, flight)
    BY <2>2, <2>3, SignalFacts, CovSignal
  <2>6. IsEntry(func, flight[i]) /\ flight[i].vals \subseteq Values /\ flight[i].ctr # "x"
    BY <2>2, EntryFacts DEF IsFlight
  <2>7. CASE \E v \in flight[i].vals : RegOf[v] \in DefRegs(op)
    <3>1. PICK v \in flight[i].vals : RegOf[v] \in DefRegs(op)
      BY <2>7
    <3> DEFINE k == <<flight[i].ctr, v>>
    <3>2. v # Unknown
      BY <2>6, LatticeAssumption
    <3>3. k \in DOMAIN t /\ k[2] = v /\ ~IsSource(k)
      <4>1. k \in DOMAIN t
        <5> HIDE DEF t
        <5> QED BY <2>5 DEF Cov, Covered, Knows
      <4> QED BY <2>6, <4>1, PairFacts
    <3>4. k \in NeededKeys(op, t)
      <4> HIDE DEF t, k
      <4> QED BY <3>1, <3>2, <3>3 DEF NeededKeys, Redefines
    <3>5. k \notin NeededKeys(op, t)
      BY <2>2, <2>3, NeededDone
    <3> QED BY <3>4, <3>5
  <2>8. CASE \E r \in flight[i].unread : r \in DefRegs(op)
    <3>1. PICK r \in flight[i].unread : r \in DefRegs(op)
      BY <2>8
    <3> DEFINE k == <<"x", r, Group(flight[i].event)>>
    <3>2. k \in DOMAIN t /\ k[2] = r /\ IsSource(k)
      <4>1. k \in DOMAIN t
        <5> HIDE DEF t
        <5> QED BY <2>5 DEF Cov, Covered
      <4> QED BY <4>1, PairFacts
    <3>3. k \in NeededKeys(op, t)
      <4> HIDE DEF t, k
      <4> QED BY <3>1, <3>2 DEF NeededKeys, Redefines
    <3>4. k \notin NeededKeys(op, t)
      BY <2>2, <2>3, NeededDone
    <3> QED BY <3>3, <3>4
  <2> QED BY <2>4, <2>7, <2>8
<1> QED BY <1>1, Invariance, PTL

(* The VGPRs are given back only when no scratch store is in flight, even    *)
(* where no visible value stands for the store (canDeallocVGPRs).            *)
THEOREM DeallocCorrect == Spec => []DeallocSafe
<1>1. IInv => DeallocSafe
  <2>1. SUFFICES ASSUME IInv, CanDealloc(state), NEW i \in DOMAIN flight,
                        flight[i].event = "ScratchStore"
                 PROVE  FALSE
    BY DEF DeallocSafe
  <2> DEFINE e == flight[i]
  <2>2. WellFormed(func) /\ IsFlight(func, flight) /\ Cov(func, state, flight)
    BY <2>1, Holds
  <2>3. e.ctr \in {"vs", "store"}
    BY <2>1, <2>2, EntryFacts DEF IsFlight
  <2>4. PICK v \in Names(func, e.event) :
           Knows(func, state, e, v, Cardinality(Behind(flight, i)))
    BY <2>1, <2>2 DEF Cov, Covered
  <2> DEFINE k == <<e.ctr, v>>
  <2>5. k \in DOMAIN state /\ "ScratchStore" \in state[k].events /\ k[1] = e.ctr
    BY <2>1, <2>4 DEF Knows
  <2> HIDE DEF k
  <2> QED BY <2>1, <2>3, <2>5 DEF CanDealloc
<1> QED BY <1>1, Invariance, PTL
=============================================================================
