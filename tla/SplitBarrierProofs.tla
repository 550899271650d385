------------------------ MODULE SplitBarrierProofs ------------------------
(***************************************************************************)
(* Proofs about SplitBarrier for every number of waves, every loop body in *)
(* which pairs on one handle do not overlap, and every dword width.        *)
(***************************************************************************)
EXTENDS SplitBarrier, FiniteSetTheorems, TLAPS

(* A wrapped value is determined by the window it is known to lie in: a      *)
(* number that is d above a multiple of m, 0 <= d < m, is d modulo m.        *)
LEMMA ModUnique ==
    ASSUME NEW m \in Nat, m > 0, NEW j \in Int, NEW d \in Int, 0 <= d, d < m
    PROVE  (m * j + d) % m = d
<1> DEFINE x == m * j + d
           e == x \div m
           r == x % m
<1>1. e \in Int /\ r \in Int /\ 0 <= r /\ r < m /\ x = m * e + r
  OBVIOUS
<1>2. m * (j - e) = r - d
  BY <1>1
<1>3. CASE j - e >= 1
  <2>1. m * (j - e) >= m * 1
    BY <1>3, <1>1
  <2> QED BY <2>1, <1>2, <1>1
<1>4. CASE j - e <= -1
  <2>1. m * (j - e) <= m * (-1)
    BY <1>4, <1>1
  <2> QED BY <2>1, <1>2, <1>1
<1>5. CASE j - e = 0
  BY <1>5, <1>2, <1>1
<1> QED BY <1>3, <1>4, <1>5, <1>1

(* Division with remainder, as an existential the provers can instantiate. *)
LEMMA ModDecompose ==
    ASSUME NEW m \in Nat, m > 0, NEW x \in Int
    PROVE  /\ x % m \in Int /\ 0 <= x % m /\ x % m < m
           /\ \E j \in Int : x = m * j + (x % m)
<1>1. x \div m \in Int /\ x = m * (x \div m) + (x % m)
  OBVIOUS
<1> QED BY <1>1

(* Adding a multiple of m changes nothing modulo m. *)
LEMMA ModShift ==
    ASSUME NEW m \in Nat, m > 0, NEW y \in Int, NEW j \in Int
    PROVE  (y + m * j) % m = y % m
<1> DEFINE x == y + m * j
<1>1. PICK i \in Int : y = m * i + (y % m)
  BY ModDecompose
<1>2. x = m * (i + j) + (y % m)
  BY <1>1
<1>3. y % m \in Int /\ 0 <= y % m /\ y % m < m /\ i + j \in Int
  BY ModDecompose
<1>4. (m * (i + j) + (y % m)) % m = y % m
  BY <1>3, ModUnique
<1> QED BY <1>2, <1>4

(* Incrementing a wrapped counter is wrapping the incremented count. *)
LEMMA ModNext ==
    ASSUME NEW m \in Nat, m > 0, NEW x \in Int
    PROVE  ((x % m) + 1) % m = (x + 1) % m
<1>1. PICK j \in Int : x = m * j + (x % m)
  BY ModDecompose
<1>2. x % m \in Int
  BY ModDecompose
<1>3. x + 1 = ((x % m) + 1) + m * j
  BY <1>1, <1>2
<1>4. (((x % m) + 1) + m * j) % m = ((x % m) + 1) % m
  BY <1>2, ModShift
<1> QED BY <1>3, <1>4

(* What the assumptions give: at least one wave, and a dword that holds an   *)
(* even number of whole generations.                                         *)
LEMMA Widths ==
    /\ W \in Nat /\ W >= 1
    /\ Modulus \in Nat /\ Modulus > 0
    /\ \E k \in Nat : k >= 1 /\ Modulus = 2 * (k * W) /\ k * W >= W
                     /\ Modulus \div 2 = k * W
<1>1. W \in Nat /\ W >= 1
  <2>1. W \in Nat
    BY WavesAssumption, FS_CardinalityType DEF W
  <2>2. W # 0
    BY WavesAssumption, FS_EmptySet DEF W
  <2> QED BY <2>1, <2>2
<1>2. Modulus \in Nat /\ \E k \in 1..Modulus : Modulus = 2 * (k * W)
  BY ModulusAssumption
<1>3. PICK k \in 1..Modulus : Modulus = 2 * (k * W)
  BY <1>2
<1>4. k \in Nat /\ k >= 1 /\ k * W \in Nat
  BY <1>1, <1>2, <1>3
<1>5. k * W >= W
  <2> HIDE DEF W
  <2>1. k * W = W + (k - 1) * W
    BY <1>1, <1>4
  <2>2. (k - 1) * W >= 0
    BY <1>1, <1>4
  <2> QED BY <2>1, <2>2, <1>1, <1>4
<1>6. Modulus \div 2 = k * W
  <2> HIDE DEF W
  <2> QED BY <1>3, <1>4
<1>7. Modulus > 0
  <2> HIDE DEF W
  <2> QED BY <1>1, <1>3, <1>4, <1>5
<1> QED BY <1>1, <1>2, <1>3, <1>4, <1>5, <1>6, <1>7

(* materializeWait: a ticket drawn in generation g leads to the end of that  *)
(* generation, also when the sum wraps.                                      *)
LEMMA TargetOfTicket ==
    ASSUME NEW g \in Nat, NEW r \in 0..(W - 1), NEW t,
           t = (g * W + r) % Modulus
    PROVE  Target(t) = ((g + 1) * W) % Modulus
<1> USE Widths
<1>1. PICK k \in Nat : k >= 1 /\ Modulus = 2 * (k * W)
  BY Widths
<1> HIDE DEF W
<1> r \in Int /\ 0 <= r /\ r < W
  OBVIOUS
<1>2. g * W + r \in Int
  OBVIOUS
<1>3. t \in Int /\ 0 <= t /\ t < Modulus
  BY <1>2, ModDecompose
<1>4. PICK e \in Int : g * W + r = Modulus * e + t
  BY <1>2, ModDecompose
<1>5. t = W * (g - 2 * (k * e)) + r
  <2>1. Modulus * e = W * (2 * (k * e))
    BY <1>1
  <2>2. 2 * (k * e) \in Int
    OBVIOUS
  <2>3. W * (g - 2 * (k * e)) = W * g - W * (2 * (k * e))
    BY <2>2
  <2> QED BY <2>1, <2>2, <2>3, <1>3, <1>4
<1>6. t % W = r
  <2>1. g - 2 * (k * e) \in Int
    OBVIOUS
  <2>2. (W * (g - 2 * (k * e)) + r) % W = r
    BY <2>1, ModUnique
  <2> QED BY <2>2, <1>5
<1>7. TicketBase(t) = g * W - Modulus * e
  BY <1>3, <1>4, <1>6 DEF TicketBase
<1>8. TicketBase(t) + W = (g + 1) * W + Modulus * (-e)
  <2>1. (g + 1) * W = g * W + W
    OBVIOUS
  <2>2. Modulus * (-e) = - (Modulus * e)
    OBVIOUS
  <2> QED BY <2>1, <2>2, <1>7
<1>9. ((g + 1) * W + Modulus * (-e)) % Modulus = ((g + 1) * W) % Modulus
  <2>1. (g + 1) * W \in Int /\ -e \in Int
    OBVIOUS
  <2> QED BY <2>1, ModShift
<1> QED BY <1>8, <1>9 DEF Target

(* finishPoll: within a generation before and after the target the wrapped   *)
(* comparison decides exactly whether the generation is complete.            *)
LEMMA PollDecides ==
    ASSUME NEW g \in Nat, NEW t \in (g * W)..((g + 2) * W - 1), NEW v, NEW goal,
           v = t % Modulus, goal = ((g + 1) * W) % Modulus
    PROVE  PollContinues(v, goal) <=> t < (g + 1) * W
<1> USE Widths
<1>1. PICK k \in Nat : k >= 1 /\ Modulus = 2 * (k * W) /\ k * W >= W
                     /\ Modulus \div 2 = k * W
  BY Widths
<1> HIDE DEF W
<1> DEFINE end == (g + 1) * W
           d == t - end
<1>2. /\ g * W \in Int /\ end \in Int /\ end = g * W + W
      /\ (g + 2) * W = g * W + 2 * W /\ (g + 2) * W \in Int /\ k * W \in Int
  OBVIOUS
<1>3. t \in Int /\ d \in Int /\ -W <= d /\ d < W
  BY <1>2
<1>4. PICK i \in Int : t = Modulus * i + v
  BY <1>3, ModDecompose
<1>5. PICK j \in Int : end = Modulus * j + goal
  BY <1>2, ModDecompose
<1>6. v \in Int /\ goal \in Int
  BY <1>2, <1>3, ModDecompose
<1>7. v - goal = Modulus * (j - i) + d
  <2>1. Modulus * (j - i) = Modulus * j - Modulus * i
    OBVIOUS
  <2> QED BY <2>1, <1>4, <1>5, <1>6, <1>2
<1> HIDE DEF d, end
<1>8. CASE d >= 0
  <2>1. (v - goal) % Modulus = d
    <3>1. d < Modulus
      BY <1>1, <1>2, <1>3
    <3>2. (Modulus * (j - i) + d) % Modulus = d
      BY <3>1, <1>3, <1>8, ModUnique
    <3> QED BY <3>2, <1>7
  <2>2. ~PollContinues(v, goal)
    BY <2>1, <1>1, <1>2, <1>3 DEF PollContinues
  <2> QED BY <2>2, <1>8, <1>3, <1>2 DEF d, end
<1>9. CASE d < 0
  <2>1. v - goal = Modulus * (j - i - 1) + (Modulus + d)
    <3>1. Modulus * (j - i - 1) = Modulus * (j - i) - Modulus
      OBVIOUS
    <3> QED BY <3>1, <1>3, <1>7
  <2>2. (v - goal) % Modulus = Modulus + d
    <3>1. Modulus + d \in Int /\ 0 <= Modulus + d /\ Modulus + d < Modulus
      BY <1>1, <1>2, <1>3, <1>9
    <3>2. j - i - 1 \in Int
      OBVIOUS
    <3>3. (Modulus * (j - i - 1) + (Modulus + d)) % Modulus = Modulus + d
      BY <3>1, <3>2, ModUnique
    <3> QED BY <2>1, <3>3
  <2>3. PollContinues(v, goal)
    BY <2>2, <1>1, <1>2, <1>3 DEF PollContinues
  <2> QED BY <2>3, <1>9, <1>3, <1>2 DEF d, end
<1> QED BY <1>8, <1>9, <1>3
(* The same window, seen from both sides of the target. *)
LEMMA PollWindow ==
    ASSUME NEW g \in Nat, NEW t \in (g * W)..((g + 2) * W - 1), NEW v, NEW goal,
           v = t % Modulus, goal = ((g + 1) * W) % Modulus
    PROVE  (v - goal) % Modulus < W \/ (goal - v) % Modulus <= W
<1> USE Widths
<1>1. PICK k \in Nat : Modulus = 2 * (k * W) /\ k * W >= W
  BY Widths
<1> HIDE DEF W
<1> DEFINE end == (g + 1) * W
           d == t - end
<1>2. /\ g * W \in Int /\ end \in Int /\ end = g * W + W
      /\ (g + 2) * W = g * W + 2 * W /\ (g + 2) * W \in Int /\ k * W \in Int
  OBVIOUS
<1>3. t \in Int /\ d \in Int /\ -W <= d /\ d < W
  BY <1>2
<1>4. PICK i \in Int : t = Modulus * i + v
  BY <1>3, ModDecompose
<1>5. PICK j \in Int : end = Modulus * j + goal
  BY <1>2, ModDecompose
<1>6. v \in Int /\ goal \in Int
  BY <1>2, <1>3, ModDecompose
<1>7. /\ v - goal = Modulus * (j - i) + d
      /\ goal - v = Modulus * (i - j) + (-d)
  <2>1. /\ Modulus * (j - i) = Modulus * j - Modulus * i
        /\ Modulus * (i - j) = Modulus * i - Modulus * j
    OBVIOUS
  <2> QED BY <2>1, <1>4, <1>5, <1>6, <1>2
<1>8. W < Modulus
  BY <1>1, <1>2
<1> HIDE DEF d, end
<1>9. CASE d >= 0
  <2>1. (Modulus * (j - i) + d) % Modulus = d
    BY <1>3, <1>8, <1>9, ModUnique
  <2> QED BY <2>1, <1>3, <1>7
<1>10. CASE d < 0
  <2>1. -d \in Int /\ 0 <= -d /\ -d <= W /\ -d < Modulus
    BY <1>3, <1>8, <1>10
  <2>2. (Modulus * (i - j) + (-d)) % Modulus = -d
    BY <2>1, ModUnique
  <2> QED BY <2>1, <2>2, <1>7
<1> QED BY <1>3, <1>9, <1>10
-----------------------------------------------------------------------------
(* Loop bodies *)

(* Every position of the loop body names an operation on a real site. *)
LEMMA BodyFacts ==
    /\ Len(Body) \in Nat /\ Len(Body) >= 1
    /\ \A i \in 1..Len(Body) : /\ Body[i] \in [op : Ops, slot : Slots]
                               /\ Body[i].slot \in Slots
<1> DEFINE R == [op : Ops, slot : Slots]
<1>1. Body \in Seq(R) /\ Len(Body) > 0
  BY BodyAssumption
<1>2. \A r \in R : r.slot \in Slots
  OBVIOUS
<1> HIDE DEF R
<1>3. Len(Body) \in Nat /\ \A i \in 1..Len(Body) : Body[i] \in R
  BY <1>1
<1> QED BY <1>1, <1>2, <1>3 DEF R

(* How the open pairs change over one position of the body. *)
LEMMA OpenStep ==
    ASSUME NEW i \in 1..Len(Body), NEW s \in Slots
    PROVE  OpenBefore(i + 1, s) <=>
              \/ Body[i] = [op |-> "arrive", slot |-> s]
              \/ OpenBefore(i, s) /\ Body[i] # [op |-> "wait", slot |-> s]
<1> DEFINE arr == [op |-> "arrive", slot |-> s]
           wt == [op |-> "wait", slot |-> s]
<1>0. arr # wt
  <2>1. arr.op = "arrive" /\ wt.op = "wait"
    OBVIOUS
  <2> QED BY <2>1
<1> HIDE DEF arr, wt
<1>1. Len(Body) \in Nat
  BY BodyFacts
<1>2. ASSUME OpenBefore(i + 1, s), Body[i] # arr
      PROVE  OpenBefore(i, s) /\ Body[i] # wt
  <2>1. PICK j \in 1..Len(Body) :
           /\ j < i + 1 /\ Body[j] = arr
           /\ \A k \in 1..Len(Body) : j < k /\ k < i + 1 => Body[k] # wt
    BY <1>2 DEF OpenBefore, arr, wt
  <2>2. j < i
    BY <2>1, <1>2, <1>1
  <2> QED BY <2>1, <2>2, <1>1 DEF OpenBefore, arr, wt
<1>3. ASSUME Body[i] = arr PROVE OpenBefore(i + 1, s)
  BY <1>3, <1>1 DEF OpenBefore, arr, wt
<1>4. ASSUME OpenBefore(i, s), Body[i] # wt PROVE OpenBefore(i + 1, s)
  <2>1. PICK j \in 1..Len(Body) :
           /\ j < i /\ Body[j] = arr
           /\ \A k \in 1..Len(Body) : j < k /\ k < i => Body[k] # wt
    BY <1>4 DEF OpenBefore, arr, wt
  <2>2. \A k \in 1..Len(Body) : j < k /\ k < i + 1 => Body[k] # wt
    BY <2>1, <1>4, <1>1
  <2>3. j < i + 1
    BY <2>1, <1>1
  <2> QED BY <2>1, <2>2, <2>3 DEF OpenBefore, arr, wt
<1> QED BY <1>2, <1>3, <1>4, <1>0 DEF arr, wt

(* No pair is open where the loop body starts. *)
LEMMA OpenFirst == \A s \in Slots : ~OpenBefore(1, s)
  BY BodyFacts DEF OpenBefore

-----------------------------------------------------------------------------
(* Every variable keeps its type. *)

(* Kernel entry is well typed, whatever the LDS holds. *)
LEMMA TypeInit == Init => TypeOK
<1> SUFFICES ASSUME Init PROVE TypeOK
  OBVIOUS
<1> 0 \in Dwords /\ 1 \in 1..Len(Body) /\ 0 \in 0..Rounds
  BY Widths, BodyFacts, RoundsAssumption DEF Dwords
<1> QED BY DEF Init, TypeOK, Phases

(* Counting one more event of wave w at site s. *)
LEMMA BumpCount ==
    ASSUME NEW f \in [Waves -> [Slots -> Nat]], NEW w \in Waves, NEW s \in Slots,
           NEW g, g = [f EXCEPT ![w][s] = f[w][s] + 1]
    PROVE  /\ g \in [Waves -> [Slots -> Nat]]
           /\ g[w][s] = f[w][s] + 1
           /\ \A v \in Waves, z \in Slots : v # w \/ z # s => g[v][z] = f[v][z]
<1>1. g \in [Waves -> [Slots -> Nat]]
  OBVIOUS
<1>2. g[w][s] = f[w][s] + 1
  OBVIOUS
<1>3. \A v \in Waves, z \in Slots : v # w \/ z # s => g[v][z] = f[v][z]
  OBVIOUS
<1> QED BY <1>1, <1>2, <1>3

(* Leaving an operation of the body, whichever it is. *)
LEMMA AdvanceType ==
    ASSUME TypeOK, NEW w \in Waves, Advance(w)
    PROVE  /\ pos' \in [Waves -> 1..Len(Body)]
           /\ round' \in [Waves -> Nat]
           /\ phase' \in [Waves -> Phases]
<1> USE BodyFacts DEF TypeOK
<1>1. /\ pos \in [Waves -> 1..Len(Body)] /\ pos[w] \in 1..Len(Body)
      /\ round \in [Waves -> Nat] /\ round[w] \in Nat
      /\ phase \in [Waves -> Phases]
  OBVIOUS
<1> HIDE DEF TypeOK
<1>2. CASE pos[w] < Len(Body)
  <2>1. pos[w] + 1 \in 1..Len(Body) /\ "run" \in Phases
    BY <1>1, <1>2 DEF Phases
  <2> QED BY <1>1, <1>2, <2>1 DEF Advance
<1>3. CASE ~(pos[w] < Len(Body))
  <2>1. /\ (IF round[w] + 1 < Rounds THEN "run" ELSE "done") \in Phases
        /\ round[w] + 1 \in Nat /\ 1 \in 1..Len(Body)
    BY <1>1 DEF Phases
  <2> QED BY <1>1, <1>3, <2>1 DEF Advance
<1> QED BY <1>2, <1>3

(* Every step of a wave or of the memory pipeline keeps the types. *)
LEMMA TypeNext == TypeOK /\ [Next]_vars => TypeOK'
<1> SUFFICES ASSUME TypeOK, [Next]_vars PROVE TypeOK'
  OBVIOUS
<1>0. CASE UNCHANGED vars
  BY <1>0 DEF TypeOK, vars
<1>1. ASSUME NEW w \in Waves, InitStores(w) PROVE TypeOK'
  BY <1>1 DEF TypeOK, InitStores, Phases
<1>2. ASSUME NEW w \in Waves, NEW s \in Slots, PerformZero(w, s) PROVE TypeOK'
  <2>1. 0 \in Dwords
    BY Widths DEF Dwords
  <2> QED BY <1>2, <2>1 DEF TypeOK, PerformZero
<1>3. ASSUME NEW w \in Waves, ReachStartup(w) PROVE TypeOK'
  BY <1>3 DEF TypeOK, ReachStartup, Phases
<1>4. ASSUME NEW w \in Waves, LeaveStartup(w) PROVE TypeOK'
  BY <1>4 DEF TypeOK, LeaveStartup, Phases
<1>5. ASSUME NEW w \in Waves, NEW s \in Slots, Store(w, s) PROVE TypeOK'
  <2>1. Advance(w)
    BY <1>5 DEF Store
  <2>2. <<s, issued[w][s]>> \in Slots \X Nat
    BY DEF TypeOK
  <2> QED BY <1>5, <2>1, <2>2, AdvanceType DEF TypeOK, Store
<1>6. ASSUME NEW w \in Waves, NEW st \in stores[w], PerformStore(w, st)
      PROVE  TypeOK'
  BY <1>6 DEF TypeOK, PerformStore
<1>7. ASSUME NEW w \in Waves, NEW s \in Slots, Arrive(w, s) PROVE TypeOK'
  <2>1. Advance(w)
    BY <1>7 DEF Arrive
  <2>2. issued' \in [Waves -> [Slots -> Nat]]
    BY <1>7, BumpCount DEF TypeOK, Arrive
  <2>3. adding' \in [Waves -> SUBSET Slots]
    BY <1>7 DEF TypeOK, Arrive
  <2> QED BY <1>7, <2>1, <2>2, <2>3, AdvanceType DEF TypeOK, Arrive
<1>8. ASSUME NEW w \in Waves, NEW s \in Slots, PerformAdd(w, s) PROVE TypeOK'
  <2>1. counter[s] \in Int /\ counter[s] \in Dwords
    BY Widths DEF TypeOK, Dwords
  <2>2. (counter[s] + 1) % Modulus \in Dwords
    BY Widths, <2>1, ModDecompose DEF Dwords
  <2>3. arrived' \in [Waves -> [Slots -> Nat]]
    BY <1>8, BumpCount DEF TypeOK, PerformAdd
  <2>4. ticket' \in [Waves -> [Slots -> Dwords]]
    BY <1>8, <2>1 DEF TypeOK, PerformAdd
  <2>5. counter' \in [Slots -> Dwords] /\ adding' \in [Waves -> SUBSET Slots]
    BY <1>8, <2>2 DEF TypeOK, PerformAdd
  <2> QED BY <1>8, <2>3, <2>4, <2>5 DEF TypeOK, PerformAdd
<1>9. ASSUME NEW w \in Waves, NEW s \in Slots, BeginWait(w, s) PROVE TypeOK'
  <2>1. ticket[w][s] \in Int
    BY Widths DEF TypeOK, Dwords
  <2>2. TicketBase(ticket[w][s]) + W \in Int
    <3> HIDE DEF W
    <3> QED BY Widths, <2>1, ModDecompose DEF TicketBase
  <2>3. Target(ticket[w][s]) \in Dwords
    <3> HIDE DEF W, TicketBase
    <3> QED BY Widths, <2>2, ModDecompose DEF Target, Dwords
  <2> QED BY <1>9, <2>3 DEF TypeOK, BeginWait, Phases
<1>10. ASSUME NEW w \in Waves, PollLoad(w) PROVE TypeOK'
  BY <1>10 DEF TypeOK, PollLoad, Phases
<1>11. ASSUME NEW w \in Waves, PerformLoad(w) PROVE TypeOK'
  <2>1. counter[Body[pos[w]].slot] \in Dwords
    BY BodyFacts DEF TypeOK
  <2> QED BY <1>11, <2>1 DEF TypeOK, PerformLoad, Phases
<1>12. ASSUME NEW w \in Waves, PollAgain(w) PROVE TypeOK'
  BY <1>12 DEF TypeOK, PollAgain, Phases
<1>13. ASSUME NEW w \in Waves, EndWait(w) PROVE TypeOK'
  <2>1. Advance(w)
    BY <1>13 DEF EndWait
  <2>2. Body[pos[w]].slot \in Slots
    BY BodyFacts DEF TypeOK
  <2>3. passed' \in [Waves -> [Slots -> Nat]]
    BY <1>13, <2>2, BumpCount DEF TypeOK, EndWait
  <2> QED BY <1>13, <2>1, <2>3, AdvanceType DEF TypeOK, EndWait
<1>14. CASE Finished
  BY <1>14, <1>0 DEF Finished
<1> QED
  BY <1>0, <1>1, <1>2, <1>3, <1>4, <1>5, <1>6, <1>7, <1>8, <1>9, <1>10, <1>11,
     <1>12, <1>13, <1>14 DEF Next, Wave, Memory

(* Registers, LDS dwords and in-flight sets of SplitBarrier always have the  *)
(* types the emitted code gives them; counters stay inside a dword.          *)
THEOREM TypeCorrect == Spec => []TypeOK
  BY TypeInit, TypeNext, PTL DEF Spec

-----------------------------------------------------------------------------
(* Program position and in-flight operations. *)

(* A wave that leaves position pos[w] opens or closes the pairs OpenStep says. *)
LEMMA AdvanceOpen ==
    ASSUME TypeOK, NEW w \in Waves, Advance(w), NEW s \in Slots
    PROVE  /\ OpenBefore(pos'[w], s) <=>
                \/ Body[pos[w]] = [op |-> "arrive", slot |-> s]
                \/ /\ OpenBefore(pos[w], s)
                   /\ Body[pos[w]] # [op |-> "wait", slot |-> s]
           /\ phase'[w] \in {"run", "done"}
           /\ \A v \in Waves : v # w => pos'[v] = pos[v] /\ phase'[v] = phase[v]
<1>1. pos[w] \in 1..Len(Body) /\ Len(Body) \in Nat
  BY BodyFacts DEF TypeOK
<1>2. pos \in [Waves -> 1..Len(Body)] /\ phase \in [Waves -> Phases]
  BY DEF TypeOK
<1>3. /\ phase'[w] \in {"run", "done"}
      /\ \A v \in Waves : v # w => pos'[v] = pos[v] /\ phase'[v] = phase[v]
  BY <1>2 DEF Advance
<1>4. CASE pos[w] < Len(Body)
  <2>1. pos'[w] = pos[w] + 1
    BY <1>2, <1>4 DEF Advance
  <2> QED BY <1>1, <1>3, <2>1, OpenStep
<1>5. CASE ~(pos[w] < Len(Body))
  <2>1. pos'[w] = 1 /\ pos[w] = Len(Body)
    BY <1>1, <1>2, <1>5 DEF Advance
  <2>2. ~OpenBefore(pos[w] + 1, s)
    BY <2>1, BodyAssumption
  <2>3. ~OpenBefore(1, s)
    BY OpenFirst
  <2> QED BY <1>1, <1>3, <2>1, <2>2, <2>3, OpenStep
<1> QED BY <1>4, <1>5

(* At kernel entry nothing is in flight and no pair is open. *)
LEMMA ControlInit == Init => ControlInv
<1> SUFFICES ASSUME Init PROVE ControlInv
  OBVIOUS
<1>1. \A s \in Slots : ~OpenBefore(1, s)
  BY OpenFirst
<1>2. \A w \in Waves : ~Waiting(w)
  BY DEF Init, Waiting
<1> QED BY <1>1, <1>2 DEF Init, ControlInv, PairInv

(* The steps that leave the program position and the histories alone. *)
LEMMA ControlStutter ==
    ASSUME ControlInv, UNCHANGED <<pos, adding, issued, arrived, passed>>,
           \A w \in Waves : Waiting(w)' => Waiting(w),
           \A w \in Waves : stores'[w] \subseteq stores[w]
    PROVE  ControlInv'
  BY DEF ControlInv, PairInv

(* Program position and in-flight operations keep matching the histories. *)
LEMMA ControlNext == TypeOK /\ ControlInv /\ [Next]_vars => ControlInv'
<1> SUFFICES ASSUME TypeOK, ControlInv, [Next]_vars PROVE ControlInv'
  OBVIOUS
<1>0. CASE UNCHANGED vars
  BY <1>0, ControlStutter DEF vars, Waiting
<1>1. ASSUME NEW w \in Waves, InitStores(w) PROVE ControlInv'
  BY <1>1, ControlStutter DEF InitStores, Waiting, TypeOK
<1>2. ASSUME NEW w \in Waves, NEW s \in Slots, PerformZero(w, s)
      PROVE  ControlInv'
  BY <1>2, ControlStutter DEF PerformZero, Waiting
<1>3. ASSUME NEW w \in Waves, ReachStartup(w) PROVE ControlInv'
  BY <1>3, ControlStutter DEF ReachStartup, Waiting, TypeOK
<1>4. ASSUME NEW w \in Waves, LeaveStartup(w) PROVE ControlInv'
  BY <1>4, ControlStutter DEF LeaveStartup, Waiting, TypeOK
<1>5. ASSUME NEW w \in Waves, NEW s \in Slots, Store(w, s) PROVE ControlInv'
  <2>1. Advance(w) /\ Body[pos[w]] = [op |-> "store", slot |-> s]
    BY <1>5 DEF Store, At
  <2>2. UNCHANGED <<adding, issued, arrived, passed>>
    BY <1>5 DEF Store
  <2>3. \A z \in Slots : OpenBefore(pos'[w], z) <=> OpenBefore(pos[w], z)
    <3> SUFFICES ASSUME NEW z \in Slots
                 PROVE  OpenBefore(pos'[w], z) <=> OpenBefore(pos[w], z)
      OBVIOUS
    <3>1. /\ Body[pos[w]] # [op |-> "arrive", slot |-> z]
          /\ Body[pos[w]] # [op |-> "wait", slot |-> z]
      <4>1. Body[pos[w]].op = "store"
        BY <2>1
      <4> QED BY <4>1
    <3> QED BY <2>1, <3>1, AdvanceOpen
  <2>4. \A v \in Waves : /\ v # w => pos'[v] = pos[v] /\ phase'[v] = phase[v]
                        /\ phase'[w] \in {"run", "done"}
    BY <2>1, AdvanceOpen
  <2>5. \A v \in Waves : Waiting(v)' => Waiting(v) /\ pos'[v] = pos[v]
    BY <2>4 DEF Waiting
  <2>6. \A v \in Waves, z \in Slots :
           OpenBefore(pos'[v], z) <=> OpenBefore(pos[v], z)
    BY <2>3, <2>4
  <2>7. \A v \in Waves : \A st \in stores'[v] :
           st \in stores[v] \/ (v = w /\ st = <<s, issued[w][s]>>)
    BY <1>5 DEF Store, TypeOK
  <2>8. \A v \in Waves : \A st \in stores'[v] : st[2] = issued'[v][st[1]]
    BY <2>2, <2>7 DEF ControlInv
  <2>9. \A v \in Waves, z \in Slots : PairInv(v, z)'
    BY <2>2, <2>6 DEF ControlInv, PairInv
  <2> QED BY <2>2, <2>5, <2>8, <2>9 DEF ControlInv
<1>6. ASSUME NEW w \in Waves, NEW st \in stores[w], PerformStore(w, st)
      PROVE  ControlInv'
  BY <1>6, ControlStutter DEF PerformStore, Waiting, TypeOK
<1>7. ASSUME NEW w \in Waves, NEW s \in Slots, Arrive(w, s) PROVE ControlInv'
  <2>1. Advance(w) /\ Body[pos[w]] = [op |-> "arrive", slot |-> s]
    BY <1>7 DEF Arrive, At
  <2>2. /\ UNCHANGED <<stores, arrived, passed>>
        /\ adding' = [adding EXCEPT ![w] = @ \union {s}]
        /\ \A st \in stores[w] : st[1] # s
    BY <1>7 DEF Arrive, Drained
  <2>3. /\ issued'[w][s] = issued[w][s] + 1
        /\ \A v \in Waves, z \in Slots :
              v # w \/ z # s => issued'[v][z] = issued[v][z]
    BY <1>7, BumpCount DEF Arrive, TypeOK
  <2>4. /\ \A v \in Waves : v # w => pos'[v] = pos[v] /\ phase'[v] = phase[v]
        /\ phase'[w] \in {"run", "done"}
    BY <2>1, AdvanceOpen
  <2>5. Body[pos[w]].op = "arrive" /\ Body[pos[w]].slot = s
    BY <2>1
  <2>6. ~OpenBefore(pos[w], s)
    BY <2>5, BodyAssumption DEF TypeOK
  <2>7. OpenBefore(pos'[w], s)
    BY <2>1, AdvanceOpen
  <2>8. \A z \in Slots : z # s =>
           (OpenBefore(pos'[w], z) <=> OpenBefore(pos[w], z))
    <3> SUFFICES ASSUME NEW z \in Slots, z # s
                 PROVE  OpenBefore(pos'[w], z) <=> OpenBefore(pos[w], z)
      OBVIOUS
    <3>1. /\ Body[pos[w]] # [op |-> "arrive", slot |-> z]
          /\ Body[pos[w]] # [op |-> "wait", slot |-> z]
      BY <2>5
    <3> QED BY <2>1, <3>1, AdvanceOpen
  <2>9. s \notin adding[w]
    BY <2>6 DEF ControlInv, PairInv, TypeOK
  <2>10. \A v \in Waves, z \in Slots : PairInv(v, z)'
    <3> SUFFICES ASSUME NEW v \in Waves, NEW z \in Slots PROVE PairInv(v, z)'
      OBVIOUS
    <3>1. PairInv(v, z)
      BY DEF ControlInv
    <3>2. /\ issued[v][z] \in Nat /\ arrived[v][z] \in Nat
          /\ passed[v][z] \in Nat /\ adding \in [Waves -> SUBSET Slots]
      BY DEF TypeOK
    <3>3. CASE v = w /\ z = s
      BY <2>2, <2>3, <2>6, <2>7, <2>9, <3>1, <3>2, <3>3 DEF PairInv
    <3>4. CASE v # w \/ z # s
      <4>1. z \in adding'[v] <=> z \in adding[v]
        BY <2>2, <3>2, <3>4
      <4>2. OpenBefore(pos'[v], z) <=> OpenBefore(pos[v], z)
        BY <2>4, <2>8, <3>4
      <4> QED BY <2>2, <2>3, <3>1, <3>4, <4>1, <4>2 DEF PairInv
    <3> QED BY <3>3, <3>4
  <2>11. \A v \in Waves : Waiting(v)' =>
            Waiting(v) /\ pos'[v] = pos[v] /\ adding'[v] = adding[v]
    BY <2>2, <2>4 DEF Waiting, TypeOK
  <2>12. \A v \in Waves : \A st \in stores'[v] : st[2] = issued'[v][st[1]]
    <3> SUFFICES ASSUME NEW v \in Waves, NEW st \in stores[v]
                 PROVE  st[2] = issued'[v][st[1]]
      BY <2>2
    <3>1. st[1] \in Slots
      BY DEF TypeOK
    <3>2. st[2] = issued[v][st[1]]
      BY DEF ControlInv
    <3>3. v # w \/ st[1] # s
      BY <2>2
    <3> QED BY <2>3, <3>1, <3>2, <3>3
  <2> QED BY <2>10, <2>11, <2>12 DEF ControlInv
<1>8. ASSUME NEW w \in Waves, NEW s \in Slots, PerformAdd(w, s)
      PROVE  ControlInv'
  <2>1. /\ UNCHANGED <<phase, pos, stores, issued, passed>>
        /\ adding' = [adding EXCEPT ![w] = @ \ {s}] /\ s \in adding[w]
    BY <1>8 DEF PerformAdd
  <2>2. /\ arrived'[w][s] = arrived[w][s] + 1
        /\ \A v \in Waves, z \in Slots :
              v # w \/ z # s => arrived'[v][z] = arrived[v][z]
    BY <1>8, BumpCount DEF PerformAdd, TypeOK
  <2>3. \A v \in Waves, z \in Slots : PairInv(v, z)'
    <3> SUFFICES ASSUME NEW v \in Waves, NEW z \in Slots PROVE PairInv(v, z)'
      OBVIOUS
    <3>1. PairInv(v, z)
      BY DEF ControlInv
    <3>2. /\ issued[v][z] \in Nat /\ arrived[v][z] \in Nat
          /\ passed[v][z] \in Nat /\ adding \in [Waves -> SUBSET Slots]
      BY DEF TypeOK
    <3>3. CASE v = w /\ z = s
      BY <2>1, <2>2, <3>1, <3>2, <3>3 DEF PairInv
    <3>4. CASE v # w \/ z # s
      <4>1. z \in adding'[v] <=> z \in adding[v]
        BY <2>1, <3>2, <3>4
      <4> QED BY <2>1, <2>2, <3>1, <3>4, <4>1 DEF PairInv
    <3> QED BY <3>3, <3>4
  <2>4. \A v \in Waves : adding'[v] \subseteq adding[v]
    BY <2>1 DEF TypeOK
  <2> QED BY <2>1, <2>3, <2>4 DEF ControlInv, Waiting
<1>9. ASSUME NEW w \in Waves, NEW s \in Slots, BeginWait(w, s)
      PROVE  ControlInv'
  <2>1. /\ UNCHANGED <<pos, adding, stores, issued, arrived, passed>>
        /\ Body[pos[w]] = [op |-> "wait", slot |-> s] /\ s \notin adding[w]
    BY <1>9 DEF BeginWait, At
  <2>2. Body[pos[w]].op = "wait" /\ Body[pos[w]].slot = s
    BY <2>1
  <2>3. \A v \in Waves : Waiting(v)' => v = w \/ Waiting(v)
    BY <1>9 DEF BeginWait, Waiting, TypeOK
  <2>4. \A v \in Waves, z \in Slots : PairInv(v, z)'
    BY <2>1 DEF ControlInv, PairInv
  <2> QED BY <2>1, <2>2, <2>3, <2>4 DEF ControlInv
<1>10. ASSUME NEW w \in Waves, PollLoad(w) PROVE ControlInv'
  BY <1>10, ControlStutter DEF PollLoad, Waiting, TypeOK
<1>11. ASSUME NEW w \in Waves, PerformLoad(w) PROVE ControlInv'
  BY <1>11, ControlStutter DEF PerformLoad, Waiting, TypeOK
<1>12. ASSUME NEW w \in Waves, PollAgain(w) PROVE ControlInv'
  BY <1>12, ControlStutter DEF PollAgain, Waiting, TypeOK
<1>13. ASSUME NEW w \in Waves, EndWait(w) PROVE ControlInv'
  <2> DEFINE s == Body[pos[w]].slot
  <2>1. /\ Advance(w) /\ Waiting(w)
        /\ UNCHANGED <<adding, stores, issued, arrived>>
    BY <1>13 DEF EndWait, Waiting
  <2>2. s \in Slots /\ Body[pos[w]] = [op |-> "wait", slot |-> s]
    <3>1. Body[pos[w]] \in [op : Ops, slot : Slots]
      BY BodyFacts DEF TypeOK
    <3>2. Body[pos[w]].op = "wait"
      BY <2>1 DEF ControlInv
    <3> QED BY <3>1, <3>2
  <2>3. s \notin adding[w]
    BY <2>1 DEF ControlInv
  <2>4. OpenBefore(pos[w], s)
    <3>1. pos[w] \in 1..Len(Body) /\ Body[pos[w]].op = "wait"
      BY <2>1 DEF TypeOK, ControlInv
    <3> QED BY <3>1, BodyAssumption
  <2>5. passed' = [passed EXCEPT ![w][s] = passed[w][s] + 1]
    BY <1>13 DEF EndWait
  <2> HIDE DEF s
  <2>6. /\ passed'[w][s] = passed[w][s] + 1
        /\ \A v \in Waves, z \in Slots :
              v # w \/ z # s => passed'[v][z] = passed[v][z]
    BY <2>2, <2>5, BumpCount DEF TypeOK
  <2>7. /\ \A v \in Waves : v # w => pos'[v] = pos[v] /\ phase'[v] = phase[v]
        /\ phase'[w] \in {"run", "done"}
    BY <2>1, <2>2, AdvanceOpen
  <2>8. Body[pos[w]].op = "wait" /\ Body[pos[w]].slot = s
    BY <2>2
  <2>9. ~OpenBefore(pos'[w], s)
    <3>1. Body[pos[w]] # [op |-> "arrive", slot |-> s]
      <4>1. "wait" # "arrive"
        OBVIOUS
      <4> QED BY <2>8, <4>1
    <3> QED BY <2>1, <2>2, <3>1, AdvanceOpen
  <2>10. \A z \in Slots : z # s =>
            (OpenBefore(pos'[w], z) <=> OpenBefore(pos[w], z))
    <3> SUFFICES ASSUME NEW z \in Slots, z # s
                 PROVE  OpenBefore(pos'[w], z) <=> OpenBefore(pos[w], z)
      OBVIOUS
    <3>1. /\ Body[pos[w]] # [op |-> "arrive", slot |-> z]
          /\ Body[pos[w]] # [op |-> "wait", slot |-> z]
      BY <2>8
    <3> QED BY <2>1, <3>1, AdvanceOpen
  <2>11. \A v \in Waves, z \in Slots : PairInv(v, z)'
    <3> SUFFICES ASSUME NEW v \in Waves, NEW z \in Slots PROVE PairInv(v, z)'
      OBVIOUS
    <3>1. PairInv(v, z)
      BY DEF ControlInv
    <3>2. /\ issued[v][z] \in Nat /\ arrived[v][z] \in Nat
          /\ passed[v][z] \in Nat
      BY DEF TypeOK
    <3>3. CASE v = w /\ z = s
      BY <2>1, <2>3, <2>4, <2>6, <2>9, <3>1, <3>2, <3>3 DEF PairInv
    <3>4. CASE v # w \/ z # s
      <4>1. OpenBefore(pos'[v], z) <=> OpenBefore(pos[v], z)
        BY <2>7, <2>10, <3>4
      <4> QED BY <2>1, <2>6, <3>1, <3>4, <4>1 DEF PairInv
    <3> QED BY <3>3, <3>4
  <2>12. \A v \in Waves : Waiting(v)' => Waiting(v) /\ pos'[v] = pos[v]
    BY <2>7 DEF Waiting
  <2> QED BY <2>1, <2>11, <2>12 DEF ControlInv
<1>14. CASE Finished
  BY <1>14, <1>0 DEF Finished
<1> QED
  BY <1>0, <1>1, <1>2, <1>3, <1>4, <1>5, <1>6, <1>7, <1>8, <1>9, <1>10, <1>11,
     <1>12, <1>13, <1>14 DEF Next, Wave, Memory

-----------------------------------------------------------------------------
(* Kernel entry *)

(* At kernel entry no zeroing store has been issued. *)
LEMMA EntryInit == Init => EntryInv
  BY DEF Init, EntryInv, Entering, StartupOpen

(* Steps of waves that have left the entry code. *)
LEMMA EntryStutter ==
    ASSUME EntryInv, UNCHANGED zeroing,
           \A v \in Waves :
              \/ phase'[v] = phase[v] /\ pos'[v] = pos[v] /\ issued'[v] = issued[v]
              \/ ~Entering(v) /\ phase'[v] \notin {"entry", "drain", "startup"}
    PROVE  EntryInv'
  BY DEF EntryInv, Entering, StartupOpen

(* Advancing touches the position and phase of one wave only. *)
LEMMA AdvanceLeaves ==
    ASSUME TypeOK, NEW w \in Waves, Advance(w)
    PROVE  /\ phase'[w] \in {"run", "done"}
           /\ \A v \in Waves : v # w => pos'[v] = pos[v] /\ phase'[v] = phase[v]
<1>1. pos \in [Waves -> 1..Len(Body)] /\ phase \in [Waves -> Phases]
  BY DEF TypeOK
<1> QED BY <1>1 DEF Advance

(* The startup barrier separates zeroing from running. *)
LEMMA EntryNext == TypeOK /\ ControlInv /\ EntryInv /\ [Next]_vars => EntryInv'
<1> SUFFICES ASSUME TypeOK, ControlInv, EntryInv, [Next]_vars PROVE EntryInv'
  OBVIOUS
<1>0. CASE UNCHANGED vars
  BY <1>0, EntryStutter DEF vars
<1>1. ASSUME NEW w \in Waves, InitStores(w) PROVE EntryInv'
  BY <1>1 DEF InitStores, EntryInv, Entering, StartupOpen, TypeOK
<1>2. ASSUME NEW w \in Waves, NEW s \in Slots, PerformZero(w, s) PROVE EntryInv'
  BY <1>2 DEF PerformZero, EntryInv, Entering, StartupOpen, TypeOK
<1>3. ASSUME NEW w \in Waves, ReachStartup(w) PROVE EntryInv'
  BY <1>3 DEF ReachStartup, EntryInv, Entering, StartupOpen, TypeOK
<1>4. ASSUME NEW w \in Waves, LeaveStartup(w) PROVE EntryInv'
  <2>1. StartupOpen'
    BY <1>4 DEF LeaveStartup, StartupOpen, TypeOK
  <2> QED BY <1>4, <2>1 DEF LeaveStartup, EntryInv, Entering, StartupOpen, TypeOK
<1>5. ASSUME NEW w \in Waves, NEW s \in Slots, Store(w, s) PROVE EntryInv'
  <2>1. Advance(w) /\ phase[w] = "run" /\ UNCHANGED <<zeroing, issued>>
    BY <1>5 DEF Store, At
  <2> QED BY <2>1, AdvanceLeaves, EntryStutter DEF Entering
<1>6. ASSUME NEW w \in Waves, NEW st \in stores[w], PerformStore(w, st)
      PROVE  EntryInv'
  BY <1>6, EntryStutter DEF PerformStore
<1>7. ASSUME NEW w \in Waves, NEW s \in Slots, Arrive(w, s) PROVE EntryInv'
  <2>1. Advance(w) /\ phase[w] = "run" /\ UNCHANGED zeroing
    BY <1>7 DEF Arrive, At
  <2>2. \A v \in Waves : v # w => issued'[v] = issued[v]
    BY <1>7 DEF Arrive, TypeOK
  <2> QED BY <2>1, <2>2, AdvanceLeaves, EntryStutter DEF Entering
<1>8. ASSUME NEW w \in Waves, NEW s \in Slots, PerformAdd(w, s) PROVE EntryInv'
  BY <1>8, EntryStutter DEF PerformAdd
<1>9. ASSUME NEW w \in Waves, NEW s \in Slots, BeginWait(w, s) PROVE EntryInv'
  BY <1>9, EntryStutter DEF BeginWait, At, Entering, TypeOK
<1>10. ASSUME NEW w \in Waves, PollLoad(w) PROVE EntryInv'
  BY <1>10, EntryStutter DEF PollLoad, Entering, TypeOK
<1>11. ASSUME NEW w \in Waves, PerformLoad(w) PROVE EntryInv'
  BY <1>11, EntryStutter DEF PerformLoad, Entering, TypeOK
<1>12. ASSUME NEW w \in Waves, PollAgain(w) PROVE EntryInv'
  BY <1>12, EntryStutter DEF PollAgain, Entering, TypeOK
<1>13. ASSUME NEW w \in Waves, EndWait(w) PROVE EntryInv'
  <2>1. Advance(w) /\ phase[w] = "check" /\ UNCHANGED <<zeroing, issued>>
    BY <1>13 DEF EndWait
  <2> QED BY <2>1, AdvanceLeaves, EntryStutter DEF Entering
<1>14. CASE Finished
  BY <1>14, <1>0 DEF Finished
<1> QED
  BY <1>0, <1>1, <1>2, <1>3, <1>4, <1>5, <1>6, <1>7, <1>8, <1>9, <1>10, <1>11,
     <1>12, <1>13, <1>14 DEF Next, Wave, Memory

(* Once a wave runs, every dword has been zeroed and stays the barrier's. *)
LEMMA RunningZeroed ==
    ASSUME EntryInv, NEW w \in Waves, ~Entering(w), NEW s \in Slots
    PROVE  Zeroed(s)
  BY DEF EntryInv, StartupOpen, Zeroed, Entering

-----------------------------------------------------------------------------
(* The dword counts arrivals. *)

(* Before any dword is zeroed every wave is a slowest wave. *)
LEMMA CounterInit == Init => CounterInv
<1> SUFFICES ASSUME Init, NEW s \in Slots PROVE \E v \in Waves : Slowest(v, s)
  BY DEF CounterInv
<1>1. PICK v \in Waves : TRUE
  BY WavesAssumption
<1>2. ~Zeroed(s)
  BY DEF Init, Zeroed
<1>3. \A w \in Waves : /\ arrived[w][s] \in {arrived[v][s], arrived[v][s] + 1}
                      /\ passed[w][s] <= arrived[v][s]
  BY <1>1 DEF Init
<1> QED BY <1>1, <1>2, <1>3 DEF Slowest

(* Steps that touch no counter and perform no arrive or wait. *)
LEMMA CounterStutter ==
    ASSUME CounterInv, UNCHANGED <<counter, arrived, passed>>,
           \A s \in Slots : Zeroed(s)' => Zeroed(s)
    PROVE  CounterInv'
  BY DEF CounterInv, Slowest

(* Nobody has arrived while a wave is still in the entry code. *)
LEMMA EntryQuiet ==
    ASSUME TypeOK, ControlInv, EntryInv, NEW w \in Waves,
           phase[w] \in {"entry", "drain"}, NEW v \in Waves, NEW s \in Slots
    PROVE  arrived[v][s] = 0 /\ passed[v][s] = 0
<1>1. ~StartupOpen
  BY DEF StartupOpen
<1>2. Entering(v)
  BY <1>1 DEF EntryInv
<1>3. issued[v][s] = 0
  BY <1>2 DEF EntryInv
<1>4. PairInv(v, s)
  BY DEF ControlInv
<1>5. arrived[v][s] \in Nat /\ passed[v][s] \in Nat
  BY DEF TypeOK
<1> QED BY <1>3, <1>4, <1>5 DEF PairInv

(* The atomic of the wave that is still in the slowest generation: one more  *)
(* wave is ahead, or the generation is complete and the next one begins.     *)
LEMMA Ahead ==
    ASSUME NEW f \in [Waves -> Nat], NEW g \in [Waves -> Nat], NEW L \in Nat,
           NEW w \in Waves, f[w] = L, g[w] = L + 1,
           \A u \in Waves : f[u] \in {L, L + 1},
           \A u \in Waves : u # w => g[u] = f[u],
           NEW A, A = {u \in Waves : f[u] = L + 1},
           NEW B, B = {u \in Waves : g[u] = L + 1}
    PROVE  /\ Cardinality(A) \in Nat /\ Cardinality(A) < W
           /\ Cardinality(B) = Cardinality(A) + 1
           /\ Cardinality(B) = W => B = Waves
<1>1. A \subseteq Waves /\ B = A \union {w} /\ w \notin A /\ B \subseteq Waves
  OBVIOUS
<1>2. IsFiniteSet(A) /\ IsFiniteSet(B)
  BY <1>1, WavesAssumption, FS_Subset
<1>3. Cardinality(A) \in Nat /\ Cardinality(A) <= W
  BY <1>1, WavesAssumption, FS_Subset, FS_CardinalityType DEF W
<1>4. Cardinality(B) = Cardinality(A) + 1
  <2>1. Cardinality(A \union {w}) =
          IF w \in A THEN Cardinality(A) ELSE Cardinality(A) + 1
    BY <1>2, FS_AddElement, Zenon
  <2> QED BY <1>1, <2>1
<1>5. Cardinality(B) <= W /\ (Cardinality(B) = W => B = Waves)
  BY <1>1, WavesAssumption, FS_Subset DEF W
<1> QED BY <1>3, <1>4, <1>5, Widths

(* Site z is out of reach of a step that leaves its arrivals alone. *)
LEMMA SlowestElsewhere ==
    ASSUME NEW v \in Waves, NEW z \in Slots, Slowest(v, z),
           counter'[z] = counter[z], Zeroed(z)' => Zeroed(z),
           \A u \in Waves : arrived'[u][z] = arrived[u][z],
           \A u \in Waves : passed'[u][z] = passed[u][z]
    PROVE  Slowest(v, z)'
<1>1. {u \in Waves : arrived'[u][z] = arrived'[v][z] + 1}
        = {u \in Waves : arrived[u][z] = arrived[v][z] + 1}
  OBVIOUS
<1> QED BY <1>1 DEF Slowest

(* The wave whose atomic is in flight is itself a slowest wave. *)
LEMMA AdderIsSlowest ==
    ASSUME TypeOK, ControlInv, NEW s \in Slots, NEW w \in Waves, s \in adding[w],
           NEW v \in Waves, Slowest(v, s)
    PROVE  arrived[w][s] = arrived[v][s] /\ passed[w][s] = arrived[w][s]
<1>1. PairInv(w, s)
  BY DEF ControlInv
<1>2. /\ arrived[w][s] \in {arrived[v][s], arrived[v][s] + 1}
      /\ passed[w][s] <= arrived[v][s]
  BY DEF Slowest
<1>3. /\ arrived[w][s] \in Nat /\ passed[w][s] \in Nat /\ issued[w][s] \in Nat
      /\ arrived[v][s] \in Nat
  BY DEF TypeOK
<1> QED BY <1>1, <1>2, <1>3 DEF PairInv

(* An atomic in flight means its dword has been zeroed. *)
LEMMA AddIsZeroed ==
    ASSUME TypeOK, ControlInv, EntryInv, NEW s \in Slots, NEW w \in Waves,
           s \in adding[w]
    PROVE  Zeroed(s)
<1>1. PairInv(w, s)
  BY DEF ControlInv
<1>2. arrived[w][s] \in Nat
  BY DEF TypeOK
<1>3. issued[w][s] # 0
  BY <1>1, <1>2 DEF PairInv
<1>4. ~Entering(w)
  BY <1>3 DEF EntryInv
<1> QED BY <1>4, RunningZeroed

(* PerformAdd: the dword keeps counting, across the generation boundary. *)
LEMMA CounterAdd ==
    ASSUME TypeOK, ControlInv, EntryInv, CounterInv,
           NEW w \in Waves, NEW s \in Slots, PerformAdd(w, s)
    PROVE  CounterInv'
<1>1. /\ UNCHANGED <<phase, zeroing, passed>> /\ s \in adding[w]
      /\ counter' = [counter EXCEPT ![s] = (counter[s] + 1) % Modulus]
  BY DEF PerformAdd
<1>2. /\ arrived' \in [Waves -> [Slots -> Nat]]
      /\ arrived'[w][s] = arrived[w][s] + 1
      /\ \A u \in Waves, z \in Slots :
            u # w \/ z # s => arrived'[u][z] = arrived[u][z]
  BY BumpCount DEF PerformAdd, TypeOK
<1>3. \A z \in Slots : Zeroed(z)' <=> Zeroed(z)
  BY <1>1 DEF Zeroed
<1>4. PICK v \in Waves : Slowest(v, s)
  BY DEF CounterInv
<1> DEFINE L == arrived[v][s]
           f == [u \in Waves |-> arrived[u][s]]
           g == [u \in Waves |-> arrived'[u][s]]
           A == {u \in Waves : arrived[u][s] = L + 1}
           B == {u \in Waves : arrived'[u][s] = L + 1}
           n == Cardinality(A)
<1>5. arrived[w][s] = L /\ L \in Nat
  BY <1>1, <1>4, AdderIsSlowest DEF TypeOK
<1>6. \A u \in Waves : /\ arrived[u][s] \in {L, L + 1} /\ passed[u][s] <= L
                      /\ passed[u][s] \in Nat
  BY <1>4 DEF Slowest, TypeOK
<1>7. \A u \in Waves : arrived'[u][s] \in {L, L + 1}
  BY <1>2, <1>5, <1>6
<1>8. n \in Nat /\ n < W /\ Cardinality(B) = n + 1 /\ (n + 1 = W => B = Waves)
  <2>1. f \in [Waves -> Nat] /\ g \in [Waves -> Nat]
    BY <1>2 DEF TypeOK
  <2>2. /\ f[w] = L /\ g[w] = L + 1 /\ \A u \in Waves : f[u] \in {L, L + 1}
        /\ \A u \in Waves : u # w => g[u] = f[u]
    BY <1>2, <1>5, <1>6
  <2>3. A = {u \in Waves : f[u] = L + 1} /\ B = {u \in Waves : g[u] = L + 1}
    OBVIOUS
  <2> HIDE DEF f, g, A, B, L
  <2>4. /\ Cardinality(A) \in Nat /\ Cardinality(A) < W
        /\ Cardinality(B) = Cardinality(A) + 1
        /\ Cardinality(B) = W => B = Waves
    BY <1>5, <2>1, <2>2, <2>3, Ahead
  <2> QED BY <2>4
<1>9. counter'[s] = (L * W + (n + 1)) % Modulus
  <2>1. counter[s] = (L * W + n) % Modulus
    BY <1>1, <1>4, AddIsZeroed DEF Slowest
  <2>2. counter'[s] = (counter[s] + 1) % Modulus
    BY <1>1 DEF TypeOK
  <2>3. L * W + n \in Int /\ L * W \in Int
    BY <1>5, <1>8, Widths
  <2>4. (((L * W + n) % Modulus) + 1) % Modulus = ((L * W + n) + 1) % Modulus
    <3> HIDE DEF L, n, W
    <3> QED BY <2>3, Widths, ModNext
  <2>5. (L * W + n) + 1 = L * W + (n + 1)
    <3> HIDE DEF L, n, W
    <3> QED BY <2>3, <1>8
  <2> QED BY <2>1, <2>2, <2>4, <2>5
<1>10. \E u \in Waves : Slowest(u, s)'
  <2>1. CASE n + 1 = W
    <3>1. \A u \in Waves : arrived'[u][s] = L + 1
      BY <1>8, <2>1
    <3>2. {u \in Waves : arrived'[u][s] = arrived'[w][s] + 1} = {}
      BY <3>1, <1>5
    <3>3. counter'[s] = ((L + 1) * W + 0) % Modulus
      <4>1. L * W + W = (L + 1) * W + 0
        <5> HIDE DEF L, W
        <5> QED BY <1>5, Widths
      <4> QED BY <4>1, <1>9, <2>1
    <3>4. \A u \in Waves : passed'[u][s] <= L + 1
      BY <1>1, <1>5, <1>6
    <3>5. Slowest(w, s)'
      <4> HIDE DEF L
      <4> QED BY <3>1, <3>2, <3>3, <3>4, FS_EmptySet DEF Slowest
    <3> QED BY <3>5
  <2>2. CASE n + 1 # W
    <3>1. B # Waves
      BY <1>8, <2>2 DEF W
    <3>2. PICK x \in Waves : arrived'[x][s] = L
      BY <3>1, <1>7
    <3>3. {u \in Waves : arrived'[u][s] = arrived'[x][s] + 1} = B
      BY <3>2
    <3>4. Slowest(x, s)'
      <4>1. \A u \in Waves : passed'[u][s] <= L
        BY <1>1, <1>6
      <4> HIDE DEF L, B
      <4> QED BY <3>2, <3>3, <4>1, <1>7, <1>8, <1>9 DEF Slowest
    <3> QED BY <3>4
  <2> QED BY <2>1, <2>2
<1>11. ASSUME NEW z \in Slots, z # s PROVE \E u \in Waves : Slowest(u, z)'
  <2>1. PICK u \in Waves : Slowest(u, z)
    BY DEF CounterInv
  <2>2. counter'[z] = counter[z]
    BY <1>1, <1>11 DEF TypeOK
  <2> QED BY <1>1, <1>2, <1>3, <1>11, <2>1, <2>2, SlowestElsewhere
<1> QED BY <1>10, <1>11 DEF CounterInv

(* finishPoll lets a wave go only when the generation is complete. *)
LEMMA ReleaseIsSafe ==
    ASSUME TypeOK, PollInv, NEW w \in Waves, phase[w] = "check",
           ~PollContinues(seen[w], target[w]), NEW v \in Waves
    PROVE  LET s == Body[pos[w]].slot IN arrived[v][s] >= passed[w][s] + 1
<1> DEFINE s == Body[pos[w]].slot
           g == passed[w][s]
<1>1. s \in Slots /\ g \in Nat
  BY BodyFacts DEF TypeOK
<1>2. PollsFor(w, s, g)
  BY DEF PollInv, Waiting
<1> HIDE DEF s, g
<1>3. PICK t \in (g * W)..((g + 2) * W - 1) :
         /\ seen[w] = t % Modulus
         /\ t >= (g + 1) * W => \A u \in Waves : arrived[u][s] >= g + 1
  BY <1>2 DEF PollsFor
<1>4. target[w] = ((g + 1) * W) % Modulus
  BY <1>2 DEF PollsFor
<1>5. ~(t < (g + 1) * W)
  BY <1>1, <1>3, <1>4, PollDecides
<1>6. t >= (g + 1) * W
  <2>1. (g + 1) * W \in Int /\ g * W \in Int /\ (g + 2) * W \in Int
    <3> HIDE DEF W
    <3> QED BY <1>1, Widths
  <2> QED BY <2>1, <1>5
<1>7. arrived[v][s] >= g + 1
  BY <1>3, <1>6
<1> QED BY <1>7 DEF s, g

(* The dword counts the arrivals through every step. *)
LEMMA CounterNext ==
    TypeOK /\ ControlInv /\ EntryInv /\ CounterInv /\ PollInv /\ [Next]_vars
       => CounterInv'
<1> SUFFICES ASSUME TypeOK, ControlInv, EntryInv, CounterInv, PollInv, [Next]_vars
             PROVE  CounterInv'
  OBVIOUS
<1>0. CASE UNCHANGED vars
  BY <1>0, CounterStutter DEF vars, Zeroed
<1>1. ASSUME NEW w \in Waves, InitStores(w) PROVE CounterInv'
  BY <1>1, CounterStutter DEF InitStores, Zeroed, TypeOK
<1>2. ASSUME NEW w \in Waves, NEW s \in Slots, PerformZero(w, s)
      PROVE  CounterInv'
  <2>1. /\ UNCHANGED <<phase, arrived, passed>> /\ s \in zeroing[w]
        /\ counter' = [counter EXCEPT ![s] = 0]
        /\ zeroing' = [zeroing EXCEPT ![w] = @ \ {s}]
    BY <1>2 DEF PerformZero
  <2>2. phase[w] = "drain"
    BY <2>1 DEF EntryInv
  <2>3. \A u \in Waves : arrived[u][s] = 0 /\ passed[u][s] = 0
    BY <2>2, EntryQuiet
  <2>4. Slowest(w, s)'
    <3>1. {u \in Waves : arrived'[u][s] = arrived'[w][s] + 1} = {}
      BY <2>1, <2>3
    <3>2. counter'[s] = 0
      BY <2>1 DEF TypeOK
    <3>3. (0 * W + 0) % Modulus = 0
      BY Widths
    <3>4. arrived'[w][s] = 0
      BY <2>1, <2>3
    <3>5. Cardinality({u \in Waves : arrived'[u][s] = arrived'[w][s] + 1}) = 0
      BY <3>1, FS_EmptySet
    <3>6. \A u \in Waves : arrived'[u][s] = 0 /\ passed'[u][s] = 0
      BY <2>1, <2>3
    <3> HIDE DEF W
    <3> QED BY <3>2, <3>3, <3>4, <3>5, <3>6 DEF Slowest
  <2>5. ASSUME NEW z \in Slots, z # s PROVE \E u \in Waves : Slowest(u, z)'
    <3>1. PICK u \in Waves : Slowest(u, z)
      BY DEF CounterInv
    <3>2. counter'[z] = counter[z] /\ (Zeroed(z)' => Zeroed(z))
      BY <2>1, <2>5 DEF TypeOK, Zeroed
    <3> QED BY <2>1, <3>1, <3>2, SlowestElsewhere
  <2> QED BY <2>4, <2>5 DEF CounterInv
<1>3. ASSUME NEW w \in Waves, ReachStartup(w) PROVE CounterInv'
  BY <1>3, CounterStutter DEF ReachStartup, Zeroed, TypeOK
<1>4. ASSUME NEW w \in Waves, LeaveStartup(w) PROVE CounterInv'
  BY <1>4, CounterStutter DEF LeaveStartup, Zeroed, TypeOK
<1>5. ASSUME NEW w \in Waves, NEW s \in Slots, Store(w, s) PROVE CounterInv'
  <2>1. Advance(w) /\ phase[w] = "run"
        /\ UNCHANGED <<counter, zeroing, arrived, passed>>
    BY <1>5 DEF Store, At
  <2> QED BY <2>1, AdvanceLeaves, CounterStutter DEF Zeroed
<1>6. ASSUME NEW w \in Waves, NEW st \in stores[w], PerformStore(w, st)
      PROVE  CounterInv'
  BY <1>6, CounterStutter DEF PerformStore, Zeroed
<1>7. ASSUME NEW w \in Waves, NEW s \in Slots, Arrive(w, s) PROVE CounterInv'
  <2>1. Advance(w) /\ phase[w] = "run"
        /\ UNCHANGED <<counter, zeroing, arrived, passed>>
    BY <1>7 DEF Arrive, At
  <2> QED BY <2>1, AdvanceLeaves, CounterStutter DEF Zeroed
<1>8. ASSUME NEW w \in Waves, NEW s \in Slots, PerformAdd(w, s)
      PROVE  CounterInv'
  BY <1>8, CounterAdd
<1>9. ASSUME NEW w \in Waves, NEW s \in Slots, BeginWait(w, s)
      PROVE  CounterInv'
  BY <1>9, CounterStutter DEF BeginWait, At, Zeroed, TypeOK
<1>10. ASSUME NEW w \in Waves, PollLoad(w) PROVE CounterInv'
  BY <1>10, CounterStutter DEF PollLoad, Zeroed, TypeOK
<1>11. ASSUME NEW w \in Waves, PerformLoad(w) PROVE CounterInv'
  BY <1>11, CounterStutter DEF PerformLoad, Zeroed, TypeOK
<1>12. ASSUME NEW w \in Waves, PollAgain(w) PROVE CounterInv'
  BY <1>12, CounterStutter DEF PollAgain, Zeroed, TypeOK
<1>13. ASSUME NEW w \in Waves, EndWait(w) PROVE CounterInv'
  <2> DEFINE s == Body[pos[w]].slot
  <2>1. /\ Advance(w) /\ phase[w] = "check" /\ ~PollContinues(seen[w], target[w])
        /\ UNCHANGED <<counter, zeroing, arrived>>
    BY <1>13 DEF EndWait
  <2>2. s \in Slots
    BY BodyFacts DEF TypeOK
  <2>3. \A v \in Waves : arrived[v][s] >= passed[w][s] + 1
    BY <2>1, ReleaseIsSafe
  <2>4. passed' = [passed EXCEPT ![w][s] = passed[w][s] + 1]
    BY <1>13 DEF EndWait
  <2> HIDE DEF s
  <2>5. /\ passed'[w][s] = passed[w][s] + 1
        /\ \A v \in Waves, z \in Slots :
              v # w \/ z # s => passed'[v][z] = passed[v][z]
    BY <2>2, <2>4, BumpCount DEF TypeOK
  <2>6. \A z \in Slots : Zeroed(z)' => Zeroed(z)
    BY <2>1, AdvanceLeaves DEF Zeroed
  <2>7. ASSUME NEW z \in Slots, NEW v \in Waves, Slowest(v, z)
        PROVE  Slowest(v, z)'
    <3>1. \A u \in Waves : passed'[u][z] <= arrived[v][z]
      <4> SUFFICES ASSUME NEW u \in Waves PROVE passed'[u][z] <= arrived[v][z]
        OBVIOUS
      <4>1. CASE u = w /\ z = s
        <5>1. passed[w][s] \in Nat /\ arrived[v][s] \in Nat
          BY <2>2 DEF TypeOK
        <5> QED BY <2>3, <2>5, <4>1, <5>1
      <4>2. CASE u # w \/ z # s
        BY <2>5, <2>7, <4>2 DEF Slowest
      <4> QED BY <4>1, <4>2
    <3> QED BY <2>1, <2>6, <2>7, <3>1 DEF Slowest
  <2> QED BY <2>7 DEF CounterInv
<1>14. CASE Finished
  BY <1>14, <1>0 DEF Finished
<1> QED
  BY <1>0, <1>1, <1>2, <1>3, <1>4, <1>5, <1>6, <1>7, <1>8, <1>9, <1>10, <1>11,
     <1>12, <1>13, <1>14 DEF Next, Wave, Memory

-----------------------------------------------------------------------------
(* Tickets *)

(* No ticket has been drawn at kernel entry. *)
LEMMA TicketInit == Init => TicketInv
  BY DEF Init, TicketInv

(* The ticket an atomic returns lies in the generation it arrives in. *)
LEMMA TicketNext ==
    TypeOK /\ ControlInv /\ EntryInv /\ CounterInv /\ TicketInv /\ [Next]_vars
       => TicketInv'
<1> SUFFICES ASSUME TypeOK, ControlInv, EntryInv, CounterInv, TicketInv,
                    [Next]_vars
             PROVE  TicketInv'
  OBVIOUS
<1>1. CASE UNCHANGED <<arrived, passed, ticket>>
  BY <1>1 DEF TicketInv
<1>2. ASSUME NEW w \in Waves, NEW s \in Slots, PerformAdd(w, s)
      PROVE  TicketInv'
  <2>1. /\ ticket' = [ticket EXCEPT ![w][s] = counter[s]] /\ UNCHANGED passed
        /\ s \in adding[w]
    BY <1>2 DEF PerformAdd
  <2>2. \A u \in Waves, z \in Slots :
           u # w \/ z # s => arrived'[u][z] = arrived[u][z]
    BY <1>2, BumpCount DEF PerformAdd, TypeOK
  <2>3. /\ ticket'[w][s] = counter[s]
        /\ \A u \in Waves, z \in Slots :
              u # w \/ z # s => ticket'[u][z] = ticket[u][z]
    BY <2>1 DEF TypeOK
  <2>4. PICK v \in Waves : Slowest(v, s)
    BY DEF CounterInv
  <2>5. /\ arrived[w][s] = arrived[v][s] /\ passed[w][s] = arrived[v][s]
    BY <2>1, <2>4, AdderIsSlowest
  <2> DEFINE A == {u \in Waves : arrived[u][s] = arrived[v][s] + 1}
             n == Cardinality(A)
  <2>6. n \in Nat /\ n < W
    <3>1. A \subseteq Waves /\ w \notin A
      BY <2>5 DEF TypeOK
    <3> HIDE DEF A
    <3>2. IsFiniteSet(A) /\ n <= W /\ (n = W => A = Waves) /\ n \in Nat
      BY <3>1, WavesAssumption, FS_Subset, FS_CardinalityType DEF W
    <3>3. n # W
      BY <3>1, <3>2
    <3> HIDE DEF n
    <3> QED BY <3>2, <3>3, Widths
  <2>7. counter[s] = (passed[w][s] * W + n) % Modulus
    BY <2>1, <2>4, <2>5, AddIsZeroed DEF Slowest
  <2>8. n \in 0..(W - 1)
    BY <2>6, Widths
  <2> HIDE DEF n
  <2> QED BY <2>1, <2>2, <2>3, <2>7, <2>8 DEF TicketInv
<1>3. ASSUME NEW w \in Waves, EndWait(w) PROVE TicketInv'
  <2> DEFINE s == Body[pos[w]].slot
  <2>1. UNCHANGED <<arrived, ticket>> /\ Waiting(w)
    BY <1>3 DEF EndWait, Waiting
  <2>2. s \in Slots /\ s \notin adding[w]
    BY <2>1, BodyFacts DEF TypeOK, ControlInv
  <2>3. passed' = [passed EXCEPT ![w][s] = passed[w][s] + 1]
    BY <1>3 DEF EndWait
  <2> HIDE DEF s
  <2>4. /\ passed'[w][s] = passed[w][s] + 1
        /\ \A v \in Waves, z \in Slots :
              v # w \/ z # s => passed'[v][z] = passed[v][z]
    BY <2>2, <2>3, BumpCount DEF TypeOK
  <2>5. arrived'[w][s] # passed'[w][s] + 1
    <3>1. PairInv(w, s)
      BY <2>2 DEF ControlInv
    <3>2. arrived[w][s] \in Nat /\ passed[w][s] \in Nat /\ issued[w][s] \in Nat
      BY <2>2 DEF TypeOK
    <3> QED BY <2>1, <2>2, <2>4, <3>1, <3>2 DEF PairInv
  <2> QED BY <2>1, <2>4, <2>5 DEF TicketInv
<1> QED
  BY <1>1, <1>2, <1>3 DEF Next, Wave, Memory, vars, Finished, InitStores,
     PerformZero, ReachStartup, LeaveStartup, Store, PerformStore, Arrive,
     BeginWait, PollLoad, PerformLoad, PollAgain

-----------------------------------------------------------------------------
(* The poll loop *)

(* Nobody waits at kernel entry. *)
LEMMA PollInit == Init => PollInv
  BY DEF Init, PollInv, Waiting

(* A wave that stays in its wait keeps what it knows: arrivals only grow. *)
LEMMA PollKept ==
    ASSUME TypeOK, NEW w \in Waves, NEW s \in Slots, NEW g \in Nat,
           PollsFor(w, s, g),
           target'[w] = target[w],
           phase'[w] = "check" => phase[w] = "check" /\ seen'[w] = seen[w],
           \A v \in Waves : arrived'[v][s] \in Nat /\ arrived'[v][s] >= arrived[v][s]
    PROVE  PollsFor(w, s, g)'
<1>1. target'[w] = ((g + 1) * W) % Modulus
  BY DEF PollsFor
<1>2. ASSUME phase'[w] = "check"
      PROVE  \E t \in (g * W)..((g + 2) * W - 1) :
                /\ seen'[w] = t % Modulus
                /\ t >= (g + 1) * W => \A v \in Waves : arrived'[v][s] >= g + 1
  <2>1. PICK t \in (g * W)..((g + 2) * W - 1) :
           /\ seen[w] = t % Modulus
           /\ t >= (g + 1) * W => \A v \in Waves : arrived[v][s] >= g + 1
    BY <1>2 DEF PollsFor
  <2>2. ASSUME t >= (g + 1) * W, NEW v \in Waves PROVE arrived'[v][s] >= g + 1
    <3>1. arrived[v][s] >= g + 1
      BY <2>1, <2>2
    <3>2. arrived[v][s] \in Nat
      BY DEF TypeOK
    <3> QED BY <3>1, <3>2
  <2> QED BY <1>2, <2>1, <2>2
<1> QED BY <1>1, <1>2 DEF PollsFor

(* Arrivals never shrink. *)
LEMMA ArrivalsGrow ==
    ASSUME TypeOK, [Next]_vars, NEW v \in Waves, NEW z \in Slots
    PROVE  arrived'[v][z] \in Nat /\ arrived'[v][z] >= arrived[v][z]
<1>0. arrived[v][z] \in Nat /\ arrived \in [Waves -> [Slots -> Nat]]
  BY DEF TypeOK
<1>1. CASE UNCHANGED arrived
  BY <1>0, <1>1
<1>2. ASSUME NEW w \in Waves, NEW s \in Slots, PerformAdd(w, s)
      PROVE  arrived'[v][z] \in Nat /\ arrived'[v][z] >= arrived[v][z]
  <2>1. arrived' = [arrived EXCEPT ![w][s] = arrived[w][s] + 1]
    BY <1>2 DEF PerformAdd
  <2>2. arrived'[v][z] = arrived[v][z] \/ arrived'[v][z] = arrived[v][z] + 1
    BY <1>0, <2>1, BumpCount
  <2> QED BY <1>0, <2>2
<1> QED
  BY <1>1, <1>2 DEF Next, Wave, Memory, vars, Finished, InitStores,
     PerformZero, ReachStartup, LeaveStartup, Store, PerformStore, Arrive,
     BeginWait, PollLoad, PerformLoad, PollAgain, EndWait

(* Steps that move no wave into a wait and give no waiting wave a new value. *)
LEMMA PollStutter ==
    ASSUME TypeOK, PollInv, [Next]_vars,
           \A v \in Waves : Waiting(v)' =>
              /\ Waiting(v) /\ pos'[v] = pos[v] /\ target'[v] = target[v]
              /\ passed'[v] = passed[v]
              /\ phase'[v] = "check" => phase[v] = "check" /\ seen'[v] = seen[v]
    PROVE  PollInv'
<1> SUFFICES ASSUME NEW w \in Waves, Waiting(w)'
             PROVE  PollsFor(w, Body[pos[w]].slot, passed[w][Body[pos[w]].slot])'
  BY DEF PollInv
<1> DEFINE s == Body[pos[w]].slot
           g == passed[w][s]
<1>1. s \in Slots /\ g \in Nat
  BY BodyFacts DEF TypeOK
<1>2. PollsFor(w, s, g)
  BY DEF PollInv
<1>3. \A v \in Waves : arrived'[v][s] \in Nat /\ arrived'[v][s] >= arrived[v][s]
  <2> HIDE DEF s
  <2> QED BY <1>1, ArrivalsGrow
<1>4. Body[pos'[w]].slot = s /\ passed'[w][s] = g
  OBVIOUS
<1>5. PollsFor(w, s, g)'
  <2> HIDE DEF s, g
  <2>1. /\ target'[w] = target[w]
        /\ phase'[w] = "check" => phase[w] = "check" /\ seen'[w] = seen[w]
    OBVIOUS
  <2>2. s' = s /\ g' = g
    BY <1>4 DEF s, g
  <2> QED BY <1>1, <1>2, <1>3, <2>1, <2>2, PollKept
<1> QED BY <1>4, <1>5

(* A waiting wave's target and last poll stay tied to its generation. *)
LEMMA PollNext == IInv /\ [Next]_vars => PollInv'
<1> SUFFICES ASSUME IInv, [Next]_vars PROVE PollInv'
  OBVIOUS
<1>a. TypeOK /\ ControlInv /\ EntryInv /\ CounterInv /\ TicketInv /\ PollInv
  BY DEF IInv
<1>0. CASE UNCHANGED vars
  BY <1>0, <1>a, PollStutter DEF vars, Waiting
<1>1. ASSUME NEW w \in Waves, InitStores(w) PROVE PollInv'
  BY <1>1, <1>a, PollStutter DEF InitStores, Waiting, TypeOK
<1>2. ASSUME NEW w \in Waves, NEW s \in Slots, PerformZero(w, s) PROVE PollInv'
  BY <1>2, <1>a, PollStutter DEF PerformZero, Waiting
<1>3. ASSUME NEW w \in Waves, ReachStartup(w) PROVE PollInv'
  BY <1>3, <1>a, PollStutter DEF ReachStartup, Waiting, TypeOK
<1>4. ASSUME NEW w \in Waves, LeaveStartup(w) PROVE PollInv'
  BY <1>4, <1>a, PollStutter DEF LeaveStartup, Waiting, TypeOK
<1>5. ASSUME NEW w \in Waves, NEW s \in Slots, Store(w, s) PROVE PollInv'
  <2>1. Advance(w) /\ UNCHANGED <<target, seen, passed>>
    BY <1>5 DEF Store
  <2> QED BY <2>1, <1>a, AdvanceLeaves, PollStutter DEF Waiting
<1>6. ASSUME NEW w \in Waves, NEW st \in stores[w], PerformStore(w, st)
      PROVE  PollInv'
  BY <1>6, <1>a, PollStutter DEF PerformStore, Waiting
<1>7. ASSUME NEW w \in Waves, NEW s \in Slots, Arrive(w, s) PROVE PollInv'
  <2>1. Advance(w) /\ UNCHANGED <<target, seen, passed>>
    BY <1>7 DEF Arrive
  <2> QED BY <2>1, <1>a, AdvanceLeaves, PollStutter DEF Waiting
<1>8. ASSUME NEW w \in Waves, NEW s \in Slots, PerformAdd(w, s) PROVE PollInv'
  BY <1>8, <1>a, PollStutter DEF PerformAdd, Waiting
<1>9. ASSUME NEW w \in Waves, NEW s \in Slots, BeginWait(w, s) PROVE PollInv'
  <2>1. /\ phase[w] = "run" /\ Body[pos[w]] = [op |-> "wait", slot |-> s]
        /\ s \notin adding[w] /\ UNCHANGED <<pos, seen, arrived, passed>>
        /\ target' = [target EXCEPT ![w] = Target(ticket[w][s])]
        /\ phase' = [phase EXCEPT ![w] = "poll"]
    BY <1>9 DEF BeginWait, At
  <2>2. Body[pos[w]].op = "wait" /\ Body[pos[w]].slot = s
    BY <2>1
  <2>3. OpenBefore(pos[w], s)
    <3>1. pos[w] \in 1..Len(Body)
      BY <1>a DEF TypeOK
    <3> QED BY <2>2, <3>1, BodyAssumption
  <2>4. arrived[w][s] = passed[w][s] + 1 /\ passed[w][s] \in Nat
    <3>1. PairInv(w, s)
      BY <1>a DEF ControlInv
    <3>2. arrived[w][s] \in Nat /\ passed[w][s] \in Nat /\ issued[w][s] \in Nat
      BY <1>a DEF TypeOK
    <3> QED BY <2>1, <2>3, <3>1, <3>2 DEF PairInv
  <2>5. PICK r \in 0..(W - 1) : ticket[w][s] = (passed[w][s] * W + r) % Modulus
    BY <1>a, <2>4 DEF TicketInv
  <2>6. Target(ticket[w][s]) = ((passed[w][s] + 1) * W) % Modulus
    BY <2>4, <2>5, TargetOfTicket
  <2>7. target'[w] = ((passed[w][s] + 1) * W) % Modulus /\ phase'[w] = "poll"
    BY <2>1, <2>6, <1>a DEF TypeOK
  <2>8. PollsFor(w, s, passed[w][s])'
    BY <2>1, <2>7 DEF PollsFor
  <2>9. ASSUME NEW v \in Waves, v # w, Waiting(v)'
        PROVE  PollsFor(v, Body[pos[v]].slot, passed[v][Body[pos[v]].slot])'
    <3>1. phase'[v] = phase[v] /\ target'[v] = target[v]
      BY <2>1, <2>9, <1>a DEF TypeOK
    <3>2. Waiting(v)
      BY <2>9, <3>1 DEF Waiting
    <3>3. PollsFor(v, Body[pos[v]].slot, passed[v][Body[pos[v]].slot])
      BY <3>2, <1>a DEF PollInv
    <3> QED BY <2>1, <3>1, <3>3 DEF PollsFor
  <2>10. Body[pos'[w]].slot = s /\ passed'[w][s] = passed[w][s]
    BY <2>1, <2>2
  <2> QED BY <2>8, <2>9, <2>10 DEF PollInv
<1>10. ASSUME NEW w \in Waves, PollLoad(w) PROVE PollInv'
  BY <1>10, <1>a, PollStutter DEF PollLoad, Waiting, TypeOK
<1>11. ASSUME NEW w \in Waves, PerformLoad(w) PROVE PollInv'
  <2> DEFINE s == Body[pos[w]].slot
             g == passed[w][s]
  <2>1. /\ phase[w] = "loading" /\ UNCHANGED <<pos, target, arrived, passed>>
        /\ seen' = [seen EXCEPT ![w] = counter[s]]
        /\ phase' = [phase EXCEPT ![w] = "check"]
    BY <1>11 DEF PerformLoad
  <2>2. s \in Slots /\ g \in Nat /\ Waiting(w) /\ ~Entering(w)
    BY <2>1, <1>a, BodyFacts DEF TypeOK, Waiting, Entering
  <2>3. PollsFor(w, s, g)
    BY <2>2, <1>a DEF PollInv
  <2>4. s \notin adding[w] /\ OpenBefore(pos[w], s)
    <3>1. pos[w] \in 1..Len(Body) /\ Body[pos[w]].op = "wait" /\ s \notin adding[w]
      BY <2>2, <1>a DEF TypeOK, ControlInv
    <3> QED BY <3>1, BodyAssumption
  <2> HIDE DEF s, g
  <2>5. arrived[w][s] = g + 1
    <3>1. PairInv(w, s)
      BY <2>2, <1>a DEF ControlInv
    <3>2. arrived[w][s] \in Nat /\ passed[w][s] \in Nat /\ issued[w][s] \in Nat
      BY <2>2, <1>a DEF TypeOK
    <3> QED BY <2>4, <3>1, <3>2 DEF PairInv, g
  <2>6. PICK v \in Waves : Slowest(v, s)
    BY <2>2, <1>a DEF CounterInv
  <2> DEFINE L == arrived[v][s]
             A == {u \in Waves : arrived[u][s] = L + 1}
             n == Cardinality(A)
             t == L * W + n
  <2>7. /\ L \in Nat /\ \A u \in Waves : arrived[u][s] \in {L, L + 1}
        /\ counter[s] = t % Modulus
    BY <2>2, <2>6, <1>a, RunningZeroed DEF Slowest, TypeOK
  <2>8. L = g \/ L = g + 1
    BY <2>2, <2>5, <2>7
  <2>9. n \in Nat /\ n < W
    <3>1. A \subseteq Waves /\ v \notin A
      BY <2>7
    <3> HIDE DEF A
    <3>2. IsFiniteSet(A) /\ n <= W /\ (n = W => A = Waves) /\ n \in Nat
      BY <3>1, WavesAssumption, FS_Subset, FS_CardinalityType DEF W
    <3>3. n # W
      BY <3>1, <3>2
    <3> HIDE DEF n
    <3> QED BY <3>2, <3>3, Widths
  <2> HIDE DEF L, n
  <2>10. t \in (g * W)..((g + 2) * W - 1) /\ (t >= (g + 1) * W => L = g + 1)
    <3> HIDE DEF W
    <3>1. /\ g * W \in Int /\ (g + 1) * W = g * W + W
          /\ (g + 2) * W = g * W + 2 * W /\ W \in Nat
      BY <2>2, Widths
    <3>2. CASE L = g
      BY <3>1, <3>2, <2>9
    <3>3. CASE L = g + 1
      BY <3>1, <3>3, <2>9
    <3> QED BY <3>2, <3>3, <2>8
  <2>11. t >= (g + 1) * W => \A u \in Waves : arrived[u][s] >= g + 1
    BY <2>2, <2>7, <2>10
  <2>12. seen'[w] = t % Modulus
    BY <2>1, <2>2, <2>7, <1>a DEF TypeOK
  <2> HIDE DEF t
  <2>13. \E x \in (g * W)..((g + 2) * W - 1) :
            /\ seen'[w] = x % Modulus
            /\ x >= (g + 1) * W => \A u \in Waves : arrived'[u][s] >= g + 1
    BY <2>1, <2>10, <2>11, <2>12
  <2>14. target'[w] = ((g + 1) * W) % Modulus
    BY <2>1, <2>3 DEF PollsFor
  <2>15. s' = s /\ g' = g
    BY <2>1 DEF s, g
  <2>16. PollsFor(w, s, g)'
    BY <2>13, <2>14, <2>15 DEF PollsFor
  <2>17. ASSUME NEW u \in Waves, u # w, Waiting(u)'
         PROVE  PollsFor(u, Body[pos[u]].slot, passed[u][Body[pos[u]].slot])'
    <3>1. phase'[u] = phase[u] /\ seen'[u] = seen[u]
      BY <2>1, <2>17, <1>a DEF TypeOK
    <3>2. Waiting(u)
      BY <2>17, <3>1 DEF Waiting
    <3>3. PollsFor(u, Body[pos[u]].slot, passed[u][Body[pos[u]].slot])
      BY <3>2, <1>a DEF PollInv
    <3> QED BY <2>1, <3>1, <3>3 DEF PollsFor
  <2> QED BY <2>16, <2>17 DEF PollInv, s, g
<1>12. ASSUME NEW w \in Waves, PollAgain(w) PROVE PollInv'
  BY <1>12, <1>a, PollStutter DEF PollAgain, Waiting, TypeOK
<1>13. ASSUME NEW w \in Waves, EndWait(w) PROVE PollInv'
  <2>1. Advance(w) /\ UNCHANGED <<target, seen>>
    BY <1>13 DEF EndWait
  <2>2. \A v \in Waves : v # w => passed'[v] = passed[v]
    BY <1>13, <1>a DEF EndWait, TypeOK
  <2> QED BY <2>1, <2>2, <1>a, AdvanceLeaves, PollStutter DEF Waiting
<1>14. CASE Finished
  BY <1>14, <1>0 DEF Finished
<1> QED
  BY <1>0, <1>1, <1>2, <1>3, <1>4, <1>5, <1>6, <1>7, <1>8, <1>9, <1>10, <1>11,
     <1>12, <1>13, <1>14 DEF Next, Wave, Memory

-----------------------------------------------------------------------------
(* The theorems *)

(* The inductive invariant holds in every reachable state. *)
THEOREM Invariance == Spec => []IInv
<1>1. Init => IInv
  BY TypeInit, ControlInit, EntryInit, CounterInit, TicketInit, PollInit DEF IInv
<1>2. IInv /\ [Next]_vars => IInv'
  BY TypeNext, ControlNext, EntryNext, CounterNext, TicketNext, PollNext DEF IInv
<1> QED BY <1>1, <1>2, PTL DEF Spec

(* The invariant rules out an early release. *)
LEMMA InvImpliesSafe == IInv => NoEarlyRelease
<1> SUFFICES ASSUME IInv, NEW w \in Waves, NEW v \in Waves, NEW s \in Slots
             PROVE  passed[w][s] <= arrived[v][s]
  BY DEF NoEarlyRelease
<1>1. PICK u \in Waves : Slowest(u, s)
  BY DEF IInv, CounterInv
<1>2. /\ passed[w][s] <= arrived[u][s]
      /\ arrived[v][s] \in {arrived[u][s], arrived[u][s] + 1}
  BY <1>1 DEF Slowest
<1>3. passed[w][s] \in Nat /\ arrived[u][s] \in Nat
  BY DEF IInv, TypeOK
<1> QED BY <1>2, <1>3

(* No wave completes its n-th barrier_wait on a site before the n-th arrive  *)
(* of every wave on it, for any wave count, loop body and counter width:     *)
(* materializeWait's target and finishPoll's comparison survive wrap-around. *)
THEOREM Safety == Spec => []NoEarlyRelease
  BY Invariance, InvImpliesSafe, PTL

(* Stores whose tokens an arrive consumes are performed before any wave gets *)
(* through the matching wait (materializeArrive and the ticket waits).       *)
THEOREM Published == Spec => []Publication
<1>1. IInv => Publication
  <2> SUFFICES ASSUME IInv, NEW w \in Waves, NEW v \in Waves, NEW st \in stores[v]
               PROVE  passed[w][st[1]] <= st[2]
    BY DEF Publication
  <2>1. st[1] \in Slots
    BY DEF IInv, TypeOK
  <2>2. st[2] = issued[v][st[1]] /\ PairInv(v, st[1])
    BY <2>1 DEF IInv, ControlInv
  <2>3. passed[w][st[1]] <= arrived[v][st[1]]
    BY <2>1, InvImpliesSafe DEF NoEarlyRelease
  <2>4. /\ passed[w][st[1]] \in Nat /\ arrived[v][st[1]] \in Nat
        /\ issued[v][st[1]] \in Nat
    BY <2>1 DEF IInv, TypeOK
  <2> QED BY <2>2, <2>3, <2>4 DEF PairInv
<1> QED BY Invariance, <1>1, PTL

(* emitBarrierInitStores cannot erase an arrival: the startup barrier keeps  *)
(* every zeroing store ahead of every arrive.                                *)
THEOREM EntryOrdered == Spec => []NoLateZero
<1>1. IInv => NoLateZero
  <2> SUFFICES ASSUME IInv, NEW w \in Waves, NEW v \in Waves, NEW s \in Slots,
                      issued[w][s] > 0
               PROVE  zeroing[v] = {}
    BY DEF NoLateZero
  <2>1. ~Entering(w)
    <3>1. issued[w][s] # 0
      BY DEF IInv, TypeOK
    <3> QED BY <3>1 DEF IInv, EntryInv
  <2> QED BY <2>1 DEF IInv, EntryInv, StartupOpen
<1> QED BY Invariance, <1>1, PTL

(* finishPoll's subtraction never leaves the window in which its sign tells  *)
(* the two sides apart: what a wave polls is at most a generation away from  *)
(* its target, however far the waves have drifted and the dword has wrapped. *)
THEOREM InWindow == Spec => []PollInWindow
<1>1. IInv => PollInWindow
  <2> SUFFICES ASSUME IInv, NEW w \in Waves, phase[w] = "check"
               PROVE  \/ (seen[w] - target[w]) % Modulus < W
                      \/ (target[w] - seen[w]) % Modulus <= W
    BY DEF PollInWindow
  <2> DEFINE s == Body[pos[w]].slot
             g == passed[w][s]
  <2>1. PollsFor(w, s, g)
    BY DEF IInv, PollInv, Waiting
  <2>2. g \in Nat
    <3>1. s \in Slots
      BY BodyFacts DEF IInv, TypeOK
    <3> QED BY <3>1 DEF IInv, TypeOK
  <2>3. PICK t \in (g * W)..((g + 2) * W - 1) : seen[w] = t % Modulus
    BY <2>1 DEF PollsFor
  <2>4. target[w] = ((g + 1) * W) % Modulus
    BY <2>1 DEF PollsFor
  <2> HIDE DEF g
  <2> QED BY <2>2, <2>3, <2>4, PollWindow
<1> QED BY Invariance, <1>1, PTL

(* The emulation implements the abstract workgroup barrier: performing the   *)
(* atomic is arriving, falling out of the poll loop is leaving, and every    *)
(* other step of the emitted code is invisible.                              *)
THEOREM Refinement == Spec => ImplementsBarrier
<1>1. Init => Abstract!Init
  BY DEF Init, Abstract!Init
<1>2. IInv /\ [Next]_vars => [Abstract!Next]_(Abstract!vars)
  <2> SUFFICES ASSUME IInv, [Next]_vars
               PROVE  [Abstract!Next]_(Abstract!vars)
    OBVIOUS
  <2>1. CASE UNCHANGED <<arrived, passed>>
    BY <2>1 DEF Abstract!vars
  <2>2. ASSUME NEW w \in Waves, NEW s \in Slots, PerformAdd(w, s)
        PROVE  Abstract!Next
    <3>1. PICK v \in Waves : Slowest(v, s)
      BY DEF IInv, CounterInv
    <3>2. s \in adding[w] /\ UNCHANGED passed
          /\ arrived' = [arrived EXCEPT ![w][s] = arrived[w][s] + 1]
      BY <2>2 DEF PerformAdd
    <3>3. arrived[w][s] = passed[w][s]
      BY <3>1, <3>2, AdderIsSlowest DEF IInv
    <3>4. Abstract!Arrive(w, s)
      BY <3>2, <3>3 DEF Abstract!Arrive
    <3> QED BY <3>4 DEF Abstract!Next
  <2>3. ASSUME NEW w \in Waves, EndWait(w) PROVE Abstract!Next
    <3> DEFINE s == Body[pos[w]].slot
    <3>1. /\ phase[w] = "check" /\ ~PollContinues(seen[w], target[w])
          /\ UNCHANGED arrived
          /\ passed' = [passed EXCEPT ![w][s] = passed[w][s] + 1]
      BY <2>3 DEF EndWait
    <3>2. s \in Slots
      BY BodyFacts DEF IInv, TypeOK
    <3>3. \A v \in Waves : arrived[v][s] >= passed[w][s] + 1
      BY <3>1, ReleaseIsSafe DEF IInv
    <3> HIDE DEF s
    <3>4. \A v \in Waves : arrived[v][s] > passed[w][s]
      <4>1. passed[w][s] \in Nat /\ \A v \in Waves : arrived[v][s] \in Nat
        BY <3>2 DEF IInv, TypeOK
      <4> QED BY <3>3, <4>1
    <3>5. Abstract!Leave(w, s)
      BY <3>1, <3>4 DEF Abstract!Leave
    <3> QED BY <3>2, <3>5 DEF Abstract!Next
  <2> QED
    BY <2>1, <2>2, <2>3 DEF Next, Wave, Memory, vars, Finished, InitStores,
       PerformZero, ReachStartup, LeaveStartup, Store, PerformStore, Arrive,
       BeginWait, PollLoad, PerformLoad, PollAgain
<1> QED BY <1>1, <1>2, Invariance, PTL DEF Spec, ImplementsBarrier, Abstract!Spec

=============================================================================
