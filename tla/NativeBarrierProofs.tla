------------------------- MODULE NativeBarrierProofs -------------------------
(***************************************************************************)
(* The native barrier path is correct for any number of waves and          *)
(* workgroups, every body the pass accepts and any number of iterations.   *)
(***************************************************************************)
EXTENDS NativeBarrier, FiniteSetTheorems, TLAPS

-----------------------------------------------------------------------------
(* The accepted bodies. *)

Kind(i) == body[i].kind

(* Nothing may stand between an arrive and its wait, and every operation is  *)
(* a conflict: the wait follows its arrive.                                  *)
BodyInv ==
    /\ body \in Bodies /\ rounds \in 1..MaxRounds
    /\ \A i \in DOMAIN body :
        /\ Kind(i) = "arrive" => /\ i + 1 \in DOMAIN body /\ Kind(i + 1) = "wait"
                                 /\ body[i + 1].id = body[i].id
        /\ Kind(i) = "wait" => /\ i - 1 \in DOMAIN body /\ Kind(i - 1) = "arrive"
                               /\ body[i - 1].id = body[i].id
        /\ Kind(i) = "cluster" => rounds = 1

LEMMA Bodied ==
    ASSUME NEW b \in Bodies
    PROVE  /\ Len(b) \in Nat \ {0} /\ DOMAIN b = 1..Len(b)
           /\ \A i \in DOMAIN b : b[i] \in Operations
           /\ \A i, j \in DOMAIN b : b[i] = b[j] => i = j
<1>1. PICK n \in 1..MaxLen : b \in [1..n -> Operations]
  BY DEF Bodies
<1>2. n \in Nat \ {0}
  BY NativeAssumption
<1>3. b \in Seq(Operations)
  BY <1>1, <1>2
<1>4. Len(b) \in Nat /\ DOMAIN b = 1..Len(b)
  BY <1>3
<1>5. Len(b) = n
  BY <1>1, <1>2, <1>4
<1>6. \A i, j \in DOMAIN b : b[i] = b[j] => i = j
  BY DEF Bodies
<1> QED BY <1>1, <1>2, <1>4, <1>5, <1>6

LEMMA OperationFacts ==
    ASSUME NEW o \in Operations
    PROVE  /\ o.kind \in {"arrive", "wait", "full", "call", "cluster"} /\ o.id \in Ids
           /\ o.kind = "cluster" <=> o.id \in ClusterIds
           /\ \A q \in Operations :
                /\ o.id = q.id /\ o.kind # "wait" /\ q.kind # "wait" => o = q
                /\ o.id = q.id /\ o.kind # "arrive" /\ q.kind # "arrive" => o = q
BY DEF Operations, Ids, ClusterIds

LEMMA BodyFacts ==
    ASSUME BodyInv
    PROVE  /\ Len(body) \in Nat \ {0} /\ DOMAIN body = 1..Len(body)
           /\ rounds \in Nat \ {0} /\ rounds <= MaxRounds
           /\ \A i \in DOMAIN body :
                /\ Kind(i) \in {"arrive", "wait", "full", "call", "cluster"}
                /\ body[i].id \in Ids
                /\ Kind(i) = "cluster" <=> body[i].id \in ClusterIds
           /\ \A i, j \in DOMAIN body : body[i].id = body[j].id =>
                /\ Kind(i) # "wait" /\ Kind(j) # "wait" => i = j
                /\ Kind(i) # "arrive" /\ Kind(j) # "arrive" => i = j
<1>1. body \in Bodies /\ rounds \in 1..MaxRounds
  BY DEF BodyInv
<1>2. /\ Len(body) \in Nat \ {0} /\ DOMAIN body = 1..Len(body)
      /\ \A i \in DOMAIN body : body[i] \in Operations
      /\ \A i, j \in DOMAIN body : body[i] = body[j] => i = j
  BY <1>1, Bodied
<1>3. rounds \in Nat \ {0} /\ rounds <= MaxRounds
  BY <1>1, NativeAssumption
<1> QED BY <1>2, <1>3, OperationFacts DEF Kind

LEMMA AcceptedBody ==
    ASSUME NEW b \in Bodies, NEW looped, Accepts(b, looped), NEW i \in DOMAIN b
    PROVE  /\ b[i].kind = "arrive" => /\ i + 1 \in DOMAIN b /\ b[i + 1].kind = "wait"
                                      /\ b[i + 1].id = b[i].id
           /\ b[i].kind = "wait" => /\ i - 1 \in DOMAIN b /\ b[i - 1].kind = "arrive"
                                    /\ b[i - 1].id = b[i].id
           /\ b[i].kind = "cluster" => ~looped
<1>0. /\ Len(b) \in Nat \ {0} /\ DOMAIN b = 1..Len(b)
      /\ \A j \in DOMAIN b : b[j] \in Operations
  BY Bodied
<1>1. \A j \in DOMAIN b : Conflicts(b[j])
  BY <1>0, OperationFacts DEF Conflicts
<1>2. ASSUME NEW a \in DOMAIN b, NEW c \in DOMAIN b, a < c, b[a].kind = "arrive",
             b[c].kind = "wait", b[a].id = b[c].id
      PROVE  c = a + 1
  <2>1. \A k \in (a + 1)..(c - 1) : ~Conflicts(b[k])
    BY <1>2 DEF Accepts, PairsDisjoint
  <2>2. (a + 1)..(c - 1) \subseteq DOMAIN b /\ a \in Nat /\ c \in Nat
    BY <1>0
  <2>3. a + 1 \notin (a + 1)..(c - 1)
    BY <1>1, <2>1, <2>2
  <2> QED BY <1>2, <2>2, <2>3
<1>3. ASSUME b[i].kind = "arrive"
      PROVE  /\ i + 1 \in DOMAIN b /\ b[i + 1].kind = "wait" /\ b[i + 1].id = b[i].id
  <2>1. PICK c \in DOMAIN b : i < c /\ b[c] = [kind |-> "wait", id |-> b[i].id]
    BY <1>3 DEF Accepts, PairsMatch
  <2>2. c = i + 1
    BY <1>2, <1>3, <2>1
  <2> QED BY <2>1, <2>2
<1>4. ASSUME b[i].kind = "wait"
      PROVE  /\ i - 1 \in DOMAIN b /\ b[i - 1].kind = "arrive" /\ b[i - 1].id = b[i].id
  <2>1. PICK a \in DOMAIN b : a < i /\ b[a] = [kind |-> "arrive", id |-> b[i].id]
    BY <1>4 DEF Accepts, PairsMatch
  <2>2. i = a + 1
    BY <1>2, <1>4, <2>1
  <2>3. i - 1 = a
    BY <1>0, <2>2
  <2> QED BY <2>1, <2>3
<1> QED BY <1>3, <1>4 DEF Accepts, ClusterPlacement

-----------------------------------------------------------------------------
(* Where the waves are. *)

PlaceInv ==
    /\ at \in [Waves -> 1..(Len(body) + 1)] /\ step \in [Waves -> 1..4]
    /\ round \in [Waves -> 0..MaxRounds] /\ first \in [Waves -> BOOLEAN]
    /\ ready \in [Waves -> BOOLEAN] /\ cready \in [Waves -> BOOLEAN]
    /\ \A w \in Waves :
        /\ Running(w) => step[w] <= Len(Code(Kind(at[w]))) /\ round[w] < rounds
        /\ ~Running(w) => round[w] = rounds /\ step[w] = 1
        /\ ready[w] => Running(w) /\ Instr(w) = "wait"

Base == BodyInv /\ PlaceInv

LEMMA CodeFacts ==
    /\ Code("arrive") = <<"signal">> /\ Code("wait") = <<"wait">>
    /\ Code("full") = <<"signal", "wait">> /\ Code("call") = <<"signal", "wait">>
    /\ Code("cluster") = <<"isfirst", "wait", "elected", "cwait">>
BY DEF Code

(* The instruction at each place. *)
LEMMA Instructions ==
    ASSUME BodyInv, NEW i \in DOMAIN body, NEW k \in 1..4
    PROVE  /\ Kind(i) = "arrive" => Len(Code(Kind(i))) = 1 /\ Code(Kind(i))[1] = "signal"
           /\ Kind(i) = "wait" => Len(Code(Kind(i))) = 1 /\ Code(Kind(i))[1] = "wait"
           /\ Kind(i) \in {"full", "call"} =>
                /\ Len(Code(Kind(i))) = 2
                /\ Code(Kind(i))[1] = "signal" /\ Code(Kind(i))[2] = "wait"
           /\ Kind(i) = "cluster" =>
                /\ Len(Code(Kind(i))) = 4
                /\ Code(Kind(i))[1] = "isfirst" /\ Code(Kind(i))[2] = "wait"
                /\ Code(Kind(i))[3] = "elected" /\ Code(Kind(i))[4] = "cwait"
<1>1. CASE Kind(i) = "arrive"
  BY <1>1, CodeFacts
<1>2. CASE Kind(i) = "wait"
  BY <1>2, CodeFacts
<1>3. CASE Kind(i) = "full"
  BY <1>3, CodeFacts
<1>4. CASE Kind(i) = "call"
  BY <1>4, CodeFacts
<1>5. CASE Kind(i) = "cluster"
  BY <1>5, CodeFacts
<1> QED BY <1>1, <1>2, <1>3, <1>4, <1>5, BodyFacts

(* The same for the instruction a wave is at. *)
LEMMA AtInstruction ==
    ASSUME Base, NEW w \in Waves, Running(w)
    PROVE  /\ at[w] \in DOMAIN body /\ step[w] \in 1..4
           /\ \/ Kind(at[w]) = "arrive" /\ step[w] = 1 /\ Instr(w) = "signal" /\ Last(w)
              \/ Kind(at[w]) = "wait" /\ step[w] = 1 /\ Instr(w) = "wait" /\ Last(w)
              \/ /\ Kind(at[w]) \in {"full", "call"}
                 /\ \/ step[w] = 1 /\ Instr(w) = "signal" /\ ~Last(w)
                    \/ step[w] = 2 /\ Instr(w) = "wait" /\ Last(w)
              \/ /\ Kind(at[w]) = "cluster"
                 /\ \/ step[w] = 1 /\ Instr(w) = "isfirst" /\ ~Last(w)
                    \/ step[w] = 2 /\ Instr(w) = "wait" /\ ~Last(w)
                    \/ step[w] = 3 /\ Instr(w) = "elected" /\ ~Last(w)
                    \/ step[w] = 4 /\ Instr(w) = "cwait" /\ Last(w)
<1>1. at[w] \in DOMAIN body /\ step[w] \in 1..4 /\ step[w] <= Len(Code(Kind(at[w])))
  BY BodyFacts DEF Base, PlaceInv, Running
<1>2. Instr(w) = Code(Kind(at[w]))[step[w]] /\ (Last(w) <=> step[w] = Len(Code(Kind(at[w]))))
  BY DEF Instr, Last, Kind
<1>3. CASE Kind(at[w]) = "arrive"
  <2>1. Len(Code(Kind(at[w]))) = 1 /\ Code(Kind(at[w]))[1] = "signal"
    BY <1>1, <1>3, Instructions DEF Base
  <2>2. step[w] = 1
    BY <1>1, <2>1
  <2> QED BY <1>1, <1>2, <1>3, <2>1, <2>2
<1>4. CASE Kind(at[w]) = "wait"
  <2>1. Len(Code(Kind(at[w]))) = 1 /\ Code(Kind(at[w]))[1] = "wait"
    BY <1>1, <1>4, Instructions DEF Base
  <2>2. step[w] = 1
    BY <1>1, <2>1
  <2> QED BY <1>1, <1>2, <1>4, <2>1, <2>2
<1>5. CASE Kind(at[w]) \in {"full", "call"}
  <2>1. /\ Len(Code(Kind(at[w]))) = 2
        /\ Code(Kind(at[w]))[1] = "signal" /\ Code(Kind(at[w]))[2] = "wait"
    BY <1>1, <1>5, Instructions DEF Base
  <2>2. step[w] = 1 \/ step[w] = 2
    BY <1>1, <2>1
  <2> QED BY <1>1, <1>2, <1>5, <2>1, <2>2
<1>6. CASE Kind(at[w]) = "cluster"
  <2>1. /\ Len(Code(Kind(at[w]))) = 4
        /\ Code(Kind(at[w]))[1] = "isfirst" /\ Code(Kind(at[w]))[2] = "wait"
        /\ Code(Kind(at[w]))[3] = "elected" /\ Code(Kind(at[w]))[4] = "cwait"
    BY <1>1, <1>6, Instructions DEF Base
  <2>2. step[w] = 1 \/ step[w] = 2 \/ step[w] = 3 \/ step[w] = 4
    BY <1>1, <2>1
  <2>3. CASE step[w] = 1
    BY <1>1, <1>2, <1>6, <2>1, <2>3
  <2>4. CASE step[w] = 2
    BY <1>1, <1>2, <1>6, <2>1, <2>4
  <2>5. CASE step[w] = 3
    BY <1>1, <1>2, <1>6, <2>1, <2>5
  <2>6. CASE step[w] = 4
    BY <1>1, <1>2, <1>6, <2>1, <2>6
  <2> QED BY <2>2, <2>3, <2>4, <2>5, <2>6
<1> QED BY <1>1, <1>3, <1>4, <1>5, <1>6, BodyFacts DEF Base

-----------------------------------------------------------------------------
(* How the waves move. *)

(* The operation after operation i of iteration r. *)
After(r, i) ==
    IF i < Len(body) THEN <<r, i + 1>>
    ELSE IF r + 1 < rounds THEN <<r + 1, 1>> ELSE <<r + 1, Len(body) + 1>>

LEMMA Moves ==
    ASSUME Base, NEW w \in Waves, Wave(w)
    PROVE  /\ Running(w) /\ body' = body /\ rounds' = rounds
           /\ at' \in [Waves -> 1..(Len(body) + 1)] /\ step' \in [Waves -> 1..4]
           /\ round' \in [Waves -> 0..MaxRounds]
           /\ \A u \in Waves : u # w =>
                /\ at'[u] = at[u] /\ step'[u] = step[u] /\ round'[u] = round[u]
                /\ (Running(u)' <=> Running(u)) /\ Instr(u)' = Instr(u)
           /\ ~Last(w) => /\ step'[w] = step[w] + 1 /\ at'[w] = at[w]
                          /\ round'[w] = round[w] /\ Running(w)'
           /\ Last(w) => step'[w] = 1 /\ <<round'[w], at'[w]>> = After(round[w], at[w])
<1>0. /\ Len(body) \in Nat \ {0} /\ DOMAIN body = 1..Len(body)
      /\ rounds \in Nat \ {0} /\ rounds <= MaxRounds /\ MaxRounds \in Nat
  BY BodyFacts, NativeAssumption DEF Base
<1>1. Running(w) /\ NextInstr(w)
  BY DEF Wave, Signal, SignalIsFirst, Wait, Elected, ClusterWait
<1>2. body' = body /\ rounds' = rounds
  BY <1>1 DEF NextInstr
<1>3. /\ at \in [Waves -> 1..(Len(body) + 1)] /\ step \in [Waves -> 1..4]
      /\ round \in [Waves -> 0..MaxRounds] /\ at[w] \in 1..Len(body) /\ round[w] < rounds
  BY <1>0, <1>1 DEF Base, PlaceInv, Running
<1>4. CASE ~Last(w)
  <2>1. step' = [step EXCEPT ![w] = @ + 1] /\ at' = at /\ round' = round
    BY <1>1, <1>4 DEF NextInstr
  <2>2. step[w] + 1 \in 1..4
    <3>1. step[w] \in 1..4 /\ step[w] # 4
      BY <1>1, <1>4, AtInstruction
    <3> QED BY <3>1
  <2>3. /\ step' \in [Waves -> 1..4] /\ step'[w] = step[w] + 1
        /\ \A u \in Waves : u # w => step'[u] = step[u]
    BY <1>3, <2>1, <2>2
  <2>4. \A u \in Waves : Running(u)' <=> Running(u)
    BY <1>2, <2>1 DEF Running
  <2>5. \A u \in Waves : u # w => Instr(u)' = Instr(u)
    BY <1>2, <2>1, <2>3 DEF Instr
  <2> QED BY <1>1, <1>2, <1>3, <1>4, <2>1, <2>3, <2>4, <2>5
<1>5. CASE Last(w)
  <2>1. /\ step' = [step EXCEPT ![w] = 1]
        /\ at' = [at EXCEPT ![w] = IF at[w] = Len(body) /\ round[w] + 1 < rounds
                                     THEN 1 ELSE @ + 1]
        /\ round' = [round EXCEPT ![w] = IF at[w] = Len(body) THEN @ + 1 ELSE @]
    BY <1>1, <1>5 DEF NextInstr
  <2>2. /\ step'[w] = 1 /\ at'[w] \in 1..(Len(body) + 1) /\ round'[w] \in 0..MaxRounds
        /\ at'[w] = IF at[w] = Len(body) /\ round[w] + 1 < rounds THEN 1 ELSE at[w] + 1
        /\ round'[w] = IF at[w] = Len(body) THEN round[w] + 1 ELSE round[w]
    BY <1>0, <1>3, <2>1
  <2>3. <<round'[w], at'[w]>> = After(round[w], at[w])
    BY <1>0, <1>3, <2>2 DEF After
  <2>4. \A u \in Waves : u # w =>
                /\ at'[u] = at[u] /\ step'[u] = step[u] /\ round'[u] = round[u]
    BY <1>3, <2>1
  <2>5. \A u \in Waves : u # w => (Running(u)' <=> Running(u)) /\ Instr(u)' = Instr(u)
    BY <1>2, <2>4 DEF Running, Instr
  <2>6. /\ step' \in [Waves -> 1..4] /\ at' \in [Waves -> 1..(Len(body) + 1)]
        /\ round' \in [Waves -> 0..MaxRounds]
    BY <1>3, <2>1, <2>2
  <2> QED BY <1>1, <1>2, <1>5, <2>2, <2>3, <2>4, <2>5, <2>6
<1> QED BY <1>4, <1>5

LEMMA AfterFacts ==
    ASSUME BodyInv, NEW i \in DOMAIN body, NEW r \in Nat, r < rounds,
           NEW q, NEW j, <<q, j>> = After(r, i)
    PROVE  /\ q \in Nat /\ j \in 1..(Len(body) + 1) /\ q <= rounds
           /\ j \in DOMAIN body <=> q < rounds
           /\ j \notin DOMAIN body => q = rounds /\ j = Len(body) + 1
           /\ j \in DOMAIN body /\ Kind(i) # "arrive" => Kind(j) # "wait"
           /\ q = r \/ (q = r + 1 /\ i = Len(body))
           /\ q = r => j = i + 1
           /\ q = r + 1 /\ q < rounds => j = 1
<1>0. /\ Len(body) \in Nat \ {0} /\ DOMAIN body = 1..Len(body) /\ rounds \in Nat \ {0}
  BY BodyFacts
<1>1. CASE i < Len(body)
  <2>1. q = r /\ j = i + 1 /\ j \in DOMAIN body
    BY <1>0, <1>1 DEF After
  <2>2. Kind(j) = "wait" => Kind(i) = "arrive"
    <3>1. j - 1 = i
      BY <1>0, <2>1
    <3> QED BY <2>1, <3>1 DEF BodyInv
  <2> QED BY <1>0, <1>1, <2>1, <2>2
<1>2. CASE ~(i < Len(body)) /\ r + 1 < rounds
  <2>1. q = r + 1 /\ j = 1 /\ j \in DOMAIN body /\ i = Len(body)
    BY <1>0, <1>2 DEF After
  <2>2. Kind(j) # "wait"
    <3>1. j - 1 \notin DOMAIN body
      BY <1>0, <2>1
    <3> QED BY <2>1, <3>1 DEF BodyInv
  <2> QED BY <1>0, <1>2, <2>1, <2>2
<1>3. CASE ~(i < Len(body)) /\ ~(r + 1 < rounds)
  <2>1. q = r + 1 /\ j = Len(body) + 1 /\ i = Len(body) /\ q = rounds
    BY <1>0, <1>3 DEF After
  <2> QED BY <1>0, <2>1
<1> QED BY <1>1, <1>2, <1>3

(* A signal is followed by a wait, *)
LEMMA SignalMoves ==
    ASSUME Base, NEW w \in Waves, Signal(w) \/ SignalIsFirst(w)
    PROVE  /\ Running(w) /\ at[w] \in DOMAIN body /\ step[w] = 1 /\ ~ready[w]
           /\ Instr(w) # "wait"
           /\ Kind(at[w]) # "wait" /\ (SignalIsFirst(w) <=> Kind(at[w]) = "cluster")
           /\ Running(w)' /\ Instr(w)' = "wait" /\ round'[w] = round[w]
           /\ IF Kind(at[w]) = "arrive"
                THEN at'[w] = at[w] + 1 /\ step'[w] = 1 /\ Kind(at'[w]) = "wait"
                ELSE at'[w] = at[w] /\ step'[w] = 2
           /\ at'[w] \in DOMAIN body /\ body' = body
<1>0. /\ Len(body) \in Nat \ {0} /\ DOMAIN body = 1..Len(body) /\ BodyInv
      /\ \A i \in DOMAIN body : Kind(i) \in {"arrive", "wait", "full", "call", "cluster"}
  BY BodyFacts DEF Base
<1>1. /\ Running(w) /\ Instr(w) \in {"signal", "isfirst"} /\ Wave(w)
      /\ SignalIsFirst(w) <=> Instr(w) = "isfirst"
  BY DEF Signal, SignalIsFirst, Wave
<1>2. /\ at[w] \in DOMAIN body /\ step[w] = 1 /\ Kind(at[w]) # "wait" /\ Instr(w) # "wait"
      /\ Instr(w) = "isfirst" <=> Kind(at[w]) = "cluster"
      /\ Kind(at[w]) = "arrive" <=> Last(w)
  BY <1>1, AtInstruction
<1>3. ~ready[w]
  BY <1>2 DEF Base, PlaceInv
<1>4. body' = body
  BY <1>1, Moves
<1>5. CASE Kind(at[w]) = "arrive"
  <2>1. step'[w] = 1 /\ <<round'[w], at'[w]>> = After(round[w], at[w])
    BY <1>1, <1>2, <1>5, Moves
  <2>2. at[w] + 1 \in DOMAIN body /\ Kind(at[w] + 1) = "wait"
    BY <1>0, <1>2, <1>5 DEF BodyInv
  <2>3. at[w] < Len(body)
    BY <1>0, <1>2, <2>2
  <2>4. round'[w] = round[w] /\ at'[w] = at[w] + 1
    BY <2>1, <2>3 DEF After
  <2>5. Code(Kind(at'[w]))[1] = "wait"
    BY <1>0, <2>2, <2>4, Instructions
  <2>6. Running(w)' /\ Instr(w)' = "wait"
    BY <1>0, <1>4, <2>1, <2>2, <2>4, <2>5 DEF Running, Instr, Kind
  <2> QED BY <1>1, <1>2, <1>3, <1>4, <1>5, <2>1, <2>2, <2>4, <2>6
<1>6. CASE Kind(at[w]) # "arrive"
  <2>1. /\ step'[w] = step[w] + 1 /\ at'[w] = at[w]
        /\ round'[w] = round[w] /\ Running(w)'
    BY <1>1, <1>2, <1>6, Moves
  <2>2. step'[w] = 2
    BY <1>2, <2>1
  <2>3. Code(Kind(at[w]))[2] = "wait"
    BY <1>0, <1>2, <1>6, Instructions
  <2>4. Instr(w)' = "wait"
    BY <1>4, <2>1, <2>2, <2>3 DEF Instr, Kind
  <2> QED BY <1>1, <1>2, <1>3, <1>4, <1>6, <2>1, <2>2, <2>4
<1> QED BY <1>5, <1>6

(* and after the wait comes a signal, or the rest of a cluster barrier. *)
LEMMA OtherMoves ==
    ASSUME Base, NEW w \in Waves, Wait(w) \/ Elected(w) \/ ClusterWait(w)
    PROVE  /\ Running(w) /\ at[w] \in DOMAIN body /\ Kind(at[w]) # "arrive"
           /\ step[w] = 1 => Kind(at[w]) = "wait"
           /\ Running(w)' => Instr(w)' # "wait"
           /\ body' = body /\ rounds' = rounds
           /\ \/ /\ Last(w) /\ step'[w] = 1
                 /\ <<round'[w], at'[w]>> = After(round[w], at[w])
                 /\ Running(w)' => at'[w] \in DOMAIN body /\ Kind(at'[w]) # "wait"
                 /\ ~Elected(w)
                 /\ ClusterWait(w) <=> Kind(at[w]) = "cluster"
              \/ /\ ~Last(w) /\ Kind(at[w]) = "cluster" /\ at'[w] = at[w]
                 /\ round'[w] = round[w] /\ Running(w)' /\ step'[w] = step[w] + 1
                 /\ ~ClusterWait(w)
                 /\ (Wait(w) /\ step[w] = 2) \/ (Elected(w) /\ step[w] = 3)
<1>0. /\ Len(body) \in Nat \ {0} /\ DOMAIN body = 1..Len(body) /\ BodyInv
      /\ rounds \in Nat \ {0}
      /\ \A i \in DOMAIN body : Kind(i) \in {"arrive", "wait", "full", "call", "cluster"}
  BY BodyFacts DEF Base
<1>1. /\ Running(w) /\ Instr(w) \in {"wait", "elected", "cwait"} /\ Wave(w)
      /\ (Wait(w) <=> Instr(w) = "wait") /\ (Elected(w) <=> Instr(w) = "elected")
      /\ ClusterWait(w) <=> Instr(w) = "cwait"
  BY DEF Wait, Elected, ClusterWait, Wave
<1>2. /\ at[w] \in DOMAIN body /\ Kind(at[w]) # "arrive"
      /\ step[w] = 1 => Kind(at[w]) = "wait"
      /\ Last(w) => Instr(w) # "elected" /\ (Instr(w) = "cwait" <=> Kind(at[w]) = "cluster")
      /\ ~Last(w) => /\ Kind(at[w]) = "cluster" /\ Instr(w) # "cwait"
                     /\ \/ Instr(w) = "wait" /\ step[w] = 2
                        \/ Instr(w) = "elected" /\ step[w] = 3
  BY <1>1, AtInstruction
<1>3. body' = body /\ rounds' = rounds
  BY <1>1, Moves
<1>4. round[w] \in Nat /\ round[w] < rounds
  BY <1>1, NativeAssumption DEF Base, PlaceInv
<1>5. CASE Last(w)
  <2>1. step'[w] = 1 /\ <<round'[w], at'[w]>> = After(round[w], at[w])
    BY <1>1, <1>5, Moves
  <2>2. /\ at'[w] \in 1..(Len(body) + 1)
        /\ at'[w] \in DOMAIN body => Kind(at'[w]) # "wait"
    BY <1>0, <1>2, <1>4, <2>1, AfterFacts
  <2>3. Running(w)' => at'[w] \in DOMAIN body
    BY <1>0, <1>3, <2>2 DEF Running
  <2>4. ASSUME Running(w)' PROVE Instr(w)' # "wait"
    <3>1. at'[w] \in DOMAIN body /\ Kind(at'[w]) # "wait"
      BY <2>2, <2>3, <2>4
    <3>2. Code(Kind(at'[w]))[1] # "wait"
      BY <1>0, <3>1, Instructions
    <3> QED BY <1>3, <2>1, <3>2 DEF Instr, Kind
  <2> QED BY <1>1, <1>2, <1>3, <1>5, <2>1, <2>2, <2>3, <2>4
<1>6. CASE ~Last(w)
  <2>1. /\ step'[w] = step[w] + 1 /\ at'[w] = at[w]
        /\ round'[w] = round[w] /\ Running(w)'
    BY <1>1, <1>6, Moves
  <2>2. step'[w] \in {3, 4}
    BY <1>2, <1>6, <2>1
  <2>3. Code(Kind(at[w]))[3] = "elected" /\ Code(Kind(at[w]))[4] = "cwait"
    BY <1>0, <1>2, <1>6, Instructions
  <2>4. Instr(w)' # "wait"
    BY <1>3, <2>1, <2>2, <2>3 DEF Instr, Kind
  <2> QED BY <1>1, <1>2, <1>3, <1>6, <2>1, <2>4
<1> QED BY <1>5, <1>6

-----------------------------------------------------------------------------
(* The workgroup barrier.                                                    *)
(*                                                                           *)
(* A wave is pending from its signal until the barrier completes.  Each wave *)
(* is working towards some signal: the one it is pending on, or the next one *)
(* on its way.  The waves of a workgroup work towards the same one, and the  *)
(* barrier counts those that are pending.                                    *)

Pending(w) == Running(w) /\ Instr(w) = "wait" /\ ~ready[w]

(* The operation whose signal the wait in operation i waits for. *)
Start(i) == IF Kind(i) = "wait" THEN i - 1 ELSE i

Point(w) ==
    IF ~Running(w) THEN <<round[w], at[w]>>
    ELSE IF Pending(w) THEN <<round[w], Start(at[w])>>
    ELSE IF step[w] = 1 /\ Kind(at[w]) # "wait" THEN <<round[w], at[w]>>
    ELSE After(round[w], at[w])

LockStep == \A u, w \in Waves : GroupOf[u] = GroupOf[w] => Point(u) = Point(w)

Waiting(g) == {w \in Members(g) : Pending(w)}

CountInv ==
    /\ count \in [Groups -> Nat]
    /\ \A g \in Groups : count[g] = Cardinality(Waiting(g))

Lock == Base /\ CountInv /\ LockStep

(* The signal of w completes the barrier. *)
Completes(w) == \A u \in Members(GroupOf[w]) : u # w => Pending(u)

LEMMA MembersFacts ==
    ASSUME NEW g \in Groups
    PROVE  /\ IsFiniteSet(Members(g)) /\ Cardinality(Members(g)) \in Nat \ {0}
           /\ Members(g) \subseteq Waves
           /\ \A w \in Waves : w \in Members(g) <=> GroupOf[w] = g
           /\ \A w \in Waves : GroupOf[w] \in Groups
<1>1. Members(g) \subseteq Waves /\ \E w \in Waves : w \in Members(g)
  BY NativeAssumption DEF Members
<1>2. IsFiniteSet(Members(g))
  BY <1>1, NativeAssumption, FS_Subset
<1>3. Cardinality(Members(g)) \in Nat
  BY <1>2, FS_CardinalityType
<1>4. Cardinality(Members(g)) # 0
  <2>1. Members(g) # {}
    BY <1>1
  <2> QED BY <1>2, <2>1, FS_EmptySet
<1> QED BY <1>1, <1>2, <1>3, <1>4, NativeAssumption DEF Members

LEMMA SignalEffect ==
    ASSUME Base, CountInv, NEW w \in Waves, Signal(w) \/ SignalIsFirst(w)
    PROVE  /\ \A h \in Groups : h # GroupOf[w] => count'[h] = count[h]
           /\ count' \in [Groups -> Nat] /\ ready' \in [Waves -> BOOLEAN]
           /\ count[GroupOf[w]] = 0 <=> \A u \in Members(GroupOf[w]) : ~Pending(u)
           /\ Completes(w) =>
                /\ count'[GroupOf[w]] = 0
                /\ \A u \in Waves : ready'[u] <=> ready[u] \/ GroupOf[u] = GroupOf[w]
           /\ ~Completes(w) => ready' = ready /\ count'[GroupOf[w]] = count[GroupOf[w]] + 1
           /\ count[GroupOf[w]] + 1 <= Cardinality(Members(GroupOf[w]))
           /\ Completes(w) <=> count[GroupOf[w]] + 1 = Cardinality(Members(GroupOf[w]))
           /\ ~Pending(w)
<1> DEFINE g == GroupOf[w]
<1>0. /\ g \in Groups /\ w \in Members(g) /\ IsFiniteSet(Members(g))
      /\ Members(g) \subseteq Waves /\ \A u \in Waves : u \in Members(g) <=> GroupOf[u] = g
  <2>1. g \in Groups
    BY NativeAssumption
  <2> QED BY <2>1, MembersFacts
<1>1. /\ SignalWorkgroup(g) /\ ~Pending(w)
  BY SignalMoves DEF Signal, SignalIsFirst, Pending
<1>2. count \in [Groups -> Nat] /\ ready \in [Waves -> BOOLEAN]
  BY DEF CountInv, Base, PlaceInv
<1> DEFINE S == Waiting(g)
           T == S \union {w}
<1>3. /\ IsFiniteSet(S) /\ w \notin S /\ T \subseteq Members(g) /\ count[g] = Cardinality(S)
  <2>1. S \subseteq Members(g) /\ w \notin S
    BY <1>0, <1>1 DEF Waiting
  <2>2. IsFiniteSet(S)
    BY <1>0, <2>1, FS_Subset
  <2> QED BY <1>0, <2>1, <2>2 DEF CountInv
<1>4. count[g] + 1 = Cardinality(T) /\ IsFiniteSet(T)
  BY <1>3, FS_AddElement
<1>5. /\ Cardinality(T) <= Cardinality(Members(g))
      /\ Cardinality(Members(g)) = Cardinality(T) => Members(g) = T
  BY <1>0, <1>3, FS_Subset
<1>6. Members(g) = T <=> Completes(w)
  BY <1>0, <1>3 DEF Completes, Waiting
<1>7. Completes(w) <=> count[g] + 1 = Cardinality(Members(g))
  BY <1>4, <1>5, <1>6
<1>8. count[g] = 0 <=> \A u \in Members(g) : ~Pending(u)
  <2>1. Cardinality(S) = 0 <=> S = {}
    BY <1>3, FS_EmptySet
  <2>2. S = {} <=> \A u \in Members(g) : ~Pending(u)
    BY DEF Waiting
  <2> QED BY <1>3, <2>1, <2>2
<1> HIDE DEF S, T
<1>9. CASE Completes(w)
  <2>1. count' = [count EXCEPT ![g] = 0] /\ ready' = [v \in Waves |-> ready[v] \/ v \in Members(g)]
    BY <1>1, <1>7, <1>9 DEF SignalWorkgroup
  <2>2. ready' \in [Waves -> BOOLEAN]
    BY <1>2, <2>1
  <2>3. \A u \in Waves : ready'[u] <=> ready[u] \/ GroupOf[u] = g
    BY <1>0, <2>1
  <2>4. /\ count' \in [Groups -> Nat] /\ count'[g] = 0
        /\ \A h \in Groups : h # g => count'[h] = count[h]
    BY <1>0, <1>2, <2>1
  <2> QED BY <1>1, <1>4, <1>5, <1>7, <1>8, <1>9, <2>2, <2>3, <2>4
<1>10. CASE ~Completes(w)
  <2>1. count' = [count EXCEPT ![g] = @ + 1] /\ ready' = ready
    BY <1>1, <1>7, <1>10 DEF SignalWorkgroup
  <2>2. /\ count' \in [Groups -> Nat] /\ count'[g] = count[g] + 1
        /\ \A h \in Groups : h # g => count'[h] = count[h]
    BY <1>0, <1>2, <2>1
  <2> QED BY <1>1, <1>2, <1>4, <1>5, <1>7, <1>8, <1>10, <2>1, <2>2
<1> QED BY <1>9, <1>10

(* Who is pending after a step. *)
LEMMA SignalPending ==
    ASSUME Base, CountInv, NEW w \in Waves, Signal(w) \/ SignalIsFirst(w), NEW u \in Waves
    PROVE  Pending(u)' <=> IF GroupOf[u] = GroupOf[w] /\ Completes(w) THEN FALSE
                           ELSE u = w \/ Pending(u)
<1>1. Running(w)' /\ Instr(w)' = "wait" /\ ~ready[w]
  BY SignalMoves
<1>2. u # w => (Running(u)' <=> Running(u)) /\ Instr(u)' = Instr(u)
  BY Moves DEF Wave
<1>3. CASE Completes(w)
  <2>1. ready'[u] <=> ready[u] \/ GroupOf[u] = GroupOf[w]
    BY <1>3, SignalEffect
  <2> QED BY <1>1, <1>2, <1>3, <2>1 DEF Pending
<1>4. CASE ~Completes(w)
  <2>1. ready' = ready
    BY <1>4, SignalEffect
  <2> QED BY <1>1, <1>2, <1>4, <2>1 DEF Pending
<1> QED BY <1>3, <1>4

LEMMA OtherPending ==
    ASSUME Base, NEW w \in Waves, Wait(w) \/ Elected(w) \/ ClusterWait(w)
    PROVE  /\ ~Pending(w) /\ count' = count /\ ready' \in [Waves -> BOOLEAN]
           /\ \A u \in Waves : Pending(u)' <=> Pending(u)
           /\ \A u \in Waves : ready'[u] => ready[u] /\ u # w
<1>0. ready \in [Waves -> BOOLEAN] /\ \A u \in Waves : ready[u] => Instr(u) = "wait"
  BY DEF Base, PlaceInv
<1>1. CASE Wait(w)
  <2>1. ready[w] /\ ready' = [ready EXCEPT ![w] = FALSE] /\ count' = count
    BY <1>1 DEF Wait
  <2>2. ready' \in [Waves -> BOOLEAN] /\ \A u \in Waves : ready'[u] <=> ready[u] /\ u # w
    BY <1>0, <2>1
  <2>3. ~Pending(w) /\ ~Pending(w)'
    BY <2>1, OtherMoves DEF Pending
  <2>4. \A u \in Waves : u # w => (Running(u)' <=> Running(u)) /\ Instr(u)' = Instr(u)
    BY Moves DEF Wave
  <2>5. \A u \in Waves : u # w => (Pending(u)' <=> Pending(u))
    BY <2>2, <2>4 DEF Pending
  <2> QED BY <2>1, <2>2, <2>3, <2>5
<1>2. CASE Elected(w) \/ ClusterWait(w)
  <2>1. ready' = ready /\ count' = count /\ Instr(w) # "wait"
    BY <1>2 DEF Elected, ClusterWait
  <2>2. ~Pending(w) /\ ~Pending(w)' /\ ~ready[w]
    BY <1>0, <2>1, OtherMoves DEF Pending
  <2>3. \A u \in Waves : u # w => (Running(u)' <=> Running(u)) /\ Instr(u)' = Instr(u)
    BY Moves DEF Wave
  <2>4. \A u \in Waves : u # w => (Pending(u)' <=> Pending(u))
    BY <2>1, <2>3 DEF Pending
  <2> QED BY <1>0, <2>1, <2>2, <2>4
<1> QED BY <1>1, <1>2

LEMMA BaseStep ==
    ASSUME Base, CountInv, NEW w \in Waves, Wave(w)
    PROVE  Base'
<1>0. /\ Running(w) /\ body' = body /\ rounds' = rounds
      /\ at' \in [Waves -> 1..(Len(body) + 1)] /\ step' \in [Waves -> 1..4]
      /\ round' \in [Waves -> 0..MaxRounds]
      /\ \A u \in Waves : u # w =>
           /\ at'[u] = at[u] /\ step'[u] = step[u] /\ round'[u] = round[u]
           /\ (Running(u)' <=> Running(u)) /\ Instr(u)' = Instr(u)
  BY Moves
<1>1. BodyInv'
  BY <1>0 DEF Base, BodyInv, Kind
<1>2. /\ Len(body) \in Nat \ {0} /\ DOMAIN body = 1..Len(body) /\ BodyInv
      /\ rounds \in Nat \ {0}
      /\ \A i \in DOMAIN body : Kind(i) \in {"arrive", "wait", "full", "call", "cluster"}
  BY BodyFacts DEF Base
<1>3. first \in [Waves -> BOOLEAN] /\ cready \in [Waves -> BOOLEAN]
  BY DEF Base, PlaceInv
<1>4. first' \in [Waves -> BOOLEAN]
  <2>1. first' = first \/ \E b \in BOOLEAN : first' = [first EXCEPT ![w] = b]
    BY DEF Wave, Signal, SignalIsFirst, Wait, Elected, ClusterWait
  <2> QED BY <1>3, <2>1
<1>5. cready' \in [Waves -> BOOLEAN]
  <2>1. \/ cready' = cready \/ cready' = [v \in Waves |-> TRUE]
        \/ cready' = [cready EXCEPT ![w] = FALSE]
    BY DEF Wave, Signal, SignalIsFirst, Wait, Elected, ClusterWait, SignalCluster
  <2> QED BY <1>3, <2>1
<1>6. ASSUME NEW u \in Waves, u # w
      PROVE  /\ Running(u)' => step'[u] <= Len(Code(Kind(at'[u]))) /\ round'[u] < rounds
             /\ ~Running(u)' => round'[u] = rounds /\ step'[u] = 1
  BY <1>0, <1>6 DEF Base, PlaceInv
<1>7. /\ Running(w)' => step'[w] <= Len(Code(Kind(at'[w]))) /\ round'[w] < rounds
      /\ ~Running(w)' => round'[w] = rounds /\ step'[w] = 1
  <2>0. round[w] \in Nat /\ round[w] < rounds
    BY <1>0, NativeAssumption DEF Base, PlaceInv
  <2>1. CASE Signal(w) \/ SignalIsFirst(w)
    <3>1. /\ Running(w)' /\ round'[w] = round[w] /\ at'[w] \in DOMAIN body
          /\ \/ step'[w] = 1 /\ Kind(at'[w]) = "wait"
             \/ step'[w] = 2 /\ Kind(at'[w]) \notin {"arrive", "wait"}
      BY <2>1, SignalMoves
    <3>2. step'[w] <= Len(Code(Kind(at'[w])))
      BY <1>2, <3>1, Instructions
    <3> QED BY <2>0, <3>1, <3>2
  <2>2. CASE Wait(w) \/ Elected(w) \/ ClusterWait(w)
    <3>0. at[w] \in DOMAIN body
      BY <2>2, OtherMoves
    <3>1. CASE Last(w)
      <4>1. step'[w] = 1 /\ <<round'[w], at'[w]>> = After(round[w], at[w])
        BY <3>1, Moves
      <4>2. /\ at'[w] \in 1..(Len(body) + 1)
            /\ at'[w] \in DOMAIN body <=> round'[w] < rounds
            /\ at'[w] \notin DOMAIN body => round'[w] = rounds
        BY <1>2, <2>0, <3>0, <4>1, AfterFacts
      <4>3. Running(w)' <=> at'[w] \in DOMAIN body
        BY <1>0, <1>2, <4>2 DEF Running
      <4>4. at'[w] \in DOMAIN body => 1 <= Len(Code(Kind(at'[w])))
        BY <1>2, Instructions
      <4> QED BY <4>1, <4>2, <4>3, <4>4
    <3>2. CASE ~Last(w)
      <4>1. /\ Kind(at[w]) = "cluster" /\ at'[w] = at[w] /\ round'[w] = round[w]
            /\ Running(w)' /\ step'[w] = step[w] + 1 /\ step[w] \in {2, 3}
        BY <2>2, <3>2, OtherMoves
      <4>2. Len(Code(Kind(at[w]))) = 4
        BY <1>2, <3>0, <4>1, Instructions
      <4>3. step'[w] <= 4
        BY <4>1
      <4>4. step'[w] <= Len(Code(Kind(at'[w])))
        BY <4>1, <4>2, <4>3
      <4> QED BY <2>0, <4>1, <4>4
    <3> QED BY <3>1, <3>2
  <2> QED BY <2>1, <2>2 DEF Wave
<1>8. /\ ready' \in [Waves -> BOOLEAN]
      /\ \A u \in Waves : ready'[u] => Running(u)' /\ Instr(u)' = "wait"
  <2>0. \A u \in Waves : ready[u] => Running(u) /\ Instr(u) = "wait"
    BY DEF Base, PlaceInv
  <2>1. CASE Signal(w) \/ SignalIsFirst(w)
    <3>1. Running(w)' /\ Instr(w)' = "wait"
      BY <2>1, SignalMoves
    <3>2. CASE Completes(w)
      <4>1. /\ ready' \in [Waves -> BOOLEAN]
            /\ \A u \in Waves : ready'[u] <=> ready[u] \/ GroupOf[u] = GroupOf[w]
        BY <2>1, <3>2, SignalEffect
      <4>2. \A u \in Waves : GroupOf[u] = GroupOf[w] /\ u # w => Pending(u)
        BY <3>2, MembersFacts DEF Completes, Members
      <4> QED BY <1>0, <2>0, <3>1, <4>1, <4>2 DEF Pending
    <3>3. CASE ~Completes(w)
      <4>1. ready' = ready /\ ready' \in [Waves -> BOOLEAN]
        BY <2>1, <3>3, SignalEffect
      <4> QED BY <1>0, <2>0, <3>1, <4>1
    <3> QED BY <3>2, <3>3
  <2>2. CASE Wait(w) \/ Elected(w) \/ ClusterWait(w)
    <3>1. ready' \in [Waves -> BOOLEAN] /\ \A u \in Waves : ready'[u] => ready[u] /\ u # w
      BY <2>2, OtherPending
    <3> QED BY <1>0, <2>0, <3>1
  <2> QED BY <2>1, <2>2 DEF Wave
<1>9. PlaceInv'
  <2>1. \A i : Kind(i)' = Kind(i)
    BY <1>0 DEF Kind
  <2>2. ASSUME NEW u \in Waves
        PROVE  /\ Running(u)' => step'[u] <= Len(Code(Kind(at'[u]))) /\ round'[u] < rounds
               /\ ~Running(u)' => round'[u] = rounds /\ step'[u] = 1
               /\ ready'[u] => Running(u)' /\ Instr(u)' = "wait"
    BY <1>6, <1>7, <1>8
  <2> QED BY <1>0, <1>4, <1>5, <1>8, <2>1, <2>2 DEF PlaceInv, Kind
<1> QED BY <1>1, <1>9 DEF Base

LEMMA CountStep ==
    ASSUME Base, CountInv, NEW w \in Waves, Wave(w)
    PROVE  CountInv'
<1>0. GroupOf[w] \in Groups /\ w \in Members(GroupOf[w])
  BY NativeAssumption DEF Members
<1>1. CASE Signal(w) \/ SignalIsFirst(w)
  <2>0. /\ count' \in [Groups -> Nat] /\ ~Pending(w)
        /\ \A h \in Groups : h # GroupOf[w] => count'[h] = count[h]
        /\ Completes(w) => count'[GroupOf[w]] = 0
        /\ ~Completes(w) => count'[GroupOf[w]] = count[GroupOf[w]] + 1
    BY <1>1, SignalEffect
  <2>1. \A u \in Waves : Pending(u)' <=> IF GroupOf[u] = GroupOf[w] /\ Completes(w) THEN FALSE
                                         ELSE u = w \/ Pending(u)
    BY <1>1, SignalPending
  <2>2. ASSUME NEW g \in Groups PROVE count'[g] = Cardinality(Waiting(g)')
    <3>0. /\ IsFiniteSet(Members(g)) /\ Members(g) \subseteq Waves
          /\ \A u \in Waves : u \in Members(g) <=> GroupOf[u] = g
          /\ count[g] = Cardinality(Waiting(g))
      BY MembersFacts DEF CountInv
    <3>1. CASE g # GroupOf[w]
      <4>1. Waiting(g)' = Waiting(g)
        BY <2>1, <3>0, <3>1 DEF Waiting
      <4> QED BY <2>0, <3>0, <3>1, <4>1
    <3>2. CASE g = GroupOf[w] /\ Completes(w)
      <4>1. Waiting(g)' = {}
        BY <2>1, <3>0, <3>2 DEF Waiting
      <4>2. Cardinality({}) = 0
        BY FS_EmptySet
      <4> QED BY <2>0, <3>2, <4>1, <4>2
    <3>3. CASE g = GroupOf[w] /\ ~Completes(w)
      <4>1. Waiting(g)' = Waiting(g) \union {w} /\ w \notin Waiting(g)
        BY <1>0, <2>0, <2>1, <3>0, <3>3 DEF Waiting
      <4>2. Waiting(g) \subseteq Members(g)
        BY DEF Waiting
      <4>3. IsFiniteSet(Waiting(g))
        BY <3>0, <4>2, FS_Subset
      <4>4. Cardinality(Waiting(g) \union {w}) = Cardinality(Waiting(g)) + 1
        BY <4>1, <4>3, FS_AddElement
      <4> QED BY <2>0, <3>0, <3>3, <4>1, <4>4
    <3> QED BY <3>1, <3>2, <3>3
  <2> QED BY <2>0, <2>2 DEF CountInv
<1>2. CASE Wait(w) \/ Elected(w) \/ ClusterWait(w)
  <2>1. count' = count /\ \A u \in Waves : Pending(u)' <=> Pending(u)
    BY <1>2, OtherPending
  <2>2. \A g \in Groups : Waiting(g)' = Waiting(g)
    BY <2>1, MembersFacts DEF Waiting
  <2> QED BY <2>1, <2>2 DEF CountInv
<1> QED BY <1>1, <1>2 DEF Wave

(* A wave that stays where it is works towards the same signal. *)
LEMMA PointStays ==
    ASSUME Base, NEW w \in Waves, Wave(w), NEW u \in Waves, u # w,
           Pending(u)' <=> Pending(u)
    PROVE  Point(u)' = Point(u)
<1>1. /\ body' = body /\ rounds' = rounds
      /\ at'[u] = at[u] /\ step'[u] = step[u] /\ round'[u] = round[u]
      /\ Running(u)' <=> Running(u)
  BY Moves
<1> QED BY <1>1 DEF Point, Start, Kind, After

LEMMA PointOther ==
    ASSUME Base, NEW w \in Waves, Wait(w) \/ Elected(w) \/ ClusterWait(w)
    PROVE  \A u \in Waves : Point(u)' = Point(u)
<1>0. ~Pending(w) /\ \A u \in Waves : Pending(u)' <=> Pending(u)
  BY OtherPending
<1>1. \A u \in Waves : u # w => Point(u)' = Point(u)
  BY <1>0, PointStays DEF Wave
<1>2. Point(w)' = Point(w)
  <2>0. /\ Running(w) /\ Kind(at[w]) # "arrive" /\ (step[w] = 1 => Kind(at[w]) = "wait")
        /\ body' = body /\ rounds' = rounds
    BY OtherMoves
  <2>1. Point(w) = After(round[w], at[w])
    BY <1>0, <2>0 DEF Point
  <2>2. CASE Last(w)
    <3>1. /\ step'[w] = 1 /\ <<round'[w], at'[w]>> = After(round[w], at[w])
          /\ Running(w)' => Kind(at'[w]) # "wait"
      BY <2>2, OtherMoves
    <3>2. Point(w)' = <<round'[w], at'[w]>>
      BY <1>0, <2>0, <3>1 DEF Point, Kind
    <3> QED BY <2>1, <3>1, <3>2
  <2>3. CASE ~Last(w)
    <3>1. /\ at'[w] = at[w] /\ round'[w] = round[w] /\ Running(w)'
          /\ step'[w] = step[w] + 1 /\ step[w] \in {2, 3}
      BY <2>3, OtherMoves
    <3>2. step'[w] # 1
      BY <3>1
    <3>3. Point(w)' = After(round[w], at[w])
      BY <1>0, <2>0, <3>1, <3>2 DEF Point, After
    <3> QED BY <2>1, <3>3
  <2> QED BY <2>2, <2>3
<1> QED BY <1>1, <1>2

(* Two waves that are pending on the same signal are at the same wait. *)
LEMMA SameWait ==
    ASSUME Base, NEW u \in Waves, Pending(u), NEW i \in DOMAIN body, Start(at[u]) = i
    PROVE  /\ Kind(i) # "wait"
           /\ at[u] = IF Kind(i) = "arrive" THEN i + 1 ELSE i
           /\ Kind(i) = "cluster" => step[u] = 2
<1>0. DOMAIN body = 1..Len(body) /\ Len(body) \in Nat
  BY BodyFacts DEF Base
<1>1. /\ at[u] \in DOMAIN body /\ Kind(at[u]) # "arrive"
      /\ Kind(at[u]) = "cluster" => step[u] = 2
  BY AtInstruction DEF Pending
<1>2. CASE Kind(at[u]) = "wait"
  <2>1. i = at[u] - 1 /\ Kind(at[u] - 1) = "arrive"
    BY <1>1, <1>2 DEF Start, Base, BodyInv
  <2> QED BY <1>0, <1>1, <2>1
<1>3. CASE Kind(at[u]) # "wait"
  BY <1>1, <1>3 DEF Start
<1> QED BY <1>2, <1>3

LEMMA PointSignal ==
    ASSUME Base, CountInv, NEW w \in Waves, Signal(w) \/ SignalIsFirst(w), NEW u \in Waves,
           ~(GroupOf[u] = GroupOf[w] /\ Completes(w))
    PROVE  Point(u)' = Point(u)
<1>1. Pending(u)' <=> u = w \/ Pending(u)
  BY SignalPending
<1>2. CASE u # w
  BY <1>1, <1>2, PointStays DEF Wave
<1>3. CASE u = w
  <2>1. /\ Running(w) /\ at[w] \in DOMAIN body /\ step[w] = 1 /\ Instr(w) # "wait"
        /\ Kind(at[w]) # "wait" /\ Running(w)' /\ round'[w] = round[w] /\ body' = body
        /\ IF Kind(at[w]) = "arrive"
             THEN at'[w] = at[w] + 1 /\ Kind(at'[w]) = "wait"
             ELSE at'[w] = at[w]
    BY SignalMoves
  <2>2. at[w] \in Nat
    BY <2>1, BodyFacts DEF Base
  <2>3. Start(at'[w]) = at[w]
    BY <2>1, <2>2 DEF Start
  <2>4. Point(w)' = <<round[w], at[w]>>
    BY <1>1, <1>3, <2>1, <2>3 DEF Point, Start, Kind
  <2>5. Point(w) = <<round[w], at[w]>>
    BY <2>1 DEF Point, Pending
  <2> QED BY <1>3, <2>4, <2>5
<1> QED BY <1>2, <1>3

LEMMA LockStepStep ==
    ASSUME Lock, NEW w \in Waves, Wave(w)
    PROVE  LockStep'
<1>0. Base /\ CountInv /\ LockStep
  BY DEF Lock
<1>1. CASE Wait(w) \/ Elected(w) \/ ClusterWait(w)
  BY <1>0, <1>1, PointOther DEF LockStep
<1>2. CASE (Signal(w) \/ SignalIsFirst(w)) /\ ~Completes(w)
  BY <1>0, <1>2, PointSignal DEF LockStep
<1>3. CASE (Signal(w) \/ SignalIsFirst(w)) /\ Completes(w)
  <2>0. /\ Running(w) /\ at[w] \in DOMAIN body /\ step[w] = 1 /\ Instr(w) # "wait"
        /\ Kind(at[w]) # "wait" /\ Running(w)' /\ round'[w] = round[w] /\ body' = body
        /\ IF Kind(at[w]) = "arrive"
             THEN at'[w] = at[w] + 1 /\ step'[w] = 1 /\ Kind(at'[w]) = "wait"
             ELSE at'[w] = at[w] /\ step'[w] = 2
    BY <1>0, <1>3, SignalMoves
  <2>1. Point(w) = <<round[w], at[w]>>
    BY <2>0 DEF Point, Pending
  <2>2. ASSUME NEW u \in Waves, GroupOf[u] = GroupOf[w]
        PROVE  Point(u)' = After(round[w], at'[w])
    <3>1. ~Pending(u)'
      BY <1>0, <1>3, <2>2, SignalPending
    <3>2. rounds' = rounds
      BY <1>0, Moves
    <3>3. CASE u = w
      <4>1. ~(step'[w] = 1 /\ Kind(at'[w]) # "wait")
        BY <2>0
      <4> QED BY <2>0, <3>1, <3>2, <3>3, <4>1 DEF Point, Kind, After
    <3>4. CASE u # w
      <4>1. Pending(u) /\ Point(u) = <<round[u], Start(at[u])>>
        BY <1>0, <1>3, <2>2, <3>4 DEF Completes, Members, Point, Pending
      <4>2. round[u] = round[w] /\ Start(at[u]) = at[w]
        <5>1. Point(u) = Point(w)
          BY <1>0, <2>2 DEF LockStep
        <5> QED BY <2>1, <4>1, <5>1
      <4>3. at[u] = at'[w]
        BY <1>0, <2>0, <4>1, <4>2, SameWait
      <4>4. /\ at'[u] = at[u] /\ step'[u] = step[u] /\ round'[u] = round[u]
            /\ Running(u)' /\ Running(u)
        BY <1>0, <3>4, <4>1, Moves DEF Pending
      <4>5. ~(step[u] = 1 /\ Kind(at[u]) # "wait")
        BY <1>0, <4>1, AtInstruction DEF Pending
      <4> QED BY <2>0, <3>1, <3>2, <4>2, <4>3, <4>4, <4>5 DEF Point, Kind, After
    <3> QED BY <3>3, <3>4
  <2>3. \A u \in Waves : GroupOf[u] # GroupOf[w] => Point(u)' = Point(u)
    BY <1>0, <1>3, PointSignal
  <2> QED BY <1>0, <2>2, <2>3 DEF LockStep
<1> QED BY <1>1, <1>2, <1>3 DEF Wave

-----------------------------------------------------------------------------
(* The history: how often a wave has been through each operation follows     *)
(* from its iteration and its place in the body.                             *)

Iter(w) == IF Running(w) THEN round[w] ELSE round[w] - 1
Begun(w, i) == at[w] > i \/ (at[w] = i /\ step[w] > 1)

HistoryInv ==
    /\ arrived \in [Waves -> [Ids -> Nat]] /\ left \in [Waves -> [Ids -> Nat]]
    /\ \A w \in Waves :
        /\ \A i \in DOMAIN body :
            /\ Kind(i) # "wait" => arrived[w][body[i].id] =
                                     Iter(w) + (IF Begun(w, i) THEN 1 ELSE 0)
            /\ Kind(i) # "arrive" => left[w][body[i].id] =
                                     Iter(w) + (IF at[w] > i THEN 1 ELSE 0)
        /\ \A id \in Ids : (\A i \in DOMAIN body : body[i].id # id) =>
            arrived[w][id] = 0 /\ left[w][id] = 0

LEMMA HistoryEffect ==
    ASSUME Base, HistoryInv, NEW w \in Waves, Wave(w)
    PROVE  /\ arrived' \in [Waves -> [Ids -> Nat]] /\ left' \in [Waves -> [Ids -> Nat]]
           /\ OpId(w) \in Ids /\ OpId(w) = body[at[w]].id
           /\ \A u \in Waves, id \in Ids :
                /\ arrived'[u][id] = IF u = w /\ id = OpId(w) /\ (Signal(w) \/ SignalIsFirst(w))
                                       THEN arrived[u][id] + 1 ELSE arrived[u][id]
                /\ left'[u][id] = IF /\ u = w /\ id = OpId(w) /\ Last(w)
                                     /\ Wait(w) \/ Elected(w) \/ ClusterWait(w)
                                    THEN left[u][id] + 1 ELSE left[u][id]
<1>0. arrived \in [Waves -> [Ids -> Nat]] /\ left \in [Waves -> [Ids -> Nat]]
  BY DEF HistoryInv
<1>1. OpId(w) \in Ids /\ OpId(w) = body[at[w]].id
  <2>1. at[w] \in DOMAIN body
    BY Moves, AtInstruction
  <2> QED BY <2>1, BodyFacts DEF OpId, Base
<1>2. CASE Signal(w) \/ SignalIsFirst(w)
  <2>1. arrived' = [arrived EXCEPT ![w][OpId(w)] = @ + 1] /\ left' = left
    BY <1>2 DEF Signal, SignalIsFirst
  <2>2. ~(Wait(w) \/ Elected(w) \/ ClusterWait(w))
    BY <1>2 DEF Signal, SignalIsFirst, Wait, Elected, ClusterWait
  <2>3. arrived' \in [Waves -> [Ids -> Nat]]
    BY <1>0, <1>1, <2>1
  <2>4. \A u \in Waves, id \in Ids :
          arrived'[u][id] = IF u = w /\ id = OpId(w) THEN arrived[u][id] + 1 ELSE arrived[u][id]
    BY <1>0, <1>1, <2>1
  <2> QED BY <1>0, <1>1, <1>2, <2>1, <2>2, <2>3, <2>4
<1>3. CASE Wait(w) \/ Elected(w) \/ ClusterWait(w)
  <2>1. arrived' = arrived /\ Leave(w)
    BY <1>3 DEF Wait, Elected, ClusterWait
  <2>2. ~(Signal(w) \/ SignalIsFirst(w))
    BY <1>3 DEF Signal, SignalIsFirst, Wait, Elected, ClusterWait
  <2>3. CASE Last(w)
    <3>1. left' = [left EXCEPT ![w][OpId(w)] = @ + 1]
      BY <2>1, <2>3 DEF Leave
    <3>2. left' \in [Waves -> [Ids -> Nat]]
      BY <1>0, <1>1, <3>1
    <3>3. \A u \in Waves, id \in Ids :
            left'[u][id] = IF u = w /\ id = OpId(w) THEN left[u][id] + 1 ELSE left[u][id]
      BY <1>0, <1>1, <3>1
    <3> QED BY <1>0, <1>1, <1>3, <2>1, <2>2, <2>3, <3>2, <3>3
  <2>4. CASE ~Last(w)
    <3>1. left' = left
      BY <2>1, <2>4 DEF Leave
    <3> QED BY <1>0, <1>1, <2>1, <2>2, <2>4, <3>1
  <2> QED BY <2>3, <2>4
<1> QED BY <1>2, <1>3 DEF Wave

LEMMA HistoryStep ==
    ASSUME Base, HistoryInv, NEW w \in Waves, Wave(w)
    PROVE  HistoryInv'
<1>0. /\ Len(body) \in Nat \ {0} /\ DOMAIN body = 1..Len(body) /\ BodyInv
      /\ rounds \in Nat \ {0}
      /\ \A i \in DOMAIN body : body[i].id \in Ids
      /\ \A i, j \in DOMAIN body : body[i].id = body[j].id =>
           /\ Kind(i) # "wait" /\ Kind(j) # "wait" => i = j
           /\ Kind(i) # "arrive" /\ Kind(j) # "arrive" => i = j
  BY BodyFacts DEF Base
<1>1. /\ body' = body /\ Running(w) /\ at'[w] \in 1..(Len(body) + 1)
      /\ \A u \in Waves : u # w =>
           /\ at'[u] = at[u] /\ step'[u] = step[u] /\ round'[u] = round[u]
           /\ (Running(u)' <=> Running(u))
  BY Moves
<1>2. /\ arrived' \in [Waves -> [Ids -> Nat]] /\ left' \in [Waves -> [Ids -> Nat]]
      /\ OpId(w) \in Ids /\ OpId(w) = body[at[w]].id
      /\ \A u \in Waves, id \in Ids :
           /\ arrived'[u][id] = IF u = w /\ id = OpId(w) /\ (Signal(w) \/ SignalIsFirst(w))
                                  THEN arrived[u][id] + 1 ELSE arrived[u][id]
           /\ left'[u][id] = IF /\ u = w /\ id = OpId(w) /\ Last(w)
                                /\ Wait(w) \/ Elected(w) \/ ClusterWait(w)
                               THEN left[u][id] + 1 ELSE left[u][id]
  BY HistoryEffect
<1>3. /\ at[w] \in DOMAIN body /\ round[w] \in Nat /\ round[w] < rounds
      /\ step[w] \in Nat /\ Iter(w) = round[w]
  <2>1. at[w] \in DOMAIN body /\ step[w] \in 1..4
    BY <1>1, AtInstruction
  <2>2. round[w] \in Nat /\ round[w] < rounds
    BY <1>1, NativeAssumption DEF Base, PlaceInv
  <2>3. Iter(w) = round[w]
    BY <1>1 DEF Iter
  <2> QED BY <2>1, <2>2, <2>3
<1>4. ASSUME NEW u \in Waves, u # w
      PROVE  Iter(u)' = Iter(u) /\ \A i : Begun(u, i)' <=> Begun(u, i)
  BY <1>1, <1>4 DEF Iter, Begun
<1>5. ASSUME NEW i \in DOMAIN body, Kind(i) # "wait"
      PROVE  arrived'[w][body[i].id] = Iter(w)' + (IF Begun(w, i)' THEN 1 ELSE 0)
  <2>0. /\ arrived[w][body[i].id] = round[w] + (IF Begun(w, i) THEN 1 ELSE 0)
        /\ body[i].id \in Ids /\ i \in Nat /\ at[w] \in Nat
    BY <1>0, <1>3, <1>5 DEF HistoryInv
  <2>1. CASE Signal(w) \/ SignalIsFirst(w)
    <3>1. /\ step[w] = 1 /\ Kind(at[w]) # "wait" /\ Running(w)' /\ round'[w] = round[w]
          /\ IF Kind(at[w]) = "arrive"
               THEN at'[w] = at[w] + 1 /\ step'[w] = 1 /\ Kind(at'[w]) = "wait"
               ELSE at'[w] = at[w] /\ step'[w] = 2
      BY <2>1, SignalMoves
    <3>2. Iter(w)' = round[w]
      BY <3>1 DEF Iter
    <3>3. body[i].id = OpId(w) <=> i = at[w]
      BY <1>0, <1>2, <1>3, <1>5, <3>1
    <3>4. Begun(w, i)' <=> Begun(w, i) \/ i = at[w]
      BY <1>5, <2>0, <3>1 DEF Begun
    <3>5. i = at[w] => ~Begun(w, i)
      BY <2>0, <3>1 DEF Begun
    <3>6. arrived'[w][body[i].id] = IF i = at[w] THEN arrived[w][body[i].id] + 1
                                                 ELSE arrived[w][body[i].id]
      BY <1>2, <2>0, <2>1, <3>3
    <3> QED BY <1>3, <2>0, <3>2, <3>4, <3>5, <3>6
  <2>2. CASE Wait(w) \/ Elected(w) \/ ClusterWait(w)
    <3>0. arrived'[w][body[i].id] = arrived[w][body[i].id]
      <4>1. ~(Signal(w) \/ SignalIsFirst(w))
        BY <2>2 DEF Signal, SignalIsFirst, Wait, Elected, ClusterWait
      <4> QED BY <1>2, <2>0, <4>1
    <3>1. CASE Last(w)
      <4>1. step'[w] = 1 /\ <<round'[w], at'[w]>> = After(round[w], at[w])
        BY <3>1, Moves
      <4>2. /\ round'[w] \in Nat /\ round'[w] <= rounds
            /\ at'[w] \in DOMAIN body <=> round'[w] < rounds
            /\ at'[w] \notin DOMAIN body => round'[w] = rounds /\ at'[w] = Len(body) + 1
            /\ round'[w] = round[w] \/ (round'[w] = round[w] + 1 /\ at[w] = Len(body))
            /\ round'[w] = round[w] => at'[w] = at[w] + 1
            /\ round'[w] = round[w] + 1 /\ round'[w] < rounds => at'[w] = 1
        BY <1>0, <1>3, <4>1, AfterFacts
      <4>3. Running(w)' <=> at'[w] \in DOMAIN body
        BY <1>0, <1>1 DEF Running
      <4>4. step[w] > 1 \/ i # at[w]
        <5>1. step[w] = 1 => Kind(at[w]) = "wait"
          BY <2>2, OtherMoves
        <5>2. step[w] \in 1..4
          BY <1>1, AtInstruction
        <5> QED BY <1>5, <5>1, <5>2
      <4>5. Iter(w)' = IF round'[w] < rounds THEN round'[w] ELSE round'[w] - 1
        BY <4>2, <4>3 DEF Iter
      <4>6. Begun(w, i) <=> at[w] >= i
        BY <2>0, <4>4 DEF Begun
      <4>7. Begun(w, i)' <=> at'[w] > i
        BY <4>1 DEF Begun
      <4> QED BY <1>0, <1>3, <2>0, <3>0, <4>2, <4>5, <4>6, <4>7
    <3>2. CASE ~Last(w)
      <4>1. /\ at'[w] = at[w] /\ round'[w] = round[w] /\ Running(w)'
            /\ step'[w] = step[w] + 1 /\ step[w] \in {2, 3}
        BY <2>2, <3>2, OtherMoves
      <4>2. Iter(w)' = round[w] /\ (Begun(w, i)' <=> Begun(w, i))
        BY <4>1 DEF Iter, Begun
      <4> QED BY <2>0, <3>0, <4>2
    <3> QED BY <3>1, <3>2
  <2> QED BY <2>1, <2>2 DEF Wave
<1>6. ASSUME NEW i \in DOMAIN body, Kind(i) # "arrive"
      PROVE  left'[w][body[i].id] = Iter(w)' + (IF at'[w] > i THEN 1 ELSE 0)
  <2>0. /\ left[w][body[i].id] = round[w] + (IF at[w] > i THEN 1 ELSE 0)
        /\ body[i].id \in Ids /\ i \in Nat /\ at[w] \in Nat
    BY <1>0, <1>3, <1>6 DEF HistoryInv
  <2>1. CASE Signal(w) \/ SignalIsFirst(w)
    <3>1. /\ Running(w)' /\ round'[w] = round[w]
          /\ IF Kind(at[w]) = "arrive" THEN at'[w] = at[w] + 1 ELSE at'[w] = at[w]
      BY <2>1, SignalMoves
    <3>2. Iter(w)' = round[w]
      BY <3>1 DEF Iter
    <3>3. at'[w] > i <=> at[w] > i
      BY <1>6, <2>0, <3>1
    <3>4. ~(Wait(w) \/ Elected(w) \/ ClusterWait(w))
      BY <2>1 DEF Signal, SignalIsFirst, Wait, Elected, ClusterWait
    <3> QED BY <1>2, <2>0, <3>2, <3>3, <3>4
  <2>2. CASE Wait(w) \/ Elected(w) \/ ClusterWait(w)
    <3>0. Kind(at[w]) # "arrive"
      BY <2>2, OtherMoves
    <3>1. CASE Last(w)
      <4>1. step'[w] = 1 /\ <<round'[w], at'[w]>> = After(round[w], at[w])
        BY <3>1, Moves
      <4>2. /\ round'[w] \in Nat /\ round'[w] <= rounds
            /\ at'[w] \in DOMAIN body <=> round'[w] < rounds
            /\ at'[w] \notin DOMAIN body => round'[w] = rounds /\ at'[w] = Len(body) + 1
            /\ round'[w] = round[w] \/ (round'[w] = round[w] + 1 /\ at[w] = Len(body))
            /\ round'[w] = round[w] => at'[w] = at[w] + 1
            /\ round'[w] = round[w] + 1 /\ round'[w] < rounds => at'[w] = 1
        BY <1>0, <1>3, <4>1, AfterFacts
      <4>3. Running(w)' <=> at'[w] \in DOMAIN body
        BY <1>0, <1>1 DEF Running
      <4>4. Iter(w)' = IF round'[w] < rounds THEN round'[w] ELSE round'[w] - 1
        BY <4>2, <4>3 DEF Iter
      <4>5. body[i].id = OpId(w) <=> i = at[w]
        BY <1>0, <1>2, <1>3, <1>6, <3>0
      <4>6. left'[w][body[i].id] = IF i = at[w] THEN left[w][body[i].id] + 1
                                                ELSE left[w][body[i].id]
        BY <1>2, <2>0, <2>2, <3>1, <4>5
      <4> QED BY <1>0, <1>3, <1>6, <2>0, <4>2, <4>4, <4>6
    <3>2. CASE ~Last(w)
      <4>1. /\ at'[w] = at[w] /\ round'[w] = round[w] /\ Running(w)'
        BY <2>2, <3>2, OtherMoves
      <4>2. Iter(w)' = round[w]
        BY <4>1 DEF Iter
      <4> QED BY <1>2, <2>0, <3>2, <4>1, <4>2
    <3> QED BY <3>1, <3>2
  <2> QED BY <2>1, <2>2 DEF Wave
<1>7. ASSUME NEW u \in Waves, NEW id \in Ids, \A i \in DOMAIN body : body[i].id # id
      PROVE  arrived'[u][id] = 0 /\ left'[u][id] = 0
  BY <1>2, <1>3, <1>7 DEF HistoryInv
<1>8. ASSUME NEW u \in Waves, NEW i \in DOMAIN body
      PROVE  /\ Kind(i) # "wait" => arrived'[u][body[i].id] =
                                      Iter(u)' + (IF Begun(u, i)' THEN 1 ELSE 0)
             /\ Kind(i) # "arrive" => left'[u][body[i].id] =
                                      Iter(u)' + (IF at'[u] > i THEN 1 ELSE 0)
  <2>1. CASE u = w
    BY <1>5, <1>6, <2>1
  <2>2. CASE u # w
    <3>1. /\ arrived'[u][body[i].id] = arrived[u][body[i].id]
          /\ left'[u][body[i].id] = left[u][body[i].id]
      BY <1>0, <1>2, <2>2
    <3>2. at'[u] = at[u] /\ Iter(u)' = Iter(u) /\ (Begun(u, i)' <=> Begun(u, i))
      BY <1>1, <1>4, <2>2
    <3> QED BY <3>1, <3>2 DEF HistoryInv
  <2> QED BY <2>1, <2>2
<1> QED BY <1>1, <1>2, <1>7, <1>8 DEF HistoryInv, Kind

-----------------------------------------------------------------------------
(* The cluster barrier.  A body with a cluster barrier runs once, so the     *)
(* place of a wave only grows.  The first signal of a generation of the      *)
(* workgroup barrier elects the wave that signals the cluster; the lock step *)
(* above makes that the only election of the workgroup for the operation.    *)

Cluster(i) == i \in DOMAIN body /\ Kind(i) = "cluster"

(* The workgroup barrier in operation i has completed for w. *)
Past(w, i) == Begun(w, i) /\ (at[w] = i => ~Pending(w))

Signalled(g, i) == csignals[g][body[i].id] = 1

SignalInv ==
    /\ csignals \in [Groups -> [Ids -> 0..1]]
    /\ \A g \in Groups, id \in Ids :
        csignals[g][id] = 1 => \E i \in DOMAIN body : Cluster(i) /\ body[i].id = id
    /\ \A i \in DOMAIN body : Cluster(i) =>
        /\ \A w \in Waves : at[w] > i => \A g \in Groups : Signalled(g, i)
        /\ \A w \in Waves : Signalled(GroupOf[w], i) => Past(w, i)

(* Wave w has been elected to signal the cluster for operation i, and has not *)
(* done so yet.                                                               *)
Claims(w, i) == at[w] = i /\ step[w] \in {2, 3} /\ first[w]

FirstInv ==
    \A i \in DOMAIN body : Cluster(i) => \A w \in Waves :
        /\ at[w] = i /\ step[w] > 1 =>
              Signalled(GroupOf[w], i) \/ \E u \in Members(GroupOf[w]) : Claims(u, i)
        /\ Claims(w, i) => /\ ~Signalled(GroupOf[w], i)
                           /\ \A u \in Members(GroupOf[w]) : Claims(u, i) => u = w

(* The workgroups the cluster barrier is counting. *)
CPending ==
    {g \in Groups : \E i \in DOMAIN body :
        Cluster(i) /\ Signalled(g, i) /\ \E h \in Groups : ~Signalled(h, i)}

ClusterInv ==
    /\ ccount = Cardinality(CPending)
    /\ \A w \in Waves : cready[w] <=>
        Running(w) /\ Cluster(at[w]) /\ \A g \in Groups : Signalled(g, at[w])

(* A body with a cluster barrier runs once: a wave only moves on. *)
LEMMA OneRound ==
    ASSUME Base, NEW i, Cluster(i), NEW u \in Waves
    PROVE  /\ i \in Nat /\ i <= Len(body) /\ at[u] \in Nat /\ step[u] \in Nat
           /\ Running(u) => round[u] = 0
           /\ ~Running(u) => at[u] = Len(body) + 1 /\ round[u] = 1
           /\ Iter(u) = 0 /\ rounds = 1
<1>1. rounds = 1 /\ i \in DOMAIN body /\ Kind(i) = "cluster"
  BY DEF Cluster, Base, BodyInv
<1>2. DOMAIN body = 1..Len(body) /\ Len(body) \in Nat
  BY BodyFacts DEF Base
<1>3. at[u] \in 1..(Len(body) + 1) /\ step[u] \in 1..4 /\ round[u] \in 0..MaxRounds
  BY DEF Base, PlaceInv
<1>4. /\ Running(u) => round[u] < rounds
      /\ ~Running(u) => round[u] = rounds
  BY DEF Base, PlaceInv
<1>5. Running(u) => round[u] = 0
  BY <1>1, <1>3, <1>4, NativeAssumption
<1>6. ~Running(u) => at[u] = Len(body) + 1
  BY <1>2, <1>3 DEF Running
<1>7. Iter(u) = 0
  BY <1>1, <1>4, <1>5 DEF Iter
<1> QED BY <1>1, <1>2, <1>3, <1>4, <1>5, <1>6, <1>7

LEMMA OnwardMoves ==
    ASSUME Base, NEW i, Cluster(i), NEW w \in Waves, Wave(w)
    PROVE  /\ at[w] \in Nat /\ (Last(w) => at'[w] = at[w] + 1 /\ step'[w] = 1)
           /\ ~Last(w) => at'[w] = at[w] /\ step'[w] = step[w] + 1
           /\ \A u \in Waves : u # w => at'[u] = at[u] /\ step'[u] = step[u]
           /\ \A j : Cluster(j)' <=> Cluster(j)
<1>1. rounds = 1 /\ Running(w) => round[w] = 0
  BY OneRound
<1>2. /\ Running(w) /\ body' = body
      /\ \A u \in Waves : u # w => at'[u] = at[u] /\ step'[u] = step[u]
      /\ ~Last(w) => step'[w] = step[w] + 1 /\ at'[w] = at[w]
      /\ Last(w) => step'[w] = 1 /\ <<round'[w], at'[w]>> = After(round[w], at[w])
  BY Moves
<1>3. at[w] \in DOMAIN body /\ DOMAIN body = 1..Len(body) /\ Len(body) \in Nat /\ rounds = 1
  BY <1>2, AtInstruction, BodyFacts, OneRound DEF Base
<1>4. Last(w) => at'[w] = at[w] + 1
  <2>1. After(0, at[w])[2] = at[w] + 1
    BY <1>3 DEF After
  <2>2. Last(w) => at'[w] = After(0, at[w])[2]
    BY <1>1, <1>2, <1>3
  <2> QED BY <2>1, <2>2
<1>5. \A j : Cluster(j)' <=> Cluster(j)
  BY <1>2 DEF Cluster, Kind
<1> QED BY <1>2, <1>3, <1>4, <1>5

(* Where a wave is relative to a cluster barrier is what it works towards. *)
LEMMA PastPoint ==
    ASSUME Base, NEW i, Cluster(i), NEW u \in Waves
    PROVE  Past(u, i) <=> Point(u)[2] > i
<1>0. /\ i \in Nat /\ i <= Len(body) /\ at[u] \in Nat /\ step[u] \in Nat
      /\ Running(u) => round[u] = 0
      /\ ~Running(u) => at[u] = Len(body) + 1
      /\ i \in DOMAIN body /\ Kind(i) = "cluster" /\ rounds = 1
  BY OneRound DEF Cluster
<1>1. Len(body) \in Nat /\ DOMAIN body = 1..Len(body)
  BY BodyFacts DEF Base
<1>2. CASE ~Running(u)
  <2>1. Point(u)[2] = at[u]
    BY <1>2 DEF Point
  <2>2. at[u] > i
    BY <1>0, <1>1, <1>2
  <2> QED BY <1>0, <2>1, <2>2 DEF Past, Begun
<1>3. CASE Running(u) /\ Pending(u)
  <2>1. Point(u)[2] = Start(at[u])
    BY <1>3 DEF Point
  <2>2. /\ at[u] \in DOMAIN body
        /\ Kind(at[u]) = "wait" => at[u] - 1 \in DOMAIN body /\ Kind(at[u] - 1) = "arrive"
    BY <1>3, AtInstruction DEF Base, BodyInv
  <2>3. Past(u, i) <=> at[u] > i
    BY <1>0, <1>3 DEF Past, Begun
  <2>4. CASE Kind(at[u]) = "wait"
    <3>1. at[u] - 1 # i
      BY <1>0, <2>2, <2>4
    <3>2. Start(at[u]) = at[u] - 1
      BY <2>4 DEF Start
    <3> QED BY <1>0, <2>1, <2>3, <3>1, <3>2
  <2>5. CASE Kind(at[u]) # "wait"
    BY <1>0, <2>1, <2>3, <2>5 DEF Start
  <2> QED BY <2>4, <2>5
<1>4. CASE Running(u) /\ ~Pending(u) /\ step[u] = 1 /\ Kind(at[u]) # "wait"
  <2>1. Point(u)[2] = at[u]
    BY <1>4 DEF Point
  <2> QED BY <1>0, <1>4, <2>1 DEF Past, Begun
<1>5. CASE Running(u) /\ ~Pending(u) /\ ~(step[u] = 1 /\ Kind(at[u]) # "wait")
  <2>1. Point(u) = After(0, at[u])
    BY <1>0, <1>5 DEF Point
  <2>2. at[u] \in DOMAIN body /\ step[u] \in 1..4
    BY <1>5, AtInstruction
  <2>3. Point(u)[2] = at[u] + 1
    BY <1>0, <1>1, <2>1, <2>2 DEF After
  <2>4. at[u] = i => step[u] > 1
    BY <1>0, <1>5, <2>2
  <2>5. Past(u, i) <=> at[u] >= i
    BY <1>0, <1>5, <2>4 DEF Past, Begun
  <2> QED BY <1>0, <2>3, <2>5
<1> QED BY <1>2, <1>3, <1>4, <1>5

(* The barrier completes for all the waves of a workgroup at once. *)
LEMMA PastTogether ==
    ASSUME Lock, NEW i, Cluster(i), NEW w \in Waves, Past(w, i),
           NEW u \in Waves, GroupOf[u] = GroupOf[w]
    PROVE  Past(u, i)
<1>1. Point(u) = Point(w)
  BY DEF Lock, LockStep
<1> QED BY <1>1, PastPoint DEF Lock

(* Once past it, a wave stays past it. *)
LEMMA PastStays ==
    ASSUME Base, CountInv, NEW i, Cluster(i), NEW w \in Waves, Wave(w),
           NEW u \in Waves, Past(u, i)
    PROVE  Past(u, i)'
<1>0. i \in Nat /\ at[u] \in Nat /\ step[u] \in Nat
  BY OneRound
<1>1. /\ at[w] \in Nat /\ (Last(w) => at'[w] = at[w] + 1 /\ step'[w] = 1)
      /\ ~Last(w) => at'[w] = at[w] /\ step'[w] = step[w] + 1
      /\ u # w => at'[u] = at[u] /\ step'[u] = step[u]
  BY OnwardMoves
<1>2. Begun(u, i)
  BY DEF Past
<1>3. Begun(u, i)'
  BY <1>0, <1>1, <1>2 DEF Begun
<1>4. ASSUME at'[u] = i
      PROVE  ~Pending(u)'
  <2>1. at[u] = i /\ step[u] > 1 /\ ~Pending(u)
    BY <1>0, <1>1, <1>2, <1>4 DEF Begun, Past
  <2>2. CASE Wait(w) \/ Elected(w) \/ ClusterWait(w)
    BY <2>1, <2>2, OtherPending
  <2>3. CASE Signal(w) \/ SignalIsFirst(w)
    <3>1. step[w] = 1
      BY <2>3, SignalMoves
    <3>2. u # w
      BY <2>1, <3>1
    <3> QED BY <2>1, <2>3, <3>2, SignalPending
  <2> QED BY <2>2, <2>3 DEF Wave
<1> QED BY <1>3, <1>4 DEF Past

(* The elected wave signals the cluster. *)
Announces(w) == Elected(w) /\ first[w]

LEMMA AnnounceEffect ==
    ASSUME Base, SignalInv, FirstInv, NEW w \in Waves, Wave(w)
    PROVE  /\ Announces(w) => /\ Cluster(at[w]) /\ step[w] = 3 /\ ~Last(w) /\ ~Pending(w)
                              /\ ~Signalled(GroupOf[w], at[w])
           /\ csignals' \in [Groups -> [Ids -> 0..1]]
           /\ \A g \in Groups, id \in Ids : csignals'[g][id] = 1 =>
                csignals[g][id] = 1 \/ (Announces(w) /\ id = body[at[w]].id)
           /\ \A g \in Groups, j \in DOMAIN body : Cluster(j) =>
                (Signalled(g, j)' <=> \/ Signalled(g, j)
                                      \/ Announces(w) /\ g = GroupOf[w] /\ j = at[w])
<1>0. /\ \A j \in DOMAIN body : body[j].id \in Ids
      /\ \A i, j \in DOMAIN body : body[i].id = body[j].id =>
           (Kind(i) # "wait" /\ Kind(j) # "wait" => i = j)
      /\ csignals \in [Groups -> [Ids -> 0..1]] /\ GroupOf[w] \in Groups
  BY BodyFacts, NativeAssumption DEF Base, SignalInv
<1>1. body' = body /\ at[w] \in DOMAIN body
  BY Moves, AtInstruction
<1>2. CASE Announces(w)
  <2>0. Elected(w) /\ first[w] /\ Running(w) /\ Instr(w) = "elected"
    BY <1>2 DEF Announces, Elected
  <2>1. Kind(at[w]) = "cluster" /\ step[w] = 3 /\ ~Last(w) /\ ~Pending(w)
    BY <2>0, AtInstruction DEF Pending
  <2>2. Cluster(at[w])
    BY <1>1, <2>1 DEF Cluster
  <2>3. Claims(w, at[w])
    BY <2>0, <2>1 DEF Claims
  <2>4. ~Signalled(GroupOf[w], at[w])
    BY <1>1, <2>2, <2>3 DEF FirstInv
  <2>5. csignals' = [csignals EXCEPT ![GroupOf[w]][body[at[w]].id] = @ + 1]
    BY <2>0 DEF Elected, IsElected, OpId
  <2>6. csignals[GroupOf[w]][body[at[w]].id] = 0
    BY <1>0, <1>1, <2>4 DEF Signalled
  <2>7. \A g \in Groups, id \in Ids :
          csignals'[g][id] = IF g = GroupOf[w] /\ id = body[at[w]].id THEN 1 ELSE csignals[g][id]
    BY <1>0, <1>1, <2>5, <2>6
  <2>8. csignals' \in [Groups -> [Ids -> 0..1]]
    BY <1>0, <1>1, <2>5, <2>6
  <2>9. ASSUME NEW g \in Groups, NEW j \in DOMAIN body, Cluster(j)
        PROVE  Signalled(g, j)' <=> Signalled(g, j) \/ (g = GroupOf[w] /\ j = at[w])
    <3>1. body[j].id = body[at[w]].id <=> j = at[w]
      BY <1>0, <1>1, <2>1, <2>9 DEF Cluster
    <3> QED BY <1>0, <1>1, <2>7, <3>1 DEF Signalled
  <2> QED BY <1>2, <2>1, <2>2, <2>4, <2>7, <2>8, <2>9
<1>3. CASE ~Announces(w)
  <2>1. csignals' = csignals
    BY <1>3 DEF Announces, Wave, Signal, SignalIsFirst, Wait, Elected, ClusterWait, IsElected
  <2> QED BY <1>0, <1>1, <1>3, <2>1 DEF Signalled
<1> QED BY <1>2, <1>3

(* Leaving a cluster barrier takes the completion of the cluster. *)
LEMMA LeavesCluster ==
    ASSUME Base, ClusterInv, NEW w \in Waves, Wave(w), Last(w), Cluster(at[w])
    PROVE  ClusterWait(w) /\ \A g \in Groups : Signalled(g, at[w])
<1>0. Running(w) /\ Kind(at[w]) = "cluster"
  BY Moves DEF Cluster
<1>1. Instr(w) = "cwait"
  BY <1>0, AtInstruction
<1>2. ClusterWait(w)
  BY <1>1 DEF Wave, Signal, SignalIsFirst, Wait, Elected
<1>3. cready[w]
  BY <1>2 DEF ClusterWait
<1> QED BY <1>2, <1>3 DEF ClusterInv

LEMMA SignalStep ==
    ASSUME Lock, SignalInv, FirstInv, ClusterInv, NEW w \in Waves, Wave(w)
    PROVE  SignalInv'
<1>0. Base /\ CountInv /\ \A u \in Waves : GroupOf[u] \in Groups
  BY NativeAssumption DEF Lock
<1>1. body' = body
  BY <1>0, Moves
<1>2. /\ Announces(w) => Cluster(at[w]) /\ step[w] = 3 /\ ~Pending(w)
      /\ csignals' \in [Groups -> [Ids -> 0..1]]
      /\ \A g \in Groups, id \in Ids : csignals'[g][id] = 1 =>
           csignals[g][id] = 1 \/ (Announces(w) /\ id = body[at[w]].id)
      /\ \A g \in Groups, j \in DOMAIN body : Cluster(j) =>
           (Signalled(g, j)' <=> \/ Signalled(g, j)
                                 \/ Announces(w) /\ g = GroupOf[w] /\ j = at[w])
  BY <1>0, AnnounceEffect
<1>3. \A j : Cluster(j)' <=> Cluster(j)
  BY <1>1 DEF Cluster, Kind
<1>4. ASSUME NEW g \in Groups, NEW id \in Ids, csignals'[g][id] = 1
      PROVE  \E i \in DOMAIN body : Cluster(i) /\ body[i].id = id
  <2>1. CASE csignals[g][id] = 1
    BY <2>1 DEF SignalInv
  <2>2. CASE Announces(w) /\ id = body[at[w]].id
    BY <1>2, <2>2 DEF Cluster
  <2> QED BY <1>2, <1>4, <2>1, <2>2
<1>5. ASSUME NEW i \in DOMAIN body, Cluster(i), NEW u \in Waves, at'[u] > i,
             NEW g \in Groups
      PROVE  Signalled(g, i)'
  <2>0. i \in Nat /\ at[u] \in Nat
    BY <1>0, <1>5, OneRound
  <2>1. CASE at[u] > i
    BY <1>2, <1>5, <2>1 DEF SignalInv
  <2>2. CASE ~(at[u] > i)
    <3>1. u = w /\ Last(w) /\ at[w] = i
      BY <1>0, <1>5, <2>0, <2>2, OnwardMoves
    <3>2. Signalled(g, i)
      BY <1>0, <1>5, <3>1, LeavesCluster
    <3> QED BY <1>2, <1>5, <3>2
  <2> QED BY <2>1, <2>2
<1>6. ASSUME NEW i \in DOMAIN body, Cluster(i), NEW u \in Waves, Signalled(GroupOf[u], i)'
      PROVE  Past(u, i)'
  <2>1. Past(u, i)
    <3>1. CASE Signalled(GroupOf[u], i)
      BY <1>6, <3>1 DEF SignalInv
    <3>2. CASE Announces(w) /\ GroupOf[u] = GroupOf[w] /\ i = at[w]
      <4>1. Past(w, i)
        BY <1>2, <3>2 DEF Past, Begun
      <4> QED BY <1>6, <3>2, <4>1, PastTogether
    <3> QED BY <1>0, <1>2, <1>6, <3>1, <3>2
  <2> QED BY <1>0, <1>6, <2>1, PastStays
<1> QED BY <1>1, <1>2, <1>3, <1>4, <1>5, <1>6 DEF SignalInv

(* What a step does to the elections. *)
LEMMA ClaimMoves ==
    ASSUME Base, NEW i, Cluster(i), NEW w \in Waves, Wave(w), first' \in [Waves -> BOOLEAN]
    PROVE  /\ \A u \in Waves : u # w => (Claims(u, i)' <=> Claims(u, i))
           /\ SignalIsFirst(w) /\ at[w] = i =>
                /\ step[w] = 1 /\ at'[w] = i /\ step'[w] = 2
                /\ Claims(w, i)' <=> count[GroupOf[w]] = 0
           /\ ~(SignalIsFirst(w) /\ at[w] = i) =>
                (Claims(w, i)' <=> Claims(w, i) /\ step[w] = 2)
           /\ Claims(w, i) /\ step[w] # 2 => Announces(w)
<1>0. /\ at[w] \in Nat /\ (Last(w) => at'[w] = at[w] + 1 /\ step'[w] = 1)
      /\ ~Last(w) => at'[w] = at[w] /\ step'[w] = step[w] + 1
      /\ \A u \in Waves : u # w => at'[u] = at[u] /\ step'[u] = step[u]
  BY OnwardMoves
<1>1. /\ \A u \in Waves : u # w => first'[u] = first[u]
      /\ SignalIsFirst(w) => first'[w] = (count[GroupOf[w]] = 0)
      /\ ~SignalIsFirst(w) => first' = first
  BY DEF Wave, Signal, SignalIsFirst, Wait, Elected, ClusterWait, Base, PlaceInv
<1>2. \A u \in Waves : u # w => (Claims(u, i)' <=> Claims(u, i))
  BY <1>0, <1>1 DEF Claims
<1>3. /\ Running(w) /\ at[w] \in DOMAIN body /\ step[w] \in 1..4
      /\ Kind(at[w]) = "cluster" => /\ Last(w) <=> step[w] = 4
                                    /\ step[w] = 1 <=> Instr(w) = "isfirst"
                                    /\ step[w] = 3 <=> Instr(w) = "elected"
  <2>1. Running(w)
    BY Moves
  <2>2. /\ at[w] \in DOMAIN body /\ step[w] \in 1..4
        /\ Kind(at[w]) = "cluster" =>
             \/ step[w] = 1 /\ Instr(w) = "isfirst" /\ ~Last(w)
             \/ step[w] = 2 /\ Instr(w) = "wait" /\ ~Last(w)
             \/ step[w] = 3 /\ Instr(w) = "elected" /\ ~Last(w)
             \/ step[w] = 4 /\ Instr(w) = "cwait" /\ Last(w)
    BY <2>1, AtInstruction
  <2> QED BY <2>1, <2>2
<1>4. Kind(i) = "cluster"
  BY DEF Cluster
<1>5. ASSUME SignalIsFirst(w), at[w] = i
      PROVE  /\ step[w] = 1 /\ at'[w] = i /\ step'[w] = 2
             /\ Claims(w, i)' <=> count[GroupOf[w]] = 0
  <2>1. Instr(w) = "isfirst"
    BY <1>5 DEF SignalIsFirst
  <2>2. step[w] = 1 /\ at'[w] = i /\ step'[w] = 2
    BY <1>0, <1>3, <1>4, <1>5, <2>1
  <2> QED BY <1>1, <1>5, <2>2 DEF Claims
<1>6. ASSUME ~(SignalIsFirst(w) /\ at[w] = i)
      PROVE  Claims(w, i)' <=> Claims(w, i) /\ step[w] = 2
  <2>1. CASE at[w] = i
    <3>1. first' = first /\ Instr(w) # "isfirst"
      BY <1>1, <1>6, <2>1 DEF Wave, Signal, SignalIsFirst, Wait, Elected, ClusterWait
    <3>2. step[w] \in {2, 3, 4} /\ (Last(w) <=> step[w] = 4)
      BY <1>3, <1>4, <2>1, <3>1
    <3> QED BY <1>0, <2>1, <3>1, <3>2 DEF Claims
  <2>2. CASE at[w] # i
    <3>1. at'[w] = i => step'[w] = 1
      BY <1>0, <2>2
    <3> QED BY <2>2, <3>1 DEF Claims
  <2> QED BY <2>1, <2>2
<1>7. ASSUME Claims(w, i), step[w] # 2
      PROVE  Announces(w)
  <2>1. at[w] = i /\ step[w] = 3 /\ first[w]
    BY <1>7 DEF Claims
  <2>2. Instr(w) = "elected"
    BY <1>3, <1>4, <2>1
  <2>3. Elected(w)
    BY <2>2 DEF Wave, Signal, SignalIsFirst, Wait, ClusterWait
  <2> QED BY <2>1, <2>3 DEF Announces
<1> QED BY <1>2, <1>5, <1>6, <1>7

(* The first signal of a generation: nobody of the workgroup has begun the   *)
(* operation.  A later one: somebody is already pending at it.               *)
LEMMA FirstSignal ==
    ASSUME Lock, NEW i, Cluster(i), NEW w \in Waves, SignalIsFirst(w), at[w] = i
    PROVE  /\ ~Past(w, i)
           /\ count[GroupOf[w]] = 0 =>
                \A u \in Members(GroupOf[w]) : ~(at[u] = i /\ step[u] > 1)
           /\ count[GroupOf[w]] # 0 =>
                \E u \in Members(GroupOf[w]) : at[u] = i /\ step[u] > 1
<1>0. Base /\ CountInv /\ LockStep /\ i \in DOMAIN body /\ Kind(i) = "cluster"
  BY DEF Lock, Cluster
<1>1. Running(w) /\ step[w] = 1 /\ Kind(at[w]) # "wait" /\ ~Pending(w)
  BY <1>0, SignalMoves, SignalEffect
<1>2. count[GroupOf[w]] = 0 <=> \A u \in Members(GroupOf[w]) : ~Pending(u)
  BY <1>0, SignalEffect
<1>3. i \in Nat /\ at[w] \in Nat
  BY <1>0, OneRound
<1>4. ~Past(w, i)
  BY <1>1, <1>3 DEF Past, Begun
<1>5. ASSUME count[GroupOf[w]] = 0, NEW u \in Members(GroupOf[w]), at[u] = i, step[u] > 1
      PROVE  FALSE
  <2>1. u \in Waves /\ GroupOf[u] = GroupOf[w]
    BY DEF Members
  <2>2. Past(u, i)
    BY <1>2, <1>5 DEF Past, Begun
  <2> QED BY <1>4, <2>1, <2>2, PastTogether
<1>6. ASSUME count[GroupOf[w]] # 0
      PROVE  \E u \in Members(GroupOf[w]) : at[u] = i /\ step[u] > 1
  <2>1. PICK u \in Members(GroupOf[w]) : Pending(u)
    BY <1>2, <1>6
  <2>2. u \in Waves /\ GroupOf[u] = GroupOf[w]
    BY DEF Members
  <2>3. Point(u) = Point(w)
    BY <1>0, <2>2 DEF LockStep
  <2>4. Point(w) = <<round[w], i>>
    BY <1>1 DEF Point
  <2>5. Point(u) = <<round[u], Start(at[u])>>
    BY <2>1 DEF Point, Pending
  <2>6. Start(at[u]) = i
    BY <2>3, <2>4, <2>5
  <2>7. at[u] = i /\ step[u] = 2
    BY <1>0, <2>1, <2>2, <2>6, SameWait
  <2> QED BY <2>7
<1> QED BY <1>4, <1>5, <1>6

LEMMA FirstStep ==
    ASSUME Lock, SignalInv, FirstInv, NEW w \in Waves, Wave(w)
    PROVE  FirstInv'
<1>0. Base /\ CountInv /\ \A u \in Waves : GroupOf[u] \in Groups
  BY NativeAssumption DEF Lock
<1>1. body' = body
  BY <1>0, Moves
<1>2. \A j : Cluster(j)' <=> Cluster(j)
  BY <1>1 DEF Cluster, Kind
<1>3. first' \in [Waves -> BOOLEAN]
  BY <1>0, BaseStep DEF Base, PlaceInv
<1>4. /\ Announces(w) => Cluster(at[w]) /\ step[w] = 3 /\ ~Last(w)
      /\ \A g \in Groups, j \in DOMAIN body : Cluster(j) =>
           (Signalled(g, j)' <=> \/ Signalled(g, j)
                                 \/ Announces(w) /\ g = GroupOf[w] /\ j = at[w])
  BY <1>0, AnnounceEffect
<1>5. SUFFICES ASSUME NEW i \in DOMAIN body, Cluster(i), NEW u \in Waves
               PROVE  /\ at'[u] = i /\ step'[u] > 1 =>
                            \/ Signalled(GroupOf[u], i)'
                            \/ \E v \in Members(GroupOf[u]) : Claims(v, i)'
                      /\ Claims(u, i)' =>
                            /\ ~Signalled(GroupOf[u], i)'
                            /\ \A v \in Members(GroupOf[u]) : Claims(v, i)' => v = u
  BY <1>1, <1>2 DEF FirstInv, Members
<1>6. /\ \A v \in Waves : v # w => (Claims(v, i)' <=> Claims(v, i))
      /\ SignalIsFirst(w) /\ at[w] = i =>
           /\ step[w] = 1 /\ at'[w] = i /\ step'[w] = 2
           /\ Claims(w, i)' <=> count[GroupOf[w]] = 0
      /\ ~(SignalIsFirst(w) /\ at[w] = i) =>
           (Claims(w, i)' <=> Claims(w, i) /\ step[w] = 2)
      /\ Claims(w, i) /\ step[w] # 2 => Announces(w)
  BY <1>0, <1>3, <1>5, ClaimMoves
<1>7. /\ \A v \in Waves :
           at[v] = i /\ step[v] > 1 =>
              Signalled(GroupOf[v], i) \/ \E x \in Members(GroupOf[v]) : Claims(x, i)
      /\ \A v \in Waves : Claims(v, i) =>
           /\ ~Signalled(GroupOf[v], i)
           /\ \A x \in Members(GroupOf[v]) : Claims(x, i) => x = v
  BY <1>5 DEF FirstInv
<1>8. ASSUME NEW v \in Waves, GroupOf[v] = GroupOf[u],
             Signalled(GroupOf[v], i) \/ \E x \in Members(GroupOf[v]) : Claims(x, i)
      PROVE  \/ Signalled(GroupOf[u], i)'
             \/ \E x \in Members(GroupOf[u]) : Claims(x, i)'
  <2>1. CASE Signalled(GroupOf[v], i)
    BY <1>0, <1>4, <1>5, <1>8, <2>1
  <2>2. CASE \E x \in Members(GroupOf[v]) : Claims(x, i)
    <3>1. PICK x \in Members(GroupOf[v]) : Claims(x, i)
      BY <2>2
    <3>2. x \in Waves /\ GroupOf[x] = GroupOf[u] /\ x \in Members(GroupOf[u])
      BY <1>8 DEF Members
    <3>3. CASE x # w
      BY <1>6, <3>1, <3>2, <3>3
    <3>4. CASE x = w /\ step[w] = 2
      BY <1>6, <3>1, <3>2, <3>4
    <3>5. CASE x = w /\ step[w] # 2
      <4>1. Announces(w) /\ at[w] = i
        BY <1>6, <3>1, <3>5 DEF Claims
      <4> QED BY <1>0, <1>4, <1>5, <3>2, <3>5, <4>1
    <3> QED BY <3>3, <3>4, <3>5
  <2> QED BY <1>8, <2>1, <2>2
<1>9. ASSUME at'[u] = i, step'[u] > 1
      PROVE  \/ Signalled(GroupOf[u], i)'
             \/ \E v \in Members(GroupOf[u]) : Claims(v, i)'
  <2>1. CASE at[u] = i /\ step[u] > 1
    BY <1>7, <1>8, <2>1
  <2>2. CASE ~(at[u] = i /\ step[u] > 1)
    <3>0. step[u] \in 1..4
      BY <1>0 DEF Base, PlaceInv
    <3>1. u = w /\ ~Last(w) /\ at[w] = i /\ step[w] = 1
      BY <1>0, <1>5, <1>9, <2>2, <3>0, OnwardMoves
    <3>2. Instr(w) = "isfirst"
      BY <1>0, <1>5, <3>1, Moves, AtInstruction DEF Cluster
    <3>3. SignalIsFirst(w)
      BY <3>2 DEF Wave, Signal, Wait, Elected, ClusterWait
    <3>4. CASE count[GroupOf[w]] = 0
      BY <1>6, <3>1, <3>3, <3>4 DEF Members
    <3>5. CASE count[GroupOf[w]] # 0
      <4>1. PICK v \in Members(GroupOf[w]) : at[v] = i /\ step[v] > 1
        BY <1>5, <3>1, <3>3, <3>5, FirstSignal
      <4>2. v \in Waves /\ GroupOf[v] = GroupOf[u]
        BY <3>1 DEF Members
      <4> QED BY <1>7, <1>8, <4>1, <4>2
    <3> QED BY <3>4, <3>5
  <2> QED BY <2>1, <2>2
<1>10. ASSUME Claims(u, i)'
       PROVE  /\ ~Signalled(GroupOf[u], i)'
              /\ \A v \in Members(GroupOf[u]) : Claims(v, i)' => v = u
  <2>1. CASE SignalIsFirst(w) /\ at[w] = i /\ GroupOf[w] = GroupOf[u] /\ Claims(w, i)'
    <3>1. count[GroupOf[w]] = 0 /\ step[w] = 1
      BY <1>6, <2>1
    <3>2. /\ ~Past(w, i)
          /\ \A v \in Members(GroupOf[w]) : ~(at[v] = i /\ step[v] > 1)
      BY <1>5, <2>1, <3>1, FirstSignal
    <3>3. \A v \in Members(GroupOf[w]) : ~Claims(v, i)
      BY <3>2 DEF Claims
    <3>4. \A v \in Members(GroupOf[w]) : Claims(v, i)' => v = w
      BY <1>6, <3>3 DEF Members
    <3>5. u = w
      BY <1>10, <2>1, <3>4 DEF Members
    <3>6. ~Signalled(GroupOf[w], i)
      BY <1>5, <3>2 DEF SignalInv
    <3>7. ~Announces(w)
      BY <1>4, <3>1
    <3> QED BY <1>0, <1>4, <1>5, <2>1, <3>4, <3>5, <3>6, <3>7
  <2>2. CASE ~(SignalIsFirst(w) /\ at[w] = i /\ GroupOf[w] = GroupOf[u] /\ Claims(w, i)')
    <3>1. ASSUME NEW v \in Waves, GroupOf[v] = GroupOf[u], Claims(v, i)'
          PROVE  Claims(v, i) /\ (v = w => step[w] = 2)
      BY <1>6, <2>2, <3>1
    <3>2. Claims(u, i) /\ (u = w => step[w] = 2)
      BY <1>10, <3>1
    <3>3. \A v \in Members(GroupOf[u]) : Claims(v, i)' => v = u
      BY <1>7, <3>1, <3>2 DEF Members
    <3>4. ~(Announces(w) /\ GroupOf[u] = GroupOf[w] /\ i = at[w])
      <4>1. SUFFICES ASSUME Announces(w), GroupOf[u] = GroupOf[w], i = at[w]
                     PROVE  FALSE
        OBVIOUS
      <4>2. Claims(w, i) /\ step[w] = 3
        BY <1>4, <4>1 DEF Claims, Announces
      <4>3. w = u
        BY <1>7, <3>2, <4>1, <4>2 DEF Members
      <4> QED BY <3>2, <4>2, <4>3
    <3> QED BY <1>0, <1>4, <1>5, <1>7, <3>2, <3>3, <3>4
  <2> QED BY <2>1, <2>2
<1> QED BY <1>9, <1>10

(* The waves of a workgroup that has signalled have all reached the operation. *)
LEMMA SignalledReached ==
    ASSUME Base, SignalInv, NEW i, Cluster(i), NEW u \in Waves, Signalled(GroupOf[u], i)
    PROVE  at[u] \in Nat /\ i \in Nat /\ at[u] >= i
<1>1. Past(u, i)
  BY DEF SignalInv, Cluster
<1>2. at[u] \in Nat /\ i \in Nat
  BY OneRound
<1> QED BY <1>1, <1>2 DEF Past, Begun

(* The workgroups are counted for one operation at a time. *)
LEMMA OnePending ==
    ASSUME Base, SignalInv, NEW i, Cluster(i), NEW w \in Waves, at[w] = i,
           NEW g \in Groups, ~Signalled(g, i)
    PROVE  /\ \A u \in Waves : at[u] <= i
           /\ CPending = {h \in Groups : Signalled(h, i)}
<1>0. i \in DOMAIN body /\ i \in Nat /\ \A u \in Waves : at[u] \in Nat
  BY OneRound DEF Cluster
<1>1. \A u \in Waves : at[u] <= i
  <2>1. \A u \in Waves : ~(at[u] > i)
    BY <1>0 DEF SignalInv
  <2> QED BY <1>0, <2>1
<1>2. ASSUME NEW h \in Groups, NEW j \in DOMAIN body, Cluster(j), Signalled(h, j),
             NEW k \in Groups, ~Signalled(k, j)
      PROVE  j = i
  <2>1. PICK v \in Waves : GroupOf[v] = h
    BY NativeAssumption
  <2>2. at[v] >= j /\ j \in Nat
    BY <1>2, <2>1, SignalledReached
  <2>3. ~(at[w] > j)
    BY <1>2 DEF SignalInv
  <2> QED BY <1>0, <1>1, <2>2, <2>3
<1>3. CPending = {h \in Groups : Signalled(h, i)}
  BY <1>0, <1>2 DEF CPending
<1> QED BY <1>1, <1>3

LEMMA ClusterStep ==
    ASSUME Lock, SignalInv, FirstInv, ClusterInv, SignalInv', NEW w \in Waves, Wave(w)
    PROVE  ClusterInv'
<1>0. Base /\ CountInv /\ \A u \in Waves : GroupOf[u] \in Groups
  BY NativeAssumption DEF Lock
<1>1. /\ body' = body /\ Running(w) /\ at[w] \in DOMAIN body
      /\ \A u \in Waves : u # w => at'[u] = at[u] /\ (Running(u)' <=> Running(u))
      /\ ~Last(w) => at'[w] = at[w] /\ Running(w)'
  BY <1>0, Moves, AtInstruction
<1>2. \A j : Cluster(j)' <=> Cluster(j)
  BY <1>1 DEF Cluster, Kind
<1>3. /\ Announces(w) => /\ Cluster(at[w]) /\ step[w] = 3 /\ ~Last(w) /\ ~Pending(w)
                         /\ ~Signalled(GroupOf[w], at[w])
      /\ \A g \in Groups, j \in DOMAIN body : Cluster(j) =>
           (Signalled(g, j)' <=> \/ Signalled(g, j)
                                 \/ Announces(w) /\ g = GroupOf[w] /\ j = at[w])
  BY <1>0, AnnounceEffect
<1>4. CASE ~Announces(w)
  <2>1. /\ ccount' = ccount
        /\ ~ClusterWait(w) => cready' = cready
        /\ ClusterWait(w) => cready' = [cready EXCEPT ![w] = FALSE]
    BY <1>4 DEF Announces, Wave, Signal, SignalIsFirst, Wait, Elected, ClusterWait, IsElected
  <2>2. CPending' = CPending
    BY <1>1, <1>2, <1>3, <1>4 DEF CPending
  <2>3. cready \in [Waves -> BOOLEAN]
    BY <1>0 DEF Base, PlaceInv
  <2>4. ASSUME NEW u \in Waves, at'[u] = at[u], Running(u)' <=> Running(u), cready'[u] = cready[u]
        PROVE  cready'[u] <=> /\ Running(u)' /\ Cluster(at[u])'
                              /\ \A g \in Groups : Signalled(g, at[u])'
    <3>1. Cluster(at[u]) => \A g \in Groups : Signalled(g, at[u])' <=> Signalled(g, at[u])
      BY <1>3, <1>4, <2>4 DEF Cluster
    <3>2. cready[u] <=> Running(u) /\ Cluster(at[u]) /\ \A g \in Groups : Signalled(g, at[u])
      BY DEF ClusterInv
    <3> QED BY <1>2, <2>4, <3>1, <3>2
  <2>5. \A u \in Waves : u # w => cready'[u] = cready[u]
    BY <2>1, <2>3
  <2>6. CASE ~Last(w)
    <3>1. ~ClusterWait(w)
      <4>1. ClusterWait(w) => Instr(w) = "cwait"
        BY DEF ClusterWait
      <4> QED BY <1>0, <1>1, <2>6, <4>1, AtInstruction
    <3> QED BY <1>1, <2>1, <2>2, <2>4, <2>5, <2>6, <3>1 DEF ClusterInv, Signalled, Cluster, Kind
  <2>7. CASE Last(w)
    <3>1. ~cready'[w]
      <4>1. CASE ClusterWait(w)
        BY <2>1, <2>3, <4>1
      <4>2. CASE ~ClusterWait(w)
        <5>1. ~Cluster(at[w])
          BY <1>0, <2>7, <4>2, LeavesCluster
        <5> QED BY <2>1, <4>2, <5>1 DEF ClusterInv
      <4> QED BY <4>1, <4>2
    <3>2. ASSUME NEW j, j = at'[w], Cluster(j), \A g \in Groups : Signalled(g, j)'
          PROVE  FALSE
      <4>1. Signalled(GroupOf[w], j)
        BY <1>0, <1>3, <1>4, <3>2 DEF Cluster
      <4>2. at[w] >= j /\ at[w] \in Nat
        BY <1>0, <3>2, <4>1, SignalledReached
      <4>3. at'[w] = at[w] + 1
        BY <1>0, <2>7, <3>2, OnwardMoves
      <4> QED BY <3>2, <4>2, <4>3
    <3>3. ~(Cluster(at'[w]) /\ \A g \in Groups : csignals'[g][body[at'[w]].id] = 1)
      BY <1>1, <3>2 DEF Signalled
    <3> QED BY <1>1, <2>1, <2>2, <2>4, <2>5, <3>1, <3>3 DEF ClusterInv, Signalled, Cluster, Kind
  <2> QED BY <2>6, <2>7
<1>5. CASE Announces(w)
  <2>0. /\ Cluster(at[w]) /\ at[w] \in DOMAIN body /\ ~Signalled(GroupOf[w], at[w])
        /\ \A u \in Waves : at'[u] = at[u] /\ (Running(u)' <=> Running(u))
        /\ Elected(w) /\ first[w] /\ GroupOf[w] \in Groups
    BY <1>0, <1>1, <1>3, <1>5 DEF Announces
  <2>1. /\ \A u \in Waves : at[u] <= at[w]
        /\ CPending = {h \in Groups : Signalled(h, at[w])}
    BY <1>0, <2>0, OnePending
  <2>2. \A h \in Groups, j \in DOMAIN body : Cluster(j) =>
          (Signalled(h, j)' <=> Signalled(h, j) \/ (h = GroupOf[w] /\ j = at[w]))
    BY <1>3, <1>5
  <2>3. /\ IsFiniteSet(CPending) /\ CPending \subseteq Groups /\ GroupOf[w] \notin CPending
        /\ IsFiniteSet(CPending \cup {GroupOf[w]})
        /\ Cardinality(CPending \cup {GroupOf[w]}) = Cardinality(CPending) + 1
        /\ ccount = Cardinality(CPending) /\ Cardinality(CPending) \in Nat
    <3>1. CPending \subseteq Groups /\ IsFiniteSet(Groups) /\ GroupOf[w] \notin CPending
      BY <2>0, <2>1, NativeAssumption
    <3>2. IsFiniteSet(CPending)
      BY <3>1, FS_Subset
    <3>3. /\ IsFiniteSet(CPending \cup {GroupOf[w]})
          /\ Cardinality(CPending \cup {GroupOf[w]}) = Cardinality(CPending) + 1
      BY <3>1, <3>2, FS_AddElement
    <3>4. Cardinality(CPending) \in Nat
      BY <3>2, FS_CardinalityType
    <3> QED BY <3>1, <3>2, <3>3, <3>4 DEF ClusterInv
  <2>4. CPending \cup {GroupOf[w]} = Groups <=> ccount + 1 = Cardinality(Groups)
    <3>1. CPending \cup {GroupOf[w]} \subseteq Groups /\ IsFiniteSet(Groups)
      BY <2>0, <2>3, NativeAssumption
    <3>2. Cardinality(CPending \cup {GroupOf[w]}) = Cardinality(Groups)
            => CPending \cup {GroupOf[w]} = Groups
      BY <3>1, FS_Subset
    <3> QED BY <2>3, <3>2
  <2>5. SignalCluster
    BY <2>0 DEF Elected, IsElected
  <2>6. \A h \in Groups : Signalled(h, at[w])' <=> h \in CPending \cup {GroupOf[w]}
    BY <2>0, <2>1, <2>2
  <2>7. CASE ccount + 1 = Cardinality(Groups)
    <3>1. ccount' = 0 /\ cready' = [v \in Waves |-> TRUE]
      BY <2>5, <2>7 DEF SignalCluster
    <3>2. \A h \in Groups : Signalled(h, at[w])'
      BY <2>4, <2>6, <2>7
    <3>3. \A u \in Waves : at[u] = at[w]
      <4>1. SUFFICES ASSUME NEW u \in Waves
                     PROVE  at[u] = at[w]
        OBVIOUS
      <4>2. Past(u, at[w])
        <5>1. CASE GroupOf[u] = GroupOf[w]
          <6>1. Past(w, at[w])
            BY <1>3, <1>5 DEF Past, Begun
          <6> QED BY <2>0, <5>1, <6>1, PastTogether
        <5>2. CASE GroupOf[u] # GroupOf[w]
          BY <1>0, <2>0, <2>2, <3>2, <5>2 DEF SignalInv
        <5> QED BY <5>1, <5>2
      <4>3. at[u] \in Nat /\ at[w] \in Nat
        BY <1>0, <2>0, OneRound
      <4> QED BY <2>1, <4>2, <4>3 DEF Past, Begun
    <3>4. CPending' = {}
      <4>1. ASSUME NEW h \in Groups, NEW j \in DOMAIN body, Cluster(j), Signalled(h, j)',
                   NEW k \in Groups, ~Signalled(k, j)'
            PROVE  FALSE
        <5>1. j # at[w]
          BY <2>0, <3>2, <4>1
        <5>2. Signalled(h, j) /\ ~Signalled(k, j)
          BY <2>2, <4>1, <5>1
        <5>3. h \in CPending
          BY <4>1, <5>2 DEF CPending
        <5>4. PICK v \in Waves : GroupOf[v] = h
          BY NativeAssumption
        <5>5. at[v] >= j /\ at[v] \in Nat /\ j \in Nat
          BY <1>0, <4>1, <5>2, <5>4, SignalledReached
        <5>6. ~(at[w] > j)
          BY <4>1, <5>2 DEF SignalInv
        <5> QED BY <3>3, <5>1, <5>5, <5>6
      <4> QED BY <1>1, <1>2, <4>1 DEF CPending
    <3>5. Cardinality(CPending') = 0
      BY <3>4, FS_EmptySet
    <3>6. \A u \in Waves : Running(u)' /\ Cluster(at'[u])
      BY <1>1, <2>0, <3>3 DEF Running
    <3> QED BY <1>1, <2>0, <3>1, <3>2, <3>3, <3>5, <3>6 DEF ClusterInv, Signalled, Cluster, Kind
  <2>8. CASE ccount + 1 # Cardinality(Groups)
    <3>1. ccount' = ccount + 1 /\ cready' = cready
      BY <2>5, <2>8 DEF SignalCluster
    <3>2. PICK k \in Groups : k \notin CPending \cup {GroupOf[w]}
      BY <2>0, <2>3, <2>4, <2>8
    <3>3. ~Signalled(k, at[w])'
      BY <2>6, <3>2
    <3>4. CPending' = CPending \cup {GroupOf[w]}
      <4>1. ASSUME NEW h \in Groups, NEW j \in DOMAIN body, Cluster(j), Signalled(h, j)',
                   NEW x \in Groups, ~Signalled(x, j)'
            PROVE  h \in CPending \cup {GroupOf[w]}
        BY <2>2, <4>1 DEF CPending
      <4>2. ASSUME NEW h \in CPending \cup {GroupOf[w]}
            PROVE  Signalled(h, at[w])' /\ ~Signalled(k, at[w])' /\ h \in Groups
        BY <2>0, <2>3, <2>6, <3>3
      <4>3. \A h \in CPending' : h \in CPending \cup {GroupOf[w]}
        BY <1>1, <1>2, <4>1 DEF CPending
      <4>4. \A h \in CPending \cup {GroupOf[w]} : h \in CPending'
        BY <1>1, <1>2, <2>0, <4>2 DEF CPending
      <4> QED BY <4>3, <4>4
    <3>5. ASSUME NEW u \in Waves
          PROVE  cready'[u] <=> /\ Running(u)' /\ Cluster(at[u])
                                /\ \A g \in Groups : Signalled(g, at[u])'
      <4>1. cready[u] <=> Running(u) /\ Cluster(at[u]) /\ \A g \in Groups : Signalled(g, at[u])
        BY DEF ClusterInv
      <4>2. CASE at[u] = at[w]
        BY <2>0, <3>1, <3>3, <4>1, <4>2
      <4>3. CASE at[u] # at[w]
        <5>1. Cluster(at[u]) => \A g \in Groups : Signalled(g, at[u])' <=> Signalled(g, at[u])
          BY <2>0, <2>2, <4>3 DEF Cluster
        <5> QED BY <2>0, <3>1, <4>1, <5>1
      <4> QED BY <4>2, <4>3
    <3>6. ccount' = Cardinality(CPending')
      BY <2>3, <3>1, <3>4
    <3> QED BY <1>1, <2>0, <3>5, <3>6 DEF ClusterInv, Signalled, Cluster, Kind
  <2> QED BY <2>7, <2>8
<1> QED BY <1>4, <1>5

-----------------------------------------------------------------------------
(* The inductive invariant. *)

(* No generation of a workgroup barrier has all its signals and is still open. *)
OpenInv == \A g \in Groups : \E w \in Members(g) : ~Pending(w)

IInv == Lock /\ HistoryInv /\ SignalInv /\ FirstInv /\ ClusterInv /\ OpenInv

LEMMA OpenStep ==
    ASSUME Base, CountInv, OpenInv, NEW w \in Waves, Wave(w)
    PROVE  OpenInv'
<1>1. SUFFICES ASSUME NEW g \in Groups
               PROVE  \E u \in Members(g) : ~Pending(u)'
  BY DEF OpenInv, Members
<1>2. PICK v \in Members(g) : ~Pending(v)
  BY DEF OpenInv
<1>3. v \in Waves /\ GroupOf[v] = g
  BY DEF Members
<1>4. CASE Wait(w) \/ Elected(w) \/ ClusterWait(w)
  BY <1>2, <1>3, <1>4, OtherPending
<1>5. CASE Signal(w) \/ SignalIsFirst(w)
  <2>1. CASE GroupOf[w] # g
    BY <1>2, <1>3, <1>5, <2>1, SignalPending
  <2>2. CASE GroupOf[w] = g /\ Completes(w)
    BY <1>2, <1>3, <1>5, <2>2, SignalPending
  <2>3. CASE GroupOf[w] = g /\ ~Completes(w)
    <3>1. PICK u \in Members(g) : u # w /\ ~Pending(u)
      BY <2>3 DEF Completes
    <3>2. u \in Waves
      BY DEF Members
    <3> QED BY <1>5, <2>3, <3>1, <3>2, SignalPending
  <2> QED BY <2>1, <2>2, <2>3
<1> QED BY <1>4, <1>5 DEF Wave

LEMMA InitIInv == Init => IInv
<1> SUFFICES ASSUME Init PROVE IInv
  OBVIOUS
<1>1. BodyInv
  <2>1. PICK looped \in BOOLEAN : /\ body \in Bodies /\ Accepts(body, looped)
                                  /\ rounds = IF looped THEN MaxRounds ELSE 1
    BY DEF Init
  <2>2. rounds \in 1..MaxRounds /\ (~looped => rounds = 1)
    BY <2>1, NativeAssumption
  <2> QED BY <2>1, <2>2, AcceptedBody DEF BodyInv, Kind
<1>2. /\ at = [w \in Waves |-> 1] /\ step = [w \in Waves |-> 1]
      /\ round = [w \in Waves |-> 0] /\ first = [w \in Waves |-> FALSE]
      /\ count = [g \in Groups |-> 0] /\ ready = [w \in Waves |-> FALSE]
      /\ ccount = 0 /\ cready = [w \in Waves |-> FALSE]
      /\ arrived = [w \in Waves |-> [i \in Ids |-> 0]]
      /\ left = [w \in Waves |-> [i \in Ids |-> 0]]
      /\ csignals = [g \in Groups |-> [i \in Ids |-> 0]]
  BY DEF Init
<1>3. /\ Len(body) \in Nat \ {0} /\ DOMAIN body = 1..Len(body) /\ rounds \in Nat \ {0}
      /\ \A i \in DOMAIN body :
           /\ Kind(i) \in {"arrive", "wait", "full", "call", "cluster"}
           /\ body[i].id \in Ids
  BY <1>1, BodyFacts
<1>4. \A w \in Waves : Running(w) /\ at[w] = 1 /\ step[w] = 1 /\ round[w] = 0
  BY <1>2, <1>3 DEF Running
<1>5. PlaceInv
  <2>1. 1 \in DOMAIN body /\ 1 \in 1..4
    BY <1>3
  <2>2. Len(Code(Kind(1))) \in {1, 2, 4}
    BY <1>1, <1>3, <2>1, Instructions
  <2>3. /\ at \in [Waves -> 1..(Len(body) + 1)] /\ step \in [Waves -> 1..4]
        /\ round \in [Waves -> 0..MaxRounds] /\ first \in [Waves -> BOOLEAN]
        /\ ready \in [Waves -> BOOLEAN] /\ cready \in [Waves -> BOOLEAN]
    BY <1>2, <1>3, NativeAssumption
  <2>4. ASSUME NEW w \in Waves
        PROVE  /\ Running(w) /\ ~ready[w]
               /\ step[w] <= Len(Code(Kind(at[w]))) /\ round[w] < rounds
    <3>1. Running(w) /\ ~ready[w]
      BY <1>2, <1>4
    <3>2. Kind(at[w]) = Kind(1) /\ step[w] = 1 /\ round[w] = 0
      BY <1>4
    <3>3. 0 < rounds
      BY <1>3
    <3>4. \A n \in {1, 2, 4} : 1 <= n
      OBVIOUS
    <3>5. 1 <= Len(Code(Kind(1)))
      BY <2>2, <3>4
    <3> QED BY <3>1, <3>2, <3>3, <3>5
  <2> QED BY <2>3, <2>4 DEF PlaceInv
<1>6. Base
  BY <1>1, <1>5 DEF Base
<1>7. \A w \in Waves : ~Pending(w)
  <2>1. Kind(1) # "wait"
    <3>1. 1 \in DOMAIN body /\ 1 - 1 \notin DOMAIN body
      BY <1>3
    <3> QED BY <1>1, <3>1 DEF BodyInv
  <2>2. \A w \in Waves : Instr(w) # "wait"
    BY <1>4, <1>6, <2>1, AtInstruction
  <2> QED BY <2>2 DEF Pending
<1>8. Lock
  <2>1. CountInv
    <3>1. \A g \in Groups : Waiting(g) = {}
      BY <1>7 DEF Waiting, Members
    <3>2. Cardinality({}) = 0
      BY FS_EmptySet
    <3> QED BY <1>2, <3>1, <3>2 DEF CountInv
  <2>2. LockStep
    BY <1>4, <1>7 DEF LockStep, Point
  <2> QED BY <1>6, <2>1, <2>2 DEF Lock
<1>9. \A w \in Waves, i \in DOMAIN body : ~Begun(w, i) /\ ~(at[w] > i) /\ ~(step[w] > 1)
  BY <1>3, <1>4 DEF Begun
<1>10. HistoryInv
  <2>1. \A w \in Waves : Iter(w) = 0
    BY <1>4 DEF Iter
  <2>2. \A w \in Waves, id \in Ids : arrived[w][id] = 0 /\ left[w][id] = 0
    BY <1>2
  <2>3. arrived \in [Waves -> [Ids -> Nat]] /\ left \in [Waves -> [Ids -> Nat]]
    BY <1>2
  <2>4. ASSUME NEW w \in Waves, NEW i \in DOMAIN body
        PROVE  /\ arrived[w][body[i].id] = Iter(w) + (IF Begun(w, i) THEN 1 ELSE 0)
               /\ left[w][body[i].id] = Iter(w) + (IF at[w] > i THEN 1 ELSE 0)
    BY <1>3, <1>9, <2>1, <2>2
  <2> QED BY <2>2, <2>3, <2>4 DEF HistoryInv
<1>11. /\ csignals \in [Groups -> [Ids -> 0..1]]
       /\ \A g \in Groups, id \in Ids : csignals[g][id] = 0
  BY <1>2
<1>12. \A g \in Groups, i \in DOMAIN body : ~Signalled(g, i)
  BY <1>3, <1>11 DEF Signalled
<1>13. \A w \in Waves : GroupOf[w] \in Groups
  BY NativeAssumption
<1>14. SignalInv
  BY <1>9, <1>11, <1>12, <1>13 DEF SignalInv
<1>15. FirstInv
  <2>1. \A w \in Waves : \A i : ~Claims(w, i)
    BY <1>2 DEF Claims
  <2> QED BY <1>9, <2>1 DEF FirstInv
<1>16. ClusterInv
  <2>1. CPending = {}
    BY <1>12 DEF CPending
  <2>2. Cardinality({}) = 0
    BY FS_EmptySet
  <2>3. \A w \in Waves : ~cready[w] /\ (Cluster(at[w]) => ~Signalled(GroupOf[w], at[w]))
    BY <1>2, <1>12, <1>13 DEF Cluster
  <2> QED BY <1>2, <1>13, <2>1, <2>2, <2>3 DEF ClusterInv
<1>17. OpenInv
  <2>1. \A g \in Groups : \E w \in Waves : w \in Members(g)
    BY NativeAssumption DEF Members
  <2> QED BY <1>7, <2>1 DEF OpenInv, Members
<1> QED BY <1>8, <1>10, <1>14, <1>15, <1>16, <1>17 DEF IInv

LEMMA WaveIInv ==
    ASSUME IInv, NEW w \in Waves, Wave(w)
    PROVE  IInv'
<1>0. /\ Lock /\ HistoryInv /\ SignalInv /\ FirstInv /\ ClusterInv /\ OpenInv
      /\ Base /\ CountInv
  BY DEF IInv, Lock
<1>1. Lock'
  <2>1. Base' /\ CountInv'
    BY <1>0, BaseStep, CountStep
  <2>2. LockStep'
    BY <1>0, LockStepStep
  <2> QED BY <2>1, <2>2 DEF Lock
<1>2. HistoryInv'
  BY <1>0, HistoryStep
<1>3. SignalInv'
  BY <1>0, SignalStep
<1>4. FirstInv'
  BY <1>0, FirstStep
<1>5. ClusterInv'
  BY <1>0, <1>3, ClusterStep
<1>6. OpenInv'
  BY <1>0, OpenStep
<1> QED BY <1>1, <1>2, <1>3, <1>4, <1>5, <1>6 DEF IInv

LEMMA NextIInv == IInv /\ [Next]_vars => IInv'
<1> SUFFICES ASSUME IInv, [Next]_vars PROVE IInv'
  OBVIOUS
<1>1. CASE \E w \in Waves : Wave(w)
  BY <1>1, WaveIInv
<1>2. CASE UNCHANGED vars
  <2>0. /\ body' = body /\ rounds' = rounds /\ at' = at /\ step' = step /\ round' = round
        /\ first' = first /\ count' = count /\ ready' = ready /\ ccount' = ccount
        /\ cready' = cready /\ arrived' = arrived /\ left' = left /\ csignals' = csignals
    BY <1>2 DEF vars
  <2>1. Base'
    BY <2>0 DEF IInv, Lock, Base, BodyInv, PlaceInv, Kind, Running, Instr
  <2>2. \A u \in Waves : Pending(u)' <=> Pending(u)
    BY <2>0 DEF Pending, Running, Instr
  <2>3. CountInv'
    <3>1. \A g \in Groups : Waiting(g)' = Waiting(g)
      BY <2>2 DEF Waiting, Members
    <3> QED BY <2>0, <3>1 DEF IInv, Lock, CountInv
  <2>4. LockStep'
    <3>1. \A u \in Waves : Point(u)' = Point(u)
      BY <2>0, <2>2 DEF Point, Start, Kind, After, Running
    <3> QED BY <3>1 DEF IInv, Lock, LockStep
  <2>5. HistoryInv'
    BY <2>0 DEF IInv, HistoryInv, Kind, Iter, Begun, Running
  <2>6. /\ \A i : Cluster(i)' <=> Cluster(i)
        /\ \A g, i : Signalled(g, i)' <=> Signalled(g, i)
        /\ \A u, i : Claims(u, i)' <=> Claims(u, i)
        /\ \A u \in Waves : \A i : Past(u, i)' <=> Past(u, i)
    BY <2>0, <2>2 DEF Cluster, Kind, Signalled, Claims, Past, Begun
  <2>7. SignalInv'
    BY <2>0, <2>6 DEF IInv, SignalInv
  <2>8. FirstInv'
    BY <2>0, <2>6 DEF IInv, FirstInv, Members
  <2>9. ClusterInv'
    <3>1. CPending' = CPending
      BY <2>0, <2>6 DEF CPending
    <3> QED BY <2>0, <2>6, <3>1 DEF IInv, ClusterInv, Running
  <2>10. OpenInv'
    BY <2>2 DEF IInv, OpenInv, Members
  <2> QED BY <2>1, <2>3, <2>4, <2>5, <2>7, <2>8, <2>9, <2>10 DEF IInv, Lock
<1> QED BY <1>1, <1>2 DEF Next, Finished

LEMMA Invariant == Spec => []IInv
BY InitIInv, NextIInv, PTL DEF Spec

-----------------------------------------------------------------------------
(* What follows from the invariant. *)

LEMMA IterBounds ==
    ASSUME Base, NEW w \in Waves
    PROVE  Iter(w) \in Nat /\ Iter(w) + 1 <= rounds /\ rounds <= MaxRounds /\ rounds \in Nat
<1>1. rounds \in Nat \ {0} /\ rounds <= MaxRounds
  BY BodyFacts DEF Base
<1>2. /\ round[w] \in Nat
      /\ Running(w) => round[w] < rounds
      /\ ~Running(w) => round[w] = rounds
  BY NativeAssumption DEF Base, PlaceInv
<1> QED BY <1>1, <1>2 DEF Iter

LEMMA HistoryBounds ==
    ASSUME Base, HistoryInv, NEW w \in Waves, NEW id \in Ids
    PROVE  arrived[w][id] \in 0..MaxRounds /\ left[w][id] \in 0..MaxRounds
<1>0. /\ Iter(w) \in Nat /\ Iter(w) + 1 <= rounds /\ rounds <= MaxRounds /\ rounds \in Nat
      /\ MaxRounds \in Nat
  BY IterBounds, NativeAssumption
<1>1. CASE \A i \in DOMAIN body : body[i].id # id
  BY <1>0, <1>1 DEF HistoryInv
<1>2. ASSUME NEW i \in DOMAIN body, body[i].id = id
      PROVE  arrived[w][id] \in 0..MaxRounds /\ left[w][id] \in 0..MaxRounds
  <2>1. \E j \in DOMAIN body : Kind(j) # "wait" /\ body[j].id = id
    <3>1. CASE Kind(i) = "wait"
      <4>1. i - 1 \in DOMAIN body /\ Kind(i - 1) = "arrive" /\ body[i - 1].id = id
        BY <1>2, <3>1 DEF Base, BodyInv
      <4> QED BY <4>1
    <3> QED BY <1>2, <3>1
  <2>2. \E j \in DOMAIN body : Kind(j) # "arrive" /\ body[j].id = id
    <3>1. CASE Kind(i) = "arrive"
      <4>1. i + 1 \in DOMAIN body /\ Kind(i + 1) = "wait" /\ body[i + 1].id = id
        BY <1>2, <3>1 DEF Base, BodyInv
      <4> QED BY <4>1
    <3> QED BY <1>2, <3>1
  <2>3. arrived[w][id] \in {Iter(w), Iter(w) + 1}
    <3>1. PICK j \in DOMAIN body : Kind(j) # "wait" /\ body[j].id = id
      BY <2>1
    <3>2. arrived[w][id] = Iter(w) + (IF Begun(w, j) THEN 1 ELSE 0)
      BY <3>1 DEF HistoryInv
    <3> QED BY <1>0, <3>2
  <2>4. left[w][id] \in {Iter(w), Iter(w) + 1}
    <3>1. PICK j \in DOMAIN body : Kind(j) # "arrive" /\ body[j].id = id
      BY <2>2
    <3>2. left[w][id] = Iter(w) + (IF at[w] > j THEN 1 ELSE 0)
      BY <3>1 DEF HistoryInv
    <3> QED BY <1>0, <3>2
  <2> QED BY <1>0, <2>3, <2>4
<1> QED BY <1>1, <1>2

(* The cluster barrier never has all its signals and is still open. *)
LEMMA ClusterOpen ==
    ASSUME Base, SignalInv
    PROVE  Cardinality(CPending) \in 0..(Cardinality(Groups) - 1)
<1>0. IsFiniteSet(Groups) /\ CPending \subseteq Groups
  BY NativeAssumption DEF CPending
<1>1. CPending # Groups
  <2>1. CASE CPending = {}
    BY <2>1, NativeAssumption
  <2>2. CASE CPending # {}
    <3>1. PICK g \in Groups, i \in DOMAIN body :
            Cluster(i) /\ Signalled(g, i) /\ \E h \in Groups : ~Signalled(h, i)
      BY <2>2 DEF CPending
    <3>2. PICK h \in Groups : ~Signalled(h, i)
      BY <3>1
    <3>3. PICK v \in Waves : GroupOf[v] = g
      BY NativeAssumption
    <3>4. at[v] \in Nat /\ i \in Nat /\ at[v] = i
      <4>1. at[v] \in Nat /\ i \in Nat /\ at[v] >= i
        BY <3>1, <3>3, SignalledReached
      <4>2. ~(at[v] > i)
        BY <3>1, <3>2 DEF SignalInv
      <4> QED BY <4>1, <4>2
    <3>5. h \notin CPending
      BY <3>1, <3>2, <3>4, OnePending
    <3> QED BY <3>2, <3>5
  <2> QED BY <2>1, <2>2
<1>2. /\ Cardinality(CPending) \in Nat /\ Cardinality(Groups) \in Nat
      /\ Cardinality(CPending) <= Cardinality(Groups)
      /\ Cardinality(CPending) = Cardinality(Groups) => CPending = Groups
  <2>1. IsFiniteSet(CPending)
    BY <1>0, FS_Subset
  <2> QED BY <1>0, <2>1, FS_Subset, FS_CardinalityType
<1> QED BY <1>1, <1>2

LEMMA WorkgroupOpen ==
    ASSUME CountInv, OpenInv, NEW g \in Groups
    PROVE  count[g] \in 0..(Cardinality(Members(g)) - 1)
<1>0. IsFiniteSet(Members(g)) /\ Waiting(g) \subseteq Members(g)
  BY MembersFacts DEF Waiting
<1>1. Waiting(g) # Members(g)
  BY DEF OpenInv, Waiting
<1>2. /\ Cardinality(Waiting(g)) \in Nat /\ Cardinality(Members(g)) \in Nat
      /\ Cardinality(Waiting(g)) <= Cardinality(Members(g))
      /\ Cardinality(Waiting(g)) = Cardinality(Members(g)) => Waiting(g) = Members(g)
  <2>1. IsFiniteSet(Waiting(g))
    BY <1>0, FS_Subset
  <2> QED BY <1>0, <2>1, FS_Subset, FS_CardinalityType
<1>3. count[g] = Cardinality(Waiting(g))
  BY DEF CountInv
<1> QED BY <1>1, <1>2, <1>3

(* Every variable keeps its range: in particular no barrier count reaches    *)
(* the number of its participants, and no operation is signalled or left     *)
(* more often than the body runs.                                            *)
THEOREM TypeCorrect == Spec => []TypeOK
<1>1. IInv => TypeOK
  <2> SUFFICES ASSUME IInv PROVE TypeOK
    OBVIOUS
  <2>0. /\ Base /\ CountInv /\ HistoryInv /\ SignalInv /\ ClusterInv /\ OpenInv
        /\ BodyInv /\ PlaceInv
    BY DEF IInv, Lock, Base
  <2>1. \A g \in Groups : count[g] \in 0..(Cardinality(Members(g)) - 1)
    BY <2>0, WorkgroupOpen
  <2>2. ccount \in 0..(Cardinality(Groups) - 1)
    BY <2>0, ClusterOpen DEF ClusterInv
  <2>3. arrived \in [Waves -> [Ids -> 0..MaxRounds]]
    <3>1. \A w \in Waves, id \in Ids : arrived[w][id] \in 0..MaxRounds
      BY <2>0, HistoryBounds
    <3>2. arrived \in [Waves -> [Ids -> Nat]]
      BY <2>0 DEF HistoryInv
    <3> QED BY <3>1, <3>2
  <2>4. left \in [Waves -> [Ids -> 0..MaxRounds]]
    <3>1. \A w \in Waves, id \in Ids : left[w][id] \in 0..MaxRounds
      BY <2>0, HistoryBounds
    <3>2. left \in [Waves -> [Ids -> Nat]]
      BY <2>0 DEF HistoryInv
    <3> QED BY <3>1, <3>2
  <2>5. csignals \in [Groups -> [Ids -> 0..1]]
    BY <2>0 DEF SignalInv
  <2>6. body \in Bodies /\ rounds \in 1..MaxRounds
    BY <2>0 DEF BodyInv
  <2> QED BY <2>0, <2>1, <2>2, <2>3, <2>4, <2>5, <2>6 DEF TypeOK, PlaceInv
<1> QED BY <1>1, Invariant, PTL

(* materializeNativeClusterArrival: each workgroup signals each cluster      *)
(* barrier at most once, and only when all its waves have arrived.           *)
THEOREM ClusterSignalledOnce == Spec => []OneClusterSignal
<1>1. IInv => OneClusterSignal
  <2> SUFFICES ASSUME IInv, NEW g \in Groups, NEW id \in Ids
               PROVE  /\ csignals[g][id] <= 1
                      /\ csignals[g][id] = 1 => \A w \in Members(g) : arrived[w][id] = 1
    BY DEF OneClusterSignal
  <2>0. Base /\ HistoryInv /\ SignalInv
    BY DEF IInv, Lock
  <2>1. csignals[g][id] <= 1
    BY <2>0 DEF SignalInv
  <2>2. ASSUME csignals[g][id] = 1, NEW w \in Members(g)
        PROVE  arrived[w][id] = 1
    <3>1. w \in Waves /\ GroupOf[w] = g
      BY DEF Members
    <3>2. PICK i \in DOMAIN body : Cluster(i) /\ body[i].id = id
      BY <2>0, <2>2 DEF SignalInv
    <3>3. Past(w, i)
      BY <2>0, <2>2, <3>1, <3>2 DEF SignalInv, Signalled
    <3>4. Iter(w) = 0
      BY <2>0, <3>1, <3>2, OneRound
    <3>5. arrived[w][id] = Iter(w) + 1
      BY <2>0, <3>1, <3>2, <3>3 DEF HistoryInv, Past, Cluster
    <3> QED BY <3>4, <3>5
  <2> QED BY <2>1, <2>2
<1> QED BY <1>1, Invariant, PTL

(* The hardware barriers never complete a generation while a participant has *)
(* not yet taken note of the previous one.                                   *)
THEOREM CompletionsKept == Spec => NoLostCompletion
<1>1. ASSUME IInv, NEW w \in Waves, Wave(w)
      PROVE  /\ \A u \in Waves :
                  count[GroupOf[u]] # 0 /\ count'[GroupOf[u]] = 0 => ~ready[u]
             /\ ccount # 0 /\ ccount' = 0 => \A u \in Waves : ~cready[u]
  <2>0. Base /\ CountInv /\ SignalInv /\ FirstInv /\ ClusterInv /\ Lock
    BY <1>1 DEF IInv, Lock
  <2>1. ASSUME NEW u \in Waves, count[GroupOf[u]] # 0, count'[GroupOf[u]] = 0
        PROVE  ~ready[u]
    <3>0. GroupOf[u] \in Groups /\ GroupOf[w] \in Groups /\ count \in [Groups -> Nat]
      BY <2>0, NativeAssumption DEF CountInv
    <3>1. Signal(w) \/ SignalIsFirst(w)
      BY <1>1, <2>0, <2>1, OtherPending DEF Wave
    <3>2. GroupOf[u] = GroupOf[w]
      BY <2>0, <2>1, <3>0, <3>1, SignalEffect
    <3>3. Completes(w)
      <4>1. ~Completes(w) => count'[GroupOf[w]] = count[GroupOf[w]] + 1
        BY <2>0, <3>1, SignalEffect
      <4> QED BY <2>1, <3>0, <3>2, <4>1
    <3>4. CASE u = w
      BY <2>0, <3>1, <3>4, SignalMoves
    <3>5. CASE u # w
      BY <3>2, <3>3, <3>5 DEF Completes, Members, Pending
    <3> QED BY <3>4, <3>5
  <2>2. ASSUME ccount # 0, ccount' = 0, NEW u \in Waves, cready[u]
        PROVE  FALSE
    <3>1. Announces(w)
      BY <1>1, <2>2 DEF Announces, Wave, Signal, SignalIsFirst, Wait, Elected, ClusterWait,
                        IsElected
    <3>2. Cluster(at[w]) /\ ~Signalled(GroupOf[w], at[w]) /\ step[w] = 3 /\ ~Pending(w)
      BY <1>1, <2>0, <3>1, AnnounceEffect
    <3>3. SignalCluster
      BY <3>1 DEF Announces, Elected, IsElected
    <3>4. GroupOf[w] \in Groups /\ GroupOf[u] \in Groups
      BY NativeAssumption
    <3>5. /\ \A v \in Waves : at[v] <= at[w]
          /\ CPending = {h \in Groups : Signalled(h, at[w])}
      BY <2>0, <3>2, <3>4, OnePending
    <3>6. GroupOf[u] \in CPending \cup {GroupOf[w]}
      <4>1. CPending \subseteq Groups /\ IsFiniteSet(Groups) /\ GroupOf[w] \notin CPending
        BY <3>2, <3>5, NativeAssumption
      <4>2. IsFiniteSet(CPending)
        BY <4>1, FS_Subset
      <4>3. /\ IsFiniteSet(CPending \cup {GroupOf[w]})
            /\ Cardinality(CPending \cup {GroupOf[w]}) = Cardinality(CPending) + 1
        BY <4>1, <4>2, FS_AddElement
      <4>4. Cardinality(CPending) \in Nat /\ ccount = Cardinality(CPending)
        BY <2>0, <4>2, FS_CardinalityType DEF ClusterInv
      <4>5. ccount + 1 = Cardinality(Groups)
        BY <2>2, <3>3, <4>4 DEF SignalCluster
      <4>6. CPending \cup {GroupOf[w]} \subseteq Groups
        BY <3>4, <4>1
      <4>7. Cardinality(CPending \cup {GroupOf[w]}) = Cardinality(Groups)
        BY <4>3, <4>4, <4>5
      <4>8. CPending \cup {GroupOf[w]} = Groups
        BY <4>1, <4>6, <4>7, FS_Subset
      <4> QED BY <3>4, <4>8
    <3>7. Past(u, at[w])
      <4>1. CASE GroupOf[u] = GroupOf[w]
        <5>1. Past(w, at[w])
          BY <3>2 DEF Past, Begun
        <5> QED BY <2>0, <3>2, <4>1, <5>1, PastTogether
      <4>2. CASE GroupOf[u] # GroupOf[w]
        BY <2>0, <3>2, <3>5, <3>6, <4>2 DEF SignalInv, Cluster
      <4> QED BY <4>1, <4>2
    <3>8. at[u] = at[w]
      <4>1. at[u] \in Nat /\ at[w] \in Nat
        BY <2>0, <3>2, OneRound
      <4> QED BY <3>5, <3>7, <4>1 DEF Past, Begun
    <3> QED BY <2>0, <2>2, <3>2, <3>4, <3>8 DEF ClusterInv
  <2> QED BY <2>1, <2>2
<1>2. IInv /\ [Next]_vars =>
        [/\ \A w \in Waves :
              count[GroupOf[w]] # 0 /\ count'[GroupOf[w]] = 0 => ~ready[w]
         /\ ccount # 0 /\ ccount' = 0 => \A w \in Waves : ~cready[w]]_vars
  BY <1>1 DEF Next, Finished
<1> QED BY <1>2, Invariant, PTL DEF Spec, NoLostCompletion

-----------------------------------------------------------------------------
(* The refinement of the abstract barrier. *)

(* One entry of a table counts up. *)
LEMMA CountUp ==
    ASSUME NEW ws, NEW ids, NEW w \in ws, NEW id \in ids, NEW P, NEW Q,
           P = [u \in ws |-> [j \in ids |-> P[u][j]]],
           Q = [u \in ws |-> [j \in ids |-> Q[u][j]]],
           \A u \in ws, j \in ids :
               Q[u][j] = IF u = w /\ j = id THEN P[u][j] + 1 ELSE P[u][j]
    PROVE  Q = [P EXCEPT ![w][id] = P[w][id] + 1]
<1> DEFINE R == [P EXCEPT ![w][id] = P[w][id] + 1]
<1>0. /\ DOMAIN P = ws /\ DOMAIN Q = ws /\ Q = [u \in ws |-> Q[u]]
      /\ \A u \in ws : /\ P[u] = [j \in ids |-> P[u][j]]
                       /\ Q[u] = [j \in ids |-> Q[u][j]]
  <2>1. DOMAIN P = ws /\ DOMAIN Q = ws
    OBVIOUS
  <2>2. Q = [u \in ws |-> Q[u]]
    BY <2>1
  <2>3. \A u \in ws : P[u] = [j \in ids |-> P[u][j]]
    OBVIOUS
  <2>4. \A u \in ws : Q[u] = [j \in ids |-> Q[u][j]]
    OBVIOUS
  <2> QED BY <2>1, <2>2, <2>3, <2>4
<1>1. R = [u \in ws |-> IF u = w THEN [P[w] EXCEPT ![id] = P[w][id] + 1] ELSE P[u]]
  BY <1>0
<1>2. R[w] = [j \in ids |-> IF j = id THEN P[w][id] + 1 ELSE P[w][j]]
  BY <1>0, <1>1
<1>3. Q[w] = [j \in ids |-> IF j = id THEN P[w][id] + 1 ELSE P[w][j]]
  BY <1>0
<1>4. ASSUME NEW u \in ws, u # w PROVE Q[u] = P[u]
  <2>1. \A j \in ids : Q[u][j] = P[u][j]
    BY <1>4
  <2>2. Q[u] = [j \in ids |-> Q[u][j]] /\ P[u] = [j \in ids |-> P[u][j]]
    BY <1>0
  <2> QED BY <2>1, <2>2
<1>5. \A u \in ws : Q[u] = R[u]
  BY <1>1, <1>2, <1>3, <1>4
<1>6. R = [u \in ws |-> R[u]]
  BY <1>1
<1> HIDE DEF R
<1>7. Q = R
  BY <1>0, <1>5, <1>6
<1> QED BY <1>7 DEF R

LEMMA AbstractArrive ==
    ASSUME NEW ws \in SUBSET Waves, NEW ids \in SUBSET Ids, NEW w \in Waves, NEW id \in Ids,
           \A u \in Waves, j \in Ids :
               /\ arrived'[u][j] = IF u = w /\ j = id THEN arrived[u][j] + 1 ELSE arrived[u][j]
               /\ left'[u][j] = left[u][j],
           arrived[w][id] = left[w][id]
    PROVE  BarrierStep(ws, ids)
<1> DEFINE aa == [u \in ws |-> [j \in ids |-> arrived[u][j]]]
           ll == [u \in ws |-> [j \in ids |-> left[u][j]]]
<1>1. ll' = ll
  OBVIOUS
<1>2. CASE w \in ws /\ id \in ids
  <2>1. aa' = [aa EXCEPT ![w][id] = aa[w][id] + 1]
    <3>1. /\ aa = [u \in ws |-> [j \in ids |-> aa[u][j]]]
          /\ aa' = [u \in ws |-> [j \in ids |-> aa'[u][j]]]
      OBVIOUS
    <3>2. \A u \in ws, j \in ids :
            aa'[u][j] = IF u = w /\ j = id THEN aa[u][j] + 1 ELSE aa[u][j]
      OBVIOUS
    <3> HIDE DEF aa
    <3> QED BY <1>2, <3>1, <3>2, CountUp
  <2>2. aa[w][id] = ll[w][id]
    BY <1>2
  <2>3. Abstract(ws, ids)!Arrive(w, id)
    BY <1>1, <1>2, <2>1, <2>2, Zenon DEF Abstract!Arrive
  <2> QED BY <1>2, <2>3 DEF BarrierStep, Abstract!Next
<1>3. CASE ~(w \in ws /\ id \in ids)
  <2>1. aa' = aa
    BY <1>3
  <2> QED BY <1>1, <2>1 DEF BarrierStep, Abstract!vars
<1> QED BY <1>2, <1>3

LEMMA AbstractLeave ==
    ASSUME NEW ws \in SUBSET Waves, NEW ids \in SUBSET Ids, NEW w \in Waves, NEW id \in Ids,
           \A u \in Waves, j \in Ids :
               /\ arrived'[u][j] = arrived[u][j]
               /\ left'[u][j] = IF u = w /\ j = id THEN left[u][j] + 1 ELSE left[u][j],
           w \in ws /\ id \in ids => \A v \in ws : arrived[v][id] > left[w][id]
    PROVE  BarrierStep(ws, ids)
<1> DEFINE aa == [u \in ws |-> [j \in ids |-> arrived[u][j]]]
           ll == [u \in ws |-> [j \in ids |-> left[u][j]]]
<1>1. aa' = aa
  OBVIOUS
<1>2. CASE w \in ws /\ id \in ids
  <2>1. ll' = [ll EXCEPT ![w][id] = ll[w][id] + 1]
    <3>1. /\ ll = [u \in ws |-> [j \in ids |-> ll[u][j]]]
          /\ ll' = [u \in ws |-> [j \in ids |-> ll'[u][j]]]
      OBVIOUS
    <3>2. \A u \in ws, j \in ids :
            ll'[u][j] = IF u = w /\ j = id THEN ll[u][j] + 1 ELSE ll[u][j]
      OBVIOUS
    <3> HIDE DEF ll
    <3> QED BY <1>2, <3>1, <3>2, CountUp
  <2>2. \A v \in ws : aa[v][id] > ll[w][id]
    BY <1>2
  <2>3. Abstract(ws, ids)!Leave(w, id)
    BY <1>1, <1>2, <2>1, <2>2, Zenon DEF Abstract!Leave
  <2> QED BY <1>2, <2>3 DEF BarrierStep, Abstract!Next
<1>3. CASE ~(w \in ws /\ id \in ids)
  <2>1. ll' = ll
    BY <1>3
  <2> QED BY <1>1, <2>1 DEF BarrierStep, Abstract!vars
<1> QED BY <1>2, <1>3

(* A wave signals an operation it has left as often as it has arrived. *)
LEMMA ArrivesFresh ==
    ASSUME Base, HistoryInv, NEW w \in Waves, Signal(w) \/ SignalIsFirst(w)
    PROVE  arrived[w][OpId(w)] = left[w][OpId(w)]
<1>0. /\ at[w] \in DOMAIN body /\ step[w] = 1 /\ Kind(at[w]) # "wait"
  BY SignalMoves
<1>1. at[w] \in Nat /\ OpId(w) = body[at[w]].id
  BY <1>0, BodyFacts DEF Base, OpId
<1>2. arrived[w][OpId(w)] = Iter(w) + 0
  <2>1. ~Begun(w, at[w])
    BY <1>0, <1>1 DEF Begun
  <2> QED BY <1>0, <1>1, <2>1 DEF HistoryInv
<1>3. left[w][OpId(w)] = Iter(w) + 0
  <2>1. CASE Kind(at[w]) = "arrive"
    <3>1. /\ at[w] + 1 \in DOMAIN body /\ Kind(at[w] + 1) = "wait"
          /\ body[at[w] + 1].id = OpId(w)
      BY <1>0, <1>1, <2>1 DEF Base, BodyInv
    <3>2. ~(at[w] > at[w] + 1)
      BY <1>1
    <3>3. left[w][body[at[w] + 1].id] = Iter(w) + (IF at[w] > at[w] + 1 THEN 1 ELSE 0)
      BY <3>1 DEF HistoryInv
    <3> QED BY <3>1, <3>2, <3>3
  <2>2. CASE Kind(at[w]) # "arrive"
    <3>1. ~(at[w] > at[w])
      BY <1>1
    <3>2. left[w][body[at[w]].id] = Iter(w) + (IF at[w] > at[w] THEN 1 ELSE 0)
      BY <1>0, <2>2 DEF HistoryInv
    <3> QED BY <1>1, <3>1, <3>2
  <2> QED BY <2>1, <2>2
<1> QED BY <1>2, <1>3

(* A wave that leaves a workgroup barrier: everybody has signalled it in     *)
(* this iteration.                                                           *)
LEMMA LeavesWorkgroup ==
    ASSUME Lock, HistoryInv, NEW w \in Waves, Wait(w), Last(w),
           NEW v \in Waves, GroupOf[v] = GroupOf[w]
    PROVE  arrived[v][OpId(w)] > round[w]
<1>0. Base /\ LockStep
  BY DEF Lock
<1>1. /\ Running(w) /\ at[w] \in DOMAIN body /\ Kind(at[w]) # "arrive"
      /\ step[w] = 1 => Kind(at[w]) = "wait"
      /\ ~Pending(w)
  BY <1>0, OtherMoves, OtherPending
<1>2. /\ Len(body) \in Nat \ {0} /\ DOMAIN body = 1..Len(body) /\ rounds \in Nat \ {0}
      /\ at[w] \in Nat /\ at[v] \in Nat /\ round[w] \in Nat /\ round[w] < rounds
      /\ round[v] \in Nat /\ (Running(v) => round[v] < rounds)
      /\ ~Running(v) => round[v] = rounds
  <2>1. Len(body) \in Nat \ {0} /\ DOMAIN body = 1..Len(body) /\ rounds \in Nat \ {0}
    BY <1>0, BodyFacts DEF Base
  <2>2. /\ at[w] \in Nat /\ at[v] \in Nat /\ round[w] \in Nat /\ round[v] \in Nat
    BY <1>0, <2>1, NativeAssumption DEF Base, PlaceInv
  <2>3. /\ round[w] < rounds /\ (Running(v) => round[v] < rounds)
        /\ ~Running(v) => round[v] = rounds
    BY <1>0, <1>1 DEF Base, PlaceInv
  <2> QED BY <2>1, <2>2, <2>3
<1>3. PICK s \in DOMAIN body :
        /\ Kind(s) # "wait" /\ body[s].id = OpId(w) /\ s <= at[w]
        /\ s = at[w] => Kind(at[w]) # "wait"
  <2>1. CASE Kind(at[w]) = "wait"
    <3>1. /\ at[w] - 1 \in DOMAIN body /\ Kind(at[w] - 1) = "arrive"
          /\ body[at[w] - 1].id = OpId(w)
      BY <1>0, <1>1, <2>1 DEF Base, BodyInv, OpId
    <3>2. at[w] - 1 <= at[w] /\ at[w] - 1 # at[w]
      BY <1>2
    <3> QED BY <3>1, <3>2
  <2>2. CASE Kind(at[w]) # "wait"
    <3>1. at[w] <= at[w]
      BY <1>2
    <3> QED BY <1>1, <2>2, <3>1 DEF OpId
  <2> QED BY <2>1, <2>2
<1>4. arrived[v][OpId(w)] = Iter(v) + (IF Begun(v, s) THEN 1 ELSE 0)
  BY <1>3 DEF HistoryInv
<1>5. SUFFICES \/ Iter(v) \in Nat /\ Iter(v) = round[w] /\ Begun(v, s)
               \/ Iter(v) \in Nat /\ Iter(v) > round[w]
  BY <1>2, <1>4
<1>6. Point(v) = After(round[w], at[w])
  <2>1. Point(w) = After(round[w], at[w])
    BY <1>1 DEF Point
  <2> QED BY <1>0, <2>1 DEF LockStep
<1>7. PICK q, j : <<q, j>> = After(round[w], at[w])
  BY DEF After
<1>8. /\ q \in Nat /\ j \in 1..(Len(body) + 1) /\ q <= rounds
      /\ j \in DOMAIN body <=> q < rounds
      /\ j \notin DOMAIN body => q = rounds /\ j = Len(body) + 1
      /\ q = round[w] \/ (q = round[w] + 1 /\ at[w] = Len(body))
      /\ q = round[w] => j = at[w] + 1
      /\ q = round[w] + 1 /\ q < rounds => j = 1
  BY <1>0, <1>1, <1>2, <1>7, AfterFacts DEF Base
<1>9. CASE ~Running(v)
  <2>1. Point(v) = <<round[v], at[v]>>
    BY <1>9 DEF Point
  <2>2. round[v] = q
    BY <1>6, <1>7, <2>1
  <2>3. at[v] > s
    BY <1>2, <1>3, <1>9 DEF Running
  <2>4. Iter(v) = round[v] - 1 /\ round[v] = rounds
    BY <1>2, <1>9 DEF Iter
  <2>5. q = round[w] + 1
    BY <1>2, <1>8, <2>2, <2>4
  <2> QED BY <1>2, <2>2, <2>3, <2>4, <2>5 DEF Begun
<1>10. CASE Running(v) /\ (Pending(v) \/ (step[v] = 1 /\ Kind(at[v]) # "wait"))
  <2>0. Iter(v) = round[v]
    BY <1>10 DEF Iter
  <2>1. \/ Point(v) = <<round[v], at[v]>>
        \/ Point(v) = <<round[v], at[v] - 1>>
    BY <1>10 DEF Point, Start
  <2>2. round[v] = q /\ at[v] >= j
    BY <1>2, <1>6, <1>7, <1>8, <2>1
  <2>3. CASE q = round[w]
    <3>1. at[v] > s
      BY <1>2, <1>3, <1>8, <2>2, <2>3
    <3> QED BY <1>2, <2>0, <2>2, <2>3, <3>1 DEF Begun
  <2>4. CASE q = round[w] + 1
    BY <1>2, <2>0, <2>2, <2>4
  <2> QED BY <1>8, <2>3, <2>4
<1>11. CASE Running(v) /\ ~Pending(v) /\ ~(step[v] = 1 /\ Kind(at[v]) # "wait")
  <2>0. Iter(v) = round[v]
    BY <1>11 DEF Iter
  <2>1. <<q, j>> = After(round[v], at[v])
    BY <1>6, <1>7, <1>11 DEF Point
  <2>2. at[v] \in DOMAIN body /\ step[v] \in 1..4
    BY <1>0, <1>11, AtInstruction
  <2>3. /\ q = round[v] \/ (q = round[v] + 1 /\ at[v] = Len(body))
        /\ q = round[v] => j = at[v] + 1
        /\ q = round[v] + 1 /\ q < rounds => j = 1
    BY <1>0, <1>2, <1>11, <2>1, <2>2, AfterFacts DEF Base
  <2>4. round[v] = round[w] /\ at[v] = at[w]
    <3>0. at[v] >= 1 /\ at[w] >= 1 /\ round[v] < rounds
      BY <1>1, <1>2, <1>11, <2>2
    <3>1. CASE q = round[v] /\ q = round[w]
      <4>1. j = at[v] + 1 /\ j = at[w] + 1
        BY <1>8, <2>3, <3>1
      <4> QED BY <1>2, <3>1, <4>1
    <3>2. CASE q = round[v] /\ q = round[w] + 1
      <4>1. j = at[v] + 1 /\ j = 1
        BY <1>8, <2>3, <3>0, <3>2
      <4> QED BY <1>2, <3>0, <4>1
    <3>3. CASE q = round[v] + 1 /\ q = round[w]
      <4>1. j = at[w] + 1 /\ j = 1
        BY <1>2, <1>8, <2>3, <3>3
      <4> QED BY <1>2, <3>0, <4>1
    <3>4. CASE q # round[v] /\ q # round[w]
      <4>1. q = round[v] + 1 /\ q = round[w] + 1 /\ at[v] = Len(body) /\ at[w] = Len(body)
        BY <1>8, <2>3, <3>4
      <4> QED BY <1>2, <4>1
    <3> QED BY <1>8, <2>3, <3>1, <3>2, <3>3, <3>4
  <2>5. Begun(v, s)
    <3>1. CASE s = at[w]
      <4>1. step[v] > 1
        BY <1>3, <1>11, <2>2, <2>4, <3>1
      <4> QED BY <2>4, <3>1, <4>1 DEF Begun
    <3>2. CASE s # at[w]
      <4>1. at[v] > s
        BY <1>2, <1>3, <2>4, <3>2
      <4> QED BY <4>1 DEF Begun
    <3> QED BY <3>1, <3>2
  <2> QED BY <1>2, <2>0, <2>4, <2>5
<1> QED BY <1>9, <1>10, <1>11

(* materializeNativeBarriers: on every execution the barrier operations of   *)
(* an accepted function, expanded to the hardware barriers, behave as one    *)
(* abstract barrier per operation, over the workgroup or over the cluster.   *)
THEOREM Refinement == Spec => ImplementsBarrier
<1>1. ASSUME IInv, NEW w \in Waves, Wave(w)
      PROVE  /\ \A g \in Groups : BarrierStep(Members(g), WorkgroupIds)
             /\ BarrierStep(Waves, ClusterIds)
  <2>0. Lock /\ Base /\ HistoryInv /\ SignalInv /\ ClusterInv
    BY <1>1 DEF IInv, Lock
  <2>1. /\ OpId(w) \in Ids /\ OpId(w) = body[at[w]].id
        /\ \A u \in Waves, id \in Ids :
             /\ arrived'[u][id] = IF u = w /\ id = OpId(w) /\ (Signal(w) \/ SignalIsFirst(w))
                                    THEN arrived[u][id] + 1 ELSE arrived[u][id]
             /\ left'[u][id] = IF /\ u = w /\ id = OpId(w) /\ Last(w)
                                  /\ Wait(w) \/ Elected(w) \/ ClusterWait(w)
                                 THEN left[u][id] + 1 ELSE left[u][id]
    BY <1>1, <2>0, HistoryEffect
  <2>2. /\ WorkgroupIds \in SUBSET Ids /\ ClusterIds \in SUBSET Ids
        /\ Waves \in SUBSET Waves /\ \A g \in Groups : Members(g) \in SUBSET Waves
    BY DEF WorkgroupIds, ClusterIds, Ids, Members
  <2>3. CASE Signal(w) \/ SignalIsFirst(w)
    <3>1. arrived[w][OpId(w)] = left[w][OpId(w)]
      BY <2>0, <2>3, ArrivesFresh
    <3>2. ~(Wait(w) \/ Elected(w) \/ ClusterWait(w))
      BY <2>3 DEF Signal, SignalIsFirst, Wait, Elected, ClusterWait
    <3>3. \A u \in Waves, id \in Ids :
            /\ arrived'[u][id] = IF u = w /\ id = OpId(w) THEN arrived[u][id] + 1
                                                         ELSE arrived[u][id]
            /\ left'[u][id] = left[u][id]
      BY <2>1, <2>3, <3>2
    <3>4. ASSUME NEW ws \in SUBSET Waves, NEW ids \in SUBSET Ids
          PROVE  BarrierStep(ws, ids)
      BY <2>1, <3>1, <3>3, AbstractArrive
    <3> QED BY <2>2, <3>4
  <2>4. CASE (Wait(w) \/ Elected(w) \/ ClusterWait(w)) /\ ~Last(w)
    <3>1. ~(Signal(w) \/ SignalIsFirst(w))
      BY <2>4 DEF Signal, SignalIsFirst, Wait, Elected, ClusterWait
    <3>2. \A u \in Waves, id \in Ids :
            arrived'[u][id] = arrived[u][id] /\ left'[u][id] = left[u][id]
      BY <2>1, <2>4, <3>1
    <3>3. ASSUME NEW ws \in SUBSET Waves, NEW ids \in SUBSET Ids
          PROVE  BarrierStep(ws, ids)
      <4>1. /\ [u \in ws |-> [i \in ids |-> arrived'[u][i]]] =
                 [u \in ws |-> [i \in ids |-> arrived[u][i]]]
            /\ [u \in ws |-> [i \in ids |-> left'[u][i]]] =
                 [u \in ws |-> [i \in ids |-> left[u][i]]]
        BY <3>2
      <4> QED BY <4>1 DEF BarrierStep, Abstract!vars
    <3> QED BY <2>2, <3>3
  <2>5. CASE (Wait(w) \/ Elected(w) \/ ClusterWait(w)) /\ Last(w)
    <3>0. /\ at[w] \in DOMAIN body /\ Kind(at[w]) # "arrive" /\ Running(w) /\ ~Elected(w)
          /\ ClusterWait(w) <=> Kind(at[w]) = "cluster"
      BY <2>0, <2>5, OtherMoves
    <3>1. ~(Signal(w) \/ SignalIsFirst(w))
      BY <2>5 DEF Signal, SignalIsFirst, Wait, Elected, ClusterWait
    <3>2. \A u \in Waves, id \in Ids :
            /\ arrived'[u][id] = arrived[u][id]
            /\ left'[u][id] = IF u = w /\ id = OpId(w) THEN left[u][id] + 1 ELSE left[u][id]
      BY <2>1, <2>5, <3>1
    <3>3. left[w][OpId(w)] = round[w]
      <4>1. at[w] \in Nat /\ round[w] \in Nat
        BY <2>0, <3>0, BodyFacts, NativeAssumption DEF Base, PlaceInv
      <4>2. Iter(w) = round[w]
        BY <3>0 DEF Iter
      <4>3. left[w][OpId(w)] = Iter(w) + (IF at[w] > at[w] THEN 1 ELSE 0)
        BY <2>0, <2>1, <3>0 DEF HistoryInv
      <4> QED BY <4>1, <4>2, <4>3
    <3>4. Kind(at[w]) = "cluster" <=> OpId(w) \in ClusterIds
      BY <2>0, <2>1, <3>0, BodyFacts DEF Base
    <3>5. ASSUME NEW ws \in SUBSET Waves, NEW ids \in SUBSET Ids,
                 w \in ws /\ OpId(w) \in ids =>
                     \A v \in ws : arrived[v][OpId(w)] > left[w][OpId(w)]
          PROVE  BarrierStep(ws, ids)
      BY <2>1, <3>2, <3>5, AbstractLeave
    <3>6. ASSUME NEW g \in Groups
          PROVE  BarrierStep(Members(g), WorkgroupIds)
      <4>1. ASSUME w \in Members(g), OpId(w) \in WorkgroupIds, NEW v \in Members(g)
            PROVE  arrived[v][OpId(w)] > left[w][OpId(w)]
        <5>1. v \in Waves /\ GroupOf[v] = GroupOf[w]
          BY <4>1 DEF Members
        <5>2. Wait(w)
          BY <2>5, <3>0, <3>4, <4>1 DEF WorkgroupIds
        <5> QED BY <2>0, <2>5, <3>3, <5>1, <5>2, LeavesWorkgroup
      <4> QED BY <2>2, <3>5, <4>1
    <3>7. BarrierStep(Waves, ClusterIds)
      <4>1. ASSUME OpId(w) \in ClusterIds, NEW v \in Waves
            PROVE  arrived[v][OpId(w)] > left[w][OpId(w)]
        <5>1. Cluster(at[w]) /\ ClusterWait(w)
          BY <3>0, <3>4, <4>1 DEF Cluster
        <5>2. Signalled(GroupOf[v], at[w])
          BY <1>1, <2>0, <2>5, <5>1, LeavesCluster, NativeAssumption
        <5>3. Begun(v, at[w])
          BY <2>0, <3>0, <5>1, <5>2 DEF SignalInv, Past
        <5>4. Iter(v) = 0 /\ (Running(w) => round[w] = 0)
          BY <2>0, <5>1, OneRound
        <5>5. arrived[v][OpId(w)] = Iter(v) + 1
          BY <2>0, <2>1, <3>0, <5>1, <5>3 DEF HistoryInv, Cluster
        <5> QED BY <3>0, <3>3, <5>4, <5>5
      <4> QED BY <2>2, <3>5, <4>1
    <3> QED BY <3>6, <3>7
  <2> QED BY <1>1, <2>3, <2>4, <2>5 DEF Wave
<1>2. IInv /\ [Next]_vars =>
        [(\A g \in Groups : BarrierStep(Members(g), WorkgroupIds))
         /\ BarrierStep(Waves, ClusterIds)]_vars
  BY <1>1 DEF Next, Finished
<1> QED BY <1>2, Invariant, PTL DEF Spec, ImplementsBarrier
=============================================================================
