-------------------------- MODULE WorkgroupBarrier --------------------------
(***************************************************************************)
(* What a workgroup barrier promises the code around it, whatever the      *)
(* mechanism behind it: every wave arrives at a barrier site and leaves it *)
(* again, and no wave leaves for the n-th time before every wave has       *)
(* arrived for the n-th time.  SplitBarrier and NativeBarrier are shown to *)
(* implement this specification.                                           *)
(***************************************************************************)
EXTENDS Integers

CONSTANTS Waves,    \* the waves that take part
          Slots     \* the static barrier sites

VARIABLES arrived,  \* arrived[w][s]: how often wave w arrived at site s
          passed    \* passed[w][s]: how often wave w left site s

vars == <<arrived, passed>>

Init == /\ arrived = [w \in Waves |-> [s \in Slots |-> 0]]
        /\ passed  = [w \in Waves |-> [s \in Slots |-> 0]]

(* A wave arrives only after it has left the previous instance of the site. *)
Arrive(w, s) ==
    /\ arrived[w][s] = passed[w][s]
    /\ arrived' = [arrived EXCEPT ![w][s] = arrived[w][s] + 1]
    /\ UNCHANGED passed

(* A wave leaves once it has arrived and so has everybody else. *)
Leave(w, s) ==
    /\ \A v \in Waves : arrived[v][s] > passed[w][s]
    /\ passed' = [passed EXCEPT ![w][s] = passed[w][s] + 1]
    /\ UNCHANGED arrived

Next == \E w \in Waves, s \in Slots : Arrive(w, s) \/ Leave(w, s)

Spec == Init /\ [][Next]_vars
=============================================================================
