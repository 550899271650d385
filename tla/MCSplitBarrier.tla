--------------------------- MODULE MCSplitBarrier ---------------------------
(* Small instances of SplitBarrier. *)
EXTENDS SplitBarrier

CONSTANTS a, b

Do(op, s) == [op |-> op, slot |-> s]

(* Two sites whose arrive/wait windows overlap, as the scheduler leaves them. *)
OverlappedBody ==
    <<Do("store", a), Do("arrive", a), Do("arrive", b), Do("wait", a),
      Do("wait", b)>>

(* Both: overlapping windows, then the first handle again. *)
MixedBody == OverlappedBody \o <<Do("arrive", a), Do("wait", a)>>
=============================================================================
