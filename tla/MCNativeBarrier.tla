--------------------------- MODULE MCNativeBarrier ---------------------------
(* Two workgroups of two waves. *)
EXTENDS NativeBarrier, TLC

CONSTANTS w1, w2, w3, w4, g1, g2

TwoByTwo == (w1 :> g1) @@ (w2 :> g1) @@ (w3 :> g2) @@ (w4 :> g2)
=============================================================================
