------------------------------ MODULE MCStreamK ------------------------------
(* Small problems for StreamK. *)
EXTENDS StreamK

Shape(m, n, k, workers, xcds, group) ==
    [m |-> m, n |-> n, k |-> k, workers |-> workers, xcds |-> xcds, group |-> group]

(* Five tiles for three workers, the one in the middle with a tail, a whole  *)
(* tile and a head; one tile with three owners; three tiles for two workers, *)
(* a head slot that stays empty; four tiles for two workers, aligned, with   *)
(* the pipeline and with tiles too short for it.                             *)
SmallShapes ==
    {Shape(5, 1, 3, 3, 1, 5), Shape(1, 1, 4, 3, 1, 1), Shape(3, 1, 4, 2, 3, 1),
     Shape(2, 2, 3, 2, 2, 2), Shape(2, 2, 2, 2, 2, 2)}
=============================================================================
