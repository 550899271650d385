-------------------------- MODULE StreamKPartition --------------------------
(***************************************************************************)
(* How the Stream-K GEMM of wave_matmul.py divides its work.               *)
(*                                                                         *)
(* The output has m * n tiles of k iterations each.  The m * n * k         *)
(* iterations, flattened, are cut into one contiguous interval per worker, *)
(* so that a tile may be shared by several workers and a worker may hold   *)
(* the end of one tile and the beginning of another.  A shape is a record  *)
(*   [m, n, k, workers, xcds, group]                                       *)
(* whose last two fields choose the order of the tiles in the output.      *)
(***************************************************************************)
EXTENDS Integers

TileCount(s) == s.m * s.n
Tiles(s) == 0..(TileCount(s) - 1)
Total(s) == TileCount(s) * s.k
Workers(s) == 0..(s.workers - 1)

(* What build_gfx950_f16_streamk_matmul_module and the tile shape checks let *)
(* through.                                                                  *)
Valid(s) ==
    /\ s.workers \in 1..Total(s)
    /\ s.xcds >= 1 /\ TileCount(s) % s.xcds = 0
    /\ s.group >= 1 /\ s.m % s.group = 0

Quotient(s) == Total(s) \div s.workers

Remainder(s) == Total(s) % s.workers

(* _streamk_worker_begin and the interval of _streamk_partition. *)
WorkerBegin(s, p) ==
    p * Quotient(s) + (IF p < Remainder(s) THEN p ELSE Remainder(s))
WorkerEnd(s, p) ==
    WorkerBegin(s, p) + Quotient(s) + (IF p < Remainder(s) THEN 1 ELSE 0)

FirstTile(s, p) == WorkerBegin(s, p) \div s.k
LastTile(s, p) == (WorkerEnd(s, p) - 1) \div s.k

(* _streamk_owner: the worker that computes iteration x. *)
Owner(s, x) ==
    LET large == Remainder(s) * (Quotient(s) + 1)
    IN  IF x < large THEN x \div (Quotient(s) + 1)
        ELSE Remainder(s) + ((x - large) \div Quotient(s))

(* _streamk_tile_owners *)
FirstOwner(s, t) == Owner(s, t * s.k)
LastOwner(s, t) == Owner(s, (t + 1) * s.k - 1)
Parts(s, t) == LastOwner(s, t) - FirstOwner(s, t) + 1

(* _emit_streamk_kernel: the part of tile t that worker p computes. *)
KBegin(s, p, t) ==
    IF t = FirstTile(s, p) THEN WorkerBegin(s, p) - t * s.k ELSE 0
KEnd(s, p, t) ==
    IF t = LastTile(s, p) THEN WorkerEnd(s, p) - t * s.k ELSE s.k
IsWhole(s, p, t) == KBegin(s, p, t) = 0 /\ KEnd(s, p, t) = s.k

(* The slot a worker stores its part of tile t in (_emit_streamk_tile), and  *)
(* the slot the reducer expects it in (_streamk_owner_slot).                 *)
Slots == {0, 1}

(* Mutant: the slots are numbered by the worker's tiles. *)
StoreSlot_ByTile(s, p, t) == t - FirstTile(s, p)

StoreSlot(s, p, t) == IF t = FirstTile(s, p) THEN 0 ELSE 1

OwnerSlot(s, p, t) == IF t = WorkerBegin(s, p) \div s.k THEN 0 ELSE 1

(* When the tiles divide evenly no tile is shared: _emit_aligned_streamk_kernel *)
(* gives worker p the tiles p, p + workers, p + 2 workers, ...               *)
Aligned(s) == TileCount(s) % s.workers = 0

EntryTile(s, p) == IF Aligned(s) THEN p ELSE FirstTile(s, p)

TileStep(s) == IF Aligned(s) THEN s.workers ELSE 1

HasNext(s, p, t) ==
    IF Aligned(s) THEN t + TileStep(s) < TileCount(s) ELSE t < LastTile(s, p)

(* Aligned workers with several long tiles run into the next tile without a  *)
(* barrier: it fetches its inputs while the last one is being finished.      *)
Pipelined(s) == Aligned(s) /\ TileCount(s) > s.workers /\ s.k > 2

IsWholeTile(s, p, t) == Aligned(s) \/ IsWhole(s, p, t)

(* The place of tile t in the output: _streamk_raw_tile_coords, then         *)
(* _emit_cta_coords_from_raw.                                                *)
Place(s, t) ==
    LET pid == (t % s.xcds) * (TileCount(s) \div s.xcds) + (t \div s.xcds)
        span == s.group * s.n
        within == pid % span
    IN  IF s.xcds = 1 /\ s.group = 1 THEN <<t % s.m, t \div s.m>>
        ELSE <<(pid \div span) * s.group + (within % s.group), within \div s.group>>

Places(s) == (0..(s.m - 1)) \X (0..(s.n - 1))
=============================================================================
