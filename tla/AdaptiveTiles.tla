--------------------------- MODULE AdaptiveTiles ---------------------------
(* How the host picks the tile of a dense GEMM on PPU1.5: by what bounds it.    *)
(* At most 160 rows are bound by memory and get one block of rows; up to 512    *)
(* rows the candidate tiles of a ladder of block_m compete by an estimated      *)
(* makespan; above, a few tiles may replace the fixed 256 x 256.                 *)
(*                                                                               *)
(* A shape `s' has m, n, k, sms and `dynamic' (DG_TILE_CANDIDATES). Quotients    *)
(* the code computes in doubles are compared as the fractions they stand for,   *)
(* multiplied out.                                                                *)
EXTENDS Integers, FiniteSets
LOCAL INSTANCE FiniteSetsExt
LOCAL INSTANCE SequencesExt

CeilDiv(a, b) == (a + b - 1) \div b
Ceil(a, b) == CeilDiv(a, b) * b
Largest(a, b) == IF a > b THEN a ELSE b
Smallest(a, b) == IF a < b THEN a ELSE b
Distance(a, b) == Largest(a, b) - Smallest(a, b)

SmemSize == 262144    \* shared memory of a CU
BlockWarps == 32      \* warps of a CTA at most
CuWarps == 64         \* warps resident on a CU at most

\* <<a1, a2, ...>> before <<b1, b2, ...>>, as std::make_tuple(...) compares.
Precedes(a, b) == \E i \in DOMAIN a : a[i] < b[i] /\ \A j \in 1 .. i - 1 : a[j] = b[j]
FirstBy(S, Key(_)) == CHOOSE x \in S : \A y \in S : ~Precedes(Key(y), Key(x))

-----------------------------------------------------------------------------
(* Warps of a tile. *)

\* Measured limits of warps along N, by <<block_m, warp_m, warp_n>>.
WarpOnNCap ==
    [x \in { <<80,80,32>>, <<96,48,64>>, <<96,96,16>>, <<96,96,32>>, <<96,96,64>>, <<112,112,16>>,
             <<128,64,48>>, <<144,144,16>>, <<160,80,16>>, <<192,96,16>>, <<192,96,32>>, <<192,96,48>>,
             <<192,96,64>>, <<256,64,32>>, <<256,64,48>>, <<256,128,16>>, <<256,128,32>>, <<256,128,48>>,
             <<384,96,16>>, <<384,96,32>>, <<384,96,64>>, <<512,64,48>>, <<512,128,16>>, <<512,128,32>>,
             <<512,128,48>> } |->
      CASE x = <<80,80,32>> -> 29   [] x \in {<<96,96,16>>, <<144,144,16>>} -> 31
        [] x \in {<<96,48,64>>, <<96,96,64>>} -> 14
        [] x = <<96,96,32>> -> 16   [] x = <<112,112,16>> -> 22
        [] x \in {<<128,64,48>>, <<192,96,32>>} -> 12
        [] x \in {<<160,80,16>>, <<256,128,16>>} -> 15
        [] x = <<192,96,16>> -> 13
        [] x \in {<<192,96,48>>, <<192,96,64>>, <<256,128,32>>} -> 8
        [] x \in {<<256,64,32>>, <<512,128,16>>} -> 7
        [] x \in {<<256,64,48>>, <<384,96,16>>, <<384,96,32>>} -> 6
        [] x \in {<<256,128,48>>, <<512,128,48>>} -> 1
        [] x = <<512,64,48>> -> 3
        [] x \in {<<384,96,64>>, <<512,128,32>>} -> 4 ]

\* The budgets of warps, shared memory and registers.
EstimatedWarpOnN(bm, wm, wn) ==
    LET onM == bm \div wm
        registers == (wm * wn) \div 32 + 2 * ((wm + wn) \div 4)
        warps == CASE registers <= 128 -> 32
                   [] registers \in 129 .. 168 -> 24
                   [] registers \in 169 .. 256 -> 16
                   [] OTHER -> 0
    IN  Min({warps \div onM, 32 \div onM, (1024 - bm) \div wn})

MaxWarpOnN(bm, wm, wn) ==
    IF <<bm, wm, wn>> \in DOMAIN WarpOnNCap THEN WarpOnNCap[<<bm, wm, wn>>] ELSE EstimatedWarpOnN(bm, wm, wn)

TileSpillOk(wm, wn, warps) ==
    LET perWe == CeilDiv(warps, 8)
        limit == CASE perWe = 3 -> 168 [] perWe = 0 -> 256 [] OTHER -> Smallest(512 \div perWe, 256)
    IN  (wm * wn) \div 32 + (wm + wn) \div 2 + 20 <= limit

\* The K range of a warp: K is split between warps only where k is deep and warps
\* and shared memory for the partial sums remain.
WarpK(t, k) ==
    LET warps == (t.bm \div t.wm) * (t.bn \div t.wn)
        smem == (t.bm + t.bn) * t.bk * 2 * t.stages
        perCu == Largest(1, SmemSize \div smem)
        most == Largest(1, CuWarps \div (warps * perCu))
        fits == Smallest(t.bk \div 128, Largest(1, BlockWarps \div warps))
        onK == IF warps >= 3 THEN Smallest(fits, 2) ELSE fits
    IN  IF /\ CeilDiv(k, t.bk) >= 6
           /\ (onK - 1) * t.bm * t.bn * 4 <= smem
           /\ t.bk \in {256, 512} /\ onK <= most
        THEN t.bk \div onK
        ELSE t.bk

-----------------------------------------------------------------------------
(* Memory bound: all rows in one block, columns spread evenly over the CUs.      *)

MemoryBlockM(m) == IF Ceil(m, 16) = 144 THEN 160 ELSE Ceil(m, 16)

\* The columns of a tile.
MemoryBlockN(s, bm, wm, warpNs) ==
    LET reach(wn) == MaxWarpOnN(bm, wm, wn) * wn
        widest == Largest(1, Max({reach(wn) : wn \in warpNs}))
        mTiles == CeilDiv(s.m, bm)
        rounds == Largest(1, CeilDiv(mTiles * CeilDiv(s.n, widest), s.sms))
        even == CeilDiv(mTiles * s.n, s.sms * rounds)
        wide == {wn \in warpNs : reach(wn) >= even}
        wn == IF wide = {} THEN 32 ELSE Min(wide)
    IN  [bn |-> Ceil(even, wn), wn |-> wn]

\* block_k doubles while more than three stages fit, and halves again for a short k.
MemoryBlockK(s, bm, bn) ==
    LET stages(bk) == SmemSize \div ((bm + bn) * bk * 2)
        grown == Min({bk \in {64, 128, 256, 512} : stages(bk) <= 3} \cup {512})
    IN  Max({bk \in {64, 128, 256, 512} : bk <= grown /\ (CeilDiv(s.k, bk) >= 2 \/ bk = 64)})

MemoryTile(s, bm, wm, cols, bk) ==
    LET fit == SmemSize \div ((bm + cols.bn) * bk * 2)
        t == [bm |-> bm, bn |-> cols.bn, bk |-> bk, wm |-> wm, wn |-> cols.wn, wk |-> bk,
              stages |-> Largest(2, Min({fit, 3, CeilDiv(s.k, bk)}))]
    IN  [t EXCEPT !.wk = WarpK(t, s.k)]
MemoryWarps(s, bm, wm, cols) == MemoryTile(s, bm, wm, cols, MemoryBlockK(s, bm, cols.bn))
MemoryBound(s) ==
    LET bm == MemoryBlockM(s.m)
        wm == IF bm <= 112 THEN bm ELSE bm \div 2
    IN  MemoryWarps(s, bm, wm, MemoryBlockN(s, bm, wm, IF bm >= 128 THEN {32, 48, 64} ELSE {16, 32, 48, 64}))

-----------------------------------------------------------------------------
(* block_k and stages that fill the shared memory.                                *)

AdaptiveSmem(bm, bn, k) ==
    LET iters(bk) == CeilDiv(k, bk)
        pairs == {x \in {64, 128, 256, 512} \X {2, 3, 4} :
                     /\ x[2] <= Largest(2, Smallest(4, iters(x[1])))
                     /\ x[2] * (x[1] \div 64) * (bm + bn) <= SmemSize \div 128}
        Key(x) == <<-(x[2] * (x[1] \div 64)), iters(x[1]) * x[1] - k, -x[2], x[1]>>
    IN  IF pairs = {} THEN <<64, 2>> ELSE FirstBy(pairs, Key)

Filled(t, k) ==
    LET x == AdaptiveSmem(t.bm, t.bn, k) IN [t EXCEPT !.bk = x[1], !.stages = x[2], !.wk = x[1]]

-----------------------------------------------------------------------------
(* Compute bound.                                                                  *)

Tile(bm, bn, bk, wm, wn, stages) ==
    [bm |-> bm, bn |-> bn, bk |-> bk, wm |-> wm, wn |-> wn, wk |-> bk, stages |-> stages]

Pinned == Tile(256, 256, 64, 64, 64, 4)

WarpsOf(t) == (t.bm \div t.wm) * (t.bn \div t.wn)

\* The measured tiles, <<bm, bn, wm, wn, stages>> by block_k.
HardcodedTiles ==
    {Tile(x[1], x[2], 128, x[3], x[4], x[5]) : x \in {
        <<192,64,48,32,4>>, <<192,96,48,48,3>>, <<192,128,48,32,3>>, <<192,144,48,48,3>>,
        <<256,64,32,32,3>>, <<256,80,32,80,3>> }}
    \cup
    {Tile(x[1], x[2], 64, x[3], x[4], 4) : x \in {
        <<192,160,48,80>>, <<192,192,48,48>>, <<192,224,48,32>>, <<192,240,48,48>>, <<192,256,48,64>>,
        <<192,288,48,48>>, <<192,320,48,80>>, <<256,96,32,48>>, <<256,112,32,112>>, <<256,128,64,32>>,
        <<256,144,32,48>>, <<256,160,32,80>>, <<256,192,64,48>>, <<256,224,32,112>>, <<256,240,32,80>>,
        <<256,256,64,64>>, <<320,128,80,32>>, <<320,160,80,32>>, <<320,192,80,48>>, <<384,128,96,32>> }}
    \cup
    {Tile(x[1], x[2], 64, x[3], x[4], 3) : x \in {
        <<192,336,96,48>>, <<192,384,48,96>>, <<256,320,64,80>>, <<320,256,80,64>>, <<384,144,48,48>>,
        <<384,160,48,80>>, <<384,192,96,48>>, <<448,128,112,32>>, <<512,128,128,32>>, <<512,128,64,64>>,
        <<512,160,64,80>> }}

\* All grids of warps that neither spill nor leave a work engine empty.
DynamicCandidates(bm) ==
    LET sizes == {wm \in {bm \div 2, bm \div 4, bm \div 8} : wm >= 16 /\ bm % wm = 0 /\ wm % 16 = 0}
        grids == {x \in sizes \X {32, 48, 64, 80, 96, 112, 128} \X (1 .. 32) :
                     /\ x[3] <= MaxWarpOnN(bm, x[1], x[2])
                     /\ (bm \div x[1]) * x[3] >= 8
                     /\ TileSpillOk(x[1], x[2], (bm \div x[1]) * x[3])}
    IN  IF bm < 128 \/ bm \in {144, 160} THEN {}
        ELSE {Tile(bm, x[3] * x[2], 0, x[1], x[2], 0) : x \in grids}

Candidates(s, bm) ==
    IF s.dynamic THEN DynamicCandidates(bm) ELSE {t \in HardcodedTiles : t.bm = bm}

\* 16, 24, 8 warps, other multiples of eight, the rest.
WarpRank(warps) ==
    CASE warps % 8 # 0 -> 132 - warps
      [] warps = 16 -> 0 [] warps = 24 -> 1 [] warps = 8 -> 2
      [] OTHER -> 3

Blocks(s, t) == CeilDiv(s.m, t.bm) * CeilDiv(s.n, t.bn)
Rounds(s, t) == CeilDiv(Blocks(s, t), s.sms)

\* The best candidate of one block_m.
ComputeBoundTile(s, bm) ==
    LET last(t) == Blocks(s, t) - (Rounds(s, t) - 1) * s.sms
        Key(t) == <<Rounds(s, t), -last(t), Ceil(s.n, t.bn), WarpRank(WarpsOf(t)),
                    Distance(t.bm \div t.wm, t.bn \div t.wn), -(t.wm * t.wn), -t.wn>>
    IN  FirstBy(Candidates(s, bm), Key)

\* waves * max(bm * bn * ceil8(warps) / warps / 96, bm + bn), in units of 8 / 3 / warps.
MakespanTimesWarps(s, t) ==
    Rounds(s, t) * Largest(((t.bm * t.bn) \div 256) * Ceil(WarpsOf(t), 8),
                        ((3 * (t.bm + t.bn)) \div 8) * WarpsOf(t))
Cheaper(s, t, u) == MakespanTimesWarps(s, t) * WarpsOf(u) < MakespanTimesWarps(s, u) * WarpsOf(t)

\* From the block_m that covers m down to 192; the larger one wins a tie.
ComputeBound(s) ==
    LET ladder == <<512, 448, 384, 320, 256, 192>>
        ceiling == Min({bm \in {192, 256, 320, 384, 448, 512} : bm >= s.m} \cup {512})
        tried == SelectSeq(ladder, LAMBDA bm : bm <= ceiling /\ Candidates(s, bm) # {})
        better(best, bm) == LET t == ComputeBoundTile(s, bm)
                            IN  IF best = {} \/ \E b \in best : Cheaper(s, t, b) THEN {t} ELSE best
        found == FoldLeft(better, {}, tried)
        t == CHOOSE t \in found : TRUE
    IN  IF found = {} THEN Pinned ELSE IF t.bk = 0 THEN Filled(t, s.k) ELSE t

-----------------------------------------------------------------------------
(* More than 512 rows.                                                             *)

\* The tiles that may replace the pinned one.
WaveTiles ==
    {t \in {Tile(128, 256, 0, 64, 64, 0), Tile(192, 128, 0, 48, 64, 0), Tile(192, 256, 0, 48, 64, 0),
            Tile(256, 128, 0, 64, 64, 0), Tile(256, 256, 0, 64, 64, 0)} :
        WarpsOf(t) \in 8 .. BlockWarps /\ TileSpillOk(t.wm, t.wn, WarpsOf(t))}

\* Accepted for a single round, or if the padding of M is a tenth better.
ManyRows(s) ==
    LET cost(t) == Rounds(s, t) * ((t.bm * t.bn * Ceil(WarpsOf(t), 8)) \div WarpsOf(t) + (t.bm + t.bn) * 64)
        Key(t) == <<cost(t), Rounds(s, t), -t.bn>>
        best == FirstBy(WaveTiles, Key)
        padded(bm) == Ceil(s.m, bm)
    IN  IF /\ s.n >= 2048 /\ best.bm # 256
           /\ Rounds(s, best) = 1 \/ 10 * padded(256) > 11 * padded(best.bm)
        THEN Filled(best, s.k)
        ELSE Pinned

-----------------------------------------------------------------------------
AdaptiveTile(s) ==
    IF s.m <= 160 THEN MemoryBound(s) ELSE IF s.m > 512 THEN ManyRows(s) ELSE ComputeBound(s)

Swapped(t) == [t EXCEPT !.bm = t.bn, !.bn = t.bm, !.wm = t.wn, !.wn = t.wm]

\* The tile of the transposed problem, turned, if n is the smaller side.
Oriented(t, turned) == IF turned THEN Swapped(t) ELSE t
AdaptiveConfig(s) ==
    Oriented(AdaptiveTile(IF s.n < s.m THEN [s EXCEPT !.m = s.n, !.n = s.m] ELSE s), s.n < s.m)

Bf16AdaptiveEnabled(s) == TRUE
Int8AdaptiveEnabled(s) ==
    s.m <= 160 /\ ((s.n >= 10240 /\ s.k >= 1024) \/ (s.n = 8192 /\ s.k = 16384))
=============================================================================
