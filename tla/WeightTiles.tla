----------------------------- MODULE WeightTiles -----------------------------
(* The tile of a grouped GEMM with fp8 rows and fp4 weights, and the plan it is   *)
(* executed by (heuristics/common_w4a8.hpp): a native kernel that decodes weights  *)
(* on the way to the tensor cores, with a small or a wide tile, or the streamed    *)
(* one, which decodes a chunk of experts to memory while it multiplies with the    *)
(* chunk before.                                                                   *)
(*                                                                                 *)
(* A problem `s' has type, m (rows of the output, of one group if masked),          *)
(* expected, n, k, groups, sms (what set_num_sms allows) and ppu15.                 *)
EXTENDS TileLadder
LOCAL INSTANCE SequencesExt
LOCAL INSTANCE FiniteSetsExt

MaxThreadsPerBlock == 1024
Budget == 384 * 1024 * 1024               \* kStreamedWeightBudget
ActivationBudget == 1024 * 1024 * 1024    \* of the gathered rows and their scales
CoreBlockM == 256                         \* kBlockM

Tile(sms, bm, bn, wm, wn, stages, expand) ==
    [sms |-> sms, bm |-> bm, bn |-> bn, bk |-> 128, wm |-> wm, wn |-> wn, wk |-> 128,
     stages |-> stages, expand |-> expand]

UsesRingA(wm) == wm >= 80 /\ wm <= 192 /\ wm % 16 = 0
TileThreads(t) == (t.bm \div t.wm) * (t.bn \div t.wn) * 32

\* What the launch asks for.
TileSmem(t, k) ==
    LET threads == TileThreads(t)
        copyRows == threads \div Smallest(threads, Smallest(t.bk, 128) \div 16)
        aRows == IF UsesRingA(t.wm) THEN Ceil(t.bm, copyRows) ELSE t.bm
        aSlots == IF t.expand > 1 /\ t.wm = 64 /\ k <= 384 THEN Largest(t.stages, k \div t.bk) ELSE t.stages
        mainloop == aRows * t.bk * aSlots + t.bn * ((t.bk \div 2) + (t.bk \div 32)) * t.stages
    IN  IF UsesRingA(t.wm) THEN Ceil(mainloop, 128) + Ceil(2 * t.bm * 4, 128) ELSE mainloop

FitsStrategy(t, k) == TileThreads(t) \in 1 .. MaxThreadsPerBlock /\ TileSmem(t, k) <= SmemSize

\* check_config
ChecksTile(s, t) ==
    /\ t.sms \in 1 .. s.sms
    /\ t.bm \in {16, 32, 64} /\ t.wm = t.bm /\ t.wn = 64
    /\ t.bn >= 64 /\ t.bn % 64 = 0
    /\ t.bk = 128 /\ t.wk = 128 /\ s.k % 128 = 0
    /\ t.stages \in 2 .. 4 /\ t.expand \in 1 .. 4
    /\ t.expand > 1 => s.type = "nopad" /\ t.stages = 2 /\ s.n % (t.bn * t.expand) = 0
    /\ TileThreads(t) \in 1 .. 1024

-----------------------------------------------------------------------------
(* Native tiles.                                                                  *)

\* From the rows expected, a power of two up to 64; a short K of groups without
\* padding takes several column blocks at once.
StandardTile(s, rows) ==
    LET bm == IF rows <= 16 THEN 16 ELSE IF rows <= 32 THEN 32 ELSE 64
        bn == IF s.n >= 256 THEN 256 ELSE IF s.n >= 128 THEN 128 ELSE 64
        stages == IF s.type = "masked" /\ bm = 32 /\ bn = 256 THEN 3 ELSE 2
        dividing == {e \in 2 .. 4 : s.n % (bn * e) = 0}
        expands == s.type = "nopad" /\ s.k <= 512 /\ s.k % 128 = 0 /\ dividing # {}
    IN  Tile(s.sms, bm, bn, bm, 64, stages, IF expands THEN Max(dividing) ELSE 1)

\* Deep K: narrower blocks or warps for few rows.
RefinedTile(s, rows, t) ==
    LET underfilled == s.groups * CeilDiv(s.n, t.bn) < s.sms
        narrow == t.bm = 32 \/ (t.bm = 16 /\ underfilled)
        candidate == Tile(s.sms, t.bm, IF t.bm = 32 THEN 128 ELSE t.bn, t.wm, IF narrow THEN 32 ELSE 64, 2, 1)
        refines == s.ppu15 /\ rows <= 256 /\ s.groups <= 1024 /\ s.n >= 128 /\ s.k >= 512 /\ s.k % 128 = 0
    IN  IF refines /\ FitsStrategy(candidate, s.k) THEN candidate ELSE t
DefaultTile(s, rows) == RefinedTile(s, rows, StandardTile(s, rows))

\* One tile holds the rows of an expert with a tenth to spare, or several do.
WideRows(rows, fused, k) ==
    LET most == IF fused THEN 176 ELSE 192
        padded == Largest(80, Ceil(CeilDiv(rows * 10, 9), 16))
        blocks == Largest(2, CeilDiv(rows * 10, 160 * 9))
        split == Ceil(CeilDiv(rows * 10, blocks * 9), 16)
    IN  IF rows * 10 <= most * 9 THEN (IF fused /\ k > 2048 /\ padded = 176 THEN 160 ELSE padded)
        ELSE IF ~fused /\ rows + 16 <= most THEN most
        ELSE Largest(80, Smallest(160, split))
WideTile(s, rows) ==
    LET fused == s.type = "fused"
        bm == WideRows(rows, fused, s.k)
    IN  Tile(s.sms, bm, 256, bm, 32, IF fused /\ bm <= 144 THEN 3 ELSE 2, 1)

\* Enough tiles for every CU. m is that of all groups.
WideEligible(s, m, rows) ==
    /\ s.groups \in 1 .. 1024 /\ s.n >= 256 /\ s.n % 256 = 0 /\ s.k >= 512 /\ s.k % 128 = 0
    /\ rows >= 65
    /\ CeilDiv(m, WideTile(s, rows).bm) * (s.n \div 256) >= s.sms
    /\ FitsStrategy(WideTile(s, rows), s.k)

-----------------------------------------------------------------------------
(* The streamed plan.                                                             *)

\* Columns decoded at a time, in a buffer with eight bytes of metadata; 0: none.
TileN(s) ==
    LET capacity == (((Budget - 8) \div s.k) \div 256) * 256
    IN  IF s.groups \in 8 .. 1024 /\ s.n >= 1024 /\ s.n % 64 = 0 /\ s.k >= 1024 /\ s.k % 128 = 0 /\ capacity >= 256
        THEN Smallest(s.n, capacity) ELSE 0

\* Experts decoded at a time: at most half of them, and a warp's worth.
ChunkLimit(s, tileN) == Min({s.groups \div 2, 32, (Budget - 8) \div (tileN * s.k)})

MinRows(s) == IF s.k >= 2048 /\ CeilDiv(s.n, 256) * (s.k \div 128) >= 128 THEN 512 ELSE 1024

FusedEligible(s, m) ==
    s.ppu15 /\ TileN(s) # 0 /\ m * (s.k + 4) <= ActivationBudget /\ m >= s.groups * MinRows(s)

\* Tiles of an expert, and waves of a plan of equal chunks with its tail.
ExpertTiles(s, n) == CeilDiv(s.m, s.groups * 256) * CeilDiv(n, 256)
ChunkWaves(s, n, sms, experts) == CeilDiv(experts * ExpertTiles(s, n), Largest(1, sms))
PlanWaves(s, n, sms, chunk) ==
    (s.groups \div chunk) * ChunkWaves(s, n, sms, chunk) + ChunkWaves(s, n, sms, s.groups % chunk)

\* Calls too short to repay a deep chunk before the first product.
IsShort(s, sms) ==
    LET tileN == TileN(s)
    IN  /\ tileN # 0 /\ CeilDiv(s.n, 256) * (s.k \div 128) >= 128 /\ s.k \div 128 >= 16
        /\ s.m >= s.groups * 512 /\ s.m < s.groups * 1024
        /\ PlanWaves(s, tileN, sms, Smallest(4, ChunkLimit(s, tileN))) <= PlanWaves(s, tileN, sms, ChunkLimit(s, tileN))

\* Experts <<first, count>>, `chunk' at a time; a ramp starts with two and doubles.
Chunks(groups, chunk, ramp) ==
    LET from[x \in Nat \X Nat] ==
            LET count == Min({x[2], chunk, groups - x[1]})
            IN  IF x[1] >= groups THEN << >>
                ELSE << <<x[1], count>> >>
                     \o from[<<x[1] + count, IF ramp THEN Smallest(chunk, 2 * x[2]) ELSE x[2]>>]
    IN  from[<<0, IF ramp THEN Smallest(2, chunk) ELSE chunk>>]

PlanScore(s, tileN, sms, plan) ==
    FoldLeft(LAMBDA score, part : score + CeilDiv(part[2] * ExpertTiles(s, tileN), Largest(1, sms)), Len(plan), plan)

\* Short calls: the least chunk that needs no more waves. Others: the largest one
\* with the fewest waves and launches.
SelectChunk(s, tileN, sms, short, ramp) ==
    LET most == ChunkLimit(s, tileN)
        score == [c \in 1 .. most |->
                    IF ramp THEN PlanScore(s, tileN, sms, Chunks(s.groups, c, ramp))
                    ELSE PlanWaves(s, tileN, sms, c) + CeilDiv(s.groups, c)]
    IN  IF short THEN Min({c \in 1 .. most : PlanWaves(s, tileN, sms, c) <= PlanWaves(s, tileN, sms, most)})
        ELSE Max({c \in 1 .. most : \A other \in 1 .. most : score[c] <= score[other]})

Core(sms) == Tile(sms, CoreBlockM, 256, 64, 64, 4, 1)

StreamedOf(s, tile, tileN, short, ramp, plan) ==
    [kind |-> "streamed", tile |-> tile, decodeN |-> tileN, parts |-> plan,
     chunk |-> Max({plan[i][2] : i \in DOMAIN plan}), ramp |-> ramp,
     gather |-> IF s.type # "fused" THEN "none" ELSE IF ~short /\ tileN = s.n THEN "chunk" ELSE "full",
     skipsEmpty |-> tileN = s.n,
     fenced |-> ~(short /\ s.k % 1024 # 0)]
StreamedPlan(s, tile) ==
    LET tileN == TileN(s)
        short == IsShort(s, tile.sms)
        ramp == /\ tileN * s.k >= 8 * 1024 * 1024 /\ s.m >= s.groups * 1024
                /\ s.type = "fused" \/ s.m < s.groups * 4096
    IN  StreamedOf(s, tile, tileN, short, ramp,
                   Chunks(s.groups, SelectChunk(s, tileN, tile.sms, short, ramp), ramp))

ChecksStreamed(s, x) ==
    /\ s.type \in {"nopad", "fused"}
    /\ s.groups \in 8 .. 1024 /\ s.n >= 1024 /\ s.n % 64 = 0 /\ s.k >= 1024 /\ s.k % 128 = 0
    /\ x.tile.sms \in 1 .. s.sms /\ x.tile = Core(x.tile.sms)
    /\ x.decodeN \in 1 .. s.n /\ (x.decodeN = s.n \/ x.decodeN % 256 = 0)
    /\ x.chunk \in 1 .. Smallest(32, s.groups \div 2) /\ x.parts # << >>
    /\ x.chunk * x.decodeN * s.k + 8 <= Budget
    /\ x.skipsEmpty => x.decodeN = s.n
    /\ IF s.type = "fused"
       THEN x.gather # "none" /\ (x.gather = "chunk" => x.decodeN = s.n) /\ s.m * (s.k + 4) <= ActivationBudget
       ELSE x.gather = "none"

-----------------------------------------------------------------------------
(* From a problem to its plan.                                                    *)

\* Rows of a group that the tile is chosen for; m is that of full groups.
ExpectedRows(s) == IF s.type = "masked" THEN s.expected ELSE CeilDiv(s.m, s.groups)
BestTile(s) ==
    LET rows == ExpectedRows(s)
        m == rows * s.groups
        streams == /\ TileN(s) # 0 /\ m >= s.groups * MinRows(s)
                   /\ s.type = "fused" => FusedEligible(s, m)
    IN  IF s.type = "masked" \/ ~s.ppu15 THEN DefaultTile(s, rows)
        ELSE IF streams THEN Core(s.sms)
        ELSE IF WideEligible(s, m, rows) THEN WideTile(s, rows)
        ELSE DefaultTile(s, rows)

\* Which tiles resolve_config finds an implementation for, and which one.
Rolls(s, t) ==
    /\ t.bm \in {16, 32} /\ t.wm = t.bm /\ t.wn = 32 /\ t.bn \in {128, 256}
    /\ t.bk = 128 /\ t.wk = 128 /\ t.stages = 2 /\ t.expand = 1
    /\ s.n >= 128 /\ s.k >= 512 /\ s.k % 128 = 0
Resolves(s, t) ==
    IF t.bm = CoreBlockM THEN t = Core(t.sms) /\ s.type # "masked" /\ s.ppu15 /\ TileN(s) # 0
    ELSE t.bm = t.wm /\ t.bk = t.wk /\ (UsesRingA(t.wm) \/ t.wn = 64 \/ Rolls(s, t))
PlanOf(s, t) ==
    IF ~Resolves(s, t) THEN [kind |-> "none"]
    ELSE IF t.bm = CoreBlockM THEN StreamedPlan(s, t)
    ELSE [kind |-> "native", tile |-> t,
          fragment |-> IF UsesRingA(t.wm) \/ Rolls(s, t) THEN "RollingK32" ELSE "FullK"]

\* check_native_kernel
ChecksNative(s, x) ==
    LET t == x.tile
    IN  /\ s.groups \in 1 .. 1024 /\ t.sms \in 1 .. s.sms
        /\ CASE UsesRingA(t.wm) ->
                  /\ s.type # "masked" /\ t.bm = t.wm /\ t.bn = 256 /\ t.wn = 32
                  /\ t.bk = 128 /\ t.wk = 128 /\ t.expand = 1 /\ t.stages \in 2 .. 4
                  /\ s.n % 256 = 0 /\ s.k >= 512 /\ s.k % 128 = 0
             [] x.fragment = "FullK" -> ChecksTile(s, t)
             [] OTHER -> Rolls(s, t)
        /\ FitsStrategy(t, s.k)

ChecksPlan(s, x) == IF x.kind = "native" THEN ChecksNative(s, x) ELSE x.kind = "streamed" /\ ChecksStreamed(s, x)

\* The checks of the operands.
OperandsAccepted(s) ==
    /\ s.ppu15 /\ s.groups > 0 /\ s.n > 0 /\ s.n % 64 = 0 /\ s.k > 0 /\ s.k % 128 = 0
    /\ s.type = "masked" => s.expected >= 0
    /\ s.type = "nopad" => s.groups <= 1024
    /\ s.type = "fused" => IF s.tokens = 0 THEN s.m = 0
                           ELSE s.m % s.tokens = 0 /\ (s.m \div s.tokens) \in 1 .. s.groups

-----------------------------------------------------------------------------
(* What the generated code asserts, and what the launches rely on.                *)

\* SharedStorage of the native kernel: A, packed weights and their scales, then the
\* scales of two row blocks if the tile is wide.
Storage(t, k) ==
    LET wide == UsesRingA(t.wm)
        copyRows == TileThreads(t) \div Smallest(TileThreads(t), Smallest(t.bk, 128) \div 16)
        storageM == IF wide THEN Ceil(t.bm, copyRows) ELSE t.bm
        residentA == t.expand > 1 /\ t.wm = 64 /\ k <= 384
        slots == IF residentA /\ k \div t.bk > t.stages THEN k \div t.bk ELSE t.stages
        fields == << storageM * t.bk * slots, t.bn * (t.bk \div 2) * t.stages, (t.bn \div 64) * (2 * t.bk) * t.stages >>
        mainloop == FoldLeft(LAMBDA sum, field : Ceil(sum, 16) + field, 0, fields)
    IN  IF wide THEN Ceil(Ceil(mainloop, 128) + 2 * t.bm * 4, 128) ELSE Ceil(mainloop, 16)

NativeBuilds(s, x) ==
    LET t == x.tile
        compact == x.fragment = "RollingK32"
    IN  /\ UsesRingA(t.wm) => compact /\ t.bn = 256 /\ t.wn = 32
        /\ compact => t.expand = 1
        /\ t.bm = t.wm /\ t.bk = t.wk /\ t.wn \in {16, 32, 48, 64} /\ t.expand \in 1 .. 4
        /\ t.expand > 1 => s.type = "nopad" /\ t.stages = 2 /\ s.n % (t.bn * t.expand) = 0
        /\ Storage(t, s.k) = TileSmem(t, s.k)

\* A plan takes every expert once, in order, in two chunks or more that fit the
\* buffers with their metadata. Decoders that look at the rows of experts, to skip
\* an empty one or to gather, need whole rows of weights.
StreamBuilds(s, x) ==
    /\ x.parts[1][1] = 0
    /\ \A i \in DOMAIN x.parts :
         /\ x.parts[i][2] \in 1 .. x.chunk
         /\ x.parts[i][1] + x.parts[i][2] = IF i = Len(x.parts) THEN s.groups ELSE x.parts[i + 1][1]
    /\ Len(x.parts) >= 2
    /\ x.chunk * x.decodeN * s.k + 8 <= Budget
    /\ x.skipsEmpty \/ x.gather = "chunk" => x.decodeN = s.n

PlanBuilds(s, x) == IF x.kind = "native" THEN NativeBuilds(s, x) ELSE StreamBuilds(s, x)
=============================================================================
