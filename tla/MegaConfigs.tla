----------------------------- MODULE MegaConfigs -----------------------------
(* The two GEMMs of a MegaMoE round (heuristics/mega_moe.hpp): tiles of the fp4    *)
(* walk corrected by hand, the CTAs that copy rows instead of multiplying, the      *)
(* stripes of K that they publish; and what the kernels are instantiated with.       *)
(* K counts bytes, two elements each.                                             *)
(*                                                                               *)
(* A round `c' has ranks, groups (experts of a rank), capacity (tokens of a rank),  *)
(* topk, tokens, k (the hidden size), n (the intermediate size) and sms.            *)
EXTENDS Fp4Tiles
LOCAL INSTANCE SequencesExt

RankCounts == {2 ^ i : i \in 0 .. 6}
TokenAlignment == 16
ExpertMetadataAuxFields == 4    \* beside one counter per rank
FlagWatermarks == 7             \* stripes of a row block that a flag can count

\* Rows of an expert, from the tokens of this rank.
MegaExpectedM(c) == Largest(1, Smallest(c.ranks * c.capacity, (c.tokens * c.topk) \div c.groups + 1))

PhaseShape(c, n, k, minBn) ==
    [dtype |-> "fp4", type |-> "mega", m |-> MegaExpectedM(c), n |-> n, k |-> k, groups |-> c.groups, sms |-> c.sms,
     ppu15 |-> TRUE, bias |-> FALSE, fusing |-> FALSE, minBn |-> minBn, maxBn |-> 256, dynamic |-> FALSE, lut |-> {}]
L1Shape(c) == PhaseShape(c, 2 * c.n, c.k \div 2, 32)
L2Shape(c) == PhaseShape(c, c.k, c.n \div 2, 128)

MegaWarps(x) == (x.bm \div x.wm) * (x.bn \div x.wn)

-----------------------------------------------------------------------------
(* GEMM1.                                                                         *)

\* Counters of every expert share the memory of the GEMM.
MetadataBytes(c) == c.groups * (c.ranks + ExpertMetadataAuxFields) * 4

FusedTileFits(c, x) == MegaWarps(x) >= 2 /\ x.bn >= 64 /\ MetadataBytes(c) <= x.smem

L1Walked(c) == [Fp4Config(L1Shape(c)) EXCEPT !.smem = Largest(@, MetadataBytes(c))]

\* One model has tiles of its own, except for one range of rows.
CopyTileWanted(s, c, x) ==
    /\ <<s.n, s.k>> = <<6144, 3584>> /\ <<x.bm, x.bn, x.bk>> = <<128, 256, 64>>
    /\ s.m >= 16 /\ ~(c.ranks = 16 /\ c.groups = 24 /\ s.m \in 115 .. 117)
CopyTile(s, x) ==
    LET t == IF s.m <= 117 THEN <<128, 512>> ELSE <<256, 256>>
    IN  Config(x.grid, t, 128, <<64, 64>>, 3, SmemFp4(s, t, 64, 128, 3))

L1TileOf(c, s, x) ==
    IF CopyTileWanted(s, c, x) /\ FusedTileFits(c, CopyTile(s, x)) THEN CopyTile(s, x) ELSE x

\* K tiles of a stripe: whole 512 bytes, no more stripes than a flag counts.
StripeBytes(k, bk) ==
    LET doubled == CHOOSE p \in {2 ^ i : i \in 0 .. 16} :
                       p >= CeilDiv(k, 1024) /\ \A q \in {2 ^ i : i \in 0 .. 16} : q >= CeilDiv(k, 1024) => p <= q
    IN  Largest(Largest(16 * bk, 512 * doubled), Smallest(k, 2048))
KTilesPerFlag(k, bk) ==
    LET alignment == 512 \div bk     \* bk is a power of two
    IN  Ceil(Largest(CeilDiv(StripeBytes(k, bk), bk), CeilDiv(k \div bk, FlagWatermarks)), alignment)

\* Cost of the copies and of the product with ncb CTAs copying.
CopyCost(c, s, x, ktpf, ncb) ==
    LET mTiles == CeilDiv(s.m, x.bm)
        rows == mTiles * x.wm
        stripe == (8 * (x.bm \div MegaWarps(x)) * (rows + Smallest(rows, s.m - 1))) \div rows + 12
        task == CeilDiv((s.m - 1) * CeilDiv(s.k, 512), mTiles * MegaWarps(x)) + stripe * CeilDiv(s.k, x.bk * ktpf)
    IN  CeilDiv(c.groups * mTiles, ncb) * task
ComputeCost(c, s, x, ncb) ==
    LET slots == x.grid * Smallest(4, 16 \div MegaWarps(x))
    IN  CeilDiv(c.groups * CeilDiv(s.m, x.bm) * CeilDiv(s.n, x.bn), slots - ncb) * ((x.wm * x.wn * s.k) \div 16384)

\* Three, four, six, and two if that is strictly cheaper and the copies have headroom.
CopyBlocks(c, s, x, ktpf) ==
    LET copy(b) == CopyCost(c, s, x, ktpf, b)
        compute(b) == ComputeCost(c, s, x, b)
        low(b) == copy(b) * 3 > compute(b) * 2
        cost(b) == Largest(copy(b), compute(b))
        tried == SelectSeq(<<3, 4, 6, 2>>, LAMBDA b : b < x.grid /\ ~(b = 2 /\ low(2)))
        best == FoldLeft(LAMBDA found, b : IF found = 0 \/ cost(b) < cost(found) THEN b ELSE found, 0, tried)
    IN  IF <<s.n, s.k>> = <<4096, 4096>> /\ x.grid > 6 /\ low(3) THEN 6
        ELSE IF best = 0 THEN 3 ELSE best

L1LaunchOf(c, s, x, ktpf) == [ktpf |-> ktpf, copies |-> CopyBlocks(c, s, x, ktpf)] @@ x
L1Striped(c, s, x) == L1LaunchOf(c, s, x, KTilesPerFlag(s.k, x.bk))
L1Launch(c) == L1Striped(c, L1Shape(c), L1TileOf(c, L1Shape(c), L1Walked(c)))

-----------------------------------------------------------------------------
(* GEMM2.                                                                         *)

\* Warps of 32 columns at least, and two accumulator tiles for the scatter.
L2TileOf(s, x) ==
    LET smem == IF x.wn >= 32 THEN x.smem ELSE SmemFp4(s, <<x.bm, x.bn>>, x.wm, x.bk, x.stages)
    IN  [x EXCEPT !.wn = Largest(x.wn, 32), !.smem = Largest(smem, 2 * (x.bm \div x.wm) * 16 * x.bn * 4)]

\* The largest tile runs as a pipeline of half the rows with warps that scatter.
L2LaunchOf(s, x) ==
    IF <<x.bm, x.bn>> = <<256, 256>>
    THEN [pipeline |-> TRUE] @@
         [x EXCEPT !.bm = 128, !.smem = SmemFp4(s, <<128, 256>>, x.wm, x.bk, x.stages) + 3 * 32 * 256 * 2]
    ELSE [pipeline |-> FALSE] @@ x
L2Launch(c) == L2LaunchOf(L2Shape(c), L2TileOf(L2Shape(c), Fp4Config(L2Shape(c))))

-----------------------------------------------------------------------------
\* What the API accepts of a round.
MegaAccepts(c) ==
    /\ c.ranks \in RankCounts /\ c.groups > 0 /\ c.topk \in 1 .. 32
    /\ c.capacity > 0 /\ c.capacity % TokenAlignment = 0 /\ c.tokens <= c.capacity
    /\ c.k >= 1024 /\ c.k % 512 = 0 /\ c.n > 0 /\ c.n % 64 = 0

\* What the host asserts of its own configurations.
MegaAsserts(c, l1, l2) ==
    /\ FusedTileFits(c, L1Walked(c))
    /\ (c.k \div 2) % l1.bk = 0 /\ (c.k \div 2) % 256 = 0
    /\ l1.grid > l1.copies
    /\ l2.bn \in {128, 256}

\* What the kernel asserts of GEMM1: whole waves of copies in a stripe, a flag that
\* counts the stripes, and rows of the activation in the memory of the mainloop.
L1Builds(c, x) ==
    LET k == c.k \div 2
    IN  /\ x.bm \in {16, 32, 64, 128, 256} /\ (2 * c.n) % 64 = 0 /\ MegaWarps(x) \in 2 .. 32
        /\ x.copies > 0 /\ x.ktpf > 0 /\ CeilDiv(k \div x.bk, x.ktpf) <= FlagWatermarks
        /\ ((x.ktpf * x.bk) \div 16) % 32 = 0
        /\ x.bm * ((x.bn \div 2) + 4) * 4 <= x.smem /\ MetadataBytes(c) <= x.smem /\ x.smem <= SmemSize

\* And of GEMM2: rows of a subtile in pairs, whole vectors of a row.
L2Builds(c, x) ==
    /\ x.bm \in {16, 32, 64, 128, 256} /\ x.bn \div 32 \in {4, 8} /\ x.smem <= SmemSize
    /\ IF x.pipeline
       THEN <<x.bm, x.bn, x.bk, x.wm, x.wn, x.stages>> = <<128, 256, 128, 64, 64, 3>> /\ c.k % 256 = 0
       ELSE /\ MegaWarps(x) \in 1 .. 32
            /\ 16 % (x.bn \div x.wn) = 0 /\ (16 \div (x.bn \div x.wn)) % 2 = 0
=============================================================================
