----------------------------- MODULE TileLadder -----------------------------
(* How the host picks the tile of a GEMM when neither a table nor the adaptive   *)
(* selector gives one: a walk over candidate blocks that keeps the better of     *)
(* two, corrections for special shapes, and from the block its warps, block_k    *)
(* and stages. One variant per element type: bf16, int8 (and channelwise fp8)    *)
(* and blockwise fp8.                                                             *)
(*                                                                               *)
(* A shape `s' has m (the expected rows of a group), n, k, groups, sms, type     *)
(* and ppu15. A block t is <<block_m, block_n>>. Ratios the code computes in     *)
(* doubles are compared as the fractions they stand for.                          *)
EXTENDS Integers, Sequences
LOCAL INSTANCE SequencesExt
LOCAL INSTANCE FiniteSetsExt

CeilDiv(a, b) == (a + b - 1) \div b
Ceil(a, b) == CeilDiv(a, b) * b
Largest(a, b) == IF a > b THEN a ELSE b
Smallest(a, b) == IF a < b THEN a ELSE b

SmemSize == 262144    \* ppu_capacity
MkAlignment == 128    \* rows of a group are aligned to this in a contiguous layout

\* The value of the first rule <<guard, value>> that applies.
FirstRule(rules) == rules[Min({i \in DOMAIN rules : rules[i][1]})][2]

-----------------------------------------------------------------------------
(* The walk.                                                                      *)

Blocks(s, t) == CeilDiv(s.m, t[1]) * CeilDiv(s.n, t[2]) * s.groups
Waves(s, t) == CeilDiv(Blocks(s, t), s.sms)
LastWave(s, t) == IF Blocks(s, t) % s.sms = 0 THEN s.sms ELSE Blocks(s, t) % s.sms

\* Every block_m with every block_n, as the two loops visit them.
Candidates(ms, ns) ==
    [i \in 1 .. Len(ms) * Len(ns) |-> <<ms[(i - 1) \div Len(ns) + 1], ns[((i - 1) % Len(ns)) + 1]>>]
Columns(most, least) == SelectSeq(<<256, 128, 64, 32, 16>>, LAMBDA bn : bn <= most /\ bn >= least)

Padded(s, t) == Ceil(s.m, t[1]) * Ceil(s.n, t[2])
Intense(t, b) == t[1] * t[2] * (b[1] + b[2]) >= b[1] * b[2] * (t[1] + t[2])
Vote(holds) == IF holds THEN 1 ELSE 0

\* Small problems: at least three of residency, waves, padding and intensity.
Balanced(s, occ, t, b) ==
    Vote(Waves(s, t) * occ[b] <= Waves(s, b) * occ[t]) + Vote(Padded(s, t) <= Padded(s, b))
        + Vote(occ[t] >= occ[b]) + Vote(Intense(t, b)) >= 3

\* Large ones: fewer waves, then a fuller last wave, then the tie cases.
FewerWaves(s, t, b) ==
    \/ Waves(s, t) < Waves(s, b)
    \/ /\ Waves(s, t) = Waves(s, b)
       /\ \/ LastWave(s, t) > LastWave(s, b)
          \/ /\ LastWave(s, t) = LastWave(s, b)
             /\ \/ t[1] = b[1] /\ t[2] < b[2]
                \/ t[2] = b[2] /\ t[1] < b[1]
                \/ t[1] # b[1] /\ t[2] > b[2]

\* Nothing is kept if no candidate passed the filter.
NoBlock == <<0, 0>>
Walk(s, tiles, small, occ) ==
    FoldLeft(LAMBDA best, t : IF \/ best = NoBlock
                                 \/ (small /\ Balanced(s, occ, t, best))
                                 \/ (~small /\ FewerWaves(s, t, best))
                              THEN t ELSE best,
             NoBlock, tiles)

\* Residency with two stages of 128 bytes of K, the estimate the walks use.
Sides == {16, 32, 64, 128, 192, 256}
OccPlain == [t \in Sides \X Sides |-> SmemSize \div Largest(2 * t[1] * t[2], 256 * (t[1] + t[2]))]

-----------------------------------------------------------------------------
(* From a block to a configuration.                                               *)

SmemPlain(t, bk, stages, bytes) == Largest(2 * t[1] * t[2], stages * (t[1] + t[2]) * bk * bytes)

\* Shared memory of blockwise fp8: the scales of both operands on top.
SmemFp8(t, bk, stages) ==
    SmemPlain(t, bk, stages, 1) + Ceil(stages * t[1] * CeilDiv(bk, 128) * 4, 128)
        + Ceil(stages * CeilDiv(t[2], 128) * Largest(CeilDiv(bk, 128), 8) * 4, 128)

\* Candidate stages: those K can fill, or <<3, 2>>.
Fillable(most, k, bk) == SelectSeq(<<8, 7, 6, 5, 4, 3, 2>>, LAMBDA x : x <= most /\ x <= k \div bk)

\* The first candidate that fits; the last one where a higher residency is
\* worth more than depth, for residency only grows as stages fall. 0: none fits.
PickStages(stages, smem, bound, last) ==
    LET fit == SelectSeq(stages, LAMBDA x : smem[x] <= bound)
    IN  IF fit = <<>> THEN 0 ELSE IF last THEN Last(fit) ELSE Head(fit)

Config(grid, t, bk, warp, stages, smem) ==
    [grid |-> grid, bm |-> t[1], bn |-> t[2], bk |-> bk, wm |-> warp[1], wn |-> warp[2], wk |-> bk,
     stages |-> stages, smem |-> smem]

-----------------------------------------------------------------------------
(* bf16 *)

Bf16Blocks(s) ==
    LET deep == s.k >= 384
        ms == IF s.type = "contiguous" THEN <<MkAlignment>>
              ELSE IF deep THEN <<256, 128, 64, 32, 16>> ELSE <<64, 32, 16>>
        wide == s.ppu15 /\ ((s.m >= 128 /\ s.k > 2048) \/ s.m >= 256)
        kept(t) == /\ t[2] # s.n /\ (t[1] # 16 \/ t[2] > 32)
                   /\ wide \/ t[1] <= 128 \/ t[2] <= 128
    IN  SelectSeq(Candidates(ms, Columns(IF deep THEN s.maxBn ELSE s.maxBn \div 2, 32)), kept)

Bf16Block(s) ==
    FirstRule(<< <<s.m < 20 /\ s.n < 512, <<16, 64>> >>,
                 <<~s.ppu15 /\ s.m > 64 /\ s.n = 128 /\ s.k = 4096, <<128, 128>> >>,
                 <<TRUE, Walk(s, Bf16Blocks(s), s.m < 512 \/ s.n < 512, OccPlain)>> >>)

Bf16Warp(s, t) ==
    LET bm == t[1]  bn == t[2]
    IN  FirstRule(<< <<bm = 256 /\ bn = 256, <<64, 64>> >>,
                     <<bm = 32 /\ bn >= 64, <<32, bn \div 4>> >>,
                     <<bn = 32 /\ s.n <= 128 /\ bm >= 64, <<bm \div 4, 32>> >>,
                     <<bm = 128 \/ (bm = 256 /\ bn >= 32), <<64, IF bn <= 128 THEN bn \div 2 ELSE bn \div 4>> >>,
                     <<bm = 16, <<16, IF bn <= 128 THEN bn \div 4 ELSE bn \div 8>> >>,
                     <<bn >= 128, <<bm \div 2, bn \div 4>> >>,
                     <<TRUE, <<bm \div 2, bn \div 2>> >> >>)

\* 256 columns do not divide 128 and get few stages.
Bf16Stages(s, t, bk) ==
    LET fillable == Fillable(8, s.k, bk)
    IN  IF t = <<256, 256>> THEN <<4>>
        ELSE IF fillable = <<>> \/ t[2] > 128 \/ t[1] <= 32 THEN <<3, 2>> ELSE fillable

Bf16ConfigOf(s, t) ==
    LET bk == IF s.k >= 4096 /\ t[1] <= 32 /\ t[2] <= 64 THEN 128 ELSE IF s.k <= 64 THEN 32 ELSE 64
        smem == [x \in 0 .. 8 |-> SmemPlain(t, bk, x, 2)]
        stages == PickStages(Bf16Stages(s, t, bk), smem, SmemSize, s.k < 512 \/ (t[1] > 32 /\ t[2] >= 64))
    IN  Config(Smallest(Blocks(s, t), s.sms), t, bk, Bf16Warp(s, t), stages, smem[stages])
Bf16Config(s) == Bf16ConfigOf(s, Bf16Block(s))

-----------------------------------------------------------------------------
(* int8 on PPU1.5: dense and batched.                                             *)

Int8DenseBlock(s) ==
    LET wide == (s.m >= 128 /\ s.k >= 2048) \/ s.m >= 256
        kept(t) == t[2] # s.n /\ (wide \/ ((t[1] <= 128 \/ t[2] <= 128) /\ t # <<16, 32>>))
        tiles == SelectSeq(Candidates(<<256, 192, 128, 64, 32, 16>>, Columns(256, 32)), kept)
    IN  IF s.m < 20 /\ s.n < 512 THEN <<16, 64>>
        ELSE Walk(s, tiles, s.m <= 256 \/ s.n < 512, OccPlain)

\* The warp tile, and block_n which the 16-row tile sets for a narrow problem.
Int8DenseWarp(s, t) ==
    LET bm == t[1]  bn == t[2]  narrow == IF s.n < 512 THEN 64 ELSE bn
    IN  FirstRule(<< <<bm >= 128 /\ bn = 256, <<bm \div 4, 64, bn>> >>,
                     <<bm = 32 /\ bn >= 64, <<32, bn \div 4, bn>> >>,
                     <<bn = 32 /\ s.n <= 128 /\ bm >= 64, <<bm \div 4, 32, bn>> >>,
                     <<bm >= 128, <<bm \div 4, IF bn # 32 THEN bn \div 2 ELSE bn, bn>> >>,
                     <<bm = 16, <<16, IF narrow <= 128 THEN narrow \div 4 ELSE narrow \div 8, narrow>> >>,
                     <<bn >= 128, <<bm \div 2, bn \div 4, bn>> >>,
                     <<TRUE, <<bm \div 2, bn \div 2, bn>> >> >>)

Int8DenseConfigOf(s, found) ==
    LET bk == IF s.k >= 4096 /\ ((found[1] <= 32 /\ found[2] <= 64) \/ found = <<64, 128>>) THEN 256
              ELSE IF s.k <= 256 THEN 64 ELSE 128
        fillable == Fillable(5, s.k, bk)
        candidates == IF found[1] >= 128 /\ found[2] >= 128 THEN <<4>>
                      ELSE IF fillable = <<>> \/ found[2] > 128 THEN <<3, 2>> ELSE fillable
        warp == Int8DenseWarp(s, found)
        t == <<found[1], warp[3]>>
        smem == [x \in 0 .. 5 |-> SmemPlain(t, bk, x, 1)]
        stages == PickStages(candidates, smem, SmemSize, s.k < 512 \/ (t[1] > 64 /\ t[2] >= 64))
    IN  Config(s.sms, t, bk, warp, stages, smem[stages])
Int8DenseConfig(s) == Int8DenseConfigOf(s, Int8DenseBlock(s))

-----------------------------------------------------------------------------
(* int8 on PPU1.5: grouped.                                                       *)

Int8GroupedBlocks(s) ==
    LET deep == s.k >= 384
        ms == IF s.type = "contiguous" THEN <<MkAlignment>>
              ELSE IF deep THEN <<256, 128, 64, 32, 16>> ELSE <<128, 64, 32, 16>>
        wide == (s.m >= 128 /\ s.k > 2048) \/ (s.m >= 256 /\ s.k >= 512)
        kept(t) == /\ t[2] # s.n /\ s.n >= 32 /\ (t[1] # 16 \/ t[2] > 32)
                   /\ wide \/ t[1] <= 128 \/ t[2] <= 128
    IN  SelectSeq(Candidates(ms, Columns(IF deep THEN s.maxBn ELSE s.maxBn \div 2, 32)), kept)

\* A group that nearly fills its rows gets twice as many.
NearlyFull(s, bm) == bm - 10 <= s.m /\ s.m <= bm

Int8GroupedBlock(s) ==
    LET found == Walk(s, Int8GroupedBlocks(s), s.m < 512 \/ s.n < 512, OccPlain)
        many == IF s.m \in 96 .. 127 /\ s.n > 2048 /\ s.k > 2048 /\ s.groups >= 8 THEN <<192, 256>> ELSE found
        once == IF many[1] = 16 /\ NearlyFull(s, 16) THEN 32 ELSE many[1]
        twice == IF once \in {32, 64} /\ NearlyFull(s, once) /\ s.k > 256 THEN 2 * once ELSE once
    IN  IF s.m < 10 /\ s.n < 512 THEN <<16, 64>> ELSE <<twice, many[2]>>

Int8GroupedWarp(s, t) ==
    LET bm == t[1]  bn == t[2]  narrow == IF s.n < 512 THEN 64 ELSE bn
    IN  FirstRule(<< <<bm > 128 /\ bn = 256, <<bm \div 4, 64, bn>> >>,
                     <<bm = 64 /\ bn >= 128, <<IF s.k < 256 THEN 64 ELSE 32, 64, bn>> >>,
                     <<bm = 32 /\ bn >= 64, <<32, IF bn <= 128 THEN bn \div 2 ELSE bn \div 4, bn>> >>,
                     <<bn = 32 /\ s.n <= 128 /\ bm >= 64, <<bm \div 4, 32, bn>> >>,
                     <<bm \in {128, 256} /\ bn >= 32, <<64, IF bn <= 128 THEN bn \div 2 ELSE bn \div 4, bn>> >>,
                     <<bm = 16, <<16, IF narrow < 128 THEN narrow \div 2 ELSE narrow \div 4, narrow>> >>,
                     <<bn >= 128, <<bm \div 2, 64, bn>> >>,
                     <<TRUE, <<bm \div 2, bn \div 2, bn>> >> >>)

Int8GroupedConfigOf(s, found) ==
    LET bk == IF s.k >= 4096 /\ found[1] <= 32 /\ found[2] <= 64 THEN 256 ELSE IF s.k = 128 THEN 64 ELSE 128
        fillable == Fillable(8, s.k, bk)
        candidates == IF found[1] > 128 /\ found[2] = 256 THEN <<4>>
                      ELSE IF fillable = <<>> \/ found[2] > 128 \/ found[1] <= 32 THEN <<3, 2>> ELSE fillable
        warp == Int8GroupedWarp(s, found)
        t == <<found[1], warp[3]>>
        smem == [x \in 0 .. 8 |-> SmemPlain(t, bk, x, 1)]
        stages == PickStages(candidates, smem, SmemSize, s.k < 512 \/ (t[1] > 32 /\ t[2] >= 64))
    IN  Config(s.sms, t, bk, warp, stages, smem[stages])
Int8GroupedConfig(s) == Int8GroupedConfigOf(s, Int8GroupedBlock(s))
-----------------------------------------------------------------------------
(* int8 before PPU1.5, dense and grouped.                                         *)

Int8OldBlocks(s) ==
    LET deep == s.k > 384
        ms == IF s.type = "contiguous" THEN <<MkAlignment>>
              ELSE IF deep THEN <<256, 128, 64, 32, 16>> ELSE <<64, 32, 16>>
        kept(t) == /\ t[2] # s.n /\ s.n >= (IF s.type = "normal" THEN 1 ELSE 32)
                   /\ t[1] # 16 \/ t[2] > 32
                   /\ t[1] <= 128 \/ t[2] <= 128
    IN  SelectSeq(Candidates(ms, Columns(IF deep THEN s.maxBn ELSE s.maxBn \div 2, 32)), kept)

Int8OldBlock(s) ==
    LET found == Walk(s, Int8OldBlocks(s), s.m < 512 \/ s.n < 512, OccPlain)
        few == IF s.m < 6 /\ s.n < 512 THEN <<16, 64>> ELSE found
        once == IF few[1] = 16 /\ NearlyFull(s, 16) /\ s.k > 384 THEN 32 ELSE few[1]
    IN  <<IF s.m \in 65 .. 127 THEN 64 ELSE once, few[2]>>

Int8OldWarp(s, t) ==
    LET bm == t[1]  bn == t[2]  narrow == IF s.n <= 512 THEN 64 ELSE bn
    IN  FirstRule(<< <<bm > 128 /\ bn = 256, <<bm \div 4, 64, bn>> >>,
                     <<bm = 32 /\ bn >= 64, <<IF s.k > 256 THEN 16 ELSE 32, IF bn <= 128 THEN bn \div 4 ELSE bn \div 8, bn>> >>,
                     <<bn = 32 /\ s.n <= 128 /\ bm >= 64, <<bm \div 4, 32, bn>> >>,
                     <<bm = 128 \/ (bm = 256 /\ bn >= 32), <<64, IF bn <= 128 THEN bn \div 2 ELSE bn \div 4, bn>> >>,
                     <<bm = 16, <<16, IF narrow <= 128 THEN narrow \div 4 ELSE narrow \div 8, narrow>> >>,
                     <<bn >= 128, <<bm \div 2, bn \div 4, bn>> >>,
                     <<TRUE, <<bm \div 2, bn \div 2, bn>> >> >>)

Int8OldConfigOf(s, found) ==
    LET bk == IF s.k >= 4096 /\ found[1] <= 32 /\ found[2] <= 128 THEN 256 ELSE IF s.k <= 256 THEN 64 ELSE 128
        warp == Int8OldWarp(s, found)
        t == <<found[1], warp[3]>>
        fillable == Fillable(8, s.k, bk)
        candidates == IF t[1] > 128 /\ t[2] = 256 THEN <<4>>
                      ELSE IF fillable = <<>> \/ t[2] > 128 \/ t[1] <= 32 \/ t = <<64, 128>> THEN <<3, 2>>
                      ELSE fillable
        smem == [x \in 0 .. 8 |-> SmemPlain(t, bk, x, 1)]
        stages == PickStages(candidates, smem, SmemSize, s.k < 512 \/ (t[1] > 64 /\ t[2] >= 64))
    IN  Config(s.sms, t, bk, warp, stages, smem[stages])
Int8OldConfig(s) == Int8OldConfigOf(s, Int8OldBlock(s))

-----------------------------------------------------------------------------
(* Blockwise fp8: dense and batched.                                              *)

Fp8DenseBlock(s) ==
    LET kept(t) == (t[1] <= 128 \/ t[2] <= 128) /\ t[2] # s.n /\ t # <<128, 128>>
        tiles == SelectSeq(Candidates(<<256, 192, 128, 64>>, Columns(256, 64)), kept)
    IN  IF s.m >= 2048 /\ s.n >= 2048 /\ s.k >= 2048 THEN <<192, 256>> ELSE Walk(s, tiles, FALSE, OccPlain)

Fp8DenseConfigOf(s, t) ==
    LET fillable == Fillable(4, s.k, 128)
        candidates == IF fillable = <<>> \/ t[2] > 128 THEN <<4, 3, 2>> ELSE fillable
        smem == [x \in 0 .. 4 |-> SmemFp8(t, 128, x)]
        stages == PickStages(candidates, smem, SmemSize - 1, FALSE)
        warp == IF t = <<64, 256>> THEN <<32, 32>> ELSE <<t[1] \div 4, t[2] \div 4>>
    IN  Config(CeilDiv(Blocks(s, t), Waves(s, t)), t, 128, warp, stages, smem[stages])
Fp8DenseConfig(s) == Fp8DenseConfigOf(s, Fp8DenseBlock(s))

\* Work of the busiest CU per K block, the transfers weighted.
WaveScore(s, t) ==
    LET rounds == CeilDiv(CeilDiv(s.m, t[1]) * CeilDiv(s.n, t[2]), s.sms)
        critical == rounds * t[1] * t[2]
        operand == rounds * (t[1] + t[2])
    IN  <<critical + 64 * operand, critical, operand, Padded(s, t)>>
Precedes(a, b) == \E i \in DOMAIN a : a[i] < b[i] /\ \A j \in 1 .. i - 1 : a[j] = b[j]

\* PPU1.5: a tile that lowers the score of the walk's by four percent, or two
\* small CTAs per CU; three stages where tiles are full and many.
HasDenseWave(s) == s.m >= 512 /\ s.n >= 1024 /\ s.k >= 1024 /\ s.n % 128 = 0 /\ s.k % 128 = 0
Fp8WaveConfig(s, x, grid) ==
    LET full == /\ x[1] = <<192, 256>> /\ s.m % 192 = 0 /\ s.n % 256 = 0
                /\ s.m \div 192 >= 12 /\ s.n \div 256 >= 16 /\ s.k \div 128 >= 32
        stages == IF full THEN 3 ELSE x[3]
    IN  Config(grid, x[1], 128, x[2], stages, SmemFp8(x[1], 128, stages))
Fp8FullWaves(s, x) ==
    LET blocks == CeilDiv(s.m, x[1][1]) * CeilDiv(s.n, x[1][2])
    IN  Fp8WaveConfig(s, x, CeilDiv(blocks, CeilDiv(blocks, s.sms)))
LeastScore(s, admitted) == CHOOSE x \in admitted : \A y \in admitted : ~Precedes(WaveScore(s, y[1]), WaveScore(s, x[1]))
Fp8DenseWaveOf(s, old, base) ==
    LET \* <<block, warp, stages>>
        tiles == {<< <<128, 256>>, <<32, 64>>, 4>>, << <<192, 256>>, <<48, 64>>, 4>>, << <<128, 384>>, <<32, 96>>, 3>>}
        admitted == {x \in tiles : /\ WaveScore(s, x[1])[1] <= base[1] - CeilDiv(base[1], 25)
                                   /\ Precedes(WaveScore(s, x[1]), base)}
        small == << <<128, 128>>, <<32, 64>>, 3>>
        blocks == CeilDiv(s.m, 128) * CeilDiv(s.n, 128)
        rounds == CeilDiv(blocks, 2 * s.sms)
        paired == s.k <= 1536 /\ s.n >= 8192 /\ rounds >= 8 /\ 2 * rounds * 128 * 128 <= base[2]
    IN  IF admitted # {} THEN Fp8FullWaves(s, LeastScore(s, admitted))
        ELSE IF paired THEN Fp8WaveConfig(s, small, CeilDiv(blocks, 2 * rounds))
        ELSE Fp8WaveConfig(s, << <<old.bm, old.bn>>, <<old.wm, old.wn>>, old.stages>>, old.grid)
Fp8DenseWave(s) ==
    LET old == Fp8DenseConfig(s)
    IN  Fp8DenseWaveOf(s, old, WaveScore(s, <<old.bm, old.bn>>))

-----------------------------------------------------------------------------
(* Blockwise fp8: grouped.                                                        *)

Fp8GroupedBlocks(s) ==
    LET deep == s.k > 384
        ms == IF s.type = "contiguous" THEN <<MkAlignment>>
              ELSE IF deep THEN <<256, 192, 128, 64, 32, 16>> ELSE <<64, 32, 16>>
        kept(t) == /\ t[2] # s.n /\ s.n >= 32
                   /\ t[1] # 16 \/ t[2] > 32
                   /\ t[1] <= 128 \/ t[2] <= 128
    IN  SelectSeq(Candidates(ms, Columns(IF deep THEN s.maxBn ELSE s.maxBn \div 2, 32)), kept)

\* Mutant: the corrections for many rows reach contiguous layouts too.
Fp8AlwaysCorrected(s) ==
    LET found == Walk(s, Fp8GroupedBlocks(s), s.m < 64 \/ s.n < 512, OccPlain)
    IN  IF s.m >= 128 /\ s.k <= 512 THEN <<64, 128>>
        ELSE IF s.m > 256 /\ s.n >= 256 THEN <<192, 256>> ELSE found

\* Outside contiguous layouts the rows decide in the end.
Fp8GroupedBlock(s) ==
    LET found == Walk(s, Fp8GroupedBlocks(s), s.m < 64 \/ s.n < 512, OccPlain)
        many == IF s.m >= 128 /\ s.k <= 512 THEN <<64, 128>>
                ELSE IF s.m > 256 /\ s.n >= 256 THEN <<192, 256>> ELSE found
        once == IF many[1] = 16 /\ NearlyFull(s, 16) THEN 32 ELSE many[1]
        twice == IF once = 32 /\ NearlyFull(s, 32) /\ s.k > 384 THEN 64 ELSE once
    IN  IF s.type = "contiguous" THEN found ELSE <<twice, many[2]>>

Fp8GroupedWarp(s, t) ==
    LET bm == t[1]  bn == t[2]  narrow == IF s.n < 512 THEN 64 ELSE bn
    IN  FirstRule(<< <<bm = 32 /\ bn >= 64, <<16, IF bn <= 128 THEN bn \div 2 ELSE bn \div 4, bn>> >>,
                     <<bn = 32 /\ s.n <= 128 /\ bm >= 64, <<bm \div 4, 32, bn>> >>,
                     <<t = <<192, 128>>, <<48, 64, 256>> >>,
                     <<bm >= 128 /\ bn >= 32, <<bm \div 4, IF bn <= 128 THEN bn \div 2 ELSE bn \div 4, bn>> >>,
                     <<bm = 16, <<16, IF narrow <= 128 THEN narrow \div 4 ELSE narrow \div 8, narrow>> >>,
                     <<bn >= 128, <<bm \div 2, bn \div 4, bn>> >>,
                     <<TRUE, <<bm \div 2, bn \div 2, bn>> >> >>)

\* The grid is computed before the warps may widen the block.
Fp8GroupedConfigOf(s, found) ==
    LET warp == Fp8GroupedWarp(s, found)
        t == <<found[1], warp[3]>>
        fillable == Fillable(7, s.k, 128)
        candidates == IF t \in {<<64, 128>>, <<128, 128>>} /\ s.k > 384 THEN <<3>>
                      ELSE IF t[1] >= 128 /\ t[2] >= 128 THEN <<4>>
                      ELSE IF fillable = <<>> \/ t[2] > 128 \/ t[1] <= 32 THEN <<3, 2>> ELSE fillable
        smem == [x \in 0 .. 7 |-> SmemFp8(t, 128, x)]
        stages == PickStages(candidates, smem, SmemSize - 1, s.k < 512 \/ (t[1] > 64 /\ t[2] >= 64))
    IN  Config(CeilDiv(Blocks(s, found), Waves(s, found)), t, 128, warp, stages, smem[stages])
Fp8GroupedConfig(s) == Fp8GroupedConfigOf(s, Fp8GroupedBlock(s))
=============================================================================
