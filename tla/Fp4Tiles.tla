------------------------------ MODULE Fp4Tiles ------------------------------
(* How the host picks the tile of an mxfp4 GEMM: the walk of TileLadder with the *)
(* residency of the warps each candidate would get, a recipe table for grouped   *)
(* problems, and the launch constants of the dynamic-tile kernel. K counts bytes, *)
(* two elements each.                                                             *)
(*                                                                               *)
(* A shape `s' of TileLadder with, in addition, bias, fusing (activation and      *)
(* quantisation in the epilogue) and minBn.                                       *)
EXTENDS TileLadder
LOCAL INSTANCE SequencesExt

\* uint16 scales of a stage with the padding against bank conflicts, and the
\* part of it the last stage does not need.
ScalePad(rows) == IF rows <= 64 THEN 0 ELSE 32
ScaleStage(rows, bk) ==
    rows * CeilDiv(bk, 32) * 2 + (IF rows <= 64 THEN 0 ELSE 32 * CeilDiv(rows, 64))
ScaleBytes(rows, bk, stages) == stages * ScaleStage(rows, bk) - ScalePad(rows)

\* The epilogue stages its rows for an odd N or a bias, or the fused activation.
SmemFp4(s, t, wm, bk, stages) ==
    LET out == IF s.n % 2 # 0 \/ s.bias THEN (t[1] \div wm) * 16 * t[2] * 4
               ELSE IF s.fusing THEN t[1] * (t[2] \div 2 + 4) * 4 ELSE 0
    IN  Largest(out, stages * (t[1] + t[2]) * bk + ScaleBytes(t[1], bk, stages) + ScaleBytes(t[2], bk, stages))

\* The fused MoE kernel keeps scales apart from what the epilogue reuses.
SmemFp4Fused(s, t, bk, stages) ==
    LET out == IF s.fusing THEN Ceil(t[1] * (t[2] \div 2 + 4) * 4, 128) ELSE 0
    IN  Largest(Ceil(stages * t[1] * bk, 128) + stages * t[2] * bk, out)
            + ScaleBytes(t[1], bk, stages) + ScaleBytes(t[2], bk, stages)

Fp4Sides == {16, 32, 64, 128, 256}
\* warp is <<warp_m, warp_n, block_n>>.
OccFp4(s, warp) ==
    [t \in Fp4Sides \X Fp4Sides |-> SmemSize \div SmemFp4(s, <<t[1], warp[t][3]>>, warp[t][1], 128, 2)]

-----------------------------------------------------------------------------
(* Dense.                                                                         *)

Fp4DenseWarp(s, t) ==
    LET bm == t[1]  bn == t[2]
    IN  FirstRule(<< <<bm >= 128 /\ bn = 256, <<bm \div 4, 64, bn>> >>,
                     <<bm = 32 /\ bn >= 64, <<32, bn \div 4, bn>> >>,
                     <<bn = 32 /\ s.n <= 128 /\ bm >= 64, <<bm \div 4, 32, bn>> >>,
                     <<bm >= 128, <<bm \div 4, IF bn # 32 THEN bn \div 2 ELSE bn, bn>> >>,
                     <<bm = 16, <<16, 16, IF s.n < 512 THEN 64 ELSE bn>> >>,
                     <<bn >= 128, <<bm \div 2, bn \div 4, bn>> >>,
                     <<bn = 16, <<bm \div 2, 16, bn>> >>,
                     <<TRUE, <<bm \div 2, bn \div 2, bn>> >> >>)

Fp4DenseBlock(s) ==
    LET warp == [t \in Fp4Sides \X Fp4Sides |-> Fp4DenseWarp(s, t)]
        wide == (s.m >= 128 /\ s.k >= 2048) \/ s.m >= 256
        kept(t) == t[2] # s.n /\ (wide \/ ((t[1] <= 128 \/ t[2] <= 128) /\ t # <<16, 32>>))
        tiles == SelectSeq(Candidates(<<256, 128, 64, 32, 16>>, Columns(256, 16)), kept)
    IN  IF s.m < 20 /\ s.n < 512 THEN <<16, 64>>
        ELSE Walk(s, tiles, s.m <= 256 \/ s.n < 512, OccFp4(s, warp))

Fp4DenseConfigOf(s, found) ==
    LET warp == Fp4DenseWarp(s, found)
        t == <<found[1], warp[3]>>
        bk == IF s.k >= 4096 /\ ((found[1] <= 32 /\ found[2] <= 64) \/ found = <<64, 128>>) THEN 256
              ELSE IF s.k <= 256 THEN 64 ELSE 128
        fillable == Fillable(8, s.k, bk)
        smem == [x \in 0 .. 8 |-> SmemFp4(s, t, warp[1], bk, x)]
        stages == PickStages(IF fillable = <<>> THEN <<2>> ELSE fillable, smem, SmemSize, FALSE)
    IN  Config(s.sms, t, bk, warp, stages, smem[stages])
Fp4DenseConfig(s) == Fp4DenseConfigOf(s, Fp4DenseBlock(s))

-----------------------------------------------------------------------------
(* Grouped.                                                                       *)

Fp4GroupedWarp(s, t) ==
    LET bm == t[1]  bn == t[2]
    IN  FirstRule(<< <<bm > 128 /\ bn = 256, <<bm \div 4, 64, bn>> >>,
                     <<bm = 64 /\ bn >= 128, <<IF s.k < 256 THEN 64 ELSE 32, 64, bn>> >>,
                     <<bm = 32 /\ bn >= 64, <<32, IF bn <= 128 THEN bn \div 2 ELSE bn \div 4, bn>> >>,
                     <<bn = 32 /\ s.n <= 128 /\ bm >= 64, <<bm \div 4, 32, bn>> >>,
                     <<bm = 128 \/ (bm = 256 /\ bn >= 32), <<64, IF bn <= 128 THEN bn \div 2 ELSE bn \div 4, bn>> >>,
                     <<bm = 16, <<16, 16, IF s.n < 512 THEN 64 ELSE bn>> >>,
                     <<bn >= 128, <<bm \div 2, 64, bn>> >>,
                     <<bn = 16, <<bm \div 2, 16, bn>> >>,
                     <<TRUE, <<bm \div 2, bn \div 2, bn>> >> >>)

\* Two of waves, padding and intensity; residency has no vote.
Fp4Walk(s, tiles) ==
    LET small == s.m < 512 \/ s.n < 512
        votes(t, b) == Vote(Waves(s, t) <= Waves(s, b)) + Vote(Padded(s, t) <= Padded(s, b)) + Vote(Intense(t, b))
    IN  FoldLeft(LAMBDA best, t : IF \/ best = NoBlock
                                     \/ (small /\ votes(t, best) >= 2)
                                     \/ (~small /\ FewerWaves(s, t, best))
                                  THEN t ELSE best,
                 NoBlock, tiles)

\* The fused activation needs 64 columns.
LeastBn(s) == IF s.fusing THEN Largest(s.minBn, 64) ELSE s.minBn

Fp4GroupedBlock(s) ==
    LET ms == IF s.k > 768 THEN <<256, 128, 64, 32, 16>> ELSE <<128, 64, 32, 16>>
        wide == (s.m >= 96 /\ s.k > 1024) \/ (s.m >= 256 /\ s.k >= 512)
        kept(t) == /\ t[2] # s.n /\ s.n >= 32
                   /\ t[1] # 16 \/ t[2] > 32
                   /\ wide \/ t[1] <= 128 \/ t[2] <= 128
        columns == Columns(IF s.k >= 384 THEN s.maxBn ELSE s.maxBn \div 2, LeastBn(s))
        found == Fp4Walk(s, SelectSeq(Candidates(ms, columns), kept))
        once == IF found[1] = 16 /\ NearlyFull(s, 16) THEN 32 ELSE found[1]
        twice == IF once \in {32, 64} /\ NearlyFull(s, once) /\ s.k >= 192 THEN 2 * once ELSE once
    IN  <<twice, found[2]>>

Fp4GroupedBlockK(s, t) ==
    FirstRule(<< <<s.k <= 256, IF s.k = 192 /\ t = <<128, 128>> THEN 64 ELSE 128>>,
                 <<t = <<256, 256>>, 128>>,
                 <<t[1] <= 32 /\ t[2] <= 128 /\ (t[2] <= 64 \/ s.k <= 128), 128>>,
                 <<TRUE, 64>> >>)

\* <<block_m, block_n, block_k>> after the recipes for few rows and for one model.
Fp4FewRows(s, t) ==
    FirstRule(<< <<s.m < 2 /\ s.n < 512, <<16, 64, 256>> >>,
                 <<s.m < 2, <<16, 64, 128>> >>,
                 <<s.m < 6 /\ s.n >= 512, <<32, 64, 128>> >>,
                 <<TRUE, <<t[1], t[2], Fp4GroupedBlockK(s, t)>> >> >>)
Fp4OfModel(s, x) ==
    IF <<s.n, s.k>> \notin {<<6144, 3584>>, <<7168, 1536>>} THEN x
    ELSE IF s.m < 6 /\ x[1] = 32 /\ x[2] = 64 THEN <<64, IF s.k = 1536 THEN 128 ELSE 64, 128>>
    ELSE IF s.m >= 6 /\ x[1] \in {32, 64} /\ x[2] = 256 THEN <<128, 256, 64>>
    ELSE x
Fp4Widened(s, x) == <<x[1], Largest(x[2], LeastBn(s)), x[3]>>
Fp4Recipe(s) == Fp4Widened(s, Fp4OfModel(s, Fp4FewRows(s, Fp4GroupedBlock(s))))

\* <<warp_m, warp_n, stages>> by <<block_m, block_n, block_k>>.
TileConfigNormal ==
    [x \in { <<16, 64, 128>>, <<16, 64, 256>>, <<32, 128, 128>>, <<32, 64, 128>>, <<64, 64, 128>>,
             <<64, 128, 128>>, <<128, 128, 128>>, <<128, 256, 64>> } |->
        CASE x = <<16, 64, 128>> -> <<16, 32, 3>>  [] x = <<16, 64, 256>> -> <<16, 16, 4>>
          [] x = <<32, 64, 128>> -> <<32, 32, 2>>  [] x = <<64, 64, 128>> -> <<32, 64, 3>>
          [] x = <<128, 256, 64>> -> <<64, 64, 3>> [] OTHER -> <<32, 64, 2>>]
TileConfigSmallK ==
    [x \in {<<16, 64, 128>>, <<32, 64, 128>>, <<32, 128, 128>>, <<64, 128, 128>>, <<64, 256, 128>>} |->
        CASE x = <<16, 64, 128>> -> <<16, 16, 2>> [] x = <<32, 64, 128>> -> <<16, 32, 2>>
          [] x = <<32, 128, 128>> -> <<16, 64, 2>> [] OTHER -> <<32, 64, 2>>]

\* Beside the table: fixed stages by block.
Fp4GroupedStages(s, t) ==
    FirstRule(<< <<t = <<128, 256>>, IF s.k >= 768 THEN <<4>> ELSE <<3>> >>,
                 <<t[1] >= 128 /\ t[2] >= 128, <<3, 4>> >>,
                 <<t[1] <= 32, <<3, 2>> >>,
                 <<TRUE, <<3>> >> >>)

Fp4Staged(s, t, bk, warp, stages) == Config(s.sms, t, bk, warp, stages, SmemFp4(s, t, warp[1], bk, stages))

\* x is the recipe, entry its row of the table.
Fp4Tabled(s, x, entry) == Fp4Staged(s, <<x[1], x[2]>>, x[3], <<entry[1], entry[2]>>, entry[3])

\* Long M is the side of 256 rows where K is short.
Fp4Turned(s, x) ==
    IF s.m >= 520 /\ s.k <= 768 /\ x[1] = 128 /\ x[2] = 256 THEN <<256, 128>> ELSE <<x[1], x[2]>>

Fp4Untabled(s, bm, bk, warp) ==
    LET t == <<bm, warp[3]>>
        smem == [y \in 0 .. 8 |-> SmemFp4(s, t, warp[1], bk, y)]
    IN  Fp4Staged(s, t, bk, warp, PickStages(Fp4GroupedStages(s, t), smem, SmemSize, FALSE))

Fp4GroupedConfigOf(s, x) ==
    LET table == IF s.k < 128 /\ (x[1] < 128 \/ x[2] < 128) THEN TileConfigSmallK ELSE TileConfigNormal
        turned == Fp4Turned(s, x)
    IN  IF x \in DOMAIN table THEN Fp4Tabled(s, x, table[x])
        ELSE Fp4Untabled(s, turned[1], x[3], Fp4GroupedWarp(s, turned))
Fp4GroupedConfig(s) == Fp4GroupedConfigOf(s, Fp4Recipe(s))

Fp4Config(s) == IF s.type = "normal" THEN Fp4DenseConfig(s) ELSE Fp4GroupedConfig(s)

-----------------------------------------------------------------------------
(* The dynamic-tile kernel (masked layout, no bias): when it runs, and the        *)
(* constants of the launch the host cannot derive.                                *)

DynamicTileWanted(s) ==
    LET range == FirstRule(<< <<<<s.n, 2 * s.k>> = <<4096, 8192>>, 6 .. 76>>,
                              <<<<s.n, 2 * s.k>> = <<8192, 2048>>, 6 .. 51>>,
                              <<TRUE, 23 .. Largest(23, s.m)>> >>)
    IN  ~s.bias /\ s.type = "masked" /\ s.m \in range

DynamicTileId(s) ==
    FirstRule(<< <<s.k > 2048, IF s.m > 32 THEN "LargeEM" ELSE "LargeK">>,
                 <<s.m > 117, "LargeEM">>,
                 <<TRUE, IF s.k <= 1024 THEN "SmallEM" ELSE "LargeK_G2">> >>)

DynamicTileLaunch ==
    [LargeEM   |-> [smem |-> 209600, threads |-> 512], LargeK    |-> [smem |-> 130976, threads |-> 256],
     LargeK_G2 |-> [smem |-> 130912, threads |-> 256], SmallEM   |-> [smem |-> 87264, threads |-> 128]]
=============================================================================
