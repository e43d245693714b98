---------------------------- MODULE WeightPrograms ----------------------------
(***************************************************************************)
(* The fp8, fp4, weight-only (w4fa16, w4fa8, w4a16, a8w4, streamed w4a8)   *)
(* and fused MoE GEMM kernels as programs of their warps (Bf16Programs).   *)
(* Scales that are copied and read with the operands of their K tile are   *)
(* part of the stage.  g.nExpand blocks of columns make a tile; block n of *)
(* tile t is ColumnTile(g, t, n).                                          *)
(***************************************************************************)
EXTENDS DensePrograms

\* The fragments of a block are read right before it is multiplied.
BlocksInPlace(g, s) ==
  Unrolled(0, g.blocks - 1, LAMBDA b : <<Fragments(g, s, b), Mma(b)>>)

\* The last block's turn: the stage is requested again, then the next one is read.
BlocksRefilledLast(g, s, RefillOps) ==
  Unrolled(0, g.blocks - 1, LAMBDA b :
    IF b < g.blocks - 1 THEN <<Fragments(g, s, b + 1), Mma(b)>>
    ELSE RefillOps \o <<Fragments(g, (s + 1) % g.stages, 0), Mma(b)>>)

\* The stage of K tile k of column block n.
ColumnStage(g, n, k) == ((n - 1) * g.kTiles + k - 1) % g.stages

-----------------------------------------------------------------------------
(* fp8_gemm.cuh, KernelAiuMultistageOnN: Stages is at most K_TILE_COUNT.    *)

Fp8Prologue(g, w, t) ==
  Unrolled(1, g.stages, LAMBDA k :
    If(k <= g.kTiles, CopyStage(g, w, k - 1, ColumnTile(g, t, 1), k)) \o <<Fence>>)

\* Behind the last block but one of K tile i of column block n: the K tile that is
\* next, of this block or of the one B has advanced to.
Fp8Refill(g, w, t, n, i) ==
  LET k == g.stages + i
  IN  <<Wait(IF g.stages > 1 THEN g.stages - 2 ELSE 0), Sync(g)>>
      \o If(k <= g.kTiles \/ n < g.nExpand,
            CopyStage(g, w, ColumnStage(g, n, i),
                      ColumnTile(g, t, IF k <= g.kTiles THEN n ELSE n + 1), ((k - 1) % g.kTiles) + 1))
      \o <<Fence>>

Fp8ColumnBlock(g, w, t, n) ==
  <<Wait(g.stages - 1), Sync(g), Fragments(g, ColumnStage(g, n, 1), 0)>>
  \o Unrolled(1, g.kTiles, LAMBDA i : Blocks(g, ColumnStage(g, n, i), Fp8Refill(g, w, t, n, i)))
  \o Epilogue(g, w, ColumnTile(g, t, n))

Fp8OnN(g, w) ==
  Unrolled(1, g.tiles, LAMBDA t :
    Fp8Prologue(g, w, t)
    \o Unrolled(1, g.nExpand, LAMBDA n : Fp8ColumnBlock(g, w, t, n))
    \o If(g.sbo, SboSignal(g, w, ColumnTile(g, t, g.nExpand))))

-----------------------------------------------------------------------------
(* fp4_gemm_cutlass3.cuh, the kernel with N_EXPAND: the copies of a tile    *)
(* are numbered through all its blocks of columns.                          *)

Fp4Copy(g, w, t, j) ==
  If(j <= g.kTiles * g.nExpand,
     CopyStage(g, w, (j - 1) % g.stages, ColumnTile(g, t, 1 + (j - 1) \div g.kTiles), ((j - 1) % g.kTiles) + 1))

Fp4Prologue(g, w, t) == Unrolled(1, g.stages, LAMBDA j : Fp4Copy(g, w, t, j) \o <<Fence>>)

\* There is no barrier when nothing is left to copy.
Fp4Refill(g, w, t, j) == If(j <= g.kTiles * g.nExpand, <<Sync(g)>> \o Fp4Copy(g, w, t, j)) \o <<Fence>>

Fp4Await(g) == <<Wait(g.stages - 1), Sync(g)>>

\* With a single block per K tile the next stage is read behind the multiplication.
Fp4Blocks(g, s, RefillOps) ==
  IF g.blocks > 1 THEN BlocksRefilledLast(g, s, RefillOps \o Fp4Await(g))
  ELSE RefillOps \o <<Mma(0)>> \o Fp4Await(g) \o <<Fragments(g, (s + 1) % g.stages, 0)>>

Fp4ColumnBlock(g, w, t, n) ==
  Unrolled(1, g.kTiles, LAMBDA i :
    LET j == (n - 1) * g.kTiles + i
    IN  Fp4Blocks(g, (j - 1) % g.stages, Fp4Refill(g, w, t, g.stages + j)))
  \o Epilogue(g, w, ColumnTile(g, t, n))

Fp4OnN(g, w) ==
  Unrolled(1, g.tiles, LAMBDA t :
    Fp4Prologue(g, w, t) \o Fp4Await(g) \o <<Fragments(g, 0, 0)>>
    \o Unrolled(1, g.nExpand, LAMBDA n : Fp4ColumnBlock(g, w, t, n)))

-----------------------------------------------------------------------------
(* w4fa16_gemm.cuh and w4fa8_gemm.cuh: a ring of the stages, one of which   *)
(* is requested while another is read.                                      *)

W4Prologue(g, w, t) ==
  Unrolled(1, g.stages - 1, LAMBDA k :
    If(k <= g.kTiles, CopyStage(g, w, k - 1, ColumnTile(g, t, 1), k)) \o <<Fence>>)

\* In front of K tile i of column block n; B has advanced behind the last K tile.
W4Request(g, w, t, n, i) ==
  LET k == i + g.stages - 1
  IN  If(k <= g.kTiles \/ n < g.nExpand,
         CopyStage(g, w, ColumnStage(g, n, k), ColumnTile(g, t, IF k <= g.kTiles THEN n ELSE n + 1),
                   ((k - 1) % g.kTiles) + 1))
      \o <<Fence>>

W4Await(g) == <<Wait(g.stages - 2), Sync(g)>>

W4KTiles(g, w, t, n) ==
  Unrolled(1, g.kTiles, LAMBDA i :
    W4Request(g, w, t, n, i) \o BlocksInPlace(g, ColumnStage(g, n, i)) \o W4Await(g))

\* epilogue_cta_reduce: for each block of rows a tree over the K groups.  Sum i is what
\* the warps of K index i have written.
Sum(i) == <<"sum", i>>
SumsInStages(g) == {{Sum(i), s} : i \in 0 .. g.warpK - 1, s \in Stages(g)}
TakeSum(g, w, i, d) == <<Take(Sum(i), {Peer(g, w, i)}, Append(d, i))>>

ReduceLevel(g, w, d, half) ==
  LET i == KIndex(g, w)
  IN  If(half <= i /\ i < 2 * half,
         If(half < g.warpK \div 2, TakeSum(g, w, 2 * i, d) \o TakeSum(g, w, 2 * i + 1, d))
         \o <<Put(Sum(i), Append(d, i))>>)
      \o <<Sync(g)>>

EpilogueCtaReduce(g, w, t) ==
  Unrolled(1, g.rowBlocks, LAMBDA m :
    If(g.warpK >= 8, ReduceLevel(g, w, <<t, m>>, 4)) \o If(g.warpK >= 4, ReduceLevel(g, w, <<t, m>>, 2))
    \o ReduceLevel(g, w, <<t, m>>, 1)
    \o If(KIndex(g, w) = 0, TakeSum(g, w, 1, <<t, m>>)) \o <<Sync(g)>>)

W4fa16(g, w) ==
  Unrolled(1, g.tiles, LAMBDA t :
    W4Prologue(g, w, t) \o W4Await(g)
    \o Unrolled(1, g.nExpand, LAMBDA n :
         W4KTiles(g, w, t, n)
         \o If(g.warpK > 1, <<Sync(g)>> \o EpilogueCtaReduce(g, w, ColumnTile(g, t, n)))
         \o StoreSums(g, w, ColumnTile(g, t, n))))

\* The scales of the rows: with WideM in one of two buffers of their own, read by the
\* epilogue; with CacheRowScale in the last stage before that is requested.
RowScales(g, t) == IF g.scales = "wide" THEN <<"rows", t % 2>> ELSE <<"rows", 2>>
RowScalesInStage(g) == {{<<"rows", 2>>, Stage(g.stages - 1)}}
CopyRowScales(g, t) == If(g.scales # "none", <<Load(RowScales(g, t), <<t>>)>>)
TakeRowScales(g, t) == <<Take(RowScales(g, t), g.warps, <<t>>)>>

\* The K loop is that of w4fa16.
W4fa8KTiles(g, w, t, n) == W4KTiles(g, w, t, n)

W4fa8(g, w) ==
  Unrolled(1, g.tiles, LAMBDA t :
    CopyRowScales(g, t) \o W4Prologue(g, w, t) \o W4Await(g)
    \o If(g.scales = "cached", TakeRowScales(g, t) \o <<Sync(g)>>)
    \o Unrolled(1, g.nExpand, LAMBDA n :
         W4fa8KTiles(g, w, t, n) \o If(g.scales = "wide", TakeRowScales(g, t))
         \o <<Store(ColumnTile(g, t, n))>>))

-----------------------------------------------------------------------------
(* w4a16_gemm_cutlass3.cuh                                                  *)

\* Without column blocks: a stage is requested behind the first block, and the next
\* one awaited in front of the last.
W4a16KTile(g, w, t, i) ==
  LET s == (i - 1) % g.stages
      next == IF g.blocks = 1 THEN s ELSE (s + 1) % g.stages
      k == i + g.stages - 1
  IN  Unrolled(0, g.blocks - 1, LAMBDA b :
        If(b = g.blocks - 1, W4Await(g))
        \o <<Fragments(g, IF b = g.blocks - 1 THEN next ELSE s, (b + 1) % g.blocks)>>
        \o If(b = 0, If(k <= g.kTiles, CopyStage(g, w, (k - 1) % g.stages, t, k)) \o <<Fence>>)
        \o <<Mma(b)>>)

\* epilogue_with_tsm: g.rowSteps parts of the tile one after the other through the same
\* memory, between the warps of K index 0 only.
W4a16Epilogue(g, w, t) ==
  LET first == {v \in g.warps : KIndex(g, v) = 0}
  IN  If(w \in first,
         If(g.tsm, Unrolled(1, g.rowSteps, LAMBDA m :
           <<Put(<<"epilogue", 0>>, <<t, m>>), Bar(3, Cardinality(first)),
             Take(<<"epilogue", 0>>, first, <<t, m>>)>>))
         \o <<Store(t)>>)

W4a16(g, w) ==
  Unrolled(1, g.tiles, LAMBDA t :
    W4Prologue(g, w, t)
    \o If(g.blocks > 1, W4Await(g) \o <<Fragments(g, 0, 0)>>)
    \o Unrolled(1, g.kTiles, LAMBDA i : W4a16KTile(g, w, t, i))
    \o <<Wait(0), Sync(g)>> \o If(g.warpK > 1, EpilogueCtaReduce(g, w, t))
    \o W4a16Epilogue(g, w, t) \o <<Sync(g)>>)

\* With column blocks: as in bf16, but the stages that have no K tile are left empty.
W4a16OnN(g, w) ==
  Unrolled(1, g.tiles, LAMBDA t :
    Fp8Prologue(g, w, t)
    \o Unrolled(1, g.nExpand, LAMBDA n :
         <<Wait(g.stages - 1), Sync(g), Fragments(g, ColumnStage(g, n, 1), 0)>>
         \o Unrolled(1, g.kTiles, LAMBDA i :
              Blocks(g, ColumnStage(g, n, i), Fp8Refill(g, w, t, n, i)))
         \o <<Store(ColumnTile(g, t, n))>>))

-----------------------------------------------------------------------------
(* a8w4_int8_gemm_cutlass3.cuh: the stage of the K tile before is requested *)
(* behind the barrier of a K tile.                                          *)

A8w4KTile(g, w, t, i) ==
  LET k == g.stages + i - 1
  IN  <<Wait(IF i = 1 THEN g.stages - 1 ELSE g.stages - 2), Sync(g)>>
      \o If(i > 1, If(k <= g.kTiles, CopyStage(g, w, (k - 1) % g.stages, t, k)) \o <<Fence>>)
      \o BlocksInPlace(g, (i - 1) % g.stages)

A8w4(g, w) ==
  Unrolled(1, g.tiles, LAMBDA t :
    Int8Prologue(g, w, t)
    \o Unrolled(1, g.kTiles, LAMBDA i : A8w4KTile(g, w, t, i))
    \o <<Wait(0), Sync(g)>> \o Epilogue(g, w, t))

-----------------------------------------------------------------------------
(* w4a8_streamed_gemm.cuh: the int8 kernel that overlaps the prologue, with *)
(* one set of fragments and scales of the rows only.                        *)

\* Behind the last block of K tile i: another K tile, or, once, the scales.
StreamedRefill(g, w, t, i) ==
  LET k == g.stages + i
  IN  <<Wait(g.stages - 2), Sync(g)>>
      \o If(k <= g.kTiles, CopyStage(g, w, RingStage(g, t, k), t, k))
      \o If(i = Max({1, g.kTiles - g.stages + 1}), CopyScales(RingStage(g, t, g.kTiles + 1), t))
      \o <<Fence>>

StreamedMainloop(g, w, t) ==
  If(g.stages <= g.kTiles, CopyStage(g, w, RingStage(g, t, g.stages), t, g.stages))
  \o <<Fence, Wait(g.stages - 1), Sync(g)>>
  \o Unrolled(1, g.kTiles, LAMBDA i : Unrolled(0, g.blocks - 1, LAMBDA b :
       <<Fragments(g, RingStage(g, t, i), b)>>
       \o If(b = g.blocks - 1, StreamedRefill(g, w, t, i)) \o <<Mma(b)>>))

\* UnitBScaleMainloop::dequant
UnitBScaleDequant(g, t) ==
  <<Wait(g.stages - 1), Sync(g)>> \o UseScales(g, RingStage(g, t, g.kTiles + 1), t)

Streamed(g, w) ==
  RingPrologue(g, w, 1)
  \o Unrolled(1, g.tiles, LAMBDA t :
       StreamedMainloop(g, w, t) \o RingPrologue(g, w, t + 1) \o UnitBScaleDequant(g, t)
       \o Epilogue(g, w, t) \o <<Sync(g)>>)

-----------------------------------------------------------------------------
(* The fused MoE kernels: every warp copies rows of A and is a loader.      *)

FusedPrologue(g, w, t) ==
  Unrolled(1, g.stages, LAMBDA k : If(k <= g.kTiles, CopyStage(g, w, k - 1, t, k)) \o <<Fence>>)

FusedRefill(g, w, t, i) ==
  <<Wait(g.stages - 2), Sync(g)>>
  \o If(g.stages + i <= g.kTiles, CopyStage(g, w, (i - 1) % g.stages, t, g.stages + i))
  \o <<Fence>>

FusedMainloop(g, w, t) ==
  <<Wait(g.stages - 1), Sync(g), Fragments(g, 0, 0)>>
  \o Unrolled(1, g.kTiles, LAMBDA i : BlocksRefilledLast(g, (i - 1) % g.stages, FusedRefill(g, w, t, i)))

FusedMoe(g, w) ==
  Unrolled(1, g.tiles, LAMBDA t :
    FusedPrologue(g, w, t) \o FusedMainloop(g, w, t) \o Epilogue(g, w, t))

\* fp4: the epilogue that quantises ends with a barrier.
FusedMoeFp4(g, w) ==
  Unrolled(1, g.tiles, LAMBDA t :
    FusedPrologue(g, w, t) \o FusedMainloop(g, w, t) \o <<Wait(0), Sync(g)>> \o Epilogue(g, w, t))

\* int8 per channel: the scales go to the stage LastStage behind the last K tile.
PerchannelRefill(g, w, t, i) ==
  <<Wait(g.stages - 2), Sync(g)>>
  \o (IF g.stages + i <= g.kTiles THEN CopyStage(g, w, (i - 1) % g.stages, t, g.stages + i)
      ELSE If(i = Max({1, g.kTiles - g.stages + 1}), CopyScales(ScaleStage(g), t)))
  \o <<Fence>>

FusedMoePerchannel(g, w) ==
  Unrolled(1, g.tiles, LAMBDA t :
    FusedPrologue(g, w, t) \o <<Wait(g.stages - 1), Sync(g), Fragments(g, 0, 0)>>
    \o Unrolled(1, g.kTiles, LAMBDA i :
         BlocksRefilledLast(g, (i - 1) % g.stages, PerchannelRefill(g, w, t, i)))
    \o <<Wait(0), Sync(g)>> \o UseScales(g, ScaleStage(g), t) \o <<Sync(g)>>
    \o Epilogue(g, w, t))

-----------------------------------------------------------------------------
(* fused_moe_gemm_with_blkwise_quant.cuh: A stays where it is for all blocks*)
(* of columns when all its K tiles fit the stages.                          *)

AStage(s) == <<"a", s>>
StaysA(g) == g.kTiles <= g.stages
TakeA(g, s, t, k) == <<Take(AStage(s), g.warps, <<t, k>>)>>
CopyA(s, t, k) == <<Load(AStage(s), <<t, k>>)>>

BlkwisePrologue(g, w, t) ==
  Unrolled(1, g.stages, LAMBDA k :
    If(k <= g.kTiles, CopyA(k - 1, t, k) \o CopyStage(g, w, k - 1, ColumnTile(g, t, 1), k)) \o <<Fence>>)

BlkwiseRefill(g, w, t, n, i) ==
  LET k == g.stages + i
      s == ColumnStage(g, n, i)
  IN  <<Wait(IF g.stages > 1 THEN g.stages - 2 ELSE 0), Sync(g)>>
      \o If(k <= g.kTiles \/ n < g.nExpand,
            If(~StaysA(g), CopyA(s, t, ((k - 1) % g.kTiles) + 1))
            \o CopyStage(g, w, s, ColumnTile(g, t, IF k <= g.kTiles THEN n ELSE n + 1), ((k - 1) % g.kTiles) + 1))
      \o <<Fence>>

FusedMoeBlkwise(g, w) ==
  Unrolled(1, g.tiles, LAMBDA t :
    BlkwisePrologue(g, w, t)
    \o Unrolled(1, g.nExpand, LAMBDA n :
         <<Wait(g.stages - 1), Sync(g), Fragments(g, ColumnStage(g, n, 1), 0)>>
         \o Unrolled(1, g.kTiles, LAMBDA i :
              TakeA(g, ColumnStage(g, n, i), t, i)
              \o BlocksRefilledLast(g, ColumnStage(g, n, i), BlkwiseRefill(g, w, t, n, i)))
         \o <<Store(ColumnTile(g, t, n))>>))
=============================================================================
