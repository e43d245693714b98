--------------------------- MODULE DensePrograms ---------------------------
(***************************************************************************)
(* The dense GEMM kernels as programs of their warps (see Bf16Programs):   *)
(* bf16 and int8 on cutlass3 and bf16 without CuTe.  They may split the K  *)
(* tile over groups of warps (g.warpK groups) whose accumulators are added *)
(* through the memory of the stages (g.reduce: the strategy; g.chunks).    *)
(* g.s2opt: DenseS2Opt; g.overlap: OverlapPrologue.                        *)
(***************************************************************************)
EXTENDS Bf16Programs

WarpsPerK(g) == Cardinality(g.warps) \div g.warpK
KIndex(g, w) == (w - 1) \div WarpsPerK(g)
Peer(g, w, k) == 1 + k * WarpsPerK(g) + ((w - 1) % WarpsPerK(g))

\* Slot i of the memory for partial sums, as warps of K index k write it.
Slot(g, i, k) == <<"partial", i * g.warpK + k>>
SlotsOf(g) == {i * g.warpK + k : i \in 0 .. g.warpK - 1, k \in 0 .. g.warpK - 1}
ReductionOverlay(g) ==
       {{<<"partial", i>>, s} : i \in SlotsOf(g), s \in Stages(g)}
  \cup {{<<"partial", i>>, <<"partial", j>>} : <<i, j>> \in
          {p \in SlotsOf(g) \X SlotsOf(g) : p[1] # p[2] /\ p[1] \div g.warpK = p[2] \div g.warpK}}

\* warp_on_k_reduction.cuh.  d stands for what the writer's accumulators hold.
GiveSlot(g, w, i, k, d) == If(KIndex(g, w) = k, <<Put(Slot(g, i, k), d)>>)
TakeSlot(g, w, i, k, d) == <<Take(Slot(g, i, k), {Peer(g, w, k)}, d)>>

\* Strategy A: all partial sums at once.
ReduceAtOnce(g, w, t) ==
  Unrolled(1, g.warpK - 1, LAMBDA k : GiveSlot(g, w, k - 1, k, <<t, k>>)) \o <<Sync(g)>>
  \o If(KIndex(g, w) = 0, Unrolled(1, g.warpK - 1, LAMBDA k : TakeSlot(g, w, k - 1, k, <<t, k>>)))
  \o <<Sync(g)>>

\* Strategy D: in round r the second of each group of 2^(r+1) gives to the first.
ReduceTree(g, w, t) ==
  Unrolled(0, IF g.warpK = 2 THEN 0 ELSE IF g.warpK = 4 THEN 1 ELSE 2, LAMBDA r :
    LET k == KIndex(g, w)
        group == k \div (2 ^ (r + 1))
        first == group * 2 ^ (r + 1)
    IN  If(k = first + 2 ^ r, GiveSlot(g, w, group, k, <<t, k, r>>)) \o <<Sync(g)>>
        \o If(k = first, TakeSlot(g, w, group, k + 2 ^ r, <<t, k + 2 ^ r, r>>)) \o <<Sync(g)>>)

\* Strategies B and C: one K index after the other, whole or in chunks.
ReduceInTurn(g, w, t, chunks) ==
  Unrolled(1, g.warpK - 1, LAMBDA k : Unrolled(1, chunks, LAMBDA c :
    GiveSlot(g, w, 0, k, <<t, k, c>>) \o <<Sync(g)>>
    \o If(KIndex(g, w) = 0, TakeSlot(g, w, 0, k, <<t, k, c>>)) \o <<Sync(g)>>))

WarpOnKReduce(g, w, t) ==
  If(g.warpK > 1,
     CASE g.reduce = "A" -> ReduceAtOnce(g, w, t)
       [] g.reduce = "D" -> ReduceTree(g, w, t)
       [] OTHER          -> ReduceInTurn(g, w, t, g.chunks))

\* The warps of K index 0 write the sums.
StoreSums(g, w, t) == If(KIndex(g, w) = 0, <<Store(t)>>)

-----------------------------------------------------------------------------
(* bf16_densegemm_cutlass3.cuh                                              *)

\* Before a stage is requested again; with DenseS2Opt and two stages nothing is
\* awaited here but before the next stage is read.
DenseAwait(g) == If(~g.s2opt \/ g.stages > 2, <<Wait(g.stages - 2)>>) \o <<Sync(g)>>
DenseAwaitNext(g) == If(g.s2opt /\ g.stages = 2, <<Wait(1), Sync(g)>>)

DenseBlocks(g, s, RefillOps) ==
  Unrolled(0, g.blocks - 1, LAMBDA b :
    If(b = g.blocks - 1, DenseAwaitNext(g))
    \o <<Fragments(g, IF b = g.blocks - 1 THEN (s + 1) % g.stages ELSE s, (b + 1) % g.blocks), Mma(b)>>
    \o If(b = g.blocks - 2, RefillOps))

DenseRefill(g, w, t, i) ==
  DenseAwait(g)
  \o If(g.kTiles - g.stages - (i - 1) > 0, CopyStage(g, w, (i - 1) % g.stages, t, g.stages + i))
  \o <<Fence>>

DenseMainloop(g, w, t) ==
  If(~g.overlap, FirstStage(g, w, t)) \o OtherStages(g, w, t)
  \o <<Wait(g.stages - 1), Sync(g), Fragments(g, 0, 0)>>
  \o Unrolled(1, g.kTiles, LAMBDA i : DenseBlocks(g, (i - 1) % g.stages, DenseRefill(g, w, t, i)))
  \o <<Wait(0), Sync(g)>>

\* The first stage of the next tile, if there is one, is requested before the sums are
\* written.
DenseOverlapped(g, w) ==
  FirstStage(g, w, 1)
  \o Unrolled(1, g.tiles, LAMBDA t :
       DenseMainloop(g, w, t) \o WarpOnKReduce(g, w, t)
       \o If(t < g.tiles, FirstStage(g, w, t + 1)) \o StoreSums(g, w, t))

DensePersistent(g, w) ==
  Unrolled(1, g.tiles, LAMBDA t :
    DenseMainloop(g, w, t) \o WarpOnKReduce(g, w, t) \o StoreSums(g, w, t))

DenseGemm(g, w) == IF g.overlap THEN DenseOverlapped(g, w) ELSE DensePersistent(g, w)

-----------------------------------------------------------------------------
(* int8_gemm_cutlass3.cuh and int8_densegemm_cutlass3.cuh: behind the last  *)
(* K tile the scales go to the stage that would have been next.             *)

ScaleStage(g) == g.kTiles % g.stages

Int8Prologue(g, w, t) ==
  Unrolled(1, g.stages, LAMBDA k : If(k <= g.kTiles, CopyStage(g, w, k - 1, t, k)) \o <<Fence>>)

\* A K tile, or, once, the scales.
Int8Refill(g, w, t, i) ==
  DenseAwait(g)
  \o If(g.kTiles - g.stages - (i - 1) > 0, CopyStage(g, w, (i - 1) % g.stages, t, g.stages + i))
  \o If(i = Max({1, g.kTiles - g.stages + 1}), CopyScales(ScaleStage(g), t))
  \o <<Fence>>

\* The accumulators are scaled between the barriers.
Int8Mainloop(g, w, t) ==
  Int8Prologue(g, w, t) \o <<Wait(g.stages - 1), Sync(g), Fragments(g, 0, 0)>>
  \o Unrolled(1, g.kTiles, LAMBDA i : DenseBlocks(g, (i - 1) % g.stages, Int8Refill(g, w, t, i)))
  \o <<Wait(0), Sync(g)>> \o UseScales(g, ScaleStage(g), t) \o <<Sync(g)>>

Int8Gemm(g, w) ==
  Unrolled(1, g.tiles, LAMBDA t :
    Int8Mainloop(g, w, t) \o Epilogue(g, w, t) \o If(g.sbo, SboSignal(g, w, t)))

\* int8_gemm_cutlass3_dynamic.cuh: the number of stages goes with the height of the
\* tile (g.shapes[t]).
Int8DynamicTile(g, w, t) == Int8Mainloop(g, w, t) \o Epilogue(g, w, t)
Int8Dynamic(g, w) ==
  Unrolled(1, g.tiles, LAMBDA t : Int8DynamicTile([g EXCEPT !.stages = g.shapes[t]], w, t))

\* The dense kernel, whose K loop is the same.
Int8DenseMainloop(g, w, t) == Int8Mainloop(g, w, t)
Int8DenseGemm(g, w) ==
  Unrolled(1, g.tiles, LAMBDA t :
    Int8DenseMainloop(g, w, t) \o WarpOnKReduce(g, w, t) \o StoreSums(g, w, t))

-----------------------------------------------------------------------------
(* int8_gemm_cutlass3.cuh, KernelAiuMultistageOnN with scales: as bf16's,   *)
(* with the scales of A and of a block of columns in places of their own.   *)

ScaleA == <<"scale a", 0>>
ScaleB == <<"scale b", 0>>
ColumnScales(t, n) == <<Load(ScaleB, <<t, n>>)>>

\* With copy j the scales of the block of columns it begins.
Int8RefillOnN(g, w, t, n, i) ==
  LET j == g.stages + (n - 1) * g.kTiles + i
      block == 1 + (j - 1) \div g.kTiles
  IN  <<Wait(g.stages - 2), Sync(g)>>
      \o If(g.kTiles - g.stages - (i - 1) > 0 \/ n < g.nExpand,
            If((j - 1) % g.kTiles = 0 /\ block <= g.nExpand, ColumnScales(t, block)) \o CopyOnN(g, w, t, block, j))
      \o <<Fence>>

\* A block of columns, and the first fragments of the next.
Int8ColumnBlock(g, w, t, n) ==
  LET stage(i) == ((n - 1) * g.kTiles + i - 1) % g.stages
  IN  Unrolled(1, g.kTiles, LAMBDA i :
        BlocksOnN(g, stage(i), i = g.kTiles, Int8RefillOnN(g, w, t, n, i)))
      \o Epilogue(g, w, ColumnTile(g, t, n))
      \o If(n < g.nExpand,
            <<Wait(g.stages - 1), Sync(g), Fragments(g, stage(g.kTiles + 1), 0), Take(ScaleB, g.warps, <<t, n + 1>>)>>)

Int8OnN(g, w) ==
  Unrolled(1, g.tiles, LAMBDA t :
    <<Load(ScaleA, <<t>>)>> \o ColumnScales(t, 1)
    \o Unrolled(1, g.stages, LAMBDA j : CopyOnN(g, w, t, 1, j) \o <<Fence>>)
    \o <<Wait(g.stages - 1), Sync(g), Fragments(g, 0, 0), Take(ScaleA, g.warps, <<t>>), Take(ScaleB, g.warps, <<t, 1>>)>>
    \o Unrolled(1, g.nExpand, LAMBDA n : Int8ColumnBlock(g, w, t, n))
    \o If(g.sbo, SboSignal(g, w, ColumnTile(g, t, g.nExpand))))

-----------------------------------------------------------------------------
(* cute_free: mainloop.cuh, warp_k_reduce.cuh and kernel/gemm.cuh.          *)

\* issue_g2s_and_wait
IssueAndWait(g, w, t, i) ==
  DenseAwait(g)
  \o If(g.stages + i <= g.kTiles, CopyStage(g, w, (i - 1) % g.stages, t, g.stages + i))
  \o <<Fence>> \o DenseAwaitNext(g)

\* Stages for which there is no K tile are not even fenced.
RunPrologue(g, w, t) ==
  LET filled == Min({g.stages, g.kTiles})
  IN  Unrolled(IF g.overlap THEN 2 ELSE 1, filled, LAMBDA k : CopyStage(g, w, k - 1, t, k) \o <<Fence>>)
      \o <<Wait(IF filled = g.stages THEN g.stages - 1 ELSE 0), Sync(g)>>

RunMainloop(g, w, t) ==
  RunPrologue(g, w, t) \o <<Fragments(g, 0, 0)>>
  \o Unrolled(1, g.kTiles, LAMBDA i : Blocks(g, (i - 1) % g.stages, IssueAndWait(g, w, t, i)))
  \o <<Wait(0), Sync(g)>>

\* WarpKReduce::run
WarpKReduce(g, w, t) == If(g.warpK > 1, ReduceAtOnce(g, w, t))

CuteFreeGemm(g, w) ==
  If(g.overlap, FirstStage(g, w, 1))
  \o Unrolled(1, g.tiles, LAMBDA t :
       RunMainloop(g, w, t) \o WarpKReduce(g, w, t)
       \o If(g.overlap /\ t < g.tiles, FirstStage(g, w, t + 1)) \o StoreSums(g, w, t))
=============================================================================
