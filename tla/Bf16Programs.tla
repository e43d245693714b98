---------------------------- MODULE Bf16Programs ----------------------------
(***************************************************************************)
(* The bf16 GEMM kernels as programs of their warps (CtaOps): the K loop   *)
(* of each kernel unrolled, with its own guards, for a CTA that is given   *)
(* tiles 1 .. g.tiles of g.kTiles K tiles each.                            *)
(*                                                                         *)
(* g.warps: the warps; g.loaders: those of them that issue the copies      *)
(* (copy_aiu chooses by warp_idx); g.stages: Stages; g.blocks: K_BLOCK_MAX;*)
(* g.tsm: the epilogue exchanges the tile through shared memory;           *)
(* g.sbo: a masked GEMM with SBO overlap.                                  *)
(***************************************************************************)
EXTENDS CtaOps

Stage(s) == <<"stage", s>>
Stages(g) == {Stage(s) : s \in 0 .. g.stages - 1}
CopyStage(g, w, s, t, k) == If(w \in g.loaders, <<Load(Stage(s), <<t, k>>)>>)
Sync(g) == Bar(0, Cardinality(g.warps))
Fragments(g, s, b) == Get({Stage(s)}, g.loaders, b)

\* The collective epilogue: with TSM the tile goes through shared memory and back in
\* another order, between barriers; without, registers go to global memory.
Epilogue(g, w, t) ==
  If(g.tsm, <<Put(<<"epilogue", 0>>, <<t>>), Sync(g), Take(<<"epilogue", 0>>, g.warps, <<t>>), Sync(g)>>)
  \o <<Store(t)>>

\* Mutant: the signal goes out before the other warps have stored their part.
SignalAtOnce(g, w, t) == <<Wait(0)>> \o If(w = 1, <<Signal(t, g.warps)>>)

\* The tile's signal for the overlapped consumer (kEnableSboOverlap).
SboSignal(g, w, t) == <<Wait(0), Sync(g)>> \o If(w = 1, <<Signal(t, g.warps)>>)

\* SharedStorage is a union of the stages and the epilogue's tile.
Union(g) == {{<<"epilogue", 0>>, s} : s \in Stages(g)}

\* Blocks 0 .. g.blocks-1 of one K tile: the fragments of the block after are read,
\* behind the last block from the next stage, before the block is multiplied; behind
\* the last block but one stage s is requested again.
Blocks(g, s, Refill) ==
  Unrolled(0, g.blocks - 1, LAMBDA b :
    <<Fragments(g, IF b = g.blocks - 1 THEN (s + 1) % g.stages ELSE s, (b + 1) % g.blocks), Mma(b)>>
    \o If(b = g.blocks - 2, Refill))

-----------------------------------------------------------------------------
(* bf16_gemm_cutlass3.cuh, MainloopPPUAiuOpt, and its persistent kernel.    *)

\* Mutant: a stage is requested again without the barrier.
RefillUnsynchronised(g, w, t, i) ==
  <<Wait(g.stages - 2)>>
  \o If(g.kTiles - g.stages - (i - 1) > 0, CopyStage(g, w, (i - 1) % g.stages, t, g.stages + i))
  \o <<Fence>>

\* Behind the last block but one of K tile i, where k_tile_count is what is left.
Refill(g, w, t, i) ==
  <<Wait(g.stages - 2), Sync(g)>>
  \o If(g.kTiles - g.stages - (i - 1) > 0, CopyStage(g, w, (i - 1) % g.stages, t, g.stages + i))
  \o <<Fence>>

\* The stages are filled, K tile or not.
Prologue(g, w, t) == Unrolled(1, g.stages, LAMBDA k : CopyStage(g, w, k - 1, t, k) \o <<Fence>>)

\* The first fragments, and all K tiles.
Mainloop(g, w, t) ==
  <<Wait(g.stages - 1), Sync(g), Fragments(g, 0, 0)>>
  \o Unrolled(1, g.kTiles, LAMBDA i : Blocks(g, (i - 1) % g.stages, Refill(g, w, t, i)))
  \o <<Wait(0), Sync(g)>>

Universal(g, w) ==
  Unrolled(1, g.tiles, LAMBDA t :
    Prologue(g, w, t) \o Mainloop(g, w, t) \o Epilogue(g, w, t) \o If(g.sbo, SboSignal(g, w, t)))

-----------------------------------------------------------------------------
(* bf16_gemm_cutlass3.cuh, KernelAiuMultistageOnN: a tile is g.nExpand      *)
(* blocks of columns, and their K tiles are one sequence of copies.         *)

ColumnTile(g, t, n) == (t - 1) * g.nExpand + n

\* Copy number j of a tile, of column block n: A's K tile again for every block.
CopyOnN(g, w, t, n, j) ==
  CopyStage(g, w, (j - 1) % g.stages, ColumnTile(g, t, n), ((j - 1) % g.kTiles) + 1)

\* The stages are filled; B advances behind the last K tile of a block of columns,
\* whether there is another one or not.
PrologueOnN(g, w, t) ==
  Unrolled(1, g.stages, LAMBDA j : CopyOnN(g, w, t, 1 + (j - 1) \div g.kTiles, j) \o <<Fence>>)

\* Behind the last block but one of K tile i of block n, where B advances at most to
\* the last block of columns.
RefillOnN(g, w, t, n, i) ==
  LET j == g.stages + (n - 1) * g.kTiles + i
      block == 1 + Max({g.stages \div g.kTiles, Min({g.nExpand - 1, (j - 1) \div g.kTiles})})
  IN  <<Wait(g.stages - 2), Sync(g)>>
      \o If(g.kTiles - g.stages - (i - 1) > 0 \/ n < g.nExpand, CopyOnN(g, w, t, block, j))
      \o <<Fence>>

\* As Blocks, but nothing is read ahead behind the last K tile of a block of columns.
BlocksOnN(g, s, last, RefillOps) ==
  Unrolled(0, g.blocks - 1, LAMBDA b :
    If(~(last /\ b = g.blocks - 1),
       <<Fragments(g, IF b = g.blocks - 1 THEN (s + 1) % g.stages ELSE s, (b + 1) % g.blocks)>>)
    \o <<Mma(b)>> \o If(b = g.blocks - 2, RefillOps))

ColumnBlock(g, w, t, n) ==
  LET stage(i) == ((n - 1) * g.kTiles + i - 1) % g.stages
  IN  <<Wait(g.stages - 1), Sync(g), Fragments(g, stage(1), 0)>>
      \o Unrolled(1, g.kTiles, LAMBDA i :
           BlocksOnN(g, stage(i), i = g.kTiles, RefillOnN(g, w, t, n, i)))
      \o Epilogue(g, w, ColumnTile(g, t, n))

MultistageOnN(g, w) ==
  Unrolled(1, g.tiles, LAMBDA t :
    PrologueOnN(g, w, t)
    \o Unrolled(1, g.nExpand, LAMBDA n : ColumnBlock(g, w, t, n))
    \o If(g.sbo, SboSignal(g, w, ColumnTile(g, t, g.nExpand))))

-----------------------------------------------------------------------------
(* bf16_gemm_cutlass3.cuh, the 810E kernels: one tile per CTA, a share of   *)
(* its K tiles when K is split.                                            *)

\* The K tiles of a split.
Model810eSplit(kTiles, splits, s) ==
  ((kTiles * s) \div splits) + 1 .. (kTiles * (s + 1)) \div splits

\* Tile t of the launch is split (t - 1) of the problem; the accumulators go straight
\* to the output, or to the workspace of the split, or through the stages' memory.
Model810eKernel(g, w) ==
  LET share(t) == Cardinality(Model810eSplit(g.kTiles, g.tiles, t - 1))
      own(t) == [g EXCEPT !.kTiles = share(t)]
  IN  Prologue(own(g.split), w, g.split) \o Mainloop(own(g.split), w, g.split)
      \o Epilogue(g, w, g.split)

-----------------------------------------------------------------------------
(* The kernels that fetch the next tile while the epilogue of the present one      *)
(* runs: the bf16 and int8 kernels that overlap the prologue, and the bf16 kernel  *)
(* whose two groups of warps take the stages of one ring in turn.                   *)

\* bf16_gemm_cutlass3_overlap_prologue.cuh: the first stage of a tile is requested
\* ahead of the epilogue of the tile before, whether there is such a tile or not.
FirstStage(g, w, t) == CopyStage(g, w, 0, t, 1) \o <<Fence>>

\* The other stages.
OtherStages(g, w, t) ==
  Unrolled(2, g.stages, LAMBDA k : CopyStage(g, w, k - 1, t, k) \o <<Fence>>)

\* The K loop is that of the kernel without the overlap.
OverlapPrologueMma(g, w, t) == OtherStages(g, w, t) \o Mainloop(g, w, t)

OverlapPrologue(g, w) ==
  FirstStage(g, w, 1)
  \o Unrolled(1, g.tiles, LAMBDA t :
       OverlapPrologueMma(g, w, t)
       \o FirstStage(g, w, t + 1) \o Epilogue(g, w, t) \o If(g.sbo, SboSignal(g, w, t)))

-----------------------------------------------------------------------------
(* int8_gemm_cutlass3_overlap_prologue.cuh: the tiles are one sequence of   *)
(* stages, each tile takes one more than its K tiles: the last is for its   *)
(* scales, and is left alone by the next tile's prologue.                   *)

Scale(s) == <<"scale", s>>
ScalesInStages(g) == {{Scale(s), Stage(s)} : s \in 0 .. g.stages - 1}
\* copy_if: every warp's share of the scales.
CopyScales(s, t) == <<Load(Scale(s), <<t>>)>>
UseScales(g, s, t) == <<Take(Scale(s), g.warps, <<t>>)>>

\* The stage of K tile k (from 1) of tile t; K tile kTiles + 1 stands for the scales.
RingStage(g, t, k) == ((t - 1) * (g.kTiles + 1) + k - 1) % g.stages

\* All stages but one.
RingPrologue(g, w, t) ==
  Unrolled(1, g.stages - 1, LAMBDA k :
    If(t <= g.tiles /\ k <= g.kTiles, CopyStage(g, w, RingStage(g, t, k), t, k)) \o <<Fence>>)

\* Behind the last block but one of K tile i: another K tile, or, once, the scales.
RingRefill(g, w, t, i) ==
  LET k == g.stages + i
  IN  <<Wait(g.stages - 2), Sync(g)>>
      \o If(k <= g.kTiles, CopyStage(g, w, RingStage(g, t, k), t, k))
      \o If(i = Max({1, g.kTiles - g.stages + 1}), CopyScales(RingStage(g, t, g.kTiles + 1), t))
      \o <<Fence>>

RingMainloop(g, w, t) ==
  If(g.stages <= g.kTiles, CopyStage(g, w, RingStage(g, t, g.stages), t, g.stages))
  \o <<Fence, Wait(g.stages - 1), Sync(g), Fragments(g, RingStage(g, t, 1), 0)>>
  \o Unrolled(1, g.kTiles, LAMBDA i : Blocks(g, RingStage(g, t, i), RingRefill(g, w, t, i)))

\* The accumulators are scaled by what lies in the stage of the scales.
RingDequant(g, t) ==
  <<Wait(g.stages - 1), Sync(g)>> \o UseScales(g, RingStage(g, t, g.kTiles + 1), t)

RingOverlap(g, w) ==
  RingPrologue(g, w, 1)
  \o Unrolled(1, g.tiles, LAMBDA t :
       RingMainloop(g, w, t) \o RingPrologue(g, w, t + 1) \o RingDequant(g, t)
       \o Epilogue(g, w, t) \o <<Sync(g)>> \o If(g.sbo, SboSignal(g, w, t)))

-----------------------------------------------------------------------------
(* bf16_gemm_cutlass3_overlap_mainloop.cuh: tile t is of group (t - 1) % 2. *)
(* A group hands the stages it has read on to the other one by arriving at  *)
(* the barrier the other waits for before it fills that stage.              *)

GroupOf(g, w) == IF w <= Cardinality(g.warps) \div 2 THEN 0 ELSE 1
Group(g, x) == {w \in g.warps : GroupOf(g, w) = x}
Leader(g, x) == Min(Group(g, x))
GroupSync(g, x) == Bar(3 + x, Cardinality(Group(g, x)))
OtherArrives(g, id) == Arrive(id, Cardinality(g.warps))
AwaitOther(g, id) == Bar(id, Cardinality(g.warps))
PairStage(g, t, k) == ((t - 1) * g.kTiles + k - 1) % g.stages

\* Stage s as group x fills it; it is the same memory for both.
PairPlace(g, x, s) == Stage(x * g.stages + s)
PairOverlay(g) == {{PairPlace(g, x, s) : x \in {0, 1}} : s \in 0 .. g.stages - 1}
CopyPair(g, w, t, k, s) ==
  If(w = Leader(g, GroupOf(g, w)), <<Load(PairPlace(g, GroupOf(g, w), s), <<t, k>>)>>)

\* With count K tiles left to request: the next one, then the first of the other
\* group's next tile, then the stages are handed on one by one.
RequestOrHandOn(g, w, t, count, s) ==
     If(count > 0, CopyPair(g, w, t, g.kTiles - count + 1, s))
  \o If(count = 0, CopyPair(g, w, t + 1, 1, s))
  \o If(count < 0, <<OtherArrives(g, 6 - 2 * count - GroupOf(g, w))>>)
  \o <<Fence>>

\* The first tile's first K tile; the stages group 0 need not wait for.
PairStart(g, w) ==
  IF GroupOf(g, w) = 0 THEN CopyPair(g, w, 1, 1, 0) \o <<Fence>>
  ELSE Unrolled(1, g.stages - 1, LAMBDA p : <<OtherArrives(g, 6 + 2 * p - 1)>>)
       \o <<OtherArrives(g, 6 - 1)>>

\* The stages behind the first, each as soon as the other group hands it on.
PairPrologue(g, w, t) ==
  Unrolled(1, g.stages - 1, LAMBDA p :
    <<AwaitOther(g, 5 + 2 * p + GroupOf(g, w))>>
    \o RequestOrHandOn(g, w, t, g.kTiles - p, PairStage(g, t, p + 1)))

\* Behind the last block but one of K tile i.
PairRefill(g, w, t, i) ==
  <<Wait(g.stages - 2), GroupSync(g, GroupOf(g, w))>>
  \o RequestOrHandOn(g, w, t, g.kTiles - g.stages - (i - 1), PairStage(g, t, i))

\* Block b of K tile k, from whichever group requested it.
PairFragments(g, w, t, k, b) ==
  LET x == GroupOf(g, w)
      by == IF k = 1 /\ t > 1 THEN 1 - x ELSE x
  IN  Get({PairPlace(g, by, PairStage(g, t, k))}, {Leader(g, by)}, b)

PairBlocks(g, w, t, i) ==
  Unrolled(0, g.blocks - 1, LAMBDA b :
    <<PairFragments(g, w, t, IF b = g.blocks - 1 THEN i + 1 ELSE i, (b + 1) % g.blocks), Mma(b)>>
    \o If(b = g.blocks - 2, PairRefill(g, w, t, i)))

\* The K tiles, from the moment the other group has handed over the first.
PairMainloop(g, w, t) ==
  <<AwaitOther(g, 5 + GroupOf(g, w)), Wait(g.stages - 1), GroupSync(g, GroupOf(g, w)),
    PairFragments(g, w, t, 1, 0)>>
  \o Unrolled(1, g.kTiles, LAMBDA i : PairBlocks(g, w, t, i))
  \o <<OtherArrives(g, 6 - GroupOf(g, w))>>

\* Each group exchanges its tile in memory of its own and signals for itself.
PairSignal(g, w, t) ==
  LET x == GroupOf(g, w)
  IN  <<Wait(0), GroupSync(g, x)>> \o If(w = Leader(g, x), <<Signal(t, Group(g, x))>>)

OverlapMainloop(g, w) ==
  PairStart(g, w)
  \o Unrolled(1, g.tiles, LAMBDA t : If((t - 1) % 2 = GroupOf(g, w),
       PairPrologue(g, w, t) \o PairMainloop(g, w, t) \o <<Store(t)>> \o If(g.sbo, PairSignal(g, w, t))))
=============================================================================
