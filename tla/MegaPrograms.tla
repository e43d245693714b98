---------------------------- MODULE MegaPrograms ----------------------------
(***************************************************************************)
(* The fp4 x fp4 tile of fp4_mma.cuh as programs of its warps, and the     *)
(* kernels built on it: the two GEMMs of MegaMoE and the grouped fp4 GEMM. *)
(***************************************************************************)
EXTENDS WeightPrograms

-----------------------------------------------------------------------------
(* fp4_mma.cuh, CollectiveMmaScaleFp4.                                      *)

\* The stages are filled as far as there are K tiles; every copy is its own group.
TilePrologue(g, w, t) ==
  Unrolled(1, g.stages, LAMBDA k : If(k <= g.kTiles, CopyStage(g, w, k - 1, t, k)) \o <<Fence>>)

\* Compute one tile: accumulators that start clear take every block of every K tile.
ComputeTile(g, w, t) ==
  TilePrologue(g, w, t)
  \o <<Wait(g.stages - 1), Sync(g), Fragments(g, 0, 0)>>
  \o Unrolled(1, g.kTiles, LAMBDA i : Blocks(g, (i - 1) % g.stages, Refill(g, w, t, i)))
  \o <<Wait(0), Sync(g)>>

-----------------------------------------------------------------------------
(* The activation epilogue: the activated tile goes through the memory of   *)
(* the stages, since a row of it is quantised by one warp.  Nothing follows *)
(* the reads: the kernel has to keep the next tile out.                     *)

Activated == <<"activated", 0>>

SiluAndMulPostQuant(g, w, t) ==
  <<Put(Activated, <<t>>), Sync(g), Take(Activated, g.warps, <<t>>), Store(t)>>

\* The act tile begins where the stages begin.
ActivatedOverStages(g) == {{Activated, s} : s \in Stages(g)}

-----------------------------------------------------------------------------
(* sm89_mega_moe.cuh, sm89_fp4_fp4_mega_moe.cuh: linear 1.  The number of   *)
(* the next tile comes from a counter all CTAs share, through the first     *)
(* word of the shared memory.                                               *)

Ticket == <<"ticket", 0>>

\* Mutant: the tile before is not waited for.
FetchTicketAtOnce(g, w, t) ==
  If(w = 1, <<Put(Ticket, <<t>>)>>) \o <<Sync(g), Take(Ticket, {1}, <<t>>), Sync(g)>>

FetchTicket(g, w, t) ==
  <<Sync(g)>> \o If(w = 1, <<Put(Ticket, <<t>>)>>) \o <<Sync(g), Take(Ticket, {1}, <<t>>), Sync(g)>>

\* The ticket behind the last tile tells the CTA to stop.
Linear1(g, w) ==
  Unrolled(1, g.tiles, LAMBDA t :
    FetchTicket(g, w, t) \o ComputeTile(g, w, t) \o SiluAndMulPostQuant(g, w, t))
  \o FetchTicket(g, w, g.tiles + 1)

Linear1Overlay(g) ==
  {{p, s} : p \in {Activated, Ticket}, s \in Stages(g)} \cup {{Activated, Ticket}}

-----------------------------------------------------------------------------
(* fp4_scatter_epilogue.cuh: linear 2 without the warp pipeline.            *)

ScatterBuffer(i) == <<"scatter", i % 2>>

\* The accumulators leave by two buffers in turn; a subtile is scattered by other
\* threads than those that wrote it.
ScatterSubtiles(g, w, t) ==
  Unrolled(0, g.subtiles - 1, LAMBDA i :
    <<Put(ScatterBuffer(i), <<t, i>>), Sync(g), Take(ScatterBuffer(i), g.warps, <<t, i>>)>>)
  \o <<Sync(g), Store(t)>>

Linear2(g, w) ==
  Unrolled(1, g.tiles, LAMBDA t : ComputeTile(g, w, t) \o ScatterSubtiles(g, w, t))

Linear2Overlay(g) == {{ScatterBuffer(i), s} : i \in 0 .. 1, s \in Stages(g)}

-----------------------------------------------------------------------------
(* linear 2 with the warp pipeline: the compute warps hand the subtiles to  *)
(* warps of their own (g.scatter) through slots outside the stages.  A slot *)
(* has a barrier "ready" and a barrier "free", and both count every warp of *)
(* the CTA; barrier 0 is that of the compute warps.  g.rows[t] subtiles of  *)
(* tile t have valid rows.                                                  *)

Slots == 3
Slot3(j) == <<"slot", j % Slots>>
Ready(j) == 4 + (j % Slots)
Free(j)  == 7 + (j % Slots)
CtaWarps(g) == g.warps \cup g.scatter
OnAll(g, b) == Bar(b, Cardinality(CtaWarps(g)))
ArriveAll(g, b) == Arrive(b, Cardinality(CtaWarps(g)))

\* The subtiles before those of tile t: both roles count them in "sequence".
Before(g, t) == FoldFunction(LAMBDA x, y : x + y, 0, SubSeq(g.rows, 1, t - 1))

\* Mutant: a slot is written without its scatter warps having given it back.
ProduceEarly(g, w, t) ==
  Unrolled(1, g.rows[t], LAMBDA i :
    LET j == Before(g, t) + i - 1
    IN  <<ArriveAll(g, Free(j)), Put(Slot3(j), <<t, i>>), ArriveAll(g, Ready(j))>>)
  \o <<Store(t)>>

Produce(g, w, t) ==
  Unrolled(1, g.rows[t], LAMBDA i :
    LET j == Before(g, t) + i - 1
    IN  <<OnAll(g, Free(j)), Put(Slot3(j), <<t, i>>), ArriveAll(g, Ready(j))>>)
  \o <<Store(t)>>

Consume(g, w, t) ==
  Unrolled(1, g.rows[t], LAMBDA i :
    LET j == Before(g, t) + i - 1
    IN  <<OnAll(g, Ready(j)), Take(Slot3(j), g.warps, <<t, i>>), ArriveAll(g, Free(j))>>)

\* Mutant: nobody waits for the slots that were given back last.
NoDrain(g) == << >>

Drain(g) == Unrolled(0, Slots - 1, LAMBDA j : <<OnAll(g, Free(j))>>)

WarpPipeline(g, w) ==
  (IF w \in g.scatter
   THEN Unrolled(0, Slots - 1, LAMBDA j : <<ArriveAll(g, Free(j))>>)
        \o Unrolled(1, Len(g.rows), LAMBDA t : Consume(g, w, t))
   ELSE Unrolled(1, Len(g.rows), LAMBDA t : ComputeTile(g, w, t) \o Produce(g, w, t))
        \o Drain(g))
  \o <<OnAll(g, 1)>>

-----------------------------------------------------------------------------
(* fp4_gemm_cutlass3.cuh, KernelFp4, and the kernel that picks one of five  *)
(* tile shapes for each tile (fp4_gemm_cutlass3_dynamic.cuh): tiles come    *)
(* out of the scheduler, which no barrier is part of.                       *)

\* PPUTypeBuilder::run
Fp4DynamicTile(g, w, t) ==
  ComputeTile(g, w, t)
  \o (IF g.silu THEN SiluAndMulPostQuant(g, w, t) ELSE Epilogue(g, w, t))

Fp4Gemm(g, w) == Unrolled(1, g.tiles, LAMBDA t : Fp4DynamicTile(g, w, t))

\* The number of stages goes with the height of the tile.
Fp4Dynamic(g, w) ==
  Unrolled(1, g.tiles, LAMBDA t : Fp4DynamicTile([g EXCEPT !.stages = g.shapes[t]], w, t))

Fp4Overlay(g) == Union(g) \cup ActivatedOverStages(g)
=============================================================================
