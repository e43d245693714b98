----------------------------- MODULE FusedDispatch -----------------------------
(***************************************************************************)
(* GEMM1 of a MegaMoE round on one rank, kernel sm89_fp4_fp4_mega_moe_l1:  *)
(* the dispatch is fused into the GEMM, and its CTAs synchronise only      *)
(* through words in global memory.                                         *)
(*                                                                         *)
(*  - CTA 0 builds the expert layout and publishes preprocess_ready[0].    *)
(*  - Copy CTAs fetch the token rows of their M-blocks stripe by stripe    *)
(*    and publish, per M-block, (generation << 3) | stripes copied.        *)
(*  - Compute CTAs bring the scales into GEMM order and publish, per       *)
(*    expert and K partition, the generation; when rows are shared they    *)
(*    count chunks on the first partition's word instead.                  *)
(*  - Every CTA then takes tiles from a ticket queue and, K tile by        *)
(*    K tile, waits for the stripe and the scale partition it loads.       *)
(*                                                                         *)
(* The words are not reset between rounds: they are tagged with the        *)
(* generation and cleared when generations wrap around to 2.               *)
(***************************************************************************)
EXTENDS Integers, FiniteSets

CONSTANTS
  CopyBlocks,       \* copy CTAs: blockIdx below CopyBlocks
  ComputeBlocks,    \* the other CTAs
  Groups,           \* kNumGroups, the local experts
  NumNBlocks,       \* kNumNBlocks
  KTilesPerFlag,    \* K tiles per copy stripe
  ScaleBlocks,      \* scale blocks along K, K / 32
  BlocksPerTile,    \* scale blocks of a K tile, BK / 32
  WordRange,        \* number of values of a flag word, 2^32
  GenerationLimit,  \* kFusedRoundGenerationLimit
  FirstGenerations, \* bound: generations of the round before the first one
  MaxRounds,        \* bound: launches
  MaxMBlocks,       \* bound: M-blocks of a round
  Plans             \* bound: M-blocks per expert a round may have

Partitions == 0 .. 2        \* FusedSfaPartitionLayout::kNumPartitions
KTiles == ScaleBlocks \div BlocksPerTile
Stripes == 0 .. (KTiles + KTilesPerFlag - 1) \div KTilesPerFlag - 1
Experts == 0 .. Groups - 1
Ctas == 0 .. CopyBlocks + ComputeBlocks - 1

\* Exclusive prefix of the experts' M-blocks.
BlocksBefore(p, e) ==
  LET sum[i \in 0 .. Groups] == IF i = 0 THEN 0 ELSE sum[i - 1] + p[i - 1]
  IN  sum[e]

ASSUME FusedAssumption ==
  /\ {CopyBlocks, ComputeBlocks, Groups, NumNBlocks, KTilesPerFlag, ScaleBlocks,
      BlocksPerTile, MaxRounds, MaxMBlocks} \subseteq Nat \ {0}
  /\ ScaleBlocks % 8 = 0 /\ ScaleBlocks % BlocksPerTile = 0
  /\ Cardinality(Stripes) <= 7                    \* the tag has three low bits
  /\ GenerationLimit \in Nat /\ GenerationLimit % 2 = 1 /\ GenerationLimit >= 3
  /\ FirstGenerations \subseteq 0 .. GenerationLimit
  /\ WordRange \in Nat /\ WordRange > 8 * GenerationLimit + 7 /\ WordRange > MaxMBlocks
  /\ Plans \subseteq [Experts -> 0 .. MaxMBlocks]
  /\ \A p \in Plans : BlocksBefore(p, Groups) <= MaxMBlocks    \* the pool's capacity

\* partition_begin_scale_block: partitions are thirds of the vectors of 8 blocks.
PartitionBegin(p) == 8 * (((ScaleBlocks \div 8) * p + 2) \div 3)

\* Mutant: the tile that straddles the start of a partition is left out.
FirstKTileAfter(p) == (PartitionBegin(p) + BlocksPerTile - 1) \div BlocksPerTile

\* first_k_tile: the tile that holds the first block of the partition.
FirstKTile(p) == PartitionBegin(p) \div BlocksPerTile

VARIABLES
  generation,   \* generation of the current launch
  launches,     \* launches so far
  plan,         \* expert_m_blocks of this round, from the counts pushed to it
  layout,       \* copy_grouped_layout: M-block count, share_rows, owner of each M-block
  ticket,       \* copy_grouped_layout[1]
  ready,        \* preprocess_ready[0]: generation and metadata bit
  copyFlag,     \* copy_ready_flags[mb]
  sfaFlag,      \* preprocess_ready[1 + 3 * e + p]
  fp4,          \* fp4[mb][ks]: round whose rows are in local_fp4_buf, or InFlight
  sfa,          \* sfa[mb][p]: round whose scales are in local_sfa_buf, or InFlight
  output,       \* output[mb][n]: round whose tile is in l2_acts
  pc,           \* pc[c]: where the CTA is
  work,         \* work[c]: M-block it copies, or reshape work item
  step          \* step[c]: stripe it copies, or K tile it loads next

flags == <<copyFlag, sfaFlag>>
data == <<fp4, sfa, output>>
meta == <<layout, ticket, ready>>
vars == <<generation, launches, plan, meta, flags, data, pc, work, step>>

InFlight == -1
MBlocks == 0 .. MaxMBlocks - 1
CopyCta(c) == c < CopyBlocks
Advance(g) == IF g >= GenerationLimit THEN 2 ELSE g + 1
CopyTag(g, stripes) == 8 * g + stripes

Word(x) == x % WordRange

\* Entry mb of the layout: the expert whose M-blocks include mb.
ExpertOf(p, mb) ==
  CHOOSE e \in Experts : BlocksBefore(p, e) <= mb /\ mb < BlocksBefore(p, e) + p[e]

Init ==
  /\ generation \in FirstGenerations
  /\ launches = 0
  /\ plan = [e \in Experts |-> 0]
  /\ layout = [blocks |-> 0, share |-> FALSE, owner |-> <<>>]
  /\ ticket = 0
  /\ ready = [gen |-> generation, metadata |-> generation # 0]
  \* Words may hold the tags of any earlier round, complete ones or zero.
  /\ copyFlag \in {[mb \in MBlocks |-> CopyTag(g, IF g = 0 THEN 0 ELSE Cardinality(Stripes))] :
                     g \in {0, generation}}
  /\ sfaFlag \in {[e \in Experts |-> [p \in Partitions |-> g]] : g \in {0, generation}}
  /\ fp4 = [mb \in MBlocks |-> [ks \in Stripes |-> 0]]
  /\ sfa = [mb \in MBlocks |-> [p \in Partitions |-> 0]]
  /\ output = [mb \in MBlocks |-> [n \in 0 .. NumNBlocks - 1 |-> 0]]
  /\ pc = [c \in Ctas |-> "done"]
  /\ work = [c \in Ctas |-> 0]
  /\ step = [c \in Ctas |-> 0]

\* The stream launches GEMM1 after pre-dispatch stored the next generation.
Launch ==
  /\ \A c \in Ctas : pc[c] = "done"
  /\ launches < MaxRounds
  /\ launches' = launches + 1
  /\ generation' = Advance(generation)
  /\ plan' \in Plans
  /\ ready' = [gen |-> generation', metadata |-> FALSE]
  /\ pc' = [c \in Ctas |-> IF c = 0 THEN "prepare" ELSE "wait"]
  /\ UNCHANGED <<layout, ticket, flags, data, work, step>>

\* Generation 2 is the one that may follow the last.
Wrapped == generation = 2

\* Mutant: the ticket counter is left where the previous round ended.
TicketKept == ticket

\* copy_grouped_layout[1] as this round's CTAs find it.
FirstTicket == 0

\* CTA 0: clear the tags if generations wrapped, then prepare_expert_metadata, which
\* may decide to share rows only when some expert has several M-blocks.
Prepare ==
  LET blocks == BlocksBefore(plan, Groups) IN
  /\ pc[0] = "prepare"
  /\ copyFlag' = IF Wrapped THEN [mb \in MBlocks |-> 0] ELSE copyFlag
  /\ \E share \in BOOLEAN :
       /\ share => blocks > Groups
       /\ layout' = [blocks |-> blocks, share |-> share,
                     owner |-> [mb \in 0 .. blocks - 1 |-> ExpertOf(plan, mb)]]
       /\ sfaFlag' = [e \in Experts |-> [p \in Partitions |->
            IF share THEN Word(generation - plan[e])
            ELSE IF Wrapped THEN 0 ELSE sfaFlag[e][p]]]
  /\ ticket' = FirstTicket
  /\ pc' = [pc EXCEPT ![0] = "publish"]
  /\ UNCHANGED <<generation, launches, plan, ready, data, work, step>>

\* After a fence CTA 0 publishes the metadata and goes on as a copy CTA.
Publish ==
  /\ pc[0] = "publish"
  /\ ready' = [gen |-> generation, metadata |-> TRUE]
  /\ pc' = [pc EXCEPT ![0] = "copy"]
  /\ work' = [work EXCEPT ![0] = 0]
  /\ step' = [step EXCEPT ![0] = 0]
  /\ UNCHANGED <<generation, launches, plan, layout, ticket, flags, data>>

\* Mutant: every CTA that starts resets the ticket counter.
AwaitMetadataResets(c) ==
  /\ pc[c] = "wait"
  /\ ready = [gen |-> generation, metadata |-> TRUE]
  /\ ticket' = 0
  /\ pc' = [pc EXCEPT ![c] = IF CopyCta(c) THEN "copy" ELSE "reshape"]
  /\ work' = [work EXCEPT ![c] = IF CopyCta(c) THEN c ELSE c - CopyBlocks]
  /\ step' = [step EXCEPT ![c] = 0]
  /\ UNCHANGED <<generation, launches, plan, layout, ready, flags, data>>

\* The other CTAs poll the metadata word of their generation.
AwaitMetadata(c) ==
  /\ pc[c] = "wait"
  /\ ready = [gen |-> generation, metadata |-> TRUE]
  /\ pc' = [pc EXCEPT ![c] = IF CopyCta(c) THEN "copy" ELSE "reshape"]
  /\ work' = [work EXCEPT ![c] = IF CopyCta(c) THEN c ELSE c - CopyBlocks]
  /\ step' = [step EXCEPT ![c] = 0]
  /\ UNCHANGED <<generation, launches, plan, meta, flags, data>>

\* run_copy_block: a stripe's stores are issued ...
CopyStripe(c) ==
  /\ pc[c] = "copy" /\ work[c] < layout.blocks
  /\ fp4' = [fp4 EXCEPT ![work[c]][step[c]] = InFlight]
  /\ pc' = [pc EXCEPT ![c] = "flag"]
  /\ UNCHANGED <<generation, launches, plan, meta, flags, sfa, output, work, step>>

\* ... fenced, and made known by the watermark of the M-block.
PublishStripe(c) ==
  LET last == step[c] + 1 \notin Stripes IN
  /\ pc[c] = "flag"
  /\ fp4' = [fp4 EXCEPT ![work[c]][step[c]] = generation]
  /\ copyFlag' = [copyFlag EXCEPT ![work[c]] = CopyTag(generation, step[c] + 1)]
  /\ step' = [step EXCEPT ![c] = IF last THEN 0 ELSE @ + 1]
  /\ work' = [work EXCEPT ![c] = IF last THEN @ + CopyBlocks ELSE @]
  /\ pc' = [pc EXCEPT ![c] = "copy"]
  /\ UNCHANGED <<generation, launches, plan, meta, sfaFlag, sfa, output>>

\* Reshape work items: M-blocks when rows are shared, else expert and partition.
ReshapeItems == IF layout.share THEN layout.blocks ELSE Groups * Cardinality(Partitions)
ItemExpert(w) == IF layout.share THEN layout.owner[w] ELSE w \div 3
ItemCovers(w, mb, p) ==
  /\ mb \in DOMAIN layout.owner
  /\ IF layout.share THEN mb = w ELSE layout.owner[mb] = w \div 3 /\ p = w % 3

Reshape(c) ==
  /\ pc[c] = "reshape" /\ work[c] < ReshapeItems
  /\ sfa' = [mb \in MBlocks |-> [p \in Partitions |->
               IF ItemCovers(work[c], mb, p) THEN InFlight ELSE sfa[mb][p]]]
  /\ pc' = [pc EXCEPT ![c] = "reshaped"]
  /\ UNCHANGED <<generation, launches, plan, meta, flags, fp4, output, work, step>>

\* Mutant: the final writer compares the count before its own addition.
AllChunksBefore(count) == count = Word(generation + 1)

\* The expert's shared count has reached the generation.
AllChunks(count) == count = generation

\* Fence, then the item's flag: with shared rows the atomic count of the expert's
\* chunks, whose last writer publishes the partitions that follow.
PublishReshape(c) ==
  LET e == ItemExpert(work[c])
      count == Word(sfaFlag[e][0] + 1)
  IN
  /\ pc[c] = "reshaped"
  /\ sfa' = [mb \in MBlocks |-> [p \in Partitions |->
               IF ItemCovers(work[c], mb, p) THEN generation ELSE sfa[mb][p]]]
  /\ IF layout.share
     THEN sfaFlag' = [sfaFlag EXCEPT ![e] =
            [p \in Partitions |-> IF p = 0 THEN count
                                  ELSE IF AllChunks(count) THEN generation ELSE @[p]]]
     ELSE sfaFlag' = [sfaFlag EXCEPT ![e][work[c] % 3] = generation]
  /\ work' = [work EXCEPT ![c] = @ + ComputeBlocks]
  /\ pc' = [pc EXCEPT ![c] = "reshape"]
  /\ UNCHANGED <<generation, launches, plan, meta, copyFlag, fp4, output, step>>

\* The M-block and N-block of a ticket.
MOf(t) == t \div NumNBlocks
NOf(t) == t % NumNBlocks

\* fetch_next_work, once the CTA's own copies or reshapes are done and again after
\* every tile.
FetchTile(c) ==
  /\ \/ pc[c] = "copy" /\ work[c] >= layout.blocks
     \/ pc[c] = "reshape" /\ work[c] >= ReshapeItems
     \/ pc[c] = "fetch"
  /\ ticket' = ticket + 1
  /\ work' = [work EXCEPT ![c] = ticket]
  /\ step' = [step EXCEPT ![c] = 0]
  /\ pc' = [pc EXCEPT ![c] = IF ticket < layout.blocks * NumNBlocks THEN "load" ELSE "done"]
  /\ UNCHANGED <<generation, launches, plan, layout, ready, flags, data>>

\* wait_stripe: the accepted window is this generation's tags from the stripe on.
StripeReady(mb, ks) ==
  Word(copyFlag[mb] - CopyTag(generation, ks + 1)) <= 7 - (ks + 1)

\* The scale partitions a CTA has waited for when it loads K tile t.
PartitionsUpTo(t) == {p \in Partitions : FirstKTile(p) <= t}

\* The loads of K tile step[c]: the A warp waits for its stripe and the scale warp for
\* every partition that begins at or before this tile.
LoadKTile(c) ==
  LET mb == MOf(work[c]) IN
  /\ pc[c] = "load" /\ step[c] < KTiles
  /\ StripeReady(mb, step[c] \div KTilesPerFlag)
  /\ \A p \in PartitionsUpTo(step[c]) : sfaFlag[layout.owner[mb]][p] = generation
  /\ step' = [step EXCEPT ![c] = @ + 1]
  /\ UNCHANGED <<generation, launches, plan, meta, flags, data, pc, work>>

\* The tile's epilogue.
StoreTile(c) ==
  /\ pc[c] = "load" /\ step[c] = KTiles
  /\ output' = [output EXCEPT ![MOf(work[c])][NOf(work[c])] = generation]
  /\ pc' = [pc EXCEPT ![c] = "fetch"]
  /\ UNCHANGED <<generation, launches, plan, meta, flags, fp4, sfa, work, step>>

Finished ==
  /\ launches = MaxRounds /\ \A c \in Ctas : pc[c] = "done"
  /\ UNCHANGED vars

CtaStep(c) ==
  \/ AwaitMetadata(c) \/ CopyStripe(c) \/ PublishStripe(c) \/ Reshape(c)
  \/ PublishReshape(c) \/ FetchTile(c) \/ LoadKTile(c) \/ StoreTile(c)

Next == Launch \/ Prepare \/ Publish \/ Finished \/ \E c \in Ctas : CtaStep(c)

\* The host keeps launching; all CTAs are resident and keep executing.
Fairness ==
  /\ WF_vars(Launch) /\ WF_vars(Prepare) /\ WF_vars(Publish)
  /\ \A c \in Ctas : WF_vars(CtaStep(c))

Spec == Init /\ [][Next]_vars
FairSpec == Spec /\ Fairness
-----------------------------------------------------------------------------
\* The scale partitions that K tile t touches.
Touches(t, p) ==
  \E s \in PartitionBegin(p) .. PartitionBegin(p + 1) - 1 : s \div BlocksPerTile = t

\* Whatever a CTA has loaded of its tile came from rows and scales of this round, all
\* of them landed: no tag of an earlier round, of before the wrap, or of a partly
\* counted expert is mistaken for readiness.
LoadsAreReady == \A c \in Ctas : pc[c] = "load" =>
  LET mb == MOf(work[c]) IN
  \A t \in 0 .. step[c] - 1 :
    /\ fp4[mb][t \div KTilesPerFlag] = generation
    /\ \A p \in Partitions : Touches(t, p) => sfa[mb][p] = generation

\* No two CTAs work on one tile.
TilesDisjoint == \A c, d \in Ctas :
  pc[c] = "load" /\ pc[d] = "load" /\ c # d => work[c] # work[d]

\* When the launch is over every tile of its layout has been computed in it.
OutputComplete ==
  (\A c \in Ctas : pc[c] = "done") =>
    \A mb \in DOMAIN layout.owner, n \in 0 .. NumNBlocks - 1 : output[mb][n] = generation

\* Every launch ends: no cycle of CTAs waiting for each other's flags, and every flag
\* a tile waits for is eventually published.
LaunchesEnd == <>(launches = MaxRounds /\ \A c \in Ctas : pc[c] = "done")
=============================================================================
