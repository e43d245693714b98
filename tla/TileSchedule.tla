---------------------------- MODULE TileSchedule ----------------------------
(* The persistent tile schedulers: CTA c of a grid takes the tiles c, c + grid,   *)
(* c + 2 grid, ... of a job and works out alone, from the sizes of the groups or  *)
(* from a list of M blocks, which rows and columns a number stands for.            *)
(*                                                                               *)
(* A job says how the operands lie (`kind') and which scheduler runs:              *)
(*   "walk"     DeepGemmScheduler and DenseGemmScheduler, group after group        *)
(*   "table"    DeepGemmScheduler over the list of computeBlockInfoKernel          *)
(*   "fused"    FusedGemmScheduler over the list of moe_align_block_size           *)
(*   "expand"   fetch_next_work_dynamic_tile of the int8 dynamic-tile kernel       *)
(*   "builders" DynamicTileScheduler of the fp4 dynamic-tile kernel                *)
(* Rows and columns come in units of the job, so that tiles stay small.            *)
EXTENDS MoeAlign

NoTile == <<>>

-----------------------------------------------------------------------------
(* Host: how many column blocks of bn columns a tile takes. *)

\* The wave count of the blockwise fused GEMM picks its expansion.
WaveExpand(job) ==
    LET expectedM == UpDiv(Numel(job), job.groups)
        wave == UpDiv(UpDiv(expectedM, job.bm) * UpDiv(job.n, job.bn), job.grid)
    IN  IF job.k > 512 THEN 1 ELSE IF wave = 1 THEN 1 ELSE IF wave = 2 THEN 2 ELSE 4

\* kUseNStageKernel of the generated fp8 kernel.
Fp8Expand(job) == IF job.k <= 512 /\ job.stages = 2 THEN 4 ELSE 1

Fp4Expand(job) ==
    IF job.k <= 128 /\ job.kind = "nopad" /\ job.n % (job.bn * 8) = 0 THEN 8
    ELSE IF job.k <= 512 /\ (job.kind = "nopad" \/ job.expectedM > 2) THEN 4 ELSE 1

NExpand(job) ==
    LET wanted == CASE job.type = "fp8" -> Fp8Expand(job)
                    [] job.type = "fp4" -> Fp4Expand(job)
                    [] job.type = "fp8_fused" -> WaveExpand(job)
                    [] OTHER -> 1
    IN  IF job.n % (job.bn * wanted) = 0 THEN wanted ELSE 1

\* BLOCK_N and kNumNBlocks of the scheduler.
TileColumns(job)  == job.bn * NExpand(job)
ColumnBlocks(job) == UpDiv(job.n, TileColumns(job))

-----------------------------------------------------------------------------
(* The dynamic-tile kernels choose a tile shape for each group by its rows. *)

BuilderTable == [
    LargeEM   |-> [m |-> <<64, 64, 128, 192, 256>>, n |-> <<256, 256, 256, 256, 256>>],
    LargeK    |-> [m |-> <<32, 64, 128, 192, 256>>, n |-> <<256, 256, 128, 128, 128>>],
    LargeK_G2 |-> [m |-> <<32, 64, 64, 128, 128>>,  n |-> <<256, 256, 256, 256, 256>>],
    SmallEM   |-> [m |-> <<16, 32, 64, 64, 128>>,   n |-> <<128, 128, 128, 128, 128>>] ]

Int8BuilderTable == [
    LargeEM  |-> [m |-> <<128, 192, 256, 256, 256>>, n |-> <<256, 256, 256, 256, 256>>],
    LargeK   |-> [m |-> <<16, 32, 64, 128, 192>>,    n |-> <<128, 128, 256, 128, 128>>],
    TPSmallK |-> [m |-> <<16, 32, 64, 96, 128>>,    n |-> <<128, 128, 128, 128, 128>>] ]

BlockMs(job) ==
    LET table == IF job.scheduler = "expand" THEN Int8BuilderTable ELSE BuilderTable
    IN  [i \in 1 .. 5 |-> table[job.tiles].m[i] \div job.unitM]
BlockNs(job) ==
    LET table == IF job.scheduler = "expand" THEN Int8BuilderTable ELSE BuilderTable
    IN  [i \in 1 .. 5 |-> table[job.tiles].n[i] \div job.unitN]

\* The first builder whose BLOCK_M holds the group, else the largest.
SelectBuilder(job, rows) ==
    LET fits == {i \in 1 .. 4 : rows <= BlockMs(job)[i]}
    IN  IF fits = {} THEN 5 ELSE Min(fits)

\* get_n_expand: one wide tile instead of two for the groups Builder2 takes.
GroupExpand(job, rows) ==
    IF (\E i \in 1 .. 4 : BlockNs(job)[i] # BlockNs(job)[5])
       /\ IF job.k > 2048
          THEN rows * job.unitM > 32 /\ rows * job.unitM <= 64
          ELSE rows * job.unitM <= 64
    THEN 2 ELSE 1

-----------------------------------------------------------------------------
(* The tiles of one group: rows and columns of a tile, and how many there are.    *)

IsDynamic(job) == job.scheduler \in {"expand", "builders"}

TileM(job, rows) == IF IsDynamic(job) THEN BlockMs(job)[SelectBuilder(job, rows)] ELSE job.bm
TileN(job, rows) == IF IsDynamic(job) THEN BlockNs(job)[SelectBuilder(job, rows)] ELSE TileColumns(job)

\* The M blocks the scheduler counts; int8 counts those of the largest builder.
GroupMBlocks(job, rows) ==
    UpDiv(rows, IF job.scheduler = "expand" THEN BlockMs(job)[5] ELSE TileM(job, rows))

GroupNBlocks(job, rows) ==
    CASE job.scheduler = "expand"   -> UpDiv(job.n, BlockNs(job)[5]) \div GroupExpand(job, rows)
      [] job.scheduler = "builders" -> UpDiv(job.n, TileN(job, rows))
      [] OTHER                      -> ColumnBlocks(job)

GroupTiles(job, rows) ==
    IF job.scheduler = "expand"
    THEN (GroupMBlocks(job, rows) * UpDiv(job.n, BlockNs(job)[5])) \div GroupExpand(job, rows)
    ELSE GroupMBlocks(job, rows) * GroupNBlocks(job, rows)

-----------------------------------------------------------------------------
(* Swizzles: M blocks side by side in bands of `width', column by column. *)

\* The last band may be narrower; its width is unsigned in the code.
BandWidth(width, mBlocks, first) ==
    IF mBlocks < first THEN width ELSE Min({width, mBlocks - first})

\* Mutant: the last band as wide as the others.
SwizzledFullBand(job, mBlocks, nBlocks, group, idx) ==
    LET perBand == nBlocks * job.width
        inBand == idx % perBand
    IN  [m |-> (idx \div perBand) * job.width + (inBand % job.width), n |-> inBand \div job.width]

\* get_swizzled_block_idx; kInterleaveM turns every other column of a full band.
Swizzled(job, mBlocks, nBlocks, group, idx) ==
    LET perBand == nBlocks * job.width
        first == (idx \div perBand) * job.width
        inBand == idx % perBand
        band == BandWidth(job.width, mBlocks, first)
        n == inBand \div band
        turn == IF job.interleave /\ job.width = 2 /\ band = 2 THEN n + group ELSE 0
    IN  [m |-> first + ((inBand + turn) % band), n |-> n]

\* FusedGemmScheduler: shifts instead of divisions for bands of one or two.
ShiftSwizzled(job, mBlocks, group, idx) ==
    LET perBand == ColumnBlocks(job) * job.width
        first == (idx \div perBand) * job.width
        inBand == idx % perBand
        shift == BandWidth(job.width, mBlocks, first) - 1
        m == first + (inBand % (2 ^ shift))
        n == inBand \div (2 ^ shift)
        turned == IF m % 2 = (n + group) % 2 THEN (m \div 2) * 2 ELSE (m \div 2) * 2 + 1
    IN  [m |-> IF job.interleave /\ job.width = 2 /\ mBlocks - (m \div 2) * 2 >= 2 THEN turned ELSE m,
         n |-> n]

-----------------------------------------------------------------------------
(* The rows of a job: row r of group g of the operands and of the output.         *)

\* The sums of the first e of the numbers a[0], a[1], ...
Sums(count, a) ==
    LET sum[e \in 0 .. count] == IF e = 0 THEN 0 ELSE sum[e - 1] + a[e - 1] IN sum

GroupIds(job) == 0 .. job.groups - 1
RowsBefore(job, g) == Sums(job.groups, job.sizes)[g]

\* The contiguous layout aligns each group to bm rows; the rows between are -1.
AlignedBefore(job, g) == Sums(job.groups, [h \in GroupIds(job) |-> RoundUp(job.sizes[h], job.bm)])[g]
LayoutAt(job, r) ==
    IF \E g \in GroupIds(job) : r \in AlignedBefore(job, g) .. AlignedBefore(job, g) + job.sizes[g] - 1
    THEN CHOOSE g \in GroupIds(job) :
             r \in AlignedBefore(job, g) .. AlignedBefore(job, g) + job.sizes[g] - 1
    ELSE -1

-----------------------------------------------------------------------------
(* One fetch. `cursor' is the state a CTA keeps: its iteration and, for the       *)
(* schedulers that walk, the group, the tiles and the rows before it.               *)

FirstCursor == [iter |-> 0, group |-> 0, tiles |-> 0, rows |-> 0, done |-> FALSE]

NextIndex(job, cursor, c) == cursor.iter * job.grid + c

TilesBefore(job, g) ==
    Sums(job.groups, [h \in GroupIds(job) |-> GroupTiles(job, job.sizes[h])])[g]

\* The first group whose tiles reach past `next', if any.
StopGroup(job, cursor, next) ==
    LET until(g) == cursor.tiles + TilesBefore(job, g + 1) - TilesBefore(job, cursor.group)
        reach == {g \in cursor.group .. job.groups - 1 : next < until(g)}
    IN  IF reach = {} THEN job.groups ELSE Min(reach)

\* The cursor moved to that group; the groups it leaves add to the sums.
Walked(job, cursor, next) ==
    LET stop == StopGroup(job, cursor, next)
    IN  [cursor EXCEPT !.group = stop,
                       !.tiles = @ + TilesBefore(job, stop) - TilesBefore(job, cursor.group),
                       !.rows = @ + RowsBefore(job, stop) - RowsBefore(job, cursor.group)]

Tile(job, g, rows, before, at) ==
    [group |-> g, rows |-> rows, before |-> before, m |-> at.m, n |-> at.n, pad |-> at.m]

\* kNumNBlocks of the swizzle: that of the largest builder in the dynamic kernels.
SwizzleColumns(job, rows) ==
    IF IsDynamic(job) THEN UpDiv(job.n, BlockNs(job)[5]) \div
                           (IF job.scheduler = "expand" THEN GroupExpand(job, rows) ELSE 1)
    ELSE ColumnBlocks(job)

WalkedTile(job, cursor, next) ==
    LET rows == job.sizes[cursor.group]
    IN  Tile(job, cursor.group, rows, cursor.rows,
             Swizzled(job, GroupMBlocks(job, rows), SwizzleColumns(job, rows), cursor.group,
                      next - cursor.tiles))

\* Row z of the list counts the M blocks before the group.
ListedTile(job, buf, next) ==
    LET entry == buf.table[next \div ColumnBlocks(job)]
        rows == entry[2]
        idx == next - entry[3] * ColumnBlocks(job)
        at == IF job.scheduler = "fused"
              THEN ShiftSwizzled(job, UpDiv(rows, job.bm), entry[1], idx)
              ELSE Swizzled(job, UpDiv(rows, job.bm), ColumnBlocks(job), entry[1], idx)
    IN  [Tile(job, entry[1], rows, entry[4], at) EXCEPT !.pad = at.m + entry[3]]

FlatBlocks(job) == UpDiv(job.shapeM, job.bm) * ColumnBlocks(job)

\* Batches take whole runs of block indices and no swizzle.
BatchedTile(job, next) ==
    LET idx == next % FlatBlocks(job)
    IN  Tile(job, next \div FlatBlocks(job), job.shapeM, 0,
             [m |-> idx \div ColumnBlocks(job), n |-> idx % ColumnBlocks(job)])

FlatTile(job, next) ==
    Tile(job, 0, job.shapeM, 0,
         Swizzled(job, UpDiv(job.shapeM, job.bm), ColumnBlocks(job), 0, next))

Walks(job) == job.kind \in {"masked", "nopad"} /\ job.scheduler \in {"walk", "expand", "builders"}

\* The number of tiles of the schedulers that know it beforehand.
TileCount(job, buf) ==
    CASE job.scheduler \in {"table", "fused"} -> buf.mBlocks[0] * ColumnBlocks(job)
      [] job.kind = "batched" -> FlatBlocks(job) * job.groups
      [] OTHER -> FlatBlocks(job)

FetchNextWork(job, buf, cursor, next) ==
    IF Walks(job)
    THEN IF cursor.group = job.groups THEN NoTile ELSE WalkedTile(job, cursor, next)
    ELSE IF next >= TileCount(job, buf) THEN NoTile
    ELSE CASE job.scheduler \in {"table", "fused"} -> ListedTile(job, buf, next)
           [] job.kind = "batched" -> BatchedTile(job, next)
           [] OTHER -> FlatTile(job, next)

-----------------------------------------------------------------------------
(* What a tile writes: row, column, the row of A it comes from, the weights.       *)

\* curr_offset_m and curr_offset_c; `base' is the row prefix of the streamed kernels.
FirstRow(job, tile) ==
    CASE job.kind \in {"masked", "batched"} -> tile.group * job.shapeM
      [] job.kind \in {"nopad", "fused"} -> job.base + tile.before
      [] OTHER -> 0

TileRows(job, tile) ==
    {r \in tile.m * TileM(job, tile.rows) .. (tile.m + 1) * TileM(job, tile.rows) - 1 : r < tile.rows}
TileCols(job, tile) ==
    {n \in tile.n * TileN(job, tile.rows) .. (tile.n + 1) * TileN(job, tile.rows) - 1 : n < job.n}

\* A fused GEMM gathers the rows of A by sorted_token_ids.
SourceRow(job, buf, tile, r) ==
    IF job.kind = "fused" THEN buf.sorted[tile.pad * job.bm + (r - tile.m * job.bm)]
    ELSE FirstRow(job, tile) + r

\* curr_offset_b; the contiguous layout is read at the first row of the block.
Weights(job, tile) ==
    IF job.kind = "contiguous" THEN LayoutAt(job, tile.m * job.bm) ELSE tile.group

Stored(job, buf, tile) ==
    {<<FirstRow(job, tile) + r, n, SourceRow(job, buf, tile, r), Weights(job, tile)>> :
        r \in TileRows(job, tile), n \in TileCols(job, tile)}

\* Mutant: the words of a group counted by its rows instead of shape_m.
SignalWordByRows(job, tile) == tile.group * UpDiv(tile.rows, job.bm) + tile.m

\* The word of a block in the signals of a masked GEMM with SBO overlap, and the
\* count at which the host tells the consumer to start.
SignalWord(job, tile) == tile.group * UpDiv(job.shapeM, job.bm) + tile.m
Threshold(job) == UpDiv(job.n, job.bn)

\* The bf16, int8 and fp8 kernels have the signal, the fp4 kernels have none.
KernelSignals(job) == job.sbo /\ job.type # "fp4"

-----------------------------------------------------------------------------
CONSTANT Jobs

\* What the hosts launch: sizes that the device finds fit the operands, and tables of
\* the dynamic kernels in whole units. int8 takes LargeK for deep K. Only masked
\* problems overlap; the int8 host turns the dynamic tile off then, the fp4 host
\* does not.
Sized(j) ==
    /\ {j.groups, j.grid, j.n, j.bm, j.bn, j.width} \subseteq Nat \ {0}
    /\ {j.shapeM, j.base} \subseteq Nat
    /\ j.interleave \in BOOLEAN
    /\ j.kind \in {"masked", "nopad", "contiguous"} =>
           j.sizes \in [GroupIds(j) -> Nat]
    /\ j.kind = "masked" => \A g \in GroupIds(j) : j.sizes[g] <= j.shapeM
    /\ j.kind = "contiguous" => j.shapeM = AlignedBefore(j, j.groups)
InUnits(j) ==
    LET table == IF j.scheduler = "expand" THEN Int8BuilderTable ELSE BuilderTable
    IN  /\ j.kind \in {"masked", "nopad"} /\ j.tiles \in DOMAIN table
        /\ {j.unitM, j.unitN} \subseteq Nat \ {0}
        /\ \A i \in 1 .. 5 : table[j.tiles].m[i] % j.unitM = 0 /\ table[j.tiles].n[i] % j.unitN = 0
        /\ j.scheduler = "expand" /\ j.tiles = "LargeK" => j.k > 2048
ASSUME JobsAssumption ==
    \A j \in Jobs :
        /\ j.kind \in {"normal", "batched", "contiguous", "masked", "nopad", "fused"}
        /\ j.scheduler \in {"walk", "table", "fused", "expand", "builders"}
        /\ Sized(j)
        /\ j.kind = "fused" <=> j.scheduler = "fused"
        /\ IsDynamic(j) => InUnits(j)
        /\ j.sbo \in BOOLEAN
        /\ j.sbo => j.kind = "masked" /\ (j.scheduler = "walk" \/ (j.scheduler = "builders" /\ j.type = "fp4"))

VARIABLES
    job,        \* the launch
    stage,      \* "route", "scan", "cumsum", "scatter", "list" or "run"
    buf,        \* what the preprocessing kernels wrote
    cursor,     \* the scheduler of each CTA
    stored,     \* the tile a CTA has stored and not yet signalled
    output,    \* the cells of the output that are written
    twice,      \* the rows and columns written again
    signals     \* the SBO words
tileVars == <<job, stage, buf, cursor, stored, output, twice, signals>>

Ctas(j) == 0 .. j.grid - 1
SignalWords(j) == IF j.sbo THEN 0 .. j.groups * UpDiv(j.shapeM, j.bm) - 1 ELSE {}

AllocList(j) == [mBlocks |-> Alloc(1), table |-> AllocTable(BlockInfoRows(j.sizes, j.groups, j.bm) - 1)]

TileInit ==
    /\ job \in Jobs
    /\ stage = CASE job.scheduler = "fused" -> "route"
                 [] job.scheduler = "table" -> "list"
                 [] OTHER -> "run"
    /\ buf = CASE stage = "route" -> AllocRouting(job)
               [] stage = "list" -> AllocList(job)
               [] OTHER -> <<>>
    /\ cursor = [c \in Ctas(job) |-> FirstCursor]
    /\ stored = [c \in Ctas(job) |-> NoTile]
    /\ output = {} /\ twice = {}
    /\ signals = [w \in SignalWords(job) |-> 0]

\* A kernel of the stream: the next one starts when it is over.
Kernel(from, to, result) ==
    /\ stage = from
    /\ buf' = result
    /\ stage' = to
    /\ UNCHANGED <<job, cursor, stored, output, twice, signals>>

AlignWarpOrdered == WarpOrdered(job) /\ Kernel("route", "run", WarpOrderedKernel(job, buf))
Count   == ~WarpOrdered(job) /\ Kernel("route", "scan", BlockCountWithFill(job, buf))
Scan    == Kernel("scan", "cumsum", LocalScan(job, buf))
Cumsum  == Kernel("cumsum", "scatter", CumsumExpertIds(job, buf))
Scatter == Kernel("scatter", "run", DeterministicScatter(job, buf))
ListBlocks ==
    /\ stage = "list"
    /\ LET info == BlockInfo(job.sizes, job.groups, job.bm)
       IN  Kernel("list", "run", [mBlocks |-> [i \in {0} |-> info.mBlocks], table |-> info.table])

Positions(cells) == {<<x[1], x[2]>> : x \in cells}

\* A CTA fetches its next tile and stores it, or ends.
Take(c) ==
    /\ stage = "run" /\ ~cursor[c].done /\ stored[c] = NoTile
    /\ LET next == NextIndex(job, cursor[c], c)
           walked == IF Walks(job) THEN Walked(job, cursor[c], next) ELSE cursor[c]
           tile == FetchNextWork(job, buf, walked, next)
           cells == IF tile = NoTile THEN {} ELSE Stored(job, buf, tile)
       IN  /\ cursor' = [cursor EXCEPT ![c] = [walked EXCEPT !.iter = @ + 1, !.done = tile = NoTile]]
           /\ stored' = [stored EXCEPT ![c] = IF KernelSignals(job) THEN tile ELSE NoTile]
           /\ output' = output \cup cells
           /\ twice' = twice \cup (Positions(output) \cap Positions(cells))
    /\ UNCHANGED <<job, stage, buf, signals>>

\* Behind a barrier of the CTA its first thread adds one to the word of the block.
Signal(c) ==
    /\ c \in Ctas(job) /\ stored[c] # NoTile
    /\ signals' = [signals EXCEPT ![SignalWord(job, stored[c])] = @ + 1]
    /\ stored' = [stored EXCEPT ![c] = NoTile]
    /\ UNCHANGED <<job, stage, buf, cursor, output, twice>>

JobDone == stage = "run" /\ \A c \in Ctas(job) : cursor[c].done /\ stored[c] = NoTile
TilesFinished == JobDone /\ UNCHANGED tileVars

TileNext ==
    \/ AlignWarpOrdered \/ Count \/ Scan \/ Cumsum \/ Scatter \/ ListBlocks
    \/ \E c \in Ctas(job) : Take(c)
    \/ \E c \in Ctas(job) : Signal(c)
    \/ TilesFinished
TileSpec == TileInit /\ [][TileNext]_tileVars

-----------------------------------------------------------------------------
(* Properties. *)

\* Where pair i belongs: behind the pairs of the experts before it and those of
\* its own expert that come earlier.
StableRow(j, i) ==
    Cardinality({p \in DOMAIN j.ids : j.ids[p] < j.ids[i] \/ (j.ids[p] = j.ids[i] /\ p < i)})

MeantRows(j) ==
    CASE j.kind = "fused" -> {<<StableRow(j, i), i \div j.topk, j.ids[i]>> : i \in DOMAIN j.ids}
      [] j.kind = "nopad" ->
             UNION {{<<x, x, g>> : x \in j.base + RowsBefore(j, g) .. j.base + RowsBefore(j, g + 1) - 1} :
                       g \in GroupIds(j)}
      [] j.kind = "masked" ->
             UNION {{<<g * j.shapeM + r, g * j.shapeM + r, g>> : r \in 0 .. j.sizes[g] - 1} : g \in GroupIds(j)}
      [] j.kind = "batched" ->
             UNION {{<<g * j.shapeM + r, g * j.shapeM + r, g>> : r \in 0 .. j.shapeM - 1} : g \in GroupIds(j)}
      [] j.kind = "contiguous" ->
             UNION {{<<r, r, g>> : r \in AlignedBefore(j, g) .. AlignedBefore(j, g + 1) - 1} : g \in GroupIds(j)}
      [] OTHER -> {<<r, r, 0>> : r \in 0 .. j.shapeM - 1}

MeantCells(j) == {<<x[1], n, x[2], x[3]>> : x \in MeantRows(j), n \in 0 .. j.n - 1}

\* The int8 kernel halves the column blocks of a group whose tiles are twice as wide.
\* The division drops the last block of an odd number of them.
HalvesOdd(j, rows) ==
    j.scheduler = "expand" /\ GroupExpand(j, rows) = 2 /\ UpDiv(j.n, BlockNs(j)[5]) % 2 = 1
Dropped(j, rows, n) == HalvesOdd(j, rows) /\ n \div BlockNs(j)[5] = UpDiv(j.n, BlockNs(j)[5]) - 1

\* Every cell of the output is written by one tile of one CTA, from the row of A
\* and the weights it is meant for: no scheduler, swizzle, expansion or list skips
\* a tile or hands it out twice, whatever the sizes of the groups
\* (fetch_next_work of the four schedulers and get_swizzled_block_idx). The only
\* cells left out are those of the column block that int8 drops, and of no other group.
EveryCellOnce ==
    /\ twice = {}
    /\ JobDone => output = {x \in MeantCells(job) : ~Dropped(job, job.sizes[x[4]], x[2])}

\* The words end at the threshold the host returned, those of no rows at zero.
WordsReachThreshold ==
    JobDone => \A w \in SignalWords(job) :
        LET perGroup == UpDiv(job.shapeM, job.bm)
            used == (w % perGroup) * job.bm < job.sizes[w \div perGroup]
        IN  signals[w] = IF used THEN Threshold(job) ELSE 0

\* The consumer of a masked GEMM may start on a block when its word is at the
\* threshold: all rows of the block are written then, although its tiles are
\* spread over the CTAs; and every word gets there.
SignalsMatchBlocks ==
    /\ WordsReachThreshold
    /\ \A w \in SignalWords(job) :
           LET perGroup == UpDiv(job.shapeM, job.bm)
               g == w \div perGroup
               first == (w % perGroup) * job.bm
           IN  signals[w] >= Threshold(job) =>
                   \A r \in {r \in first .. first + job.bm - 1 : r < job.sizes[g]}, n \in 0 .. job.n - 1 :
                       <<g * job.shapeM + r, n>> \in Positions(output)

\* No kernel writes outside what the host allocated from bounds on the number of
\* blocks, and no word a tile will read stays unwritten.
BuffersFit ==
    /\ job.scheduler = "fused" =>
           \A f \in DOMAIN buf : DOMAIN buf[f] = DOMAIN AllocRouting(job)[f]
    /\ job.scheduler = "table" => DOMAIN buf.table = DOMAIN AllocList(job).table
    /\ stage = "run" /\ buf # <<>> =>
           /\ buf.mBlocks[0] \in 0 .. Cardinality(DOMAIN buf.table)
           /\ \A b \in 0 .. buf.mBlocks[0] - 1 : buf.table[b] # NoEntry
           /\ job.scheduler = "fused" =>
                  \A f \in {"sorted", "invPerm", "rows", "mIndices"} :
                      \A i \in DOMAIN buf[f] : buf[f][i] # Unset

\* Both ways of grouping the pairs give the stable order: pair i takes row
\* StableRow(i) of the compact output, its token stands at the same rank behind
\* the aligned start of its expert, and only pad tokens stand elsewhere.
RoutingIsStable ==
    stage = "run" /\ job.scheduler = "fused" =>
        LET rank(i) == Cardinality({p \in DOMAIN job.ids : job.ids[p] = job.ids[i] /\ p < i})
            count(e) == Cardinality({p \in DOMAIN job.ids : job.ids[p] = e})
            start(e) == SumOver(0 .. e - 1, LAMBDA f : RoundUp(count(f), job.bm))
            place(i) == start(job.ids[i]) + rank(i)
        IN  /\ \A i \in DOMAIN job.ids :
                   /\ buf.invPerm[i] = StableRow(job, i)
                   /\ buf.mIndices[StableRow(job, i)] = job.ids[i]
                   /\ buf.sorted[place(i)] = i \div job.topk
            /\ \A w \in DOMAIN buf.sorted \ {place(i) : i \in DOMAIN job.ids} :
                   buf.sorted[w] = ShapeM(job)
            /\ \A e \in Experts(job) : buf.rows[e] = count(e)
=============================================================================
