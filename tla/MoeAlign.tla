------------------------------ MODULE MoeAlign ------------------------------
(* The preprocessing kernels of grouped GEMMs. moe_align_block_size groups the   *)
(* (token, expert) pairs of a fused MoE GEMM by expert: one kernel of a single   *)
(* CTA (K0) for few pairs, four kernels (K1..K4) for many.                        *)
(* computeBlockInfoKernel lists the M blocks of the groups of a no-pad GEMM.      *)
(*                                                                               *)
(* A kernel is an operator from buffers to buffers. Threads of one phase write   *)
(* words of their own; a word written twice keeps either value. Numbers count    *)
(* from 0, as in the code. `e' is an expert, `w' a warp, `b' a block of pairs.    *)
EXTENDS Integers, FiniteSets, FiniteSetsExt, Functions, TLC

CONSTANTS
    WarpLanes,      \* lanes of a warp (32)
    ScanWarps,      \* warps of K0 (32)
    Chunks,     \* words of peer_rank, chunks of a warp of K0 (16)
    ScanWidth   \* threads of K2 (256)

ASSUME WidthAssumption ==
    /\ {WarpLanes, ScanWarps, Chunks, ScanWidth} \subseteq Nat \ {0}

-----------------------------------------------------------------------------
(* Integer arithmetic of the host and the kernels. *)

UpDiv(a, b) == (a + b - 1) \div b

\* C++ division truncates: the sizes of a host expression may be negative.
TruncDiv(a, b) == IF a >= 0 THEN a \div b ELSE -((-a) \div b)

NextPowerOfTwo(n) == CHOOSE p \in {2 ^ i : i \in 0 .. n} : n <= p /\ 2 * n > p

RoundUp(a, b) == UpDiv(a, b) * b

SumOver(S, Term(_)) == MapThenSumSet(Term, S)

\* The words `keys' of a buffer receive Value(k). A word outside the buffer is
\* written all the same: the buffer grows a word it should not have.
Written(buffer, keys, Value(_)) == [k \in keys |-> Value(k)] @@ buffer

Unset == -7    \* what at::empty leaves in a word
Alloc(n) == [i \in 0 .. n - 1 |-> Unset]

\* Rows of four words.
NoEntry == <<Unset, Unset, Unset, Unset>>
AllocTable(n) == [i \in 0 .. n - 1 |-> NoEntry]

-----------------------------------------------------------------------------
(* Host: moe_align_block_size_impl. `job' has ids (the experts of the pairs, by  *)
(* index), topk, groups and bm.                                                    *)

Numel(job)  == Cardinality(DOMAIN job.ids)
Experts(job) == 0 .. job.groups - 1
ShapeM(job) == Numel(job) \div job.topk

\* Mutant: no room for the partial last block of each expert.
MaxMBlocksFull(job) == UpDiv(Numel(job), job.bm)

MaxMBlocks(job) ==
    job.groups - 1 + (Numel(job) + 1 - job.groups + job.bm - 1) \div job.bm
TotalBound(job) == MaxMBlocks(job) * job.bm
BlockSize(job)  == NextPowerOfTwo(job.groups)
PadBlocks(job)  == UpDiv(TotalBound(job), BlockSize(job))
ScatterBlocks(job) == UpDiv(Numel(job), BlockSize(job))

\* peer_rank has room for the chunks of 16384 pairs, the limit of the first path.
WarpOrdered(job) == Numel(job) <= WarpLanes * ScanWarps * Chunks

AllocRouting(job) ==
    [ sorted  |-> Alloc(TotalBound(job)),   table   |-> AllocTable(MaxMBlocks(job)),
      mBlocks |-> Alloc(1),                 invPerm |-> Alloc(Numel(job)),
      rows    |-> Alloc(job.groups),        mIndices |-> Alloc(Numel(job)),
      counts  |-> Alloc(PadBlocks(job) * job.groups),
      offsets |-> Alloc(PadBlocks(job) * job.groups),
      cumsum  |-> Alloc(2 * job.groups) ]

-----------------------------------------------------------------------------
(* The list of M blocks, written by K0 and K3 from the rows of the experts: an   *)
(* exclusive scan of the padded and of the exact counts over the threads.          *)

\* Thread t <= groups keeps its prefix; a kernel of too few threads keeps fewer.
Prefixes(threads, groups, Term(_)) ==
    [t \in 0 .. Min({groups, threads - 1}) |-> SumOver({e \in 0 .. groups - 1 : e < t}, Term)]

BlockTable(job, buf, rows, threads) ==
    LET Padded(e) == RoundUp(rows[e], job.bm)
        Exact(e) == rows[e]
        cum == Prefixes(threads, job.groups, Padded)
        nopad == Prefixes(threads, job.groups, Exact)
        blocksOf(e) == {i \div job.bm : i \in {i \in cum[e] .. cum[e + 1] - 1 : (i - cum[e]) % job.bm = 0}}
        Entry(i) == LET e == CHOOSE e \in Experts(job) : i \in blocksOf(e)
                    IN  <<e, rows[e], cum[e] \div job.bm, nopad[e]>>
    IN  [buf EXCEPT !.table = Written(@, UNION {blocksOf(e) : e \in Experts(job)}, Entry),
                    !.mBlocks[0] = cum[job.groups] \div job.bm]

\* Every word of sorted_token_ids first names the pad row, one past the tokens.
Filled(job, buf, words) ==
    LET Pad(i) == ShapeM(job) IN [buf EXCEPT !.sorted = Written(@, words, Pad)]

\* The pairs `placed' take the ranks Rank(i) within their experts.
Scattered(job, buf, placed, Start(_), Compact(_), Rank(_)) ==
    LET at(i) == Start(job.ids[i]) + Rank(i)
        row(i) == Compact(job.ids[i]) + Rank(i)
        TokenAt(r) == (CHOOSE i \in placed : at(i) = r) \div job.topk
        ExpertAt(r) == job.ids[CHOOSE i \in placed : row(i) = r]
        RowOf(i) == row(i)
    IN  [buf EXCEPT !.sorted = Written(@, {at(i) : i \in placed}, TokenAt),
                    !.invPerm = Written(@, placed, RowOf),
                    !.mIndices = Written(@, {row(i) : i \in placed}, ExpertAt)]

-----------------------------------------------------------------------------
(* K0, moe_align_warp_ordered: four phases of one CTA with a barrier behind each. *)

\* The consecutive pairs of a warp, and those of one of its chunks of `WarpLanes'.
PairsPerWarp(job) == UpDiv(Numel(job), ScanWarps)
WarpPairs(job, w) ==
    LET first == w * PairsPerWarp(job)
    IN  first .. Min({first + PairsPerWarp(job), Numel(job)}) - 1
ChunkOf(job, i) == (i % PairsPerWarp(job)) \div WarpLanes

\* Mutant: the pairs of the chunks before are forgotten.
PeerRankInChunk(job, i) ==
    Cardinality({p \in WarpPairs(job, i \div PairsPerWarp(job)) :
                     job.ids[p] = job.ids[i] /\ ChunkOf(job, p) = ChunkOf(job, i) /\ p < i})

\* Phase 1: the lanes that match the expert of a lane, below it and in the chunks
\* before. The rank is kept in the word of the chunk, if there is one.
PeerRank(job, i) ==
    LET same == {p \in WarpPairs(job, i \div PairsPerWarp(job)) : job.ids[p] = job.ids[i]}
        running == {p \in same : ChunkOf(job, p) < ChunkOf(job, i)}
        below == {p \in same : ChunkOf(job, p) = ChunkOf(job, i) /\ p < i}
    IN  IF ChunkOf(job, i) < Chunks THEN Cardinality(running) + Cardinality(below) ELSE Unset

WarpCount(job, w, e) == Cardinality({i \in WarpPairs(job, w) : job.ids[i] = e})

\* Phase 2: the pairs of an expert in the warps before.
WarpPrefix(job, w, e) == SumOver(0 .. w - 1, LAMBDA v : WarpCount(job, v, e))

WarpOrderedKernel(job, buf) ==
    LET rows == [e \in Experts(job) |-> WarpPrefix(job, ScanWarps, e)]
        listed == BlockTable(job, [Filled(job, buf, 0 .. TotalBound(job) - 1) EXCEPT !.rows = rows],
                             rows, WarpLanes * ScanWarps)
        Start(e) == SumOver(0 .. e - 1, LAMBDA f : RoundUp(rows[f], job.bm))
        Compact(e) == SumOver(0 .. e - 1, LAMBDA f : rows[f])
        Rank(i) == WarpPrefix(job, i \div PairsPerWarp(job), job.ids[i]) + PeerRank(job, i)
    IN  Scattered(job, listed, 0 .. Numel(job) - 1, Start, Compact, Rank)

-----------------------------------------------------------------------------
(* K1..K4, one block of BlockSize threads after another of the pairs.              *)

TilePairs(job, b) ==
    {i \in b * BlockSize(job) .. (b + 1) * BlockSize(job) - 1 : i < Numel(job)}

\* K1: a thread fills four words, or the word of its index in the tail.
FilledBy(job, thread) ==
    IF thread < TotalBound(job) \div 4
    THEN 4 * thread .. 4 * thread + 3
    ELSE {i \in {thread} : i < TotalBound(job)}

BlockCountWithFill(job, buf) ==
    LET words == UNION {FilledBy(job, t) : t \in 0 .. PadBlocks(job) * BlockSize(job) - 1}
        Count(k) == Cardinality({i \in TilePairs(job, k \div job.groups) :
                                     job.ids[i] = k % job.groups})
    IN  [Filled(job, buf, words) EXCEPT
            !.counts = Written(@, 0 .. PadBlocks(job) * job.groups - 1, Count)]

\* K2: a thread sums consecutive blocks; what the threads before found comes on top.
LocalScan(job, buf) ==
    LET perThread == UpDiv(ScatterBlocks(job), ScanWidth)
        count(b, e) == buf.counts[b * job.groups + e]
        total(S, e) == SumOver(S, LAMBDA b : count(b, e))
        Offset(k) ==
            LET b == k \div job.groups
                own == (b \div perThread) * perThread
            IN  total(0 .. own - 1, k % job.groups) + total(own .. b - 1, k % job.groups)
    IN  [buf EXCEPT
            !.offsets = Written(@, 0 .. ScatterBlocks(job) * job.groups - 1, Offset),
            !.rows = [e \in Experts(job) |-> total(0 .. ScatterBlocks(job) - 1, e)]]

\* K3: the starts of the experts, padded and compact, and the list of M blocks.
CumsumExpertIds(job, buf) ==
    LET Padded(e) == RoundUp(buf.rows[e], job.bm)
        Start(k) == IF k < job.groups
                    THEN SumOver(0 .. k - 1, Padded)
                    ELSE SumOver(0 .. k - job.groups - 1, LAMBDA e : buf.rows[e])
    IN  [BlockTable(job, buf, buf.rows, NextPowerOfTwo(job.groups + 1)) EXCEPT
            !.cumsum = Written(@, 0 .. 2 * job.groups - 1, Start)]

\* K4: thread e scans the tile four words at a time for the pairs of expert e.
ScannedPairs(job, b) ==
    {i \in TilePairs(job, b) : i % BlockSize(job) < (BlockSize(job) \div 4) * 4}

DeterministicScatter(job, buf) ==
    LET Start(e) == buf.cumsum[e]
        Compact(e) == buf.cumsum[e + job.groups]
        Rank(i) == LET b == i \div BlockSize(job)
                   IN  buf.offsets[b * job.groups + job.ids[i]]
                       + Cardinality({p \in ScannedPairs(job, b) : p < i /\ job.ids[p] = job.ids[i]})
    IN  Scattered(job, buf, UNION {ScannedPairs(job, b) : b \in 0 .. ScatterBlocks(job) - 1},
                  Start, Compact, Rank)

-----------------------------------------------------------------------------
(* computeBlockInfoKernel: a thread per group, the sums of a warp in one scan and *)
(* those of the warps before in a second. `sizes' are the rows of the groups.      *)

BlockInfoThreads(groups) == Max({WarpLanes, NextPowerOfTwo(groups)})

\* Host: room for the total and the blocks, in rows of four words.
BlockInfoRows(sizes, groups, bm) ==
    groups + TruncDiv(SumOver(0 .. groups - 1, LAMBDA g : sizes[g]) + 1 - groups + bm - 1, bm)

BlockInfo(sizes, groups, bm) ==
    LET rows(t) == IF t < groups THEN sizes[t] ELSE 0
        blocks(t) == UpDiv(rows(t), bm)
        scan(t, Term(_)) ==
            LET warp == t \div WarpLanes
            IN  SumOver(0 .. warp * WarpLanes - 1, Term) + SumOver(warp * WarpLanes .. t - 1, Term)
        entries == {x \in (0 .. groups - 1) \X (0 .. SumOver(0 .. groups - 1, rows)) : x[2] < blocks(x[1])}
        at(x) == scan(x[1], blocks) + x[2]
        Entry(r) == LET t == (CHOOSE x \in entries : at(x) = r)[1]
                    IN  <<t, rows(t), scan(t, blocks), scan(t, rows)>>
    IN  [mBlocks |-> SumOver(0 .. BlockInfoThreads(groups) - 1, blocks),
         table |-> Written(AllocTable(BlockInfoRows(sizes, groups, bm) - 1), {at(x) : x \in entries}, Entry)]
=============================================================================
