------------------------------ MODULE PagedLogits ------------------------------
(* The paged MQA logits of a batch of requests: the metadata kernel that splits the   *)
(* KV blocks of all requests evenly over the CTAs, and the logits kernel whose CTAs   *)
(* walk their segments with Q and KV tiles in rings of shared memory.  Lengths are in *)
(* KV tiles (BLOCK_KV tokens); a segment step is a split of tile.groups tiles.  CTAs  *)
(* of the logits kernel share nothing, so they are taken one after the other.         *)
EXTENDS Naturals, Integers, Sequences, FiniteSets

CONSTANTS
  Contexts,      \* pairs of the lengths the schedule is planned for and the actual ones
  Tiles,         \* tile configurations: groups, stage_q and whether warps take turns
  NumBlocks,     \* kNumSMs: CTAs of the logits kernel
  MaxThreads,    \* bound on the metadata kernel's threads (1024 in the code)
  WarpSize,      \* threads of a warp, which execute together (32)
  Word           \* modulus of unsigned arithmetic (2^32)

\* The schedule may have been planned for other lengths or for a smaller batch, never for
\* a larger one.  Lengths are 32-bit counts of tokens, so that their tiles are far fewer
\* than Word and the positions of the splits ahead do not wrap either.
ASSUME PagedLogitsAssumption ==
  /\ {NumBlocks, MaxThreads, WarpSize, Word} \subseteq Nat \ {0}
  /\ \A c \in Contexts :
       LET n == Cardinality(DOMAIN c.planned)  m == Cardinality(DOMAIN c.actual)
       IN  /\ n \in Nat \ {0} /\ m \in Nat /\ n <= m
           /\ c.planned \in [0 .. n - 1 -> 0 .. Word - 4]
           /\ c.actual \in [0 .. m - 1 -> 0 .. Word - 4]
  /\ \A t \in Tiles : /\ t.groups \in 1 .. 2 /\ t.stageQ \in Nat \ {0} /\ t.turns \in BOOLEAN
                      /\ t.turns => t.groups = 2 /\ t.stageQ = 2

VARIABLES
  context,       \* the lengths of this call
  tile,          \* the configuration of this call
  prefix,        \* prefix_sum in the metadata kernel's shared memory
  sum,           \* sum of the finished chunks
  chunk,         \* chunk of prefix_sum the metadata kernel scans
  scan,          \* each metadata warp: its offset, label and what it read
  meta,          \* schedule_metadata, empty until it is written
  cta,           \* CTA of the logits kernel that runs
  warp,          \* its two warps' private state
  smemQ,         \* Q ring: row and whether its copy has landed
  smemK,         \* KV ring of each math warp group
  pending,       \* each warp's committed groups of asynchronous copies
  written        \* how often a warp has stored its part of a tile of logits

metaVars == <<prefix, sum, chunk, scan, meta>>
smem == <<smemQ, smemK, pending>>
vars == <<context, tile, metaVars, cta, warp, smem, written>>
-----------------------------------------------------------------------------
CeilDiv(a, b) == (a + b - 1) \div b
Least(a, b) == IF a < b THEN a ELSE b
Batch(lengths) == Cardinality(DOMAIN lengths)

\* The metadata kernel: one CTA, a scan in chunks of its threads.
PlannedBatch == Batch(context.planned)
BlockDim == Least(PlannedBatch, MaxThreads)
MetaWarps == 0 .. CeilDiv(BlockDim, WarpSize) - 1
Base == chunk * BlockDim
Width == Least(BlockDim, PlannedBatch - Base)
Lanes(w) == {t \in w * WarpSize .. (w + 1) * WarpSize - 1 : t < Width}

ScanStart == [w \in MetaWarps |-> [offset |-> 1, pc |-> "read", temp |-> <<>>]]

Read(w) ==
  /\ scan[w].pc = "read" /\ scan[w].offset < Width
  /\ scan' = [scan EXCEPT ![w] = [offset |-> @.offset, pc |-> "write", temp |->
       [t \in Lanes(w) |-> IF t >= @.offset THEN prefix[Base + t - @.offset] ELSE 0]]]
  /\ UNCHANGED <<context, tile, prefix, sum, chunk, meta, cta, warp, smem, written>>

\* Both __syncthreads of an iteration lie between the reads and the writes.
Write(w) ==
  /\ scan[w].pc = "write"
  /\ \A v \in MetaWarps : scan[v].offset > scan[w].offset
       \/ (scan[v].offset = scan[w].offset /\ scan[v].pc = "write")
  /\ prefix' = [k \in DOMAIN prefix |->
       IF k - Base \in Lanes(w) THEN prefix[k] + scan[w].temp[k - Base] ELSE prefix[k]]
  /\ scan' = [scan EXCEPT ![w] = [offset |-> 2 * @.offset, pc |-> "read", temp |-> <<>>]]
  /\ UNCHANGED <<context, tile, sum, chunk, meta, cta, warp, smem, written>>

Add(w) ==
  /\ Base < PlannedBatch
  /\ scan[w].pc = "read" /\ scan[w].offset >= Width
  /\ prefix' = [k \in DOMAIN prefix |->
       IF k - Base \in Lanes(w) THEN prefix[k] + sum ELSE prefix[k]]
  /\ scan' = [scan EXCEPT ![w] = [offset |-> @.offset, pc |-> "joined", temp |-> <<>>]]
  /\ UNCHANGED <<context, tile, sum, chunk, meta, cta, warp, smem, written>>

NextChunk ==
  /\ \A w \in MetaWarps : scan[w].pc = "joined"
  /\ Base < PlannedBatch
  /\ sum' = prefix[Base + Width - 1]
  /\ chunk' = chunk + 1
  /\ scan' = ScanStart
  /\ UNCHANGED <<context, tile, prefix, meta, cta, warp, smem, written>>

\* The first request whose prefix exceeds a segment's start, as the binary search finds it.
FoundIdx(start) ==
  LET search[r \in (0 .. PlannedBatch) \X (-1 .. PlannedBatch - 1) \X (0 .. PlannedBatch)] ==
        LET left == r[1]  right == r[2]  found == r[3]  mid == (left + right) \div 2
        IN  IF left > right THEN found
            ELSE IF prefix[mid] > start THEN search[<<left, mid - 1, mid>>]
            ELSE search[<<mid + 1, right, found>>]
  IN  search[<<0, PlannedBatch - 1, PlannedBatch>>]

\* Mutant: the remainder is not handed out to the first segments.
SegmentStartEven(s) ==
  LET start == s * (sum \div NumBlocks)
      q == FoundIdx(start)
  IN  <<q, (start - (IF q = 0 THEN 0 ELSE prefix[q - 1])) % Word>>

\* schedule_metadata[s]: where segment s starts, a request and a split of it.
SegmentStart(s) ==
  LET start == s * (sum \div NumBlocks) + Least(s, sum % NumBlocks)
      q == FoundIdx(start)
  IN  <<q, (start - (IF q = 0 THEN 0 ELSE prefix[q - 1])) % Word>>

Search ==
  /\ Base >= PlannedBatch /\ meta = <<>>
  /\ meta' = [s \in 0 .. NumBlocks |-> SegmentStart(s)]
  /\ UNCHANGED <<context, tile, prefix, sum, chunk, scan, cta, warp, smem, written>>
-----------------------------------------------------------------------------
(* The logits kernel: two warps that stand for its two halves.  Each is the first *)
(* warp of a math warp group of its own, or both are in the only group.           *)
StageK == 3
Warps == 0 .. 1
Group(w) == w % tile.groups
LoadsK(w) == w < tile.groups
LoadsQ(w) == w = 0

ActualBatch == Batch(context.actual)
NumKv(q) == IF q < ActualBatch THEN context.actual[q] ELSE 0
Segment(s) == <<meta[s][1], (meta[s][2] * tile.groups) % Word>>
End == Segment(cta + 1)

IsLastTask(q, kv) == q > End[1] \/ (q = End[1] /\ kv = End[2])
ExistQ(q) == q < End[1] \/ (q = End[1] /\ 0 < End[2])

Empty == [data |-> <<>>, landed |-> TRUE]
InFlight(data) == [data |-> data, landed |-> FALSE]
Landed(data) == [data |-> data, landed |-> TRUE]

WarpStart(s) ==
  [pc |-> "prologue", fetchQ |-> Segment(s)[1], fetchKv |-> Segment(s)[2],
   q |-> Segment(s)[1], kv |-> 0, kvArray |-> [i \in 0 .. StageK - 1 |-> 0],
   readK |-> 0, writeK |-> 0, readQ |-> 0, writeQ |-> 0, first |-> TRUE,
   regs |-> Empty, acc |-> <<>>, syncs |-> 0, turnsTaken |-> 0, turnsGiven |-> 0]

\* What a warp works on: its own state, shared memory and its copies in flight.
View(w) == [me |-> warp[w], q |-> smemQ, k |-> smemK, p |-> pending[w]]
Commit(w, s) ==
  /\ warp' = [warp EXCEPT ![w] = s.me]
  /\ smemQ' = s.q /\ smemK' = s.k
  /\ pending' = [pending EXCEPT ![w] = s.p]

\* load_q_g2s: the first warp issues the copy, every thread advances its stage.
LoadQ(s, w, q) ==
  [s EXCEPT !.q = IF LoadsQ(w) THEN [@ EXCEPT ![s.me.writeQ] = InFlight(<<q>>)] ELSE @,
            !.p[Len(s.p)] = IF LoadsQ(w) THEN @ \cup {<<"q", s.me.writeQ>>} ELSE @,
            !.me.writeQ = (@ + 1) % tile.stageQ]

\* Copies join the last, uncommitted group of p until a fence opens the next one.
Fence(s) == [s EXCEPT !.p = Append(@, {})]

\* cp_async_wait<n>: all but the last n committed groups have landed.
WaitCopies(s, w, n) ==
  LET open == Len(s.p)
      done == UNION {s.p[i] : i \in 1 .. open - 1 - n}
      Arrive(ring, kind) == [i \in DOMAIN ring |->
        IF <<kind, i>> \in done THEN [ring[i] EXCEPT !.landed = TRUE] ELSE ring[i]]
  IN  [s EXCEPT !.q = Arrive(@, "q"),
                !.k[Group(w)] = Arrive(@, "k"),
                !.p = SubSeq(@, IF open - 1 > n THEN open - n ELSE 1, open)]

LoadK(s, w, data) ==
  [s EXCEPT !.k[Group(w)][s.me.writeK] = InFlight(data),
            !.p[Len(s.p)] = @ \cup {<<"k", s.me.writeK>>}]

\* fetch_next_task: the next split of the row, or the next row, up to the last.
NextTask(q, base) ==
  LET following == (base + tile.groups) % Word
  IN  IF IsLastTask(q, base) THEN <<q, base>>
      ELSE IF following >= NumKv(q) THEN <<q + 1, 0>> ELSE <<q, following>>

\* A split is handed over to the consumer, its copies are one group, and next follows.
HandOver(s, base, next) ==
  Fence([s EXCEPT !.me.kvArray[s.me.writeK] = base, !.me.writeK = (@ + 1) % StageK,
                  !.me.fetchQ = next[1], !.me.fetchKv = next[2]])

\* load_next_qk_g2s: the copies of the next split, if there is one.
LoadNext(s, w, withQ) ==
  LET q == s.me.fetchQ
      base == s.me.fetchKv
      more == ~IsLastTask(q, base)
      kv == (base + Group(w)) % Word
      a == IF more /\ withQ THEN LoadQ(s, w, q) ELSE s
      b == IF more /\ LoadsK(w) /\ kv < NumKv(q) THEN LoadK(a, w, <<q, kv>>) ELSE a
  IN  HandOver(b, base, NextTask(q, base))

\* load_q_s2r
ReadQ(s) == [s EXCEPT !.me.regs = s.q[s.me.readQ], !.me.readQ = (@ + 1) % tile.stageQ]

PrefetchQ(s, w) == Fence(IF ExistQ(s.me.q + 1) THEN LoadQ(s, w, s.me.q + 1) ELSE s)

\* Mutant: no __syncthreads.
NoBarrier(w) == TRUE

\* __syncthreads, and the named barrier a half waits at for its turn.
BarrierPassed(w) == \A v \in Warps : warp[v].syncs >= warp[w].syncs
HasTurn(w) == tile.turns => warp[1 - w].turnsGiven > warp[w].turnsTaken
-----------------------------------------------------------------------------
LaunchCta ==
  /\ meta # <<>> /\ cta < NumBlocks - 1
  /\ cta >= 0 => \A w \in Warps : warp[w].pc = "done"
  /\ cta' = cta + 1
  /\ warp' = [w \in Warps |-> WarpStart(cta')]
  /\ smemQ' = [i \in 0 .. tile.stageQ - 1 |-> Empty]
  /\ smemK' = [g \in 0 .. tile.groups - 1 |-> [i \in 0 .. StageK - 1 |-> Empty]]
  /\ pending' = [w \in Warps |-> <<{}>>]
  /\ UNCHANGED <<context, tile, metaVars, written>>

LogitsUnchanged == UNCHANGED <<context, tile, metaVars, cta>>

\* StageK - 1 splits ahead, the first with its row of Q.
Prologue(w) ==
  /\ warp[w].pc = "prologue"
  /\ LET s == WaitCopies(LoadNext(LoadNext(View(w), w, TRUE), w, FALSE), w, StageK - 2)
     IN  Commit(w, [s EXCEPT !.me.kv = s.me.kvArray[0], !.me.pc = "start", !.me.syncs = @ + 1])
  /\ UNCHANGED written /\ LogitsUnchanged

\* warp_interleave_start lets the first half go first.
Start(w) ==
  /\ warp[w].pc = "start" /\ BarrierPassed(w)
  /\ Commit(w, [View(w) EXCEPT !.me.pc = "loop",
                               !.me.turnsGiven = IF tile.turns /\ w = 1 THEN 1 ELSE 0])
  /\ UNCHANGED written /\ LogitsUnchanged

\* The head of the loop: mainloop runs while there is a task, in the warp's turn.
Entering(w) ==
  /\ warp[w].pc = "loop" /\ HasTurn(w)
  /\ ~IsLastTask(warp[w].q, warp[w].kv)

Entered(w) == [View(w) EXCEPT !.me.turnsTaken = @ + 1]
NewRow(w) == warp[w].first \/ warp[w].kv = 0

SameRow(w) ==
  /\ Entering(w) /\ ~NewRow(w)
  /\ Commit(w, [Entered(w) EXCEPT !.me.pc = "next"])
  /\ UNCHANGED written /\ LogitsUnchanged

\* handle_q_change with two Q stages: the next row is on its way while this one is read.
ChangeRow(w) ==
  /\ Entering(w) /\ NewRow(w) /\ tile.stageQ > 1
  /\ Commit(w, ReadQ(PrefetchQ([Entered(w) EXCEPT !.me.pc = "next"], w)))
  /\ UNCHANGED written /\ LogitsUnchanged

\* handle_q_change with one Q stage: everyone has read it before it is overwritten.
ReadRow(w) ==
  /\ Entering(w) /\ NewRow(w) /\ tile.stageQ = 1
  /\ Commit(w, ReadQ([Entered(w) EXCEPT !.me.pc = "refill", !.me.syncs = @ + 1]))
  /\ UNCHANGED written /\ LogitsUnchanged

RefillRow(w) ==
  /\ warp[w].pc = "refill" /\ BarrierPassed(w)
  /\ Commit(w, PrefetchQ([View(w) EXCEPT !.me.pc = "next"], w))
  /\ UNCHANGED written /\ LogitsUnchanged

LoadAhead(w) ==
  /\ warp[w].pc = "next"
  /\ Commit(w, LoadNext([View(w) EXCEPT !.me.pc = "mma"], w, FALSE))
  /\ UNCHANGED written /\ LogitsUnchanged

\* The products of this split, after which the other half has its turn.
Multiply(w) ==
  /\ warp[w].pc = "mma"
  /\ Commit(w, [View(w) EXCEPT !.me.pc = "store",
                  !.me.acc = <<warp[w].regs, smemK[Group(w)][warp[w].readK]>>,
                  !.me.turnsGiven = IF tile.turns THEN @ + 1 ELSE @])
  /\ UNCHANGED written /\ LogitsUnchanged

\* The part of the logits that the epilogue of warp w stores.
Part(w) == <<warp[w].q, warp[w].kv + Group(w), w>>

\* The epilogue; a split past the end of its row stores into the row's padding.
Store(w) ==
  /\ warp[w].pc = "store"
  /\ written' = [p \in DOMAIN written |-> IF p = Part(w) THEN written[p] + 1 ELSE written[p]]
  /\ LET s == WaitCopies(View(w), w, StageK - 2)
     IN  Commit(w, [s EXCEPT !.me.pc = "advance",
                             !.me.syncs = IF tile.turns THEN @ ELSE @ + 1])
  /\ LogitsUnchanged

\* The consumer's row is not fetched: it is the next one whenever a split starts at 0.
Advance(w) ==
  /\ warp[w].pc = "advance" /\ (tile.turns \/ BarrierPassed(w))
  /\ LET stage == (warp[w].readK + 1) % StageK
         kv == warp[w].kvArray[stage]
     IN  Commit(w, [View(w) EXCEPT !.me.pc = "loop", !.me.readK = stage, !.me.kv = kv,
                      !.me.q = IF kv = 0 THEN @ + 1 ELSE @, !.me.first = FALSE,
                      !.me.acc = <<>>])
  /\ UNCHANGED written /\ LogitsUnchanged

\* warp_interleave_end takes the turn that is left over.
Leave(w) ==
  /\ warp[w].pc = "loop" /\ IsLastTask(warp[w].q, warp[w].kv)
  /\ w = 0 => HasTurn(w)
  /\ Commit(w, [WaitCopies(View(w), w, 0) EXCEPT !.me.pc = "done"])
  /\ UNCHANGED written /\ LogitsUnchanged

Done == cta = NumBlocks - 1 /\ \A w \in Warps : warp[w].pc = "done"
Finished == Done /\ UNCHANGED vars
-----------------------------------------------------------------------------
\* The parts of the logits of every KV tile, one for each warp of its math warp group.
Parts == {p \in UNION {{q} \X (0 .. NumKv(q) - 1) \X Warps : q \in 0 .. ActualBatch - 1} :
            Group(p[3]) = p[2] % tile.groups}

Init ==
  /\ context \in Contexts /\ tile \in Tiles
  /\ prefix = [k \in DOMAIN context.planned |-> CeilDiv(context.planned[k], tile.groups)]
  /\ sum = 0 /\ chunk = 0 /\ scan = ScanStart /\ meta = <<>>
  /\ cta = -1 /\ warp = <<>> /\ smemQ = <<>> /\ smemK = <<>> /\ pending = <<>>
  /\ written = [p \in Parts |-> 0]

MetaStep == NextChunk \/ Search \/ \E w \in MetaWarps : Read(w) \/ Write(w) \/ Add(w)

WarpStep(w) ==
  \/ Prologue(w) \/ Start(w) \/ SameRow(w) \/ ChangeRow(w) \/ ReadRow(w) \/ RefillRow(w)
  \/ LoadAhead(w) \/ Multiply(w) \/ Store(w) \/ Advance(w) \/ Leave(w)

LogitsStep == cta >= 0 /\ \E w \in Warps : WarpStep(w)

Next == MetaStep \/ LaunchCta \/ LogitsStep
Spec == Init /\ [][Next \/ Finished]_vars
-----------------------------------------------------------------------------
\* What a warp is about to store is the product of the row of Q and the KV tile of
\* the very place it stores to, both landed before they were used, and the scales,
\* which it reads from the stage last, are still those of that tile.  The place is
\* recomputed by the consumer, the tiles were chosen by a fetcher two splits ahead.
PairsItsTile == \A w \in Warps :
  (cta >= 0 /\ warp[w].pc = "store") =>
    /\ warp[w].q < ActualBatch
    /\ warp[w].kv + Group(w) < NumKv(warp[w].q) =>
         LET place == <<warp[w].q, warp[w].kv + Group(w)>>
         IN  /\ warp[w].acc = <<Landed(<<place[1]>>), Landed(place)>>
             /\ smemK[Group(w)][warp[w].readK] = Landed(place)

\* When the metadata kernel searches prefix_sum, it holds the running sums of the
\* splits of the requests, as its comment "calculate prefix sum" says.
PrefixIsSum ==
  LET total[k \in DOMAIN prefix] ==
        CeilDiv(context.planned[k], tile.groups) + (IF k = 0 THEN 0 ELSE total[k - 1])
  IN  Base >= PlannedBatch => prefix = total

\* No tile of logits is computed by two CTAs or twice by one, and in the end all are,
\* whatever the number of CTAs, empty requests included; even when the context lengths
\* have changed since the schedule was planned, as under a replayed graph, provided
\* the batch has not and its first request was not planned empty.
EveryTileOnce ==
  LET covered == \/ context.planned = context.actual
                 \/ PlannedBatch = ActualBatch /\ context.planned[0] > 0
  IN  /\ \A p \in DOMAIN written : written[p] <= 1
      /\ (Done /\ covered) => \A p \in DOMAIN written : written[p] = 1
=============================================================================
