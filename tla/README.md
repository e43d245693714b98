# TLA+ models of DeepGEMM for PPU

This directory specifies what is hard to get right and hard to test in the repository: how CTAs,
warps and ranks hand data to each other, who computes which tile, what the host decides before a
kernel runs, and the kernel cache that processes share through a file system. TLC checks every model
on small instances; TLAPS proves what matters most for every value of the constants.

## The system

| Component | State it keeps | Operations | What is hard |
|---|---|---|---|
| Grid synchronisation (`comm/barrier.cuh`, `grid_sync`) | one 32-bit counter, never reset | add, spin on the tag bit | reuse of the word, slow pollers, exact sums |
| End-of-round handoff (`fp4_scatter_release`, `fp4_scatter_acquire`, GEMM2 of `sm89_fp4_fp4_mega_moe.cuh`) | two signal words per bank and rank, a phase counter, the mode of each phase, the scatter storage peers write | scatter, release, notify peers, acquire, reduce | words count up and down, carry mode bits, ranks a round apart |
| Pre-dispatch (`fp4_mega_moe_pre_dispatch.cuh`) | slot counters, retirement tickets, the generation word; staging and arrivals on every peer | push counts, claim slots, push tokens, fence, retire, reset, arrive | the last CTA resets what others read, remote stores before arrivals, double buffers by parity |
| Fused GEMM1 (`fused_dispatch.cuh`, `expert_preprocess.cuh`, waits of `fp4_mma.cuh`) | metadata word, copy watermarks, scale flags, tile ticket | prepare, copy stripes, reshape scales, take and compute tiles | words tagged by generation, wrap, counts below zero, tiles across partitions |
| GEMM, MoE, logits and hyper-connection kernels (`impls/`, `mma/`, `epilogue/`, `cute_free/`) | stages, exchange and reduction buffers in shared memory, named barriers, groups of asynchronous copies; counters and partial results in global memory | prologue, K loop, epilogue, next tile | stages refilled while warps lag, buffers that overlay stages, barriers that only count, last-CTA reductions |
| Tile schedulers (`scheduler/`) | the group cursor of a CTA, lists of M blocks | next tile | every CTA works alone: short bands, empty groups, builders of different shapes |
| Routing preprocessing (`moe_align.hpp`, `utils.cuh`) | counts, prefix sums, sorted token lists | count, scan, scatter, list blocks | padding, bounds of buffers, order of equal experts |
| Paged MQA logits (`paged_mqa_logits_scheduler.cuh`, `ppu_paged_mqa_logits.cuh`) | prefix sums, the schedule, rings of Q and KV | scan, search; fetch, load, multiply, store | schedules planned for other lengths, a fetcher ahead of its consumer, warps that take turns |
| Symmetric buffer (`layout/mega_moe.cuh`, `apis/mega_moe.hpp`, `mega/__init__.py`) | offsets, sizes, the shape of the owner | construct, share as a view | views of several shapes overlap |
| Heuristics (`heuristics/`) | tables | choose tiles, stages, grids, plans | numeric edges, 32-bit overflow, corrections that undo each other |
| APIs and launchers (`apis/`, `jit_kernels/impls/`) | the caller's tensors, C, scales in several layouts | check, convert, redirect, launch | what a call leaves behind, views that interleave |
| Streamed GEMM (`w4a8_streamed_gemm.hpp`) | two internal streams per caller stream, events, two scratch tiles | decode a part, multiply a part, fork, join, drain | two engines over two tiles, events recorded anew, a submission that fails half way |
| JIT (`csrc/jit`) | per process: include hash, loaded kernels, tables; on disk: cache directories | build, load, publish by rename | racing ranks, crashes, stale entries |

How they interact. A call of the API checks its operands, asks the heuristics for a configuration,
has the JIT build the kernel with that configuration as template arguments, and launches it on the
caller's stream. The scheduler inside the kernel gives each persistent CTA its tiles from sizes
found on the device, which routing kernels may have prepared; the mainloop and epilogue of the CTA
compute a tile. A MegaMoE round is three launches on every rank: *pre-dispatch* tells every owner
how many tokens of this rank go to each of its experts and where they are, and writes the generation
of the round into the rank's arrival slot at every peer; *GEMM1* waits for the arrivals of all
ranks, builds the layout, fetches rows, reorders scales and computes the first product, its CTAs
talking through words in global memory; *GEMM2* computes the second product, scatters it into the
storage of the rank each token came from, signals the peers, waits for their signals and reduces.
The signals are what lets a rank overwrite, in its next round, what peers were reading in this one.

## Modules

### Protocols between CTAs, ranks and processes

| Module | Models | State and actions |
|---|---|---|
| `Barrier` | what a reusable barrier promises | `arrived`, `left`; `Enter`, `Leave` |
| `GridSync` | `grid_sync` | `counter` is the workspace word, `old` the value before a block's addition; `Arrive` is the atomic addition, `Pass` the load that ends the loop |
| `GridProofs` | | proofs about `GridSync`, and about `TileSchedule` below |
| `ScatterBarrier` | the end of a round on all ranks | `pc[r][b]` is where CTA `b` of rank `r` is; `signal` the words, `phaseCounter`, `writerPrevious` as in `ScatterSignals`; one action per statement of `fp4_scatter_release` and `fp4_scatter_acquire` |
| `ScatterBarrierProofs` | | proofs about `ScatterBarrier` |
| `MegaDispatch` | pre-dispatch on all ranks and the owner's wait | one cell per count, route entry, scale and row, with the round that wrote it and the CTA whose store may still be in flight; one action per phase of a CTA |
| `MegaDispatchProofs` | | proofs about `MegaDispatch` |
| `FusedDispatch` | GEMM1 on one rank | the flag words with the arithmetic of the code, modulo `WordRange`; one action per publish, wait and load |
| `FusedDispatchProofs` | | proofs about `FusedDispatch` |
| `JitCache` | the JIT's caches on all ranks | `disk` is the cache directory, `tmp` a build's own directory; one action per file system step; crashes of compiler, process and machine |
| `CallProofs` | | proofs about `JitCache` and `HostCalls` |
| `NatFacts` | | facts about numbers that the proofs share |
| `StreamedGemm` | streamed calls of several host threads | `stage` and `part` are how far a thread's submission is, `queue` and `running` the streams, `consumed` what each of these events stands for, `pendingOn` what the next kernel of a stream has to wait for; a kernel spoils what it writes between `Start` and `Finish`; `Fail` anywhere in a submission, and `Use`, the caller's next work in storage that the call has freed |

### Inside a CTA

A kernel is a *program* for each of its warps: the sequence of loads, fences, waits, reads, writes,
barriers and counter operations of its K loop, its epilogue and its walk over tiles, with the guards
of the code, unrolled for a number of K tiles and tiles. `CtaOps` has the operations, `CtaMachine`
runs the programs of all warps in every order: a copy lands at any time before the wait that covers
its group, what its destination holds until then is undefined, a barrier only counts, and nothing
else orders two warps. What a warp reads is compared with what the program means to read.

| Module | Kernels |
|---|---|
| `Bf16Programs` | bf16 on cutlass3, several column blocks, the split-K kernel of the 810E, the SBO signal; bf16 and int8 with an overlapped prologue, the kernel whose two groups of warps share a ring |
| `DensePrograms` | dense bf16 and int8 with K split over warps and three reductions, without CuTe, int8 with dynamic tiles |
| `WeightPrograms` | fp8, fp4, w4fa16, w4fa8, w4a16, a8w4, streamed w4a8, the fused MoE kernels |
| `MegaPrograms` | both GEMMs of MegaMoE, also with specialised warps over three slots; grouped fp4 with and without dynamic tiles and the fused activation |
| `LogitsPrograms` | mqa, sparse and paged mqa logits |
| `HyperPrograms` | the prenorm GEMM and both MegaMHC kernels, with tickets and partial results over several launches |

### Who computes what

| Module | Models |
|---|---|
| `MoeAlign` | both ways of grouping pairs by expert, the list of M blocks, and the buffer sizes of the host; kernels are operators from buffers to buffers |
| `TileSchedule` | the four schedulers kernels instantiate, for dense, batched, contiguous, masked, packed and routed problems; a job is run to its cells, the signals it adds, and what the host promises of them |
| `PagedLogits` | metadata kernel and paged logits kernel: `scan[w]` is a metadata warp inside the scan, `meta` the schedule, `warp[w]` the state of a logits warp, `smemQ`, `smemK` the rings |
| `PagedLogitsProofs` | proofs about `PagedLogits` |

### What the host decides

| Module | Models |
|---|---|
| `AdaptiveTiles`, `TileLadder`, `Fp4Tiles` | the adaptive selector of PPU1.5; the walks and corrections of bf16, int8, fp8 and fp4; occupancy |
| `TileSearch`, `TileConfigs` | the search for large products with its pruning, its heap and its 32-bit overflow; compiled-in tables and which of all these a launcher ends up with |
| `WeightTiles` | fp8 rows with fp4 weights: native tiles, the chunks and policies of the streamed plan, which of them is chosen, what is refused, and what the generated code asserts |
| `Dispatch810e`, `Dense810e` | the measured tables of the 810E; its strided batches, split-K, TSM and hybrid launches and what their CTAs write, address by address |
| `MegaConfigs`, `MegaLayout` | the launch configurations of both phases of MegaMoE; the symmetric buffer, `owner`, `views`; `Allocate` and `Share` are the two ways to construct a `SymmBuffer` |
| `HostProofs` | proofs about `MegaLayout` and `Dense810e` and, in the same module, `StreamedGemm` |
| `HostCalls` | a GEMM call from the checks of the API to the launch and what it leaves in D and in the scales; calls follow one another on one stream |

PROJECT.json's "map" gives the source of each definition. A helper whose lines lie within those of
other listed definitions is not listed again.

The `MC*` modules choose values for TLC. `MCHost` and `MCSchedules` put parts with no state in
common side by side: a behaviour belongs to one of them, so that their states add up and never
multiply.

How they fit. `GridSync` implements `Barrier`; `ScatterBarrier` uses the barrier where the code
calls `grid_sync` (a CTA is let through when all have entered). `MegaDispatch` shows that an owner
reads the right data once it has seen the arrivals and as long as a rank starts a round only after
all ranks released the previous one; `ScatterBarrier` shows that this is what its signals give, from
the fact that GEMM1 waits for the arrivals of the round. `FusedDispatch` starts where `MegaDispatch`
stops, at the metadata of a round, and computes as one step what `MegaPrograms` does tile by tile;
`MegaLayout` says where the words and buffers of all of them are. `TileSchedule` takes the lists
that `MoeAlign` builds, and block shapes as parameters; `HostCalls` instantiates the heuristics and
checks that what they choose is what the kernels' assertions admit. `WeightTiles` makes the plans
whose execution `StreamedGemm` follows and whose kernels are programs of `WeightPrograms`.

What the data is reduced to. A tile, row, scale or count is the round, the K tile or the part it
belongs to; a store that has been issued and not yet fenced is marked, and reading it counts as an
error. Memory is otherwise sequentially consistent: the models say which fences are needed for the
properties, not which flavour of instruction implements them. Sizes that host code computes are
numbers; ratios that it computes in doubles are compared as the fractions they stand for.

## Runs

| Run | Instance | Shows |
|---|---|---|
| `grid_sync` | 4 CTAs, tag 4, three synchronisations | `Together` nobody leaves early; `CounterReturns` the word can be used again; `AllPass` nobody is left behind; `ImplementsBarrier` |
| `scatter` | 2 ranks of 2 CTAs: banks of their own, 5 rounds, second grid sync; or one shared bank, 3 rounds, without it; all mixes of writer modes | `ReduceReadsRound` what is reduced is this round's and landed; `MaskNamesWriters` under the writers' modes; `PhaseAgrees`; `SignalAccounts` of the packed word under concurrent additions; `AllRoundsEnd` (shared bank) |
| `dispatch` | 2 ranks, 2 tokens, over the end of the generations; or 1 rank whose 2 token CTAs compete for 2 experts, from fresh memory; 3 rounds | `OwnerReadsRound` an owner that saw the arrivals reads this round's data, landed; `GenerationAgrees`; `CountersRestart`; `AllRoundsRead` (one rank) |
| `fused` | 2 copy and 2 compute CTAs, 2 experts, 3 M blocks, 2 K tiles, 2 rounds | `LoadsAreReady` no stale or partial flag is taken for readiness; `TilesDisjoint`, `OutputComplete` every tile exactly once; `LaunchesEnd` |
| `jit_cache` | 2 processes, 2 kernels, 2 header versions, 2 faults | `ReturnsOwnKernel`, `DirectoriesWhole`, `FailsForCause` |
| `mainloops` | 36 kernels in some 300 configurations, 2 to 4 warps; kernels with the SBO signal also without it, where a tile has one CTA barrier less | `TakesWhatIsMeant` what a warp reads is complete, landed and what it means to read; `StoresWhatIsExpected` accumulators took each K tile once; `EveryTileStored` no CTA hangs or skips; `OncePerGeneration`, `BarriersDrained` named barriers; `SignalsFollowStores` |
| `schedules` | tile schedulers over three groups, and paged logits over one to three requests | `EveryCellOnce` every output once and with the rows of its group, but for the column block that int8 drops; `SignalsMatchBlocks` as many signals as promised; `RoutingIsStable`, `BuffersFit` of the routing kernels; `PairsItsTile`, `EveryTileOnce` of paged logits, also with a schedule planned for other lengths |
| `host` | calls of every API, 810E products, MegaMoE buffers, streamed calls | `ConfigRuns` what is chosen builds and is not refused; `ScalesReadAsGiven`; `ProductsAreWhole`; `RegionsDisjoint`, `ViewsAgree`, `IndicesFit` of the buffer; `RunsOnItsData` of streamed calls |
| `paged_scan` | 4 requests, 2 metadata warps | `PrefixIsSum` is violated |
| `fp4_fused` | 1 CTA of 2 warps, 2 tiles | `TakesWhatIsMeant` is violated |
| `sbo_signal` | SBO overlap with masked fp8 and small K, and with masked fp4 and dynamic tiles | `WordsReachThreshold` is violated |
| `host_results` | dense products with and without C | `ResultIsRight` is violated |

### What the violated properties say

1. `paged_scan`. In `paged_mqa_logits_scheduler.cuh` the two `__syncthreads` of a scan iteration
   both stand before the write, so a warp can read for its next iteration (line 30 or 46) what
   another has not written yet (line 35 or 51). With more than one warp, which is any batch above
   32, an element of `prefix_sum` may come out too small, although the comment at line 21 says
   "calculate prefix sum". When the last one does, the schedule ends early and the last splits are
   computed by no CTA. `schedules` scans with one warp, where the order of its lanes excludes this.
2. `fp4_fused`. The persistent fp4 kernel with the fused activation goes from the epilogue straight
   to the next mainloop; the first copy overwrites activations that a slower warp has still to
   quantise. The comment at `fp4_gemm_cutlass3.cuh:725` justifies the union of both by a kernel that
   is not persistent.
3. `sbo_signal`. For K up to 512 and two stages the fp8 kernel picks tiles four column blocks wide
   and signals once per tile; the host returns the number of column blocks as the threshold, which
   no word reaches.
4. `sbo_signal` again, for other jobs. With `DG_USE_MOE_DYNAMIC_TILE` the masked fp4 GEMM runs the
   dynamic-tile kernel also when SBO overlap is asked for. That kernel has no signal, so all words
   stay at zero, while the host returns a threshold; the int8 host turns the dynamic tile off in
   this case. TLC shows the violation it meets first; with `DynamicSbo` alone for `Jobs` it shows
   this one.
5. `host_results`. `early_return` copies C to D, and the int8, fp8 and fp4 kernels then store the
   product over it: C is lost for every K > 0, while K = 0 gives C.

### Why these bounds

*Rounds*: a signal word is used every second round and shows the four combinations of phase bits
within four; five rounds wrap around. Staging is used every second generation, so three rounds reuse
a buffer. Generations are bounded by `GenerationLimit`, a small odd number like the code's, and
start at or just below it and at fresh memory, so both the wrap and the first use happen. *CTAs*:
two of a kind are needed for one to overtake another; four in `GridSync` make sums that could carry
early. *Words*: `WordRange`, `FinishTag` and `Word` are small enough for the arithmetic to wrap, and
large enough to tell a negative start from a real one. *Ranks*: the protocols treat peers alike; two
can be a round apart, and both arrangements of banks are run.

*Inside a CTA*: two warps of which one loads, or both, with four where a reduction is a tree; two
and three stages; one K tile (fewer than stages) and four (more), so that the loop, its refills and
the loads skipped behind the last K tile all occur; two tiles, so that one follows the other over
the same memory, and three or four where a kernel alternates; two launches where counters outlive
one. Operations that no other warp can tell apart are taken in one step with those before
(`CtaMachine` says which), and each kernel is a behaviour of its own.

*Schedules*: two lanes, warps, chunks and threads of a scan (`WarpLanes`, `ScanWarps`, `Chunks`,
`ScanWidth`) keep every boundary of the routing kernels within ten pairs; groups of 0 to 13 rows are
empty, exact, partial and more than the largest builder; bands of one and two M blocks end short;
CTAs of a grid share nothing, so each is run on its own. The int8 jobs with wide tiles have one, three
and four column blocks: the halved number is zero, short and exact. Logits: three CTAs share up to twelve
splits with remainders 0, 1 and 2; requests are empty, shorter and longer than a segment; a copy
counts as landed when its own warp has waited for it, never before.

*Host*: heuristics are evaluated with the real constants and sizes. `FirstCalls` takes shapes from
every branch: one row to thousands, odd and short N and K, few and many groups, sums that overflow,
every row of the built-in and measured tables, user tables and user tiles, scales in five layouts,
and pairs of GEMMs of an MLP that pass scales on. Buffers: every dimension of `Shapes` takes a small
and a larger value, so that views are larger than the allocation in one and smaller in another.
Products of the 810E are small enough to compare every address: strides interleave, touch and
overlap. Streamed calls: two host threads (interchangeable: `SYMMETRY`), `MaxStreamed` = 2 calls,
three parts with rows gathered by the decoder (the first tile is used twice) or two with rows
gathered ahead; a call may fail at every kernel it submits.

### Fairness

CTAs spin on words other CTAs write. The host sizes every such grid by the kernel's occupancy
(`launch_gemm`), so all its CTAs are resident and each keeps executing: weak fairness per CTA in
`GridSync` and `FusedDispatch`, per rank in `ScatterBarrier` and `MegaDispatch`, where a rank's step
is that of any of its CTAs. Streams launch what was enqueued, and the host enqueues the rounds. With
several setups in a run the fairness and the liveness property are those of the setups in `Live`. No
run assumes strong fairness. `mainloops`, `schedules` and `host` state no liveness: their programs
are finite, deadlock is checked, and `EveryTileStored` says what has been done when a CTA has come
to its end. `JitCache` waits for nothing.

Deadlock is checked in every run; models whose work is bounded stutter explicitly when all of it is
done.

## Proofs

`GridProofs` proves, for every number of CTAs that the tag can hold and any number of
synchronisations, `TypeCorrect`, `AlwaysTogether`, `AlwaysCounterReturns` and `Refinement`
(`GridSync` implements `Barrier`), from `GridAssumption` alone: the code's grids have far fewer than
2^31 CTAs.

The properties are not inductive by themselves: nothing in them says what the counter is while some
CTAs wait. The invariant `IInv` says that at any time there is a synchronisation `g` being gathered:
every CTA is before it, waits in it, or still waits in `g - 1` although that one is complete; the
low bits of the counter are the sum of the increments of those that wait in `g`, and its tag is the
parity of `g`; a CTA that waits in `g` remembers a word of that parity, one that still waits in `g -
1` a word of the other. The last arrival turns `g` into `g + 1`: the sum of all increments is
exactly the tag (`FullWeight`), of fewer it is below it (`PartialWeight`). A CTA can pass only if it
is of the second kind, because only then the tag it remembers differs.

`CallProofs` proves the three properties of `JitCache` for any set of processes, arguments and
header versions and any number of faults: `AlwaysDirectoriesWhole`, `AlwaysReturnsOwnKernel`,
`AlwaysFailsForCause`. None is inductive alone. A directory is whole because the temporary directory
was when it was renamed, a kernel is the right one because the directory and both tables of the
process hold only kernels of the headers it hashed, and those are the installed ones because headers
are replaced only while nothing runs; a second miss of `get` cannot happen without a fault because
by then the directory is there, by this process or by the one that won. `IInv` says this of each
process: `Memory` (its hash), `Tables` (what it holds), `Temporary` (its own directory at each point
of a build), `Published` (which directory must exist). The step of one process disturbs no other: it
only adds directories (`Frame`), so each action is looked at for the process that takes it
(`Assemble`). The bound `MaxFaults` plays no part.

`CallProofs` also proves `AlwaysScalesReadAsGiven` of `HostCalls`, for any calls in any order, from
`CallsAssumption`: the caller's scales lie as their strides say, only fp4 calls have output scales. The
invariant `CallsInv` says where in a call scales lie as their strides say, and where as the kernel
reads them (`ScalesFitKernel`): a check of strides is enough because both are then the same
(`CheckedIsNMajor`), a copy is N-major whatever it is made from (`RelaidHolds`). From the launch to the
return the output scales lie N-major and are still addressed K-major; a call that reads them comes
behind the return, and no call that adds C, and so returns elsewhere, has any (`SumsFuseNothing`).

`ScatterBarrierProofs` proves the four invariants of `ScatterBarrier` for every number of ranks (a
power of two up to 64), every grid, both arrangements of banks and any number of rounds. `IInv` says
how far apart things can be. `Close`: the launches of two ranks differ by at most one. `Joined`: no
CTA is past the grid sync while one of its rank is before it. `Abreast`: once a CTA has started,
GEMM1 having waited for the arrivals, every rank has dispatched this round. From these the memory is
a function of the positions: `PhaseCounts` gives the counter of a rank by whether its block 0 has
retired; `Stored` says which round a cell of the scatter storage holds by where its writer is, so
that a rank that is one launch ahead has not yet touched what a peer still reduces; and
`SignalAccounts`, a word by word account, says that every signal word is one count per writer that
has used the phase an odd number of times, plus the mode bits last notified. Counting up and down
never carries into the mode bits, because no rank notifies a word twice before all of them have
notified it once.

`FusedDispatchProofs` proves the three invariants of `FusedDispatch` for any number of copy and
compute CTAs, experts, M blocks, stripes (up to the seven that the tag has bits for), K tiles and
rounds. It takes from `FusedAssumption` that the words are wider than any tag and any count of
blocks, that generations end at an odd limit, and that a plan fits the pool; the code has 32-bit
words, and its buffers are sized by the pool. Each published block or item is written by the one CTA
whose stride reaches it, so its progress is read off that CTA's program counter (`Progress`,
`ItemDone`). The invariant says what each word holds in these terms: a copy flag is this
generation's tag of the progress or an older tag (`CopyTags`), an item's flag is the generation or
an older one, and the count of an expert with shared rows lacks exactly the chunks that are not
done, modulo the width of the word (`ScaleTags`). A word that equals what a waiter looks for
therefore means that the rows and scales have landed (`Rows`, `Scales`). The wrap is the difficult
case: generation 2 is the one that may follow the last, and its prepare clears what would otherwise
be taken for a newer tag.

`MegaDispatchProofs` proves the three invariants of `MegaDispatch` for every number of ranks (a
power of two up to 64), experts, tokens, CTAs, rounds and routings and from every first generation.
`Stages` connects the ranks: at most one round apart, and an owner reads when every rank has retired
its round. Everything else is said of one rank at a time (`RankInv`), so a step of one rank is
looked at for that rank and the others are untouched. The generation word steps forward with the
last retirement and not before (`Words`), tickets count the retired CTAs (`Tickets`), the slot
counter of an expert counts the claims, and the slots held by CTAs differ (`Claims`). An arrival
word that shows the generation of this round tells that its rank has retired in it, and the word of
the other half never shows the next (`Arrivals`): generations wrap at an odd limit above three, so
two rounds of one parity that follow each other differ. What has been pushed is read off the CTAs:
below the claims, each entry is in progress or a token of the expert, and each token that was pushed
has one (`Entries`); as many entries as tokens, and one each, leave none wrong. A store in flight
belongs to a CTA that has not reached its fence (`Writers`).

`HostProofs` proves the three invariants of `MegaLayout` for every number of ranks (a power of
two up to 64), any shapes and any number of views of one allocation. The offsets of any list of
regions grow by at least the size of each (`PlaceFacts`, `OffsetsGrow`), which makes the regions
disjoint, and lists that begin alike give their beginnings the same offsets (`OffsetsAgree`), which
makes the views agree. The invariant only says of which shapes there are views and that each fits
the staging of the owner; the rest is arithmetic about a shape: `PoolFits` counts M blocks,
`RowsApart` follows the rounded rows of the experts for every numbers of tokens. `LayoutSpec` is the
specification of this part alone; the `host` run composes the same actions with the other parts.

`HostProofs` also proves `RunsOnItsData` of `StreamedGemm` for every number of host threads and calls and plans of
any number of parts, with submissions that fail anywhere. Kernels have their number on their stream,
and the invariant says of those that may still run which waits for which (`Covers`): a core for its
decoder and all before (`CoreWaits`); a decoder for the core that read its tile last and for all
cores of earlier calls, whose events the call has recorded anew (`DecoderWaits`, `Reaches`: the wait
may go by way of the caller stream); whatever the caller does in freed storage, and a gather, for
every core that still needs tile or rows (`DecodersApart`, `CoresApart`). The same is said of the
next kernel of each stream (`NextWaits`, `Joined`, `NextApart`), which is what a submission builds
on; one that fails is broken off anywhere, and its lock goes only when both streams are empty, so
that it leaves nothing behind that the next call would have to wait for. Once its decoder is gone a
tile is what its core needs, and so are the rows (`CoresHold`). A kernel that starts needs nothing
more: what it waits for has finished, so nothing that it would disturb, or that would disturb it, is
queued in front of it (`HeadsReady`).

`HostProofs` proves `ProductsAreWhole` of `Dense810e` for every call. The overlap check compares each
difference of batches with the nearest multiple of the row stride on either side; it stands for all
others (`NearestDecides`), so an accepted output has no shared address (`AddressesDiffer`) and a
refused one has two elements that share one (`SharedAddress`): the check is exact, for all strides.
Launches cover the product, in either order of the grid and with rows in two parts
(`LaunchesCover`); each K tile is in exactly one split although splits differ in length
(`TakenOnce`). The invariant then follows the CTAs in any order: what they have stored to D, or kept
in the workspace, is right (`StoredSoFar`, `KeptSoFar`).

`PagedLogitsProofs` proves the three properties of `PagedLogits`, `PairsItsTile`, `EveryTileOnce`
and `PrefixIsSum`, for every batch, kernel configuration and number of CTAs, under one hypothesis:
`OneWarp`, the metadata kernel has no more threads than a warp, as with batches up to 32 requests.
Without it `PrefixIsSum` is false (run `paged_scan`), and a schedule searched in wrong sums covers
nothing for sure. `schedules` runs with one warp, too. The argument has three parts.

The schedule. After the iterations of its scan up to distance `o`, an element of the chunk is the
sum of the last `o` splits, or of all since the chunk began (`Scanned`); the write doubles the
window. When all chunks are done `prefix_sum` holds the running sums. The binary search is a
recursive function of a range: a function with these equations exists (`AnswerExists`), and whichever
TLA+ chooses answers with the first element above the start (`SearchAnswers`, by induction over the
length of the range). The starts cover 0 to the sum in order (`StartFacts`), so segments do not wrap,
follow one another and end with the batch (`Schedule`, `Whole`).

One CTA. `Task` is the sequence of splits from its segment's first to the next one's. A warp is at
one of them, although it recomputes the row it works on and its fetcher, two or three tasks ahead,
computes its own (`Walks`); each ring slot that will be read holds the tile of the task that reads
it, landed or in the group of copies the warp waits for first (`TilesIn`, `RowsIn`, `Queued`). The
halves meet in a ring only when one loads what the other reads: `InStep` says that barriers, or
turns, keep the reader at most one task behind, so that the stage it reads is not the one refilled.
The lemmas `...Moves`, one per action, preserve this for the warp that moves, `KernelKept` for both.

The whole batch. A part of the logits has been written once if its split lies between the first
segment's start and the task its warp has come to, and not at all otherwise (`WrittenOnce`). A warp
ends where the next CTA begins, or past the splits that a shortened row no longer has.

`GridProofs` also proves `EveryCellOnce` of `TileSchedule` for every job without a list of blocks
(`AlwaysEveryCellOnce`: the schedulers `walk`, `expand` and `builders`, that is dense, batched,
contiguous, masked and packed problems), any sizes of groups, number of CTAs and order of fetches.
`JobsAssumption` says what such a job is: positive widths, rows of a masked group that fit, a
contiguous layout that ends where its groups do, tile tables in whole units, the int8 tables of
wide tiles for K above 2048 only, and SBO overlap for masked problems only, not with the dynamic
tile of int8. The output may have any width. What is stored is then every cell of the job but the
`Dropped` ones: where the int8 kernel halves an odd number of column blocks (`HalvesOdd`), the last
block of that group is lost (see Observations), and the property says exactly which cells these
are, so that nothing else can be missing. The argument goes from the inside out.

A group. The swizzle of a band is invertible, turned or not (`SwizzledInjective`, `SwizzledOnto`),
and a scheduler counts as many indices for a group as it has blocks of the shape its builder picks,
or one column of them less where it halves an odd number (`OddBlocks`, `ExpandGroup`).
The int8 and fp4 dynamic kernels swizzle by the columns of the largest builder, which are not always
those of the group: either they are equal, or the group has a single row of blocks, where the
swizzle runs straight along the columns (`EveryGroupCovered`, `SwizzleFits`); that a group of several rows always
gets the former is a fact about the tables.

A job. The indices below `Total` and the blocks of all groups are in bijection, group after group or
batch after batch (`EveryLaunchEnumerates`). Blocks of different indices have no cell in common, also
across groups that lie end to end (`CellsApart`), and together they make up the cells that are meant
and not dropped (`ColumnsInBlocks`), with the weights that the layout names at the first row of an
aligned block (`CellsCover`).

A launch. A CTA keeps only the group it has come to and the tiles and rows before it; from there it
finds the group of its next index (`WalkIs`) and so the tile of that index (`FetchIs`). The
inductive invariant `Launch` says that the cursors stand at such groups and that the output is
exactly the cells of the indices that their CTAs have come past; CTAs take different residues of the
grid, and one that ends has come past all of its own.

`AlwaysSignalsMatchBlocks` adds the words of a masked GEMM with SBO overlap: a word at the threshold
means that every row of its block is written, and every word of a block with rows ends there. The
cells of a tile are written at the fetch and its word counts later, so the second invariant `WordsCount`
distinguishes the two: a tile that waits in a CTA is the one of the index that the CTA took last
(`Holds`), and a word counts the indices of its block that are taken and not so held (`Signalled`).
A fetch leaves these sets alone (`TakingSignalsNothing`), a signal adds one index to one of them
(`SignallingCounts`). A word has exactly as many indices as a row of blocks has columns, or none if
the group ends before it (`TilesOfWord`), so at the threshold no index of it is missing. The theorem
is about kernels with a signal (`KernelSignals(job)`: bf16, int8 and fp8, no fp4 kernel) and tiles
one column block wide (`NExpand(job) = 1`); for the others the property is false, as run
`sbo_signal` shows for wide fp8 tiles and for fp4.

`NatFacts` has what these proofs share: induction in the form of a least element (`LeastMember`, `UpTo`),
that a function defined by recursion over an interval satisfies its equation (`Recursion`,
`PrefixSums`), division and remainder by a divisor that is not known, and that
two numbers of one residue class are a divisor apart (`ClassApart`). The library's induction
theorems take an operator, which the provers cannot instantiate; with a set in its place the same
argument goes through, so recursive functions can be reasoned about, recursive operators cannot.

The constants are bounded only by what the named assumptions state. The numbers of rounds, launches
and synchronisations are any natural number.

Only model-checked: liveness, which is out of the prover's reach; the invariants of `CtaMachine`,
which are about programs of given kernels that only evaluation produces; `EveryCellOnce` of jobs with
a list, and `RoutingIsStable` and `BuffersFit` of `TileSchedule`, which follow
lists and routing through the folds and cardinalities of `MoeAlign`;
`ConfigRuns` of `HostCalls`, which is about measured tables and a search over candidates;
`PagedLogits` with a metadata kernel of several warps. `WeightTiles`, `TileSearch`, `AdaptiveTiles` and
other host modules are evaluated on the listed shapes.

## Observations

Met while modelling; no run is about them.

Device code
- `paged_mqa_logits_scheduler.cuh:42` remarks `blockDim.x < 1024: only last loop`; `blockDim.x` is
  the batch size then, so the first loop runs once and the last part is empty.
- KV scales of paged logits are read after a half has given away its turn; with 512 threads in one
  math warp group the other half could reach the refill of that stage, but every tile with 512
  threads has at least two groups for the values of `next_n` the API admits, which is what
  `PagedLogitsAssumption` says.
- `w4a16_gemm_cutlass3.cuh:573-602` (WarpM above 16) has no barrier between reading step m from
  shared memory and writing step m + 1; its sibling (`fused_gemm_util.cuh:357`) has. With N_EXPAND
  it also relies on K tiles being no fewer than stages, which `common_w4a16.hpp` does not ensure.
- `tf32_hc_prenorm_gemm.cuh:220`: the split counter is never reset and masked instead, which needs a
  power of two splits. With `DG_TF32_BLOCK_M` above 64 forced on PPU1.5, variant 0 exceeds the 64
  rows of its A buffer.
- `ppu_mega_mhc_bf16.cuh:584` (LocalCompletion) needs all CTAs resident.
- `bf16_gemm_cutlass3_overlap_mainloop.cuh` ends with arrivals left at named barriers; nothing uses
  them afterwards.
- `moe_align`: the fallback for up to two experts runs the loop of K4 zero times
  (`fused_gemm_util.cuh:766`); block lists and K0 assume at most 1024 groups.
- The int8 dynamic tile drops the last 128 columns of a group of 33 to 64 rows when K is above 2048
  and N has an odd number of 128-column blocks (`num_m_blocks * kNumNBlocks / n_expand`,
  `scheduler_cutlass3.cuh:257-261`). The shapes the host turns it on for have even numbers, but
  `DG_USE_MOE_DYNAMIC_TILE` turns it on for any N (`m_grouped_int8_gemm.hpp:441`). `schedules` runs
  such jobs and `EveryCellOnce` names the loss: with `Dropped` empty it would be violated by them.
- The fp4 kernels never signal, though the API accepts `enable_sbo_overlap`: without dynamic tiles
  `DeepGemmUniversal` is specialised for `kEnableSboOverlap = false` only
  (`fp4_gemm_cutlass3.cuh:66-75, 659-668`), so that the kernel asked for does not compile.
  Only the masked int8 path checks the size of the signal tensor.

Host code
- The repeat load of `gemm_search_space.hpp` overflows int for nearly every shape from 4096 on, so
  tiles are ranked by wrapped values; a full candidate list gives up its best value
  (`_add_candidate_tile` drops the top of a min-heap); hand-tuned shapes get grid 72 whatever
  `set_num_sms` says.
- `gemm_int8_lut.hpp:84-87`: rows with M = 1 that no lookup reaches.
- For fp4 with 64 CUs, M = 257, N = 512, K = 64, eight columns per warp are chosen. fp8 grouped
  GEMMs compute the grid before the rule for warps may widen a block; with N below 32 they have no
  block.
- A nopad bf16 GEMV with few rows, K up to 256 and K not divisible by eight prints "unsupported
  stride" and returns with the output unwritten.
- MegaMoE with three SMs or fewer fails the assert on copy blocks, not a check of the API.
- `get_best_configs` of w4a8 chooses with full groups (`expected_m * groups`), `resolve_config`
  plans with the actual rows; both plans build. A compile-only call returns before the plan counts
  as warmed, so a graph capture after it is refused.
- The order on the device would survive without `submit_mutex`: records on an in-order stream only
  get stronger. The lock protects the host's maps and event lists.
- The einsum paths of int8 and fp8 assert that there is no C, while the README offers accumulation.

Dead code: the walk of `DeepGemmScheduler` without a table, the no-pad branch of the dynamic fetch,
`scheduler.cuh`, two int8 tile tables, `_get_wave_from_occ`.

## Not modelled, and why

- Arithmetic on tensor data (quantisation, MMA, activation, reduction), wording, logging, profiling.
- The order in which one CTA's instructions become visible, beyond fences.
- `fp8_gemm` without column blocks: its collective is vendored. `fused_permute.cuh`, the metadata of
  sparse logits.
- Heuristics of w4a16, a8w4, tf32, einsum and the logits kernels; strided batches with a tile of the
  user.
- Graph capture and replay, and the gate that admits only warmed plans.
- Layout conversion, einsum, activation and runtime settings of the API; devices and drivers; vector
  and quantisation kernels; the tuner, tests and legacy Triton kernels: sequential code, or numeric
  kernels whose CTAs do not interact.
- The include parser of the JIT: a kernel's path depends on the headers below `deep_gemm` only, so
  replacing vendored headers serves old kernels. `JitCache` has one version for all headers.

## Plan

1. Proofs: `EveryCellOnce` of the jobs with a list, and the routing that builds it
   (`RoutingIsStable`).
2. `MegaRound`: `MegaDispatch` and `ScatterBarrier` composed, each discharging the other's
   assumption.
3. The selectors that are left, as further conjuncts of `ConfigRuns`; graph capture as a mode of
   `StreamedGemm`.
