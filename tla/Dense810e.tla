------------------------------ MODULE Dense810e ------------------------------
(* The launchers of the 810E (impls/bf16_gemm.hpp, from line 1228): dense products *)
(* with K split over CTAs or rows split over two tiles, and strided batches whose  *)
(* outputs may interleave in memory. CTAs run in any order; a store is an address  *)
(* and what it holds afterwards, how often each K tile of which output element is  *)
(* summed up in it. K counts tiles; n counts elements, tiles are two by two.        *)
EXTENDS Integers, FiniteSets, Sequences

CONSTANTS Products    \* bound: the calls that are tried
ASSUME ProductsAssumption ==
    /\ Products \subseteq
          [kind : {"dense", "tsm", "hybrid", "batch"}, batch : Nat, m : Nat, n : Nat, tiles : Nat, bs : Nat, ld : Nat,
           splits : Nat \ {0}, stages : Nat \ {0}, splitM : Nat, mFirst : BOOLEAN, aligned : BOOLEAN]
    /\ \A p \in Products : p.kind # "batch" => p.batch = 1

VARIABLES
    product,    \* the call
    phase,      \* "idle", "run", "reduce", "done" or "refused"
    pending,    \* the CTAs that have not run: [rows, columns, z]
    partial,    \* the workspace of split K: offset |-> value, 0-based by split
    memory      \* D: address |-> value

productVars == <<product, phase, pending, partial, memory>>

NoProduct == [kind |-> "none"]
BlockSide == 2

-----------------------------------------------------------------------------
(* What the launchers accept.                                                     *)

\* The last of `count' multiples of step that is not above offset.
LastUpTo(offset, step, count) ==
    IF offset \div step < count - 1 THEN offset \div step ELSE count - 1

\* Mutant: only the row below is compared.
OverlapsBelow(p) ==
    /\ p.batch > 1
    /\ \/ p.bs < p.n
       \/ /\ p.m > 1 /\ p.bs < (p.m - 1) * p.ld + p.n /\ p.ld < (p.batch - 1) * p.bs + p.n
          /\ LET batchFirst == p.batch <= p.m
                 count == IF batchFirst THEN p.batch ELSE p.m
                 step == IF batchFirst THEN p.bs ELSE p.ld
                 otherCount == IF batchFirst THEN p.m ELSE p.batch
                 otherStep == IF batchFirst THEN p.ld ELSE p.bs
             IN  \E i \in 1 .. count - 1 :
                     LET j == LastUpTo(i * step, otherStep, otherCount)
                     IN  i * step - j * otherStep < p.n

\* Batches and rows interleave: the rows of the other dimension nearest to each
\* difference, on either side.
OutputOverlaps(p) ==
    /\ p.batch > 1
    /\ \/ p.bs < p.n
       \/ /\ p.m > 1 /\ p.bs < (p.m - 1) * p.ld + p.n /\ p.ld < (p.batch - 1) * p.bs + p.n
          /\ LET batchFirst == p.batch <= p.m
                 count == IF batchFirst THEN p.batch ELSE p.m
                 step == IF batchFirst THEN p.bs ELSE p.ld
                 otherCount == IF batchFirst THEN p.m ELSE p.batch
                 otherStep == IF batchFirst THEN p.ld ELSE p.bs
             IN  \E i \in 1 .. count - 1 :
                     LET offset == i * step
                         j == LastUpTo(offset, otherStep, otherCount)
                     IN  \/ offset - j * otherStep < p.n
                         \/ j + 1 < otherCount /\ (j + 1) * otherStep - offset < p.n

\* Every split fills the pipeline.
SplitsAccepted(p) == p.splits \in 1 .. 64 /\ p.tiles \div p.splits >= p.stages
CheckBatch(p) == p.bs > 0 /\ p.ld >= p.n /\ ~OutputOverlaps(p)
Accepted(p) ==
    CASE p.kind = "batch"  -> CheckBatch(p) /\ (p.tiles > 0 => p.tiles >= p.stages)
      [] p.kind = "hybrid" -> p.splitM \in 1 .. p.m - 1 /\ p.splits = 1 /\ SplitsAccepted(p)
      [] OTHER             -> SplitsAccepted(p)

-----------------------------------------------------------------------------
(* The grid.                                                                      *)

\* The epilogue of TSM stores whole vectors: narrow and unaligned rows take the
\* kernel that stores elements, with its own order of the grid. `aligned': at least
\* eight columns, in whole vectors, at an aligned address.
UsesTsm(p) == p.kind \in {"tsm", "hybrid"} /\ p.aligned

\* The grid of one launch over `count' rows: columns first unless a TSM kernel wants
\* M first, then splits or batches.
CeilOf(a, b) == (a + b - 1) \div b
Grid(p, first, count) ==
    LET mBlocks == CeilOf(count, BlockSide)
        nBlocks == CeilOf(p.n, BlockSide)
        swapped == UsesTsm(p) /\ p.mFirst
        z == IF p.kind = "batch" THEN p.batch ELSE p.splits
    IN  {[x |-> x, y |-> y, z |-> w, mFirst |-> swapped, first |-> first, count |-> count] :
            x \in 0 .. (IF swapped THEN mBlocks ELSE nBlocks) - 1,
            y \in 0 .. (IF swapped THEN nBlocks ELSE mBlocks) - 1, w \in 0 .. z - 1}

\* Hybrid: the rows in two launches.
Launches(p) ==
    IF p.kind = "hybrid" THEN Grid(p, 0, p.splitM) \cup Grid(p, p.splitM, p.m - p.splitM)
    ELSE Grid(p, 0, p.m)

\* The K tiles of a split: begin to begin of the next.
SplitRange(p, split) ==
    {t \in 0 .. p.tiles - 1 :
        (p.tiles * split) \div p.splits <= t /\ t < (p.tiles * (split + 1)) \div p.splits}

-----------------------------------------------------------------------------
(* The kernels.                                                                   *)

\* The elements of a CTA, those past the edge left out.
Elements(p, cta) ==
    LET mi == IF cta.mFirst THEN cta.x ELSE cta.y
        ni == IF cta.mFirst THEN cta.y ELSE cta.x
    IN  {<<cta.first + mi * BlockSide + i, ni * BlockSide + j>> : i, j \in 0 .. BlockSide - 1}
            \cap ((cta.first .. cta.first + cta.count - 1) \X (0 .. p.n - 1))

Value(p, batch, e, tiles) ==
    [element |-> <<batch, e[1], e[2]>>, sum |-> [t \in 0 .. p.tiles - 1 |-> IF t \in tiles THEN 1 ELSE 0]]

Offset(p, e) == e[1] * p.n + e[2]
Address(p, batch, e) == batch * p.bs + e[1] * p.ld + e[2]

\* What a CTA stores: its share of K to the workspace, or all of it to D.
Stored(p, cta) ==
    LET es == Elements(p, cta)
    IN  IF p.kind = "batch"
        THEN [a \in {Address(p, cta.z, e) : e \in es} |->
                 Value(p, cta.z, CHOOSE e \in es : Address(p, cta.z, e) = a, 0 .. p.tiles - 1)]
        ELSE LET base == IF p.splits = 1 THEN 0 ELSE cta.z * p.m * p.n
             IN  [a \in {base + Offset(p, e) : e \in es} |->
                     Value(p, 0, CHOOSE e \in es : base + Offset(p, e) = a, SplitRange(p, cta.z))]

Over(new, old) == [a \in DOMAIN new \cup DOMAIN old |-> IF a \in DOMAIN new THEN new[a] ELSE old[a]]

-----------------------------------------------------------------------------
ProductInit ==
    /\ product = NoProduct /\ phase = "idle"
    /\ pending = {} /\ partial = <<>> /\ memory = <<>>

\* Nothing to multiply, K = 0 (D is zeroed), refused, or launched.
Multiply(p) ==
    /\ phase = "idle" /\ product' = p
    /\ IF p.batch = 0 \/ p.m = 0 \/ p.n = 0
       THEN phase' = "done" /\ UNCHANGED <<pending, memory>>
       ELSE IF ~Accepted(p)
       THEN phase' = "refused" /\ UNCHANGED <<pending, memory>>
       ELSE IF p.tiles = 0
       THEN /\ phase' = "done" /\ UNCHANGED pending
            /\ memory' = LET es == (0 .. p.batch - 1) \X (0 .. p.m - 1) \X (0 .. p.n - 1)
                             at(x) == Address(p, x[1], <<x[2], x[3]>>)
                         IN  [a \in {at(x) : x \in es} |->
                                 LET x == CHOOSE x \in es : at(x) = a IN Value(p, x[1], <<x[2], x[3]>>, {})]
       ELSE phase' = "run" /\ pending' = Launches(p) /\ UNCHANGED memory
    /\ UNCHANGED partial

Cta ==
    \E cta \in pending :
        LET stored == Stored(product, cta)
        IN  /\ phase = "run"
            /\ pending' = pending \ {cta}
            /\ IF product.kind # "batch" /\ product.splits > 1
               THEN partial' = Over(stored, partial) /\ UNCHANGED memory
               ELSE memory' = Over(stored, memory) /\ UNCHANGED partial
            /\ UNCHANGED <<product, phase>>

\* The next kernel on the stream adds the partial sums, if K is split.
Drained ==
    /\ phase = "run" /\ pending = {}
    /\ phase' = IF product.kind # "batch" /\ product.splits > 1 THEN "reduce" ELSE "done"
    /\ UNCHANGED <<product, pending, partial, memory>>

Reduce ==
    LET count == product.m * product.n
        at(split, i) == partial[split * count + i]
    IN  /\ phase = "reduce" /\ phase' = "done"
        /\ memory' = [i \in 0 .. count - 1 |->
               [element |-> at(0, i).element,
                sum |-> [t \in 0 .. product.tiles - 1 |->
                            Cardinality({s \in 0 .. product.splits - 1 : at(s, i).sum[t] = 1})]]]
        /\ UNCHANGED <<product, pending, partial>>

Multiplied == phase \in {"done", "refused"} /\ UNCHANGED productVars

ProductNext == (\E p \in Products : Multiply(p)) \/ Cta \/ Drained \/ Reduce \/ Multiplied

ProductSpec == ProductInit /\ [][ProductNext]_productVars

-----------------------------------------------------------------------------
\* INVARIANT. Every element of every product ends at its own address with each K
\* tile summed once: no batch of an interleaved output touches another's, no K tile
\* is lost or counted twice by splits of different lengths, no row is left out where
\* two tiles share the rows; and an output is refused as overlapping only if two of
\* its elements do share an address ("preserving legal interleaved views").
ProductsAreWhole ==
    LET p == product
        all == (0 .. p.batch - 1) \X (0 .. p.m - 1) \X (0 .. p.n - 1)
        at(x) == IF p.kind = "batch" THEN Address(p, x[1], <<x[2], x[3]>>) ELSE Offset(p, <<x[2], x[3]>>)
    IN  /\ phase = "done" =>
               \A x \in all : memory[at(x)] = [element |-> x, sum |-> [t \in 0 .. p.tiles - 1 |-> 1]]
        /\ (phase = "refused" /\ p.kind = "batch" /\ p.ld >= p.n /\ p.bs > 0 /\ p.tiles >= p.stages) =>
               Cardinality({at(x) : x \in all}) < Cardinality(all)
=============================================================================
