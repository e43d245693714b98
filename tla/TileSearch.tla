----------------------------- MODULE TileSearch -----------------------------
(* The tile search for large bf16 products on PPU 1.0 (gemm_search_space.hpp):     *)
(* candidates are collected with the best of each metric kept, one metric after    *)
(* the other, and narrowed down to one. Lists keep the order of the code, which     *)
(* decides between equal candidates.                                              *)
(*                                                                               *)
(* A shape `s' has m, n, k, multiples of 64 from 4096 on, and sms. Sizes in bytes   *)
(* are counted in units small enough for 32 bits; quotients that the code computes   *)
(* as doubles and cuts to thousandths are exact here.                              *)
EXTENDS Integers, Sequences, FiniteSets, TLC
LOCAL INSTANCE SequencesExt
LOCAL INSTANCE FiniteSetsExt

ShareMemSize == 262144
MaxRegisters == 131072     \* of a CU, also of a block
MinStages == 2
MinWarpPerBlock == 4
MaxWarpPerBlock == 32
MaxWarpsPerCu == 64

DivUp(a, b) == (a + b - 1) \div b
AlignTo(x, a) == DivUp(x, a) * a

\* floor of a * b / c without the product.
MulDiv(a, b, c) == a * (b \div c) + (a * (b % c)) \div c

-----------------------------------------------------------------------------
(* What a tile costs.                                                             *)

\* Units of 8 KB.
SmemUnits(t, stages) ==
    LET sides == (t.bm + t.bn) \div 64
    IN  Max({sides * (t.bk \div 64) * stages, 2 * (t.bm \div 64) * (t.bn \div 64)})

\* Two buffers of operands for every warp, and the accumulators.
Registers(t) ==
    (AlignTo(t.wm * 8, 64) + AlignTo(t.wn * 8, 64)) * 2 * ((t.bm \div t.wm) * (t.bn \div t.wn))
        + AlignTo(t.bm * t.bn, 64)

WarpsPerBlock(t) == (t.bm \div t.wm) * (t.bn \div t.wn)
Resident(t) == Min({32 \div SmemUnits(t, t.stages), MaxRegisters \div Registers(t)})

\* Bytes of A and B that all tiles read, in units of 128: an int that wraps.
RepeatLoad(s, t) ==
    LET product(a, b) == ((((a \div 4096) * b) % 8192) * 4096 + (a % 4096) * b) % 2 ^ 25
        size(rows, tiles) == product(product(rows, s.k \div 64), tiles)
        x == (size(s.m, DivUp(s.n, t.bn)) + size(s.n, DivUp(s.m, t.bm))) % 2 ^ 25
    IN  IF x >= 2 ^ 24 THEN x - 2 ^ 25 ELSE x

BlockCount(s, t) == DivUp(s.m, t.bm) * DivUp(s.n, t.bn)
WaveCount(s, t) == DivUp(BlockCount(s, t), s.sms)
LastWaveBlock(s, t) == IF BlockCount(s, t) % s.sms = 0 THEN s.sms ELSE BlockCount(s, t) % s.sms

\* The product in units of 64 by 64, a thousand of each.
Elements64(s) == (s.m \div 64) * (s.n \div 64) * 1000
BlockUtils(s, t) == Elements64(s) \div ((t.bm \div 64) * (t.bn \div 64) * BlockCount(s, t))

\* What registers load again, per CU.
RegisterReload(s, t) ==
    MulDiv(((t.wm + t.wn) \div 16) * WarpsPerBlock(t), Elements64(s),
           ((t.bm + t.bn) \div 16) * (t.bm \div 64) * (t.bn \div 64) * s.sms)

L2Utils(t) == (((t.bm + t.bn) \div 64) * (t.bk \div 64) * t.stages * t.occ * 1000) \div 32
SmemUtils(t) == (SmemUnits(t, t.stages) * t.occ * 1000) \div 32
RegUtils(t) == ((Registers(t) \div 64) * t.occ * 1000) \div (MaxRegisters \div 64)

-----------------------------------------------------------------------------
(* Lists of candidates. Of a metric the least come first, or the largest.         *)

Sign(ascending) == IF ascending THEN 1 ELSE -1
Values(list, metric) == {list[i][metric] : i \in DOMAIN list}
OfValue(list, metric, v) == SelectSeq(list, LAMBDA t : t[metric] = v)
Sorted(list, metric, sign) ==
    LET values == Values(list, metric)
        nth(i) == CHOOSE v \in values : Cardinality({w \in values : sign * w < sign * v}) = i - 1
    IN  FlattenSeq([i \in 1 .. Cardinality(values) |-> OfValue(list, metric, nth(i))])

\* A tile joins the others of its value. A list with enough values takes a better
\* one, and gives up the best it had.
AddCandidate(list, t, metric, topK, ascending) ==
    LET sign == Sign(ascending)
        values == Values(list, metric)
        best == IF ascending THEN Min(values) ELSE Max(values)
        kept == IF Cardinality(values) < topK THEN Append(list, t)
                ELSE IF sign * t[metric] < sign * best
                THEN Append(SelectSeq(list, LAMBDA x : x[metric] # best), t) ELSE list
    IN  IF list = <<>> THEN <<t>>
        ELSE IF t[metric] \in values
        THEN InsertAt(list, Max({i \in DOMAIN list : list[i][metric] = t[metric]}) + 1, t)
        ELSE Sorted(kept, metric, sign)

\* The tiles of some lists join one after the other.
Joined(lists, metric, topK, ascending) ==
    LET tiles == FlattenSeq(lists)
        found[i \in 0 .. Len(tiles)] ==
            IF i = 0 THEN << >> ELSE AddCandidate(found[i - 1], tiles[i], metric, topK, ascending)
    IN  found[Len(tiles)]

\* The tiles of the first values.
CollapsedTopK(list, metric, topK, ascending) ==
    LET sign == Sign(ascending)
        ahead(v) == {w \in Values(list, metric) : sign * w < sign * v}
    IN  Sorted(SelectSeq(list, LAMBDA t : Cardinality(ahead(t[metric])) < topK), metric, sign)

-----------------------------------------------------------------------------
(* The phases.                                                                    *)

\* One shape was tuned by hand, for 72 CUs.
KnowledgeShapes == {<<4096, 4608, 7168>>, <<4096, 36864, 7168>>, <<4096, 7168, 16384>>,
                    <<4096, 7168, 18432>>, <<4096, 4096, 7168>>}
KnowledgeTile == [bm |-> 256, bn |-> 128, bk |-> 64, wm |-> 32, wn |-> 128, stages |-> 2, sms |-> 72]

\* The tiles whose K divides, by the load they repeat.
BlockTiles(s) ==
    LET factors == <<512, 256, 128>>
        tile(x) == [bm |-> factors[(x \div 6) + 1], bn |-> factors[((x \div 2) % 3) + 1], bk |-> IF x % 2 = 0 THEN 64 ELSE 128]
        fits(t) == SmemUnits(t, MinStages) <= 32 /\ s.k % t.bk = 0
        measured(t) == [load |-> RepeatLoad(s, t), wave |-> WaveCount(s, t), util |-> BlockUtils(s, t),
                        last |-> LastWaveBlock(s, t), bm |-> t.bm, bn |-> t.bn, bk |-> t.bk]
        tiles == SelectSeq([i \in 1 .. 18 |-> tile(i - 1)], fits)
    IN  Joined([i \in DOMAIN tiles |-> <<measured(tiles[i])>>], "load", 50, TRUE)

\* Fewest waves, then fullest blocks, then the fullest last wave.
FewestWaves(list) ==
    CollapsedTopK(CollapsedTopK(CollapsedTopK(list, "wave", 30, TRUE), "util", 20, FALSE), "last", 20, FALSE)

StageTiles(list) ==
    LET staged(t, stages) ==
            [stages |-> stages, bm |-> t.bm, bn |-> t.bn, bk |-> t.bk, load |-> t.load, wave |-> t.wave,
             util |-> t.util, last |-> t.last]
        both(t) == <<staged(t, 3), staged(t, 2)>>
        fits(t) == ((t.bm + t.bn) \div 64) * (t.bk \div 64) * t.stages <= 32
    IN  Joined([i \in DOMAIN list |-> SelectSeq(both(list[i]), fits)], "stages", 5, FALSE)

WarpFactors(side) ==
    SelectSeq(<<side \div 2, side \div 4, side \div 8, side \div 16, side>>, LAMBDA x : x \in 16 .. 128)

WithWarp(s, t, wm, wn) ==
    LET x == [wm |-> wm, wn |-> wn] @@ t
    IN  [occ |-> Resident(x), warps |-> WarpsPerBlock(x), perCu |-> WarpsPerBlock(x) * Resident(x),
         regs |-> Registers(x), reload |-> RegisterReload(s, x)] @@ x

\* Warps that a block and a CU hold, registers that they have.
WarpTiles(s, list) ==
    LET all(t) == LET ms == WarpFactors(t.bm)
                      ns == WarpFactors(t.bn)
                  IN  [i \in 1 .. Len(ms) * Len(ns) |->
                          WithWarp(s, t, ms[((i - 1) \div Len(ns)) + 1], ns[((i - 1) % Len(ns)) + 1])]
        fits(t) == /\ t.warps \in MinWarpPerBlock .. MaxWarpPerBlock /\ t.perCu <= MaxWarpsPerCu
                   /\ t.regs <= MaxRegisters /\ t.regs <= 8192 * t.warps
    IN  Joined([i \in DOMAIN list |-> SelectSeq(all(list[i]), fits)], "reload", 20, TRUE)

Measured(t) == [l2 |-> L2Utils(t), smem |-> SmemUtils(t), reg |-> RegUtils(t)] @@ t

\* Registers are not used up, and no tile spills.
Spills == {<<256, 256, 128, 128, 32>>, <<256, 256, 128, 32, 128>>}
IsPoor(t) == t.perCu <= 4 \/ <<t.bm, t.bn, t.bk, t.wm, t.wn>> \in Spills
MemUsage(list) ==
    LET spare(t) == (t.regs \div 64) * t.occ * 100 < 99 * (MaxRegisters \div 64)
    IN  SelectSeq([i \in DOMAIN list |-> Measured(list[i])], LAMBDA t : spare(t) /\ ~IsPoor(t))

\* Four tiles are candidates whatever the filters say, and whatever K is.
ConfigTiles == << <<128, 128, 64, 64, 32, 2>>, <<256, 128, 64, 64, 64, 2>>,
                  <<512, 128, 64, 64, 64, 3>>, <<128, 256, 64, 32, 128, 2>> >>
AddConfigTiles(s, list) ==
    LET tile(x) == [bm |-> x[1], bn |-> x[2], bk |-> x[3], stages |-> x[6]]
        full(x) == LET t == tile(x)
                   IN  Measured(WithWarp(s, [load |-> RepeatLoad(s, t), wave |-> WaveCount(s, t),
                                             util |-> BlockUtils(s, t), last |-> LastWaveBlock(s, t)] @@ t, x[4], x[5]))
        known == {<<list[i].bm, list[i].bn, list[i].bk, list[i].wm, list[i].wn, list[i].stages>> : i \in DOMAIN list}
        new == SelectSeq(ConfigTiles, LAMBDA x : x \notin known)
    IN  list \o [i \in DOMAIN new |-> full(new[i])]

\* All metrics in turn, with fewer values kept each time round.
FilterMetric == << <<"load", TRUE>>, <<"util", FALSE>>, <<"wave", TRUE>>, <<"last", FALSE>>, <<"perCu", TRUE>>,
                   <<"l2", FALSE>>, <<"smem", FALSE>>, <<"reload", TRUE>>, <<"reg", FALSE>> >>
Narrowed(list, topK) ==
    LET keep[i \in Nat] ==
            IF i = 0 THEN topK ELSE LET last == keep[i - 1] IN IF last <= 5 THEN last - 1 ELSE last \div 2
        round[i \in Nat] ==
            LET found == IF i = 0 THEN list ELSE round[i - 1]
            IN  IF Len(found) <= 1 THEN found
                ELSE FoldLeft(LAMBDA f, x : CollapsedTopK(f, x[1], keep[i], x[2]), found, FilterMetric)
    IN  round[CHOOSE i \in 0 .. topK : keep[i] = 1]

Searched(s) == AddConfigTiles(s, MemUsage(WarpTiles(s, StageTiles(FewestWaves(BlockTiles(s))))))

Best(found) == Narrowed(found, Max({Len(found) \div 2, 1}))[1]
CandidateTile(s) ==
    IF <<s.m, s.n, s.k>> \in KnowledgeShapes THEN KnowledgeTile ELSE [sms |-> s.sms] @@ Best(Searched(s))
=============================================================================
