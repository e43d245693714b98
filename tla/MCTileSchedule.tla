--------------------------- MODULE MCTileSchedule ---------------------------
(* Small widths: warps of two lanes, two warps, two chunks, a scan of two       *)
(* threads. Three groups; K1..K4 start at nine pairs.                            *)
EXTENDS TileSchedule

\* What a job is unless it says otherwise. n counts columns, bn too.
Plain == [kind |-> "normal", scheduler |-> "walk", sizes |-> [g \in {0} |-> 0], groups |-> 1, shapeM |-> 0,
          n |-> 3, bm |-> 2, bn |-> 1, type |-> "plain", k |-> 1024, stages |-> 4, expectedM |-> 4,
          tiles |-> "LargeK", unitM |-> 32, unitN |-> 128, width |-> 2, interleave |-> FALSE, base |-> 0,
          grid |-> 2, ids |-> [i \in {} |-> 0], topk |-> 2, sbo |-> FALSE]

Sizes(S) == [0 .. 2 -> S]
MaxOf(s) == Max({s[g] : g \in DOMAIN s})

\* Dense GEMMs: up to five M blocks, bands of one and two, a last column block of one.
Flat == {[Plain EXCEPT !.shapeM = m, !.n = n, !.bn = 2, !.width = w, !.grid = g] :
            m \in {1, 4, 5, 9}, n \in {1, 3, 4}, w \in {1, 2}, g \in {2, 3}}
Batched == {[Plain EXCEPT !.kind = "batched", !.groups = 3, !.shapeM = m, !.n = n, !.bn = 2] :
               m \in {1, 3, 4}, n \in {2, 3}}

\* The sizes of the groups as the kernel finds them on the device, empty ones too.
Contiguous ==
    {[Plain EXCEPT !.kind = "contiguous", !.groups = 3, !.sizes = s, !.n = 2, !.width = w,
                   !.shapeM = SumOver(0 .. 2, LAMBDA g : RoundUp(s[g], 2))] :
        s \in Sizes({0, 1, 4}), w \in {1, 2}}
Masked == {[Plain EXCEPT !.kind = "masked", !.groups = 3, !.sizes = s, !.shapeM = 5, !.n = 3, !.bn = b, !.sbo = (b = 2)] :
              s \in Sizes({0, 1, 4, 5}), b \in {2, 3}}
NoPad == {[Plain EXCEPT !.kind = "nopad", !.scheduler = x, !.groups = 3, !.sizes = s, !.n = 2,
                        !.interleave = (x = "table"), !.base = IF x = "walk" THEN 2 ELSE 0] :
             x \in {"walk", "table"}, s \in Sizes({0, 1, 2, 3, 5})}

\* Wide tiles of several column blocks where k is small.
Expanded ==
    {[Plain EXCEPT !.kind = d, !.groups = 3, !.sizes = s, !.shapeM = 4, !.n = n, !.type = t, !.k = k, !.stages = 2] :
        d \in {"masked", "nopad"}, s \in Sizes({0, 1, 3}), n \in {6, 8}, t \in {"fp4", "fp8"},
        k \in {128, 1024}}

\* Groups of one row to more than the largest builder; builders of a group differ.
Builders ==
    {[Plain EXCEPT !.kind = d, !.scheduler = "builders", !.groups = 3, !.sizes = s, !.shapeM = MaxOf(s),
                   !.tiles = x[1], !.unitM = x[2], !.unitN = x[3], !.n = x[4]] :
        d \in {"masked", "nopad"}, s \in Sizes({0, 1, 3, 9}),
        x \in {<<"LargeK", 32, 128, 2>>, <<"LargeEM", 64, 256, 1>>, <<"SmallEM", 16, 128, 3>>}}
\* int8 LargeK with an even and an odd number of column blocks, and with a single one.
Expand ==
    {[Plain EXCEPT !.kind = "masked", !.scheduler = "expand", !.groups = 3, !.sizes = s, !.shapeM = MaxOf(s),
                   !.tiles = x[1], !.k = x[2], !.unitM = x[3], !.unitN = x[4], !.n = x[5]] :
        s \in Sizes({0, 2, 3, 5, 13}),
        x \in {<<"LargeK", 4096, 16, 128, n>> : n \in {1, 3, 4}}
              \cup {<<"TPSmallK", 2048, 16, 128, 2>>, <<"LargeEM", 4096, 64, 256, 2>>}}

\* Tokens of two different experts each: few for K0, many for K1..K4.
Routed(tokens) ==
    {ids \in [0 .. 2 * tokens - 1 -> 0 .. 2] : \A t \in 0 .. tokens - 1 : ids[2 * t] # ids[2 * t + 1]}
Fused ==
    {[Plain EXCEPT !.kind = "fused", !.scheduler = "fused", !.groups = 3, !.ids = ids, !.n = 2, !.interleave = i] :
        ids \in UNION {Routed(t) : t \in 1 .. 3}, i \in BOOLEAN}
    \cup {[Plain EXCEPT !.kind = "fused", !.scheduler = "fused", !.groups = 3, !.ids = ids, !.type = "fp8_fused",
                        !.k = 512, !.n = 4] : ids \in Routed(2)}
ManyPairs ==
    {[Plain EXCEPT !.kind = "fused", !.scheduler = "fused", !.groups = 3, !.n = 1,
                   !.ids = [i \in 0 .. 9 |-> IF i < 6 THEN ids[i] ELSE i % 3]] :
        ids \in Routed(3)}

SomeJobs ==
    Flat \cup Batched \cup Contiguous \cup Masked \cup NoPad \cup Expanded \cup Builders \cup Expand
        \cup Fused \cup ManyPairs

\* Masked fp8 GEMMs with SBO overlap and a small k, at the stages the host picks.
SmallKSbo == {[Plain EXCEPT !.kind = "masked", !.groups = 3, !.sizes = s, !.shapeM = 4, !.n = n, !.sbo = TRUE,
                            !.type = "fp8", !.k = 256, !.stages = 2] :
                 s \in Sizes({0, 1, 3}), n \in {4, 6}}

\* Masked fp4 GEMMs with SBO overlap where the environment asks for dynamic tiles;
\* the host returns 128 rows and 128 columns as the shape of a block.
DynamicSbo == {[Plain EXCEPT !.kind = "masked", !.scheduler = "builders", !.groups = 3, !.sizes = s,
                             !.shapeM = MaxOf(s), !.tiles = "SmallEM", !.unitM = 16, !.unitN = 128,
                             !.bm = 8, !.bn = 1, !.n = 3, !.type = "fp4", !.k = 1024, !.expectedM = 32, !.sbo = TRUE] :
                  s \in Sizes({0, 1, 9})}
SboJobs == SmallKSbo \cup DynamicSbo
=============================================================================
