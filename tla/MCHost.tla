-------------------------------- MODULE MCHost --------------------------------
(* What the host decides before anything runs on the device, and a call that keeps *)
(* the device busy on several streams: four parts with no state in common that are  *)
(* explored side by side. GEMM calls (HostCalls), the products of the 810E          *)
(* (Dense810e), the MegaMoE buffer (MegaLayout), streamed calls (StreamedGemm).     *)
EXTENDS HostCalls, MegaLayout, Dense810e, StreamedGemm

SomeShapes ==
  [experts : {2, 4, 6}, capacity : {16, 32, 40}, topk : {1, 2},
   hidden : {1024, 1536}, intermediate : {64, 512}]

-----------------------------------------------------------------------------
\* Batches of two or three rows whose strides interleave, touch or overlap, one of
\* four batches and long rows, an empty K, no rows and no batch.
PlainProduct == [kind |-> "batch", batch |-> 1, m |-> 1, n |-> 1, tiles |-> 2, bs |-> 1, ld |-> 1, splits |-> 1,
                 stages |-> 2, splitM |-> 0, mFirst |-> FALSE, aligned |-> TRUE]
Batches ==
    {[PlainProduct EXCEPT !.batch = b, !.m = m, !.n = n, !.bs = bs, !.ld = ld] :
        b \in 1 .. 3, m \in 1 .. 3, n \in 1 .. 2, bs \in 1 .. 7, ld \in 1 .. 7}
    \cup {[PlainProduct EXCEPT !.batch = 4, !.m = 2, !.n = 2, !.tiles = t, !.bs = bs, !.ld = ld] :
            t \in {0, 2}, bs \in 2 .. 6, ld \in 2 .. 12}
    \cup {[PlainProduct EXCEPT !.m = 0], [PlainProduct EXCEPT !.batch = 0, !.n = 2]}
\* Splits that divide K and that do not, and rows in two parts.
Splits ==
    {[PlainProduct EXCEPT !.kind = k, !.m = m, !.n = 3, !.tiles = t, !.splits = s, !.mFirst = f, !.aligned = a] :
        k \in {"dense", "tsm"}, m \in {1, 3}, t \in {4, 5, 7}, s \in 1 .. 3, f \in BOOLEAN, a \in BOOLEAN}
    \cup {[PlainProduct EXCEPT !.kind = "hybrid", !.m = 5, !.n = 3, !.splitM = s] : s \in 1 .. 4}
SomeProducts == Batches \cup Splits

-----------------------------------------------------------------------------
\* What a call is unless it says otherwise.
PlainCall ==
    [dtype |-> "bf16", elem |-> "bf16", type |-> "normal", m |-> 64, n |-> 512, k |-> 1024, groups |-> 1,
     expected |-> 1, tokens |-> 1, sms |-> 39, ppu15 |-> TRUE, maxBn |-> 256, dynamic |-> FALSE, lut |-> {},
     moeDynamic |-> FALSE, perRow |-> FALSE, fits |-> TRUE, out |-> "bf16", c |-> "none", bias |-> FALSE,
     outScale |-> "none", compileOnly |-> FALSE, given |-> NoConfig, sbo |-> FALSE, signal |-> 0,
     lhs |-> NoTensor, rhs |-> NoTensor, e810 |-> 0, strides |-> <<>>,
     ranks |-> 1, capacity |-> 16, topk |-> 1]

Dtypes == {"bf16", "int8", "fp8", "fp4"}
Scales(dtype, size, stride) == [dtype |-> dtype, size |-> size, stride |-> stride, stored |-> stride]
Ready(size) == Scales("u16", size, NMajor(size))
WithScales(c) ==
    LET k == CeilDiv(c.k, 32)
    IN  IF c.dtype # "fp4" THEN c
        ELSE [c EXCEPT !.lhs = IF c.type = "masked" THEN Ready(<<c.groups, c.m, k>>)
                               ELSE IF c.type = "fused" THEN Scales("u16", <<c.tokens, k>>, <<k, 1>>)
                               ELSE Ready(<<c.m, k>>),
                       !.rhs = IF c.type = "normal" THEN Ready(<<c.n, k>>) ELSE Ready(<<c.groups, c.n, k>>)]

\* Dense problems from one row to three thousand, odd and even N.
DenseCalls ==
    {[PlainCall EXCEPT !.dtype = dt, !.elem = dt, !.m = m, !.n = n, !.k = k, !.ppu15 = p, !.dynamic = y] :
        dt \in Dtypes, m \in {1, 2, 5, 39, 65, 128, 129, 200, 256, 384, 1025, 3000}, n \in {1, 40, 161, 512, 640, 4096},
        k \in {64, 1024, 7168}, p \in BOOLEAN, y \in {FALSE}}
    \cup {[PlainCall EXCEPT !.dtype = dt, !.elem = dt, !.m = m, !.n = n, !.k = 2048, !.dynamic = TRUE] :
            dt \in {"bf16", "int8"}, m \in {1, 39, 129, 1025, 3000}, n \in {161, 512, 4096}}

\* Large products, with repeated loads that overflow and one whose K is no multiple
\* of 128. The tile tuned by hand is for 72 CUs.
SearchedCalls ==
    {[PlainCall EXCEPT !.m = x[1], !.n = x[2], !.k = x[3], !.sms = x[4], !.ppu15 = FALSE] :
        x \in {<<4096, 4096, 4096, 39>>, <<8192, 12288, 7168, 72>>, <<4160, 4224, 4160, 20>>,
               <<4096, 4096, 7168, 72>>, <<16384, 4096, 16384, 64>>}}

\* Every measured shape of the 810E, also as a sum, with half of its CUs, and with
\* another output; batches with the strides listed, on other devices, with short and
\* odd K, narrow, empty.
NativeCalls ==
    LET entry(e) == [PlainCall EXCEPT !.m = e.m, !.n = e.n, !.k = e.k, !.out = e.out, !.sms = 72, !.e810 = 72, !.ppu15 = FALSE]
        strided == [PlainCall EXCEPT !.type = "strided", !.groups = 64, !.sms = 72, !.e810 = 72, !.ppu15 = FALSE]
    IN  {entry(e) : e \in Model810e!DenseTable}
        \cup {[entry(e) EXCEPT !.c = "other"] : e \in {x \in Model810e!DenseTable : x.m <= 384}}
        \cup {[entry(e) EXCEPT !.sms = 36] : e \in {x \in Model810e!DenseTable : x.m <= 384}}
        \cup {[strided EXCEPT !.m = e.m, !.n = e.n, !.k = e.k, !.strides = e.strides, !.e810 = x] :
                e \in Model810e!BatchTable, x \in {0, 72}}
        \cup {[strided EXCEPT !.m = m, !.n = n, !.k = k, !.groups = b, !.strides = <<k, k, n, m * k, n * k, m * n>>, !.ppu15 = p] :
                m \in {0, 3, 65}, n \in {0, 4, 24, 512}, k \in {0, 32, 64, 96, 100, 128, 192}, b \in {0, 2}, p \in BOOLEAN}

\* MegaMoE rounds from no token to full ranks: models with tiles of their own, the
\* least sizes, and sizes the API refuses.
MegaCalls ==
    {[PlainCall EXCEPT !.dtype = "mxf4", !.type = "mega", !.ranks = x[1], !.groups = x[2], !.capacity = x[3], !.topk = x[4],
                       !.tokens = t, !.m = t, !.k = y[1], !.n = y[2], !.sms = z] :
        x \in {<<16, 24, 512, 8>>, <<2, 8, 64, 4>>, <<64, 4, 8192, 8>>, <<1, 48, 4096, 32>>, <<3, 8, 64, 4>>},
        t \in {0, 1, 16, 64, 350, 352, 512, 4096}, z \in {4, 39},
        y \in {<<7168, 3072>>, <<8192, 2048>>, <<1024, 64>>, <<1536, 64>>, <<1024, 512>>, <<4096, 1536>>, <<2048, 192>>,
               <<5120, 320>>, <<768, 64>>}}

\* Rows that few or many experts share.
GroupedCalls ==
    {[PlainCall EXCEPT !.dtype = dt, !.elem = dt, !.type = t, !.m = 8 * m, !.expected = m, !.groups = 8, !.n = n, !.k = k,
                       !.ppu15 = p, !.moeDynamic = y, !.sms = 20] :
        dt \in Dtypes, t \in {"masked", "nopad"}, m \in {1, 3, 40, 129, 300}, n \in {64, 512, 1536, 4096},
        k \in {128, 1024, 7168}, p \in BOOLEAN, y \in BOOLEAN}
    \cup {[PlainCall EXCEPT !.dtype = dt, !.elem = dt, !.type = "contiguous", !.m = m, !.groups = 8, !.n = n, !.ppu15 = p] :
            dt \in {"bf16", "int8", "fp8"}, m \in {0, 128, 1024, 8192}, n \in {64, 512, 4096}, p \in BOOLEAN}
    \cup {[PlainCall EXCEPT !.dtype = dt, !.elem = dt, !.type = "nopad", !.m = m, !.groups = 16, !.k = k, !.ppu15 = p] :
            dt \in {"bf16", "int8"}, m \in {0, 6, 9}, k \in {240, 256, 1024, 2048}, p \in BOOLEAN}

\* fp4 weights: few rows of an expert to a thousand, short and deep K, narrow and wide N,
\* few experts and many; rows of weights too wide for one tile; tiles of the user.
WeightCall(type, each, groups, n, k, sms) ==
    [PlainCall EXCEPT !.dtype = "w4a8", !.elem = "w4a8", !.type = type, !.expected = each, !.groups = groups, !.n = n,
                      !.k = k, !.sms = sms, !.tokens = groups * each - (each % 4),
                      !.m = IF type = "masked" THEN each + 5 ELSE groups * each - (each % 4)]
UserTiles ==
    {Weights!Core(39), Weights!Tile(39, 64, 128, 64, 64, 3, 1), Weights!Tile(39, 32, 256, 32, 32, 2, 1),
     Weights!Tile(39, 96, 256, 96, 32, 4, 1), Weights!Tile(39, 64, 512, 64, 64, 4, 1), Weights!Tile(39, 48, 256, 48, 64, 2, 1),
     Weights!Tile(39, 16, 128, 16, 64, 2, 4), Weights!Tile(40, 16, 64, 16, 64, 2, 1), Weights!Tile(39, 32, 64, 64, 64, 2, 1)}
WeightCalls ==
    {WeightCall(t, r, g, n, k, IF r = 100 THEN 20 ELSE 39) :
        t \in {"nopad", "masked", "fused"}, r \in {0, 1, 20, 40, 100, 163, 180, 600, 1100}, g \in {4, 8, 65},
        n \in {64, 192, 1024, 4096, 7168}, k \in {128, 384, 512, 2560, 7168}}
    \cup {WeightCall(t, r, 8, n, k, 39) :
            t \in {"nopad", "fused"}, r \in {520, 1030, 4100}, n \in {100, 131072}, k \in {1024, 4096}}
    \cup {[WeightCall(t, r, 8, 2048, k, 39) EXCEPT !.given = x, !.ppu15 = p] :
            t \in {"nopad", "masked", "fused"}, r \in {20, 600}, k \in {512, 2048, 3136}, x \in UserTiles, p \in BOOLEAN}

\* Activation and quantisation in the epilogue.
FusingCalls ==
    {[PlainCall EXCEPT !.dtype = "fp4", !.elem = "fp4", !.type = t, !.m = 8 * m, !.expected = m, !.groups = 8, !.n = n,
                       !.k = k, !.out = "u8", !.outScale = "fresh", !.moeDynamic = y] :
        t \in {"masked", "nopad"}, m \in {1, 3, 40, 300}, n \in {96, 512, 4096}, k \in {128, 2048}, y \in BOOLEAN}

\* The user's table: a row for these rows, for more, for another N; one of a dense
\* problem whose tile the fused epilogue refuses.
Row(n, k, groups, m, bn) ==
    [n |-> n, k |-> k, groups |-> groups, m |-> m, bm |-> 64, bn |-> bn, bk |-> 128, wm |-> 32, wn |-> 32, stages |-> 2]
SomeTable == {Row(512, 1024, 1, 64, 128), Row(512, 1024, 8, 16, 64), Row(512, 1024, 8, 4, 96),
              Row(512, 2048, 8, 4, 96), Row(512, 2048, 1, 48, 32), Row(640, 1024, 1, 64, 128)}
ASSUME SomeTableIsValid == \A x \in SomeTable : RowIsValid(x, IF x.groups = 1 THEN "normal" ELSE "nopad")
\* Every row of the built-in tables.
BuiltinCalls ==
    LET tuned(dt, type, x, groups, ppu15) ==
            [PlainCall EXCEPT !.dtype = dt, !.elem = dt, !.type = type, !.m = groups * Largest(1, x.m - 3), !.groups = groups,
                              !.n = x.n, !.k = x.k, !.ppu15 = ppu15]
    IN  {tuned("int8", "normal", x, 1, FALSE) : x \in Int8Dense}
        \cup {tuned("int8", "normal", x, 1, TRUE) : x \in Int8Dense15}
        \cup {tuned("fp8", "normal", x, 1, TRUE) : x \in Fp8Dense}
        \cup {tuned("fp8", "nopad", x, 8, TRUE) : x \in Fp8NoPad}

TableCalls ==
    LET tabled(dt, x) == [PlainCall EXCEPT !.dtype = dt, !.elem = dt, !.type = x[1], !.m = x[2], !.expected = x[3],
                                           !.groups = x[4], !.lut = SomeTable]
        grouped == {<<"nopad", 24, 3, 8>>, <<"masked", 64, 9, 8>>, <<"masked", 64, 40, 8>>}
    IN  {tabled(dt, x) : dt \in Dtypes, x \in grouped \cup {<<"normal", 33, 1, 1>>, <<"normal", 64, 1, 1>>}}
        \cup {[tabled("fp4", x) EXCEPT !.outScale = "fresh", !.out = "u8"] : x \in grouped}

\* Configurations of the user, SBO overlap with signals enough and too few, MoE-fused
\* calls, fp8 with one scale per row, calls that do not fit, compile-only calls.
UserConfig == [grid |-> 39, bm |-> 64, bn |-> 128, bk |-> 128, wm |-> 32, wn |-> 32, wk |-> 128, stages |-> 3, smem |-> 0]
OtherCalls ==
    {[PlainCall EXCEPT !.dtype = dt, !.elem = dt, !.type = t, !.groups = 8, !.given = UserConfig, !.fits = f] :
        dt \in Dtypes, t \in {"normal", "masked", "nopad"}, f \in BOOLEAN}
    \cup {[PlainCall EXCEPT !.dtype = "int8", !.elem = "int8", !.type = "masked", !.groups = 8, !.expected = 40,
                            !.sbo = TRUE, !.signal = s] : s \in {1, 8, 64}}
    \cup {[PlainCall EXCEPT !.dtype = dt, !.elem = dt, !.type = "fused", !.tokens = t, !.groups = 8, !.given = UserConfig,
                            !.perRow = r, !.m = m, !.k = k] :
            dt \in Dtypes, t \in {0, 24, 32}, r \in BOOLEAN, m \in {0, 64}, k \in {136, 256, 1024}}
    \cup {[PlainCall EXCEPT !.dtype = "fp8", !.elem = "fp8", !.type = t, !.groups = 8, !.perRow = TRUE, !.k = k] :
            t \in {"normal", "contiguous", "masked", "nopad"}, k \in {256, 1024}}
    \cup {[PlainCall EXCEPT !.m = m, !.n = n, !.k = k, !.c = c, !.out = o, !.compileOnly = y, !.ppu15 = p] :
            m \in {0, 2, 64}, n \in {0, 1, 512}, k \in {0, 1024, 1028}, c \in {"none", "other", "same"}, o \in {"bf16", "fp32"},
            y \in BOOLEAN, p \in BOOLEAN}
    \cup {[PlainCall EXCEPT !.dtype = dt, !.elem = dt, !.k = k, !.c = c] :
            dt \in Dtypes \ {"bf16"}, k \in {0, 1024}, c \in {"other", "same"}}

\* Scales in every layout, also of extent one, and an MLP: the second GEMM reads the
\* scales that the epilogue of the first has written, or both write the same ones.
Layouts(size) ==
    {Scales("u16", size, NMajor(size)), Scales("u16", size, KMajor(size)), Scales("u8", size, KMajor(size)),
     Scales("u16", size, [NMajor(size) EXCEPT ![Len(size)] = @ + 4]), Scales("f32", size, KMajor(size))}
Mlp(type, m, k, n) ==
    [PlainCall EXCEPT !.dtype = "fp4", !.elem = "fp4", !.type = type, !.m = m, !.groups = 2, !.k = k, !.n = n,
                      !.tokens = m, !.given = IF type = "fused" THEN UserConfig ELSE NoConfig]
LhsSize(c) == LET k == CeilDiv(c.k, 32) IN IF c.type = "masked" THEN <<2, c.m, k>> ELSE <<c.m, k>>
RhsSize(c) == <<2, c.n, CeilDiv(c.k, 32)>>
FirstOfMlp ==
    UNION {{[Mlp(t, m, 64, n) EXCEPT !.lhs = l, !.rhs = r, !.out = "u8", !.outScale = "fresh", !.compileOnly = y] :
              l \in Layouts(LhsSize(Mlp(t, m, 64, n))), r \in Layouts(RhsSize(Mlp(t, m, 64, n))), y \in BOOLEAN} :
           t \in {"masked", "nopad", "fused"}, m \in {1, 3}, n \in {128, 384}}
SecondOfMlp ==
    UNION {{[Mlp(t, m, n \div 4, 64) EXCEPT !.lhs = [NoTensor EXCEPT !.dtype = "again", !.size = LhsSize(Mlp(t, m, n \div 4, 64))],
                                            !.rhs = Ready(RhsSize(Mlp(t, m, n \div 4, 64))), !.compileOnly = y],
            [Mlp(t, m, 64, n) EXCEPT !.lhs = Ready(LhsSize(Mlp(t, m, 64, n))), !.rhs = Ready(RhsSize(Mlp(t, m, 64, n))),
                                     !.out = "u8", !.outScale = "again", !.compileOnly = y]} :
           t \in {"masked", "nopad", "fused"}, m \in {1, 3}, n \in {128, 384}, y \in BOOLEAN}

SomeCalls ==
    {WithScales(c) : c \in DenseCalls \cup SearchedCalls \cup NativeCalls \cup MegaCalls \cup GroupedCalls \cup WeightCalls \cup
                            FusingCalls \cup TableCalls \cup BuiltinCalls \cup OtherCalls} \cup FirstOfMlp

\* Sums: products with and without a C.
SumCalls ==
    {[PlainCall EXCEPT !.dtype = dt, !.elem = dt, !.c = c, !.k = k] :
        dt \in {"bf16", "int8", "fp8"}, c \in {"none", "same", "other"}, k \in {0, 1024}}

-----------------------------------------------------------------------------
\* Three parts, so that a tile is used twice, and gathering part by part or at once.
SomePlans == {[parts |-> 3, gather |-> "chunk"], [parts |-> 2, gather |-> "full"]}
Interchangeable == Permutations(HostThreads)

-----------------------------------------------------------------------------
HostInit == CallInit /\ LayoutInit /\ ProductInit /\ StreamedInit

AtRest == calls = 0 /\ owner = None /\ phase = "idle" /\ made = 0

HostNext ==
    \/ (calls > 0 \/ AtRest) /\ CallNext /\ UNCHANGED <<layoutVars, productVars, streamVars>>
    \/ (owner # None \/ AtRest) /\ LayoutNext /\ UNCHANGED <<callVars, productVars, streamVars>>
    \/ (phase # "idle" \/ AtRest) /\ ProductNext /\ UNCHANGED <<callVars, layoutVars, streamVars>>
    \/ (made > 0 \/ AtRest) /\ StreamedNext /\ UNCHANGED <<callVars, layoutVars, productVars>>

HostSpec == HostInit /\ [][HostNext]_<<callVars, layoutVars, productVars, streamVars>>
=============================================================================
