------------------------------ MODULE HostCalls ------------------------------
(* A GEMM call from the checks of the API (apis/gemm.hpp) to the launch           *)
(* (jit_kernels/impls/*.hpp): what is refused or redirected, what becomes of C    *)
(* and of scales in other layouts, which kernel is launched with which            *)
(* configuration, and what the call leaves behind. Calls follow one another on    *)
(* one stream; a tensor of output scales lives on from a call to later ones.      *)
(*                                                                               *)
(* The values of D are sets of terms: {"AB"} the product, {"AB", "C"} the sum.    *)
(* Operand sizes, dtypes and contiguity are `fits' where they all agree.          *)
EXTENDS TileConfigs, TLC
Model810e == INSTANCE Dispatch810e
Mega == INSTANCE MegaConfigs
Weights == INSTANCE WeightTiles

CONSTANTS FirstCalls,  \* bound: the calls that are tried
          LaterCalls,  \* bound: the calls that are tried after another
          MaxCalls     \* bound: calls one after the other

VARIABLES
    call,      \* the call in progress, or the last one
    at,        \* how far it is
    d,         \* what D holds
    accum,     \* what the fp32 temporary of a bf16 sum holds
    lhsScale,  \* the scales the kernel will read
    rhsScale,
    outScale,  \* scales that a fused epilogue writes
    launch,    \* the launch of the call
    calls      \* how many calls there have been

callVars == <<call, at, d, accum, lhsScale, rhsScale, outScale, launch, calls>>

NoTensor == [dtype |-> "none", size |-> <<>>, stride |-> <<>>, stored |-> <<>>]
NoLaunch == [kernel |-> "none"]
NoConfig == [grid |-> 0]
NoCall == [type |-> "none"]

-----------------------------------------------------------------------------
(* Scale tensors: rows by K, or groups by rows by K. `stride' says how the tensor *)
(* is addressed, `stored' how the scales lie in memory.                           *)

Lost == <<-1, -1, -1>>
KMajor(size) == IF Len(size) = 2 THEN <<size[2], 1>> ELSE <<size[2] * size[3], size[3], 1>>
NMajor(size) == IF Len(size) = 2 THEN <<1, size[1]>> ELSE <<size[2] * size[3], 1, size[2]>>

\* The stride of a dimension of extent 1 takes part in no address.
SameAddresses(size, a, b) == \A i \in DOMAIN size : size[i] > 1 => a[i] = b[i]
IsContiguous(t) == SameAddresses(t.size, t.stride, KMajor(t.size))
Holds(t, stride) == SameAddresses(t.size, t.stored, stride)

\* The caller's scales lie as their strides say. Only the APIs of fp4 take out_scale.
ASSUME CallsAssumption ==
    \A c \in FirstCalls \cup LaterCalls :
        /\ {"dtype", "outScale", "compileOnly"} \subseteq DOMAIN c
        /\ c.compileOnly \in BOOLEAN
        /\ c.lhs.dtype # "again" => Holds(c.lhs, c.lhs.stride)
        /\ Holds(c.rhs, c.rhs.stride)
        /\ c.outScale # "none" => c.dtype = "fp4"

\* A copy in another layout, as good as its source.
Relaid(t, size) ==
    [dtype |-> "u16", size |-> size, stride |-> NMajor(size),
     stored |-> IF Holds(t, t.stride) THEN NMajor(size) ELSE Lost]

CheckLayout(t) == t.dtype = "u16" /\ SameAddresses(t.size, t.stride, NMajor(t.size))

\* Already uint16 but not transposed.
PostPreprocess(t) ==
    IF t.dtype = "u16" /\ IsContiguous(t) /\ Len(t.size) = 3 THEN Relaid(t, t.size) ELSE t

\* Bytes of K, padded to an even number, in pairs.
Preprocess(t) ==
    LET last == Len(t.size)
        bytes == IF t.dtype = "u8" THEN t.size[last] ELSE 2 * t.size[last]
    IN  Relaid(t, [t.size EXCEPT ![last] = CeilDiv(bytes, 2)])

LhsScale(t) == IF CheckLayout(t) THEN t ELSE Preprocess(t)
RhsScale(t) ==
    LET post == PostPreprocess(t)
    IN  IF CheckLayout(t) THEN t ELSE IF CheckLayout(post) THEN post ELSE Preprocess(post)

-----------------------------------------------------------------------------
(* What the APIs accept.                                                          *)

Dense(c) == c.type = "normal"
Strided(c) == c.type = "strided"
Tile4(c) == c.dtype = "fp4" /\ c.type # "fused"
Weighted(c) == c.dtype = "w4a8"    \* fp8 rows, fp4 weights
Fusing(c) == c.outScale # "none" /\ c.m > 0

\* One scale per row and per column: the kernels of int8 serve fp8 too.
IsRedirected(c) == c.dtype = "fp8" /\ c.perRow /\ c.type # "fused"

\* out_scale: what a fused epilogue takes, of a shape that N determines.
FusingAccepts(c) ==
    IF Fusing(c)
    THEN /\ c.out = "u8" /\ ~c.bias
         /\ IsContiguous(outScale) \/ CheckLayout(outScale)
         /\ c.type = "fused" => c.n % 64 = 0
    ELSE c.out = "bf16" /\ (c.type = "fused" => c.n % 2 = 0)

DenseAccepts(c) == IF c.dtype = "bf16" THEN c.out \in {"bf16", "fp32"} ELSE c.n > 0 /\ c.k > 0 /\ c.out = "bf16"

Empty(c) == (c.m = 0 /\ c.type # "mega") \/ (c.type \in {"normal", "strided"} /\ (c.n = 0 \/ c.k = 0)) \/ (Strided(c) /\ c.groups = 0)

\* Native batches are for PPU 1.0, with two K tiles of the least depth.
StridedAccepts(c) == ~c.ppu15 /\ (Empty(c) \/ (c.k >= 64 /\ c.k % 32 = 0))

MaskedAccepts(c) == c.expected > 0 /\ c.m > 0 /\ c.n > 0 /\ c.k > 0 /\ c.groups > 0

\* m counts the rows of the output, a multiple of the tokens.
FusedMoeAccepts(c) ==
    /\ c.tokens > 0
    /\ c.dtype # "bf16" => c.k % 16 = 0
    /\ c.dtype # "fp4" => c.m % c.tokens = 0
    /\ (c.dtype = "fp8" /\ ~c.perRow /\ c.m > 0) =>
           c.n % 128 = 0 /\ c.k % 128 = 0 /\ c.given.bk = 128
    /\ c.dtype = "fp4" =>
           /\ lhsScale.dtype = "u16" /\ IsContiguous(lhsScale)
           /\ CheckLayout(rhsScale)

Accepts(c) ==
    /\ c.fits
    /\ c.dtype = "fp4" /\ ~Dense(c) => FusingAccepts(c)
    /\ CASE Weighted(c)          -> Weights!OperandsAccepted(c)
         [] Dense(c)             -> DenseAccepts(c)
         [] Strided(c)           -> StridedAccepts(c)
         [] c.type = "mega"       -> Mega!MegaAccepts(c)
         [] c.type = "masked"     -> MaskedAccepts(c)
         [] c.type = "fused"      -> FusedMoeAccepts(c)
         [] c.type = "contiguous" -> c.dtype # "int8" => (c.n > 0 /\ c.k > 0 /\ c.groups > 0)
         [] c.type = "nopad"      -> TRUE

-----------------------------------------------------------------------------
(* The kernel and its configuration.                                              *)

\* The product of a bf16 call with C goes to a temporary first.
Sums(c) == Dense(c) /\ c.dtype = "bf16" /\ c.c # "none" /\ c.m # 0 /\ c.n # 0 /\ c.k # 0

ExpectedM(c) ==
    CASE c.type = "masked" -> c.expected
      [] c.type = "nopad"  -> CeilDiv(c.m, c.groups)
      [] OTHER             -> c.m

Shape(c) ==
    [dtype |-> c.dtype, type |-> c.type, m |-> ExpectedM(c), n |-> c.n, k |-> c.k,
     groups |-> IF Dense(c) \/ (c.dtype = "bf16" /\ c.type = "contiguous") THEN 1 ELSE c.groups,
     sms |-> c.sms, ppu15 |-> c.ppu15, bias |-> c.bias, fusing |-> Fusing(c),
     minBn |-> 32, maxBn |-> c.maxBn, dynamic |-> c.dynamic, lut |-> c.lut]

Threads(x) == (x.bm \div x.wm) * (x.bn \div x.wn) * (x.bk \div x.wk) * 32

\* A configuration of the user with the shared memory it takes; blockwise fused
\* fp8 has no more stages than K fills.
Given(c) ==
    LET t == <<c.given.bm, c.given.bn>>
        bytes == IF c.dtype = "bf16" THEN 2 ELSE 1
        deep == c.type = "fused" /\ c.dtype = "fp8" /\ ~c.perRow
        stages == IF deep /\ c.k < c.given.bk * c.given.stages THEN c.k \div c.given.bk ELSE c.given.stages
    IN  [c.given EXCEPT !.stages = stages, !.smem =
            CASE c.dtype \in {"bf16", "int8"} -> SmemPlain(t, c.given.bk, stages, bytes)
              [] c.dtype = "fp8" -> SmemFp8(t, c.given.bk, stages)
              [] c.dtype = "fp4" /\ c.type = "fused" -> SmemFp4Fused(Shape(c), t, c.given.bk, c.given.stages)
              [] OTHER -> SmemFp4(Shape(c), t, c.given.wm, c.given.bk, c.given.stages)]

\* GEMV of few rows, one group each: threads per block, threads and columns of a
\* thread, and whether K is read at once. Alignment is 16 bytes.
NoGemv == [block |-> 0, perN |-> 0, columns |-> 0, unroll |-> 0, small |-> FALSE]
GemvConfig(c) ==
    LET al == IF c.dtype = "int8" THEN 16 ELSE 8
        gemv(block, perN, columns, unroll) ==
            [block |-> block, perN |-> perN, columns |-> columns, unroll |-> unroll, small |-> block = 64]
        many == IF c.m >= 128 THEN 4 ELSE IF c.m >= 32 THEN 2 ELSE 1
    IN  FirstRule(<< <<c.k <= 8 * al, gemv(64, 8, 16, 1)>>,
                     <<c.k <= 16 * al, gemv(64, 16, 16, 1)>>,
                     <<c.k <= 32 * al, gemv(64, 32, 16, 1)>>,
                     <<c.k % (64 * al) = 0, gemv(256, 32, many, 2)>>,
                     <<c.dtype = "int8" /\ c.k % (32 * al) = 0 /\ c.n % 32 = 0, gemv(256, 32, many, 1)>>,
                     <<c.k % (8 * al) = 0, gemv(256, 8, IF c.m >= 64 THEN 4 ELSE 1, 1)>>,
                     <<TRUE, NoGemv>> >>)

FewRows(c) ==
    c.k % 16 = 0 /\ ((2 * c.m <= 3 * c.groups /\ c.k <= 256) \/ (100 * c.m < 65 * c.groups /\ c.k > 256))

\* Whole column blocks only.
UsesGemv(c) ==
    LET g == GemvConfig(c)
    IN  /\ c.type = "nopad"
        /\ \/ c.dtype = "int8" /\ c.elem = "int8" /\ ~c.ppu15 /\ FewRows(c)
           \/ c.dtype = "bf16" /\ IF c.ppu15 THEN 10 * c.m < 8 * c.groups ELSE FewRows(c)
        /\ g # NoGemv /\ c.n % (g.columns * (g.block \div g.perN)) = 0

\* The launcher prints and returns if K is not what the kernel reads.
GemvRuns(c) ==
    LET al == IF c.dtype = "int8" THEN 16 ELSE 8
        g == GemvConfig(c)
    IN  IF g.small THEN c.k <= g.unroll * g.perN * al /\ c.k % al = 0
        ELSE c.k % (g.unroll * g.perN * al) = 0

\* One or two rows of a dense bf16 product.
UsesDenseGemv(c) ==
    /\ Dense(c) /\ c.dtype = "bf16" /\ c.ppu15 /\ c.m \in {1, 2} /\ c.given = NoConfig
    /\ c.n >= 8 /\ c.k >= 8 /\ c.k % 8 = 0
    /\ c.m = 2 => c.n <= 2048
    /\ c.m = 1 => c.n < 3072 \/ c.k < 3584

DenseGemvLaunch(c) ==
    LET add == c.k \div 8
        x == FirstRule(<< <<c.n <= 100, 128>>, <<add <= 2, 2>>, <<add <= 4, 4>>, <<add <= 8, 8>>,
                          <<add <= 64, 16>>, <<add <= 512, 32>>, <<add <= 1024, 64>>, <<TRUE, 128>> >>)
        rows == IF c.m = 2 /\ c.n > 512 /\ c.k >= 2048 THEN 2 ELSE 1
    IN  [kernel |-> "dense_gemv", threads |-> 128, blocks |-> CeilDiv(c.n, rows * (128 \div x))]

\* One column: the GEMV of the transposed product.
IsOneColumn(c) == Dense(c) /\ c.dtype = "bf16" /\ ~c.ppu15 /\ c.n = 1 /\ c.given = NoConfig

\* The dynamic-tile kernels bring a tile of their own.
UsesInt8Dynamic(c) ==
    /\ c.dtype = "int8" /\ c.type = "masked" /\ ~c.sbo
    /\ c.moeDynamic \/ (c.ppu15 /\ <<c.n, c.k>> \in {<<4096, 7168>>, <<7168, 2048>>, <<4096, 8192>>, <<8192, 2048>>})
Int8DynamicTile(c) ==
    LET tile(bm, bn, wm, stages) ==
            Config(c.sms, <<bm, bn>>, 128, <<wm, 64>>, stages, SmemPlain(<<bm, bn>>, 128, stages, 1))
    IN  IF c.expected > 73 THEN tile(256, 256, 64, 4)
        ELSE IF c.k > 2048 THEN tile(192, 128, 48, 3) ELSE tile(128, 128, 64, 2)

UsesFp4Dynamic(c) == c.dtype = "fp4" /\ c.moeDynamic /\ DynamicTileWanted(Shape(c))

\* Column blocks a CTA of the fp4 kernel takes at once.
Fp4Expand(c, x) ==
    LET wide(e) == c.n % (e * x.bn) = 0 /\ ~c.bias /\ ~Fusing(c)
    IN  IF c.type = "nopad" /\ c.k <= 128 /\ wide(8) THEN 8
        ELSE IF c.k <= 512 /\ wide(4) /\ (c.type = "masked" => c.expected > 2) THEN 4 ELSE 1

\* The next column block's prologue under this one's epilogue, on long small-K grids.
OverlapOn(c, x) ==
    LET perCu == Largest(1, SmemSize \div x.smem)
    IN  c.k <= 2048 /\ CeilDiv(CeilDiv(c.m, x.bm) * CeilDiv(c.n, x.bn), x.grid * perCu) > 3

TileLaunchOf(c, x) ==
    LET fp32 == Dense(c) /\ c.dtype = "bf16" /\ ~c.ppu15
    IN  [kernel |-> "tile", threads |-> Threads(x), given |-> c.given # NoConfig,
         config |-> IF fp32 THEN [x EXCEPT !.smem = Largest(@, x.bm * x.bn * (IF c.out = "fp32" THEN 4 ELSE 2))] ELSE x,
         expand |-> IF Tile4(c) /\ ~Dense(c) THEN Fp4Expand(c, x) ELSE 1,
         overlap |-> Dense(c) /\ c.dtype = "bf16" /\ c.ppu15 /\ OverlapOn(c, x)]
\* A tile of the user is taken as it is, a default one after the standard tile that it
\* refines has been checked.
WeightTile(c) == IF c.given # NoConfig THEN c.given ELSE Weights!BestTile(c)
WeightChecks(c, x) ==
    /\ c.given = NoConfig => Weights!ChecksTile(c, Weights!StandardTile(c, Weights!ExpectedRows(c)))
    /\ Weights!ChecksPlan(c, x)
Fp4Columns(c) == IF c.given # NoConfig THEN Given(c).bn ELSE Fp4Pick(Shape(c)).bn
TileLaunch(c) == TileLaunchOf(c, IF c.given # NoConfig THEN Given(c) ELSE Pick(Shape(c)))

\* A shape with measured tiles, if the whole 810E is used (`e810': its CUs, zero on
\* another device). The output of a sum is the fp32 temporary.
Measured(c) ==
    IF c.e810 > 0 /\ c.sms >= c.e810 /\ Dense(c) /\ c.dtype = "bf16" /\ c.given = NoConfig
    THEN {e \in Model810e!DenseTable : /\ <<e.m, e.n, e.k>> = <<c.m, c.n, c.k>>
                                    /\ e.out = IF Sums(c) THEN "fp32" ELSE c.out}
    ELSE {}
MeasuredLaunch(c, e) ==
    LET t == e.tile
    IN  IF e.kind = "standard"
        THEN TileLaunchOf(c, Config(c.sms, <<t.bm, t.bn>>, t.bk, <<t.wm, t.wn>>, t.stages,
                                    SmemPlain(<<t.bm, t.bn>>, t.bk, t.stages, 2)))
        ELSE [kernel |-> "native", native |-> Model810e!NativeLaunches(e)]

LaunchOf(c) ==
    IF IsOneColumn(c) THEN [kernel |-> "dense_gemv", threads |-> 128, blocks |-> c.m]
    ELSE IF Weighted(c) THEN [kernel |-> "weights", plan |-> Weights!PlanOf(c, WeightTile(c))]
    ELSE IF c.type = "mega" THEN [kernel |-> "mega", l1 |-> Mega!L1Launch(c), l2 |-> Mega!L2Launch(c)]
    ELSE IF Strided(c)
         THEN [kernel |-> "native", native |-> {Model810e!BatchLaunch(c.e810 > 0, c.groups, c.m, c.n, c.k, c.strides)}]
    ELSE IF Measured(c) # {} THEN MeasuredLaunch(c, CHOOSE e \in Measured(c) : TRUE)
    ELSE IF UsesGemv(c) THEN [kernel |-> "gemv", threads |-> GemvConfig(c).block]
    ELSE IF UsesDenseGemv(c) THEN DenseGemvLaunch(c)
    ELSE IF UsesInt8Dynamic(c)
         THEN [kernel |-> "dynamic", threads |-> Threads(Int8DynamicTile(c)), smem |-> Int8DynamicTile(c).smem]
    ELSE IF UsesFp4Dynamic(c) THEN [kernel |-> "dynamic"] @@ DynamicTileLaunch[DynamicTileId(Shape(c))]
    ELSE TileLaunch(c)

\* What the launchers refuse after the APIs have accepted: signals of SBO overlap for
\* every block of rows, the tile of a fused epilogue, tiles of the 810E, plans for fp4
\* weights, and what MegaMoE asserts of its own.
LauncherAccepts(c, x) ==
    /\ x.kernel = "mega" => Mega!MegaAsserts(c, x.l1, x.l2)
    /\ x.kernel = "weights" => WeightChecks(c, x.plan)
    /\ x.kernel = "native" => \A l \in x.native : Model810e!NativeAccepts(l)
    /\ Dense(c) /\ c.dtype = "bf16" /\ Measured(c) = {} => IF IsOneColumn(c) THEN c.k % 8 = 0 ELSE c.n % 2 = 0
    /\ c.type = "masked" /\ c.dtype = "int8" /\ c.sbo => c.signal >= c.groups * CeilDiv(c.m, x.config.bm)
    /\ Tile4(c) /\ Fusing(c) => c.n % 64 = 0 /\ Fp4Columns(c) % 64 = 0

-----------------------------------------------------------------------------
(* A call.                                                                        *)

\* Scales, or the scales that the call before has left: the second GEMM of an MLP.
FromBefore(c) == c.lhs.dtype = "again"

OutScaleSize(c) ==
    LET columns == CeilDiv(c.n \div 4, 32)
    IN  IF c.type = "masked" THEN <<c.groups, c.m, columns>> ELSE <<c.m, columns>>

CallInit ==
    /\ call = NoCall /\ at = "idle" /\ calls = 0
    /\ d = {} /\ accum = {}
    /\ lhsScale = NoTensor /\ rhsScale = NoTensor /\ outScale = NoTensor
    /\ launch = NoLaunch

\* The scales of one call may be those that an earlier fused epilogue has written.
Begin(c) ==
    /\ at \in {"idle", "done", "refused"} /\ calls < MaxCalls
    /\ calls > 0 => c.compileOnly = call.compileOnly
    /\ FromBefore(c) => at = "done" /\ Fusing(call) /\ outScale.size = c.lhs.size
    /\ c.outScale = "again" => at = "done" /\ Fusing(call) /\ outScale.size = OutScaleSize(c)
    /\ call' = c /\ at' = "checks" /\ calls' = calls + 1
    /\ d' = IF c.c = "same" THEN {"C"} ELSE {"old"}
    /\ accum' = {}
    /\ lhsScale' = IF FromBefore(c) THEN outScale ELSE c.lhs
    /\ rhsScale' = c.rhs
    /\ outScale' = IF c.outScale = "fresh"
                   THEN LET size == OutScaleSize(c)
                        IN  [dtype |-> "u16", size |-> size, stride |-> KMajor(size), stored |-> KMajor(size)]
                   ELSE outScale
    /\ launch' = NoLaunch

Redirect ==
    /\ at = "checks" /\ IsRedirected(call)
    /\ call' = [call EXCEPT !.dtype = "int8"]
    /\ UNCHANGED <<at, d, accum, lhsScale, rhsScale, outScale, launch, calls>>

Check ==
    /\ at = "checks" /\ ~IsRedirected(call)
    /\ at' = IF ~Accepts(call) THEN "refused" ELSE IF Tile4(call) THEN "scales" ELSE "entry"
    /\ UNCHANGED <<call, d, accum, lhsScale, rhsScale, outScale, launch, calls>>

PrepareScales ==
    /\ at = "scales"
    /\ lhsScale' = LhsScale(lhsScale) /\ rhsScale' = RhsScale(rhsScale)
    /\ at' = IF /\ {lhsScale.dtype, rhsScale.dtype} \subseteq {"u8", "u16"}
                /\ CheckLayout(lhsScale') /\ CheckLayout(rhsScale')
             THEN "entry" ELSE "refused"
    /\ UNCHANGED <<call, d, accum, outScale, launch, calls>>

\* The call without C, into the temporary.
OpenSum ==
    /\ at = "entry" /\ Sums(call)
    /\ accum' = {"old"} /\ at' = "launch"
    /\ UNCHANGED <<call, d, lhsScale, rhsScale, outScale, launch, calls>>

\* Nothing to multiply: D is C, or zero if K is.
EarlyReturn ==
    /\ at = "entry" /\ Empty(call)
    /\ d' = IF call.type \in {"normal", "strided"} /\ call.m # 0 /\ call.n # 0 /\ call.c # "same"
            THEN (IF call.c = "other" THEN {"C"} ELSE {}) ELSE d
    /\ at' = "done"
    /\ UNCHANGED <<call, accum, lhsScale, rhsScale, outScale, launch, calls>>

CopyC ==
    /\ at = "entry" /\ ~Sums(call) /\ ~Empty(call)
    /\ d' = IF Dense(call) /\ call.c = "other" THEN {"C"} ELSE d
    /\ at' = "launch"
    /\ UNCHANGED <<call, accum, lhsScale, rhsScale, outScale, launch, calls>>

\* Kernels have no use for what D holds. A fused epilogue writes scales N-major,
\* whatever the strides of the tensor it is given say.
Written(x, old) == IF call.compileOnly \/ (x.kernel = "gemv" /\ ~GemvRuns(call)) THEN old ELSE {"AB"}
Launch ==
    /\ at = "launch"
    /\ \E x \in {LaunchOf(call)} :
        IF LauncherAccepts(call, x)
        THEN /\ launch' = x /\ at' = "after"
             /\ d' = IF Sums(call) THEN d ELSE Written(x, d)
             /\ accum' = IF Sums(call) THEN Written(x, accum) ELSE accum
             /\ outScale' = IF Fusing(call) /\ ~call.compileOnly
                            THEN [outScale EXCEPT !.stored = NMajor(outScale.size)] ELSE outScale
        ELSE at' = "refused" /\ UNCHANGED <<launch, d, accum, outScale>>
    /\ UNCHANGED <<call, lhsScale, rhsScale, calls>>

AddC ==
    /\ at = "after" /\ Sums(call)
    /\ d' = IF call.compileOnly THEN d ELSE accum \cup {"C"}
    /\ at' = "done"
    /\ UNCHANGED <<call, accum, lhsScale, rhsScale, outScale, launch, calls>>

\* Mutant: the scales keep the strides they came with.
KeepStrides(t) == t

\* In place: the caller's tensor is addressed N-major from now on.
Restrided(t) == [t EXCEPT !.stride = NMajor(t.size)]
ReturnScales ==
    /\ at = "after" /\ ~Sums(call)
    /\ outScale' = IF Fusing(call) THEN Restrided(outScale) ELSE outScale
    /\ at' = "done"
    /\ UNCHANGED <<call, d, accum, lhsScale, rhsScale, launch, calls>>

Rest == at \in {"done", "refused"} /\ UNCHANGED callVars

CallNext ==
    \/ \E c \in IF calls = 0 THEN FirstCalls ELSE LaterCalls : Begin(c)
    \/ Redirect \/ Check \/ PrepareScales \/ OpenSum \/ EarlyReturn \/ CopyC
    \/ Launch \/ AddC \/ ReturnScales \/ Rest
CallSpec == CallInit /\ [][CallNext]_callVars

-----------------------------------------------------------------------------
\* What a tile kernel is built and launched with: warp tiles of 16 rows and columns
\* that divide the tile, warps that fit a CTA, at least two stages, shared memory
\* that exists, no more CTAs than CUs. A fused epilogue pairs columns 32 apart, and
\* contiguous groups are aligned to tiles of 128 rows.
Builds(x, c) ==
    /\ x.wm > 0 /\ x.wn > 0 /\ x.wk > 0
    /\ x.bm % x.wm = 0 /\ x.bn % x.wn = 0 /\ x.bk % x.wk = 0
    /\ x.wm % 16 = 0 /\ x.wn % 16 = 0
    /\ Warps(x) \in 1..BlockWarps /\ x.stages >= 2
    /\ x.smem <= SmemSize /\ x.grid \in 1..c.sms
    /\ Fusing(c) => x.bn % 64 = 0
    /\ c.type = "contiguous" => x.bm <= MkAlignment /\ MkAlignment % x.bm = 0

\* INVARIANT. Every configuration that the walks, the adaptive selector, the user's
\* tables and the dynamic tiles lead to can be compiled and launched: the launchers
\* hand it to the JIT without looking at it again, but for the columns that a fused
\* epilogue needs, which no choice of theirs may lack. The native launchers of the 810E,
\* the checks of plans for fp4 weights and the asserts of MegaMoE do look, and refuse
\* neither a measured tile nor that of a batch, neither a plan of their own making nor a
\* round that the API accepts; and what they let pass, the kernel's own asserts do.
ConfigRuns ==
    /\ launch.kernel = "tile" => (launch.given \/ Builds(launch.config, call))
    /\ launch.kernel = "dynamic" => launch.smem <= SmemSize /\ launch.threads <= 32 * BlockWarps
    /\ launch.kernel = "mega" => Mega!L1Builds(call, launch.l1) /\ Mega!L2Builds(call, launch.l2)
    /\ launch.kernel = "weights" => Weights!PlanBuilds(call, launch.plan)
    /\ at = "launch" /\ Tile4(call) /\ Fusing(call) /\ call.given = NoConfig => Fp4Columns(call) % 64 = 0
    /\ at = "refused" /\ (call.type \in {"strided", "mega"} \/ Measured(call) # {} \/ (Weighted(call) /\ call.given = NoConfig)) => ~Accepts(call)

\* INVARIANT. An fp4 kernel reads N-major scales with arithmetic of its own, so
\* what it is given must lie N-major in memory with the values of the caller, also
\* when they are what a fused epilogue of an earlier call has left. The MoE kernel
\* reads the scales of its rows K-major.
ScalesReadAsGiven ==
    (launch # NoLaunch /\ call.dtype = "fp4" /\ ~call.compileOnly) =>
        /\ lhsScale.dtype = "u16" /\ rhsScale.dtype = "u16"
        /\ Holds(rhsScale, NMajor(rhsScale.size))
        /\ Holds(lhsScale, IF call.type = "fused" THEN KMajor(lhsScale.size) ELSE NMajor(lhsScale.size))

\* INVARIANT. A GEMM that returns without an error leaves A times B, plus C where the
\* caller gave one (gemm.hpp:58: with accumulation, C is copied to D before the GEMM).
ResultIsRight ==
    (at = "done" /\ ~call.compileOnly /\ call.m > 0 /\ call.n > 0) =>
        d = (IF call.k = 0 THEN {} ELSE {"AB"}) \cup (IF call.c = "none" THEN {} ELSE {"C"})
=============================================================================
