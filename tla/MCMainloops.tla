---------------------------- MODULE MCMainloops ----------------------------
EXTENDS CtaMachine, HyperPrograms

\* A list of F(g) for each configuration, and of the programs of warps 1, 2, ...
List(configurations, F(_)) == FoldSet(LAMBDA g, list : Append(list, F(g)), << >>, configurations)
Programs(warps, F(_)) == Unrolled(1, Cardinality(warps), LAMBDA w : <<F(w)>>)

\* The kernel with this program in each of the configurations, for tiles of its own.
InEach(configurations, Program(_, _), overlays(_), tiles(_)) ==
  List(configurations, LAMBDA g :
    [config |-> g, code |-> Programs(g.warps, LAMBDA w : Program(g, w)),
     expected |-> Table(1 .. tiles(g), LAMBDA t : EachKTile(t, g.kTiles, g.blocks)),
     overlays |-> overlays(g), open |-> {}])

\* These kernels leave arrivals at barriers bs open.
LeaveOpen(kernels, bs) == Unrolled(1, Len(kernels), LAMBDA i : <<[kernels[i] EXCEPT !.open = bs]>>)

NoOverlay(g) == {}
TilesOf(g) == g.tiles

Base == [warps : {1 .. 2}, loaders : {{1}}, stages : {2, 3}, blocks : {2}, tiles : {2}, kTiles : {1, 4}]
With(configurations, field, values) == {(field :> v) @@ g : g \in configurations, v \in values}
Named1(name, configurations) == With(configurations, "kernel", {name})

Tsm == With(Base, "tsm", BOOLEAN)
NoTsm == With(With(Base, "tsm", {FALSE}), "sbo", BOOLEAN)
TsmSbo == With(Tsm, "sbo", BOOLEAN)
OnN == Named1("OnN", With(TsmSbo, "nExpand", {3}))
Dense == With(With([warps : {1 .. 2}, loaders : {{1}}, stages : {2, 3}, blocks : {2}, tiles : {2}, kTiles : {1, 4}, warpK : {2}],
                "s2opt", BOOLEAN), "overlap", BOOLEAN)
Tree == {[warps |-> 1 .. 4, loaders |-> {1}, stages |-> 2, blocks |-> 2, tiles |-> 2, kTiles |-> 1, warpK |-> 4,
          s2opt |-> TRUE, overlap |-> FALSE, reduce |-> r, chunks |-> 2] : r \in {"D", "C"}}
Int8 == With(With(Base, "s2opt", {FALSE}), "sbo", BOOLEAN)
\* Two tiles of different shapes; stages is the larger number.
Shapes(configurations) == With({g \in configurations : g.stages = 3 /\ g.kTiles = 4}, "shapes", {<<2, 3>>, <<3, 2>>})
Columns(configurations) == {g \in With(configurations, "nExpand", {2}) : g.kTiles >= g.stages}
ColumnsOf(g) == g.tiles * g.nExpand
Plain == With(With(Base, "tsm", {FALSE}), "sbo", {FALSE})
Short == {[g EXCEPT !.stages = 1] : g \in {g \in Plain : g.kTiles = 1}}
W4 == With(With({[g EXCEPT !.tiles = 3] : g \in Plain}, "scales", {"none", "wide"}), "nExpand", {1})
      \cup {g \in With(With(Plain, "scales", {"cached"}), "nExpand", {2}) : g.stages = 2}
W4Reduce == With(With(With({[g EXCEPT !.blocks = 1] : g \in Plain}, "warpK", {2}), "rowBlocks", {2}), "nExpand", {1})
W4Tree == {[warps |-> 1 .. 4, loaders |-> {1}, stages |-> 2, blocks |-> 1, tiles |-> 2, kTiles |-> 2, warpK |-> 4,
            rowBlocks |-> 1, nExpand |-> 1, tsm |-> FALSE, sbo |-> FALSE]}
W4a16s == With(With(W4Reduce, "rowSteps", {1}), "tsm", BOOLEAN)
\* Every split of five K tiles: tile s is split s.
Splits == UNION {With(With([warps : {1 .. 2}, loaders : {{1}}, stages : {2, 3}, blocks : {2}, tiles : {n}, kTiles : {5}],
                           "tsm", BOOLEAN), "split", 1 .. n) : n \in 2 .. 3}
Fused == {[g EXCEPT !.loaders = g.warps] : g \in With(Tsm, "sbo", {FALSE})}

Pipelines == {[warps |-> 1 .. 2, scatter |-> 3 .. 4, loaders |-> {1}, stages |-> 2, blocks |-> 2, kTiles |-> 1, rows |-> r] :
              r \in {<< >>, <<1>>, <<2, 1, 2>>, <<4, 1>>}}

\* Rows with no, few and many KV blocks; a part of a window.
Segments == << <<1, 0, 1>>, <<2, 3, 0>>, <<3, 1, 4>> >>
Logits == With(With(With([warps : {1 .. 2}, first : {{1}}, loaders : {{1}}, stages : {2, 3}], "segments", {Segments}),
                    "turns", {1, 2}), "interleave", BOOLEAN)
\* The tasks of a CTA: the end of a row, a row of an odd number of blocks, an empty one.
Tasks(groups) ==
  IF groups = 1 THEN << <<1, 2, 4>>, <<1, 3, 4>>, <<2, 0, 1>>, <<4, 0, 2>>, <<4, 1, 2>> >>
  ELSE << <<1, 2, 4>>, <<2, 0, 3>>, <<2, 2, 3>>, <<4, 0, 1>> >>
PagedLogits(groups) == With(With([warps : {1 .. 2}, first : {{1}}, rowLoaders : {{1}}, stages : {3}, turns : {1, 2},
       tasks : {Tasks(groups), << >>}], "group", {[w \in 1 .. 2 |-> (w - 1) % groups]}), "loaders", {1 .. groups})
Paged == UNION {With(With(PagedLogits(n), "rowStages", {1, 2}), "interleave", {FALSE})
                \cup With(With(PagedLogits(n), "rowStages", {2}), "interleave", {TRUE}) : n \in 1 .. 2}

HyperKernels(configurations, Program(_, _), overlays(_), expected(_)) ==
  List(configurations, LAMBDA g :
    [config |-> g, code |-> Programs(UNION ToSet(g.ctas), LAMBDA w : Program(g, w)),
     expected |-> expected(g), overlays |-> overlays(g), open |-> {}])

\* Two splits of one warp each, or one CTA of two warps.
Prenorm == With(With({[ctas |-> << {1}, {2} >>, loaders |-> 1 .. 2, launches |-> 2]}, "kTiles", {1}), "stages", {2, 3})
           \cup With(With({[ctas |-> << 1 .. 2 >>, loaders |-> 1 .. 2, launches |-> 2]}, "kTiles", {1, 4}), "stages", {2, 3, 4})

\* Tasks as two CTAs of one warp may draw them, or one CTA of two warps; the forms
\* for S = 5, 6, 12 and the others.
Forms == {[early |-> TRUE,  lean |-> FALSE, keepWeights |-> TRUE], [early |-> FALSE, lean |-> FALSE, keepWeights |-> TRUE],
          [early |-> FALSE, lean |-> TRUE,  keepWeights |-> TRUE], [early |-> FALSE, lean |-> FALSE, keepWeights |-> FALSE]}
One(kTiles) == [ctas |-> << 1 .. 2 >>, tasks |-> << <<1, 2>> >>, rows |-> <<2>>, launches |-> 1, kTiles |-> kTiles]
Two == {[ctas |-> << {1}, {2} >>, tasks |-> << <<1>>, <<2>> >>, rows |-> <<2, 1>>, launches |-> 2, kTiles |-> 1],
        [ctas |-> << {1}, {2} >>, tasks |-> << <<1, 2>>, << >> >>, rows |-> <<1, 1>>, launches |-> 2, kTiles |-> 1]}
Mhc == With({f @@ g : f \in Forms, g \in With({One(2)}, "loaders", {{1}, {1, 2}})}
            \cup {f @@ g : f \in {f \in Forms : ~f.early /\ f.lean = f.keepWeights},
                           g \in With(Two, "loaders", {{1, 2}})}, "splits", {2})
Single(configurations, sub, local) ==
  {[packs |-> 5, sub |-> sub, local |-> local, splits |-> 2 * sub] @@ g : g \in configurations}
MhcSingle == Single({One(1), One(2)}, 1, FALSE) \cup Single({One(1)}, 2, FALSE)
             \cup Single({[g EXCEPT !.launches = 1] : g \in Two}, 1, FALSE)
             \cup Single({g \in Two : Len(g.tasks[1]) = 1}, 2, TRUE)

LogitsKernels(configurations, Program(_, _), tiles(_)) ==
  List(configurations, LAMBDA g :
    [config |-> g, code |-> Programs(g.warps, LAMBDA w : Program(g, w)),
     expected |-> Table(tiles(g), LAMBDA t : LogitsOf(g, t)),
     overlays |-> {}, open |-> {}])

MCKernels ==
     InEach(TsmSbo, Universal, Union, TilesOf)
  \o InEach(OnN, MultistageOnN, NoOverlay, LAMBDA g : g.tiles * g.nExpand)
  \o InEach(Named1("overlap prologue", NoTsm), OverlapPrologue, Union, TilesOf)
  \o InEach(Named1("ring", NoTsm), RingOverlap, ScalesInStages, TilesOf)
  \o LeaveOpen(InEach(Named1("pair", {[g EXCEPT !.tiles = 4] : g \in NoTsm}), OverlapMainloop, PairOverlay, TilesOf), 5 .. 10)
  \o InEach(Named1("dense", With(Dense, "reduce", {"A"}) \cup Tree), DenseGemm, ReductionOverlay, TilesOf)
  \o InEach(Named1("int8", With(Int8, "tsm", BOOLEAN)), Int8Gemm, LAMBDA g : ScalesInStages(g) \cup Union(g), TilesOf)
  \o InEach(Named1("int8 dynamic", Shapes(With(Int8, "tsm", BOOLEAN))), Int8Dynamic,
            LAMBDA g : ScalesInStages(g) \cup Union(g), TilesOf)
  \o InEach(Named1("int8 dense", With({g \in Dense : ~g.overlap}, "reduce", {"A"})), Int8DenseGemm,
            LAMBDA g : ScalesInStages(g) \cup ReductionOverlay(g), TilesOf)
  \o InEach(Named1("int8 on n", Columns(With(Int8, "tsm", BOOLEAN))), Int8OnN, NoOverlay, ColumnsOf)
  \o InEach(Named1("cute_free", Dense), CuteFreeGemm, ReductionOverlay, TilesOf)
  \o InEach(Named1("fp8", Columns(Plain) \cup With(Short, "nExpand", {2})), Fp8OnN, NoOverlay, ColumnsOf)
  \o InEach(Named1("fp4", With(Plain \cup {[g EXCEPT !.blocks = 1] : g \in Plain}, "nExpand", {2})), Fp4OnN, NoOverlay, ColumnsOf)
  \o InEach(Named1("w4fa16", With(With(Plain, "nExpand", {1}), "warpK", {1}) \cup W4Reduce \cup W4Tree),
            W4fa16, SumsInStages, ColumnsOf)
  \o InEach(Named1("w4fa8", W4), W4fa8, LAMBDA g : IF g.scales = "cached" THEN RowScalesInStage(g) ELSE {}, ColumnsOf)
  \o InEach(Named1("w4a16", W4a16s \cup With(W4Tree, "rowSteps", {1})), W4a16, LAMBDA g : SumsInStages(g) \cup Union(g), TilesOf)
  \o InEach(Named1("w4a16 on n", Columns(Plain)), W4a16OnN, NoOverlay, ColumnsOf)
  \o InEach(Named1("a8w4", Tsm), A8w4, Union, TilesOf)
  \o InEach(Named1("streamed", Plain), Streamed, ScalesInStages, TilesOf)
  \o InEach(Named1("moe", Fused), FusedMoe, Union, TilesOf)
  \o InEach(Named1("moe fp4", Fused), FusedMoeFp4, Union, TilesOf)
  \o InEach(Named1("moe perchannel", Fused), FusedMoePerchannel, LAMBDA g : ScalesInStages(g) \cup Union(g), TilesOf)
  \o InEach(Named1("moe blkwise", Columns(Plain) \cup With(Short, "nExpand", {2})), FusedMoeBlkwise, NoOverlay, ColumnsOf)
  \o InEach(Named1("linear 1", Base), Linear1, Linear1Overlay, TilesOf)
  \o InEach(Named1("linear 2", With(Base, "subtiles", {3})), Linear2, Linear2Overlay, TilesOf)
  \o List(Named1("warp pipeline", Pipelines), LAMBDA g :
       [config |-> g, code |-> Programs(CtaWarps(g), LAMBDA w : WarpPipeline(g, w)),
        expected |-> Table(DOMAIN g.rows, LAMBDA t : EachKTile(t, g.kTiles, g.blocks)),
        overlays |-> {}, open |-> {}])
  \o LogitsKernels(Named1("mqa", Logits), MqaLogits, SegmentTiles)
  \o LogitsKernels(Named1("sparse mqa", {g \in Logits : g.stages = 3}), SparseMqaLogits, SegmentTiles)
  \o LogitsKernels(Named1("paged mqa", Paged), PagedMqaLogits, TaskTiles)
  \o HyperKernels(Named1("hc prenorm", Prenorm), HcPrenorm, HcOverlay, HcExpected)
  \o HyperKernels(Named1("mega mhc", Mhc), MegaMhc, MhcOverlay, MhcExpected)
  \o HyperKernels(Named1("mega mhc single", MhcSingle), MegaMhcSingle, MhcSingleOverlay, MhcSingleExpected)
  \o InEach(Named1("fp4 gemm", With(Tsm, "silu", {FALSE})), Fp4Gemm, Fp4Overlay, TilesOf)
  \o InEach(Named1("fp4 dynamic", Shapes(With(Tsm, "silu", {FALSE}))), Fp4Dynamic, Fp4Overlay, TilesOf)
  \o List(Named1("810e", Splits), LAMBDA g :
       [config |-> g, code |-> Programs(g.warps, LAMBDA w : Model810eKernel(g, w)),
        expected |-> (g.split :> EachKTile(g.split, Cardinality(Model810eSplit(g.kTiles, g.tiles, g.split - 1)), g.blocks)),
        overlays |-> Union(g), open |-> {}])

\* One persistent CTA of the grouped fp4 GEMM with the fused activation: two tiles.
Persistent == {[warps |-> 1 .. 2, loaders |-> {1}, stages |-> 2, blocks |-> 2, tiles |-> 2, kTiles |-> 2,
                tsm |-> FALSE, silu |-> TRUE]}

PersistentKernels == InEach(Persistent, Fp4Gemm, Fp4Overlay, TilesOf)
=============================================================================
