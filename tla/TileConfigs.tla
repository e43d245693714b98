----------------------------- MODULE TileConfigs -----------------------------
(* The configuration a host launcher ends up with: a row of the table the user   *)
(* supplies, else of a built-in table, else the search, the adaptive selector or the  *)
(* walks.                                                                         *)
(*                                                                               *)
(* A shape `s' is one of TileLadder and Fp4Tiles with dtype, dynamic (see         *)
(* AdaptiveTiles) and lut, the rows [n, k, groups, m, tile] of the user's table.   *)
EXTENDS Fp4Tiles
LOCAL INSTANCE FiniteSetsExt
Adaptive == INSTANCE AdaptiveTiles
Search == INSTANCE TileSearch

BlockWarps == 32     \* warps of a CTA at most

-----------------------------------------------------------------------------
(* The tables of tuned tiles that are compiled in (gemm_int8_lut.hpp and           *)
(* gemm_fp8_lut.hpp): for these rows M, columns N and K, a tile of block M, N, K,    *)
(* warp M, N and stages.                                                            *)

TunedRows(ms, n, k, t) ==
    {[m |-> m, n |-> n, k |-> k, bm |-> t[1], bn |-> t[2], bk |-> t[3], wm |-> t[4], wn |-> t[5], stages |-> t[6]] :
        m \in ms}

\* PPU 1.0, dense int8.
Int8Dense == UNION {
   TunedRows({16}, 2112, 7168, <<16, 64, 256, 16, 16, 4>>), TunedRows({32}, 2112, 7168, <<32, 64, 256, 16, 32, 4>>),
   TunedRows({48}, 2112, 7168, <<48, 64, 256, 16, 32, 4>>), TunedRows({64}, 2112, 7168, <<32, 128, 256, 32, 32, 3>>),
   TunedRows({80, 96}, 2112, 7168, <<32, 64, 128, 16, 32, 4>>), TunedRows({112, 128}, 2112, 7168, <<64, 64, 128, 32, 32, 4>>),
   TunedRows({16}, 4096, 7168, <<16, 64, 256, 16, 16, 3>>), TunedRows({32}, 4096, 7168, <<32, 128, 256, 32, 32, 3>>),
   TunedRows({48}, 4096, 7168, <<48, 64, 128, 16, 32, 4>>), TunedRows({64}, 4096, 7168, <<64, 64, 128, 32, 32, 4>>),
   TunedRows({80, 96}, 4096, 7168, <<32, 64, 128, 16, 32, 4>>), TunedRows({112, 128}, 4096, 7168, <<64, 256, 128, 32, 64, 3>>),
   TunedRows({16}, 7168, 2048, <<16, 128, 128, 16, 32, 4>>), TunedRows({32}, 7168, 2048, <<32, 128, 128, 32, 32, 4>>),
   TunedRows({48}, 7168, 2048, <<48, 64, 128, 16, 32, 3>>), TunedRows({64}, 7168, 2048, <<64, 128, 128, 32, 32, 3>>),
   TunedRows({80, 96, 112, 128}, 7168, 2048, <<64, 256, 128, 32, 64, 2>>),
   TunedRows({16}, 7168, 16384, <<16, 64, 256, 16, 16, 4>>), TunedRows({32}, 7168, 16384, <<32, 64, 256, 16, 32, 3>>),
   TunedRows({48}, 7168, 16384, <<48, 64, 128, 16, 32, 3>>), TunedRows({64}, 7168, 16384, <<64, 128, 128, 32, 32, 3>>),
   TunedRows({80, 96, 112, 128}, 7168, 16384, <<64, 256, 128, 32, 64, 2>>),
   TunedRows({16}, 7168, 18432, <<16, 64, 256, 16, 16, 4>>), TunedRows({32}, 7168, 18432, <<32, 64, 256, 16, 32, 3>>),
   TunedRows({48}, 7168, 18432, <<48, 64, 128, 16, 32, 3>>), TunedRows({64}, 7168, 18432, <<64, 128, 128, 32, 32, 3>>),
   TunedRows({80, 96, 112, 128}, 7168, 18432, <<64, 256, 128, 32, 64, 2>>),
   TunedRows({16}, 24576, 1536, <<16, 64, 128, 16, 16, 3>>), TunedRows({32}, 24576, 1536, <<32, 64, 128, 16, 32, 3>>),
   TunedRows({48, 64, 80, 96, 112, 128}, 24576, 1536, <<64, 128, 128, 32, 32, 2>>),
   TunedRows({16}, 36864, 7168, <<16, 64, 256, 16, 16, 3>>), TunedRows({32}, 36864, 7168, <<32, 64, 128, 16, 32, 4>>),
   TunedRows({48}, 36864, 7168, <<48, 64, 128, 16, 32, 3>>), TunedRows({64}, 36864, 7168, <<64, 128, 128, 32, 32, 3>>),
   TunedRows({80, 96, 112, 128}, 36864, 7168, <<128, 128, 128, 64, 64, 2>>) }

\* PPU 1.5, dense int8.
Int8Dense15 == UNION {
   TunedRows({1}, 1280, 4096, <<16, 128, 128, 16, 32, 4>>), TunedRows({32, 48, 64, 80}, 1280, 4096, <<16, 64, 256, 16, 16, 4>>),
   TunedRows({96}, 1280, 4096, <<16, 64, 256, 16, 16, 3>>), TunedRows({112, 192}, 1280, 4096, <<64, 64, 128, 32, 32, 8>>),
   TunedRows({128}, 1280, 4096, <<16, 64, 128, 16, 16, 4>>), TunedRows({144, 160}, 1280, 4096, <<64, 128, 256, 32, 32, 5>>),
   TunedRows({176}, 1280, 4096, <<64, 128, 128, 32, 32, 8>>),
   TunedRows({208, 224, 240, 256}, 1280, 4096, <<256, 64, 128, 64, 32, 6>>),
   TunedRows({1}, 3072, 4096, <<16, 128, 128, 16, 32, 4>>), TunedRows({32}, 3072, 4096, <<16, 64, 256, 16, 16, 3>>),
   TunedRows({48}, 3072, 4096, <<64, 128, 128, 32, 32, 8>>), TunedRows({64}, 3072, 4096, <<64, 64, 128, 32, 32, 8>>),
   TunedRows({80, 96, 112, 128}, 3072, 4096, <<128, 128, 128, 32, 64, 7>>),
   TunedRows({144, 160, 176, 192}, 3072, 4096, <<64, 128, 64, 32, 32, 8>>),
   TunedRows({208, 224, 240, 256}, 3072, 4096, <<256, 128, 128, 64, 64, 5>>),
   TunedRows({1, 2}, 4096, 1024, <<16, 128, 128, 16, 32, 4>>), TunedRows({32}, 4096, 1024, <<32, 32, 256, 16, 16, 4>>),
   TunedRows({48, 64}, 4096, 1024, <<64, 64, 256, 32, 32, 4>>),
   TunedRows({80, 96, 112, 128}, 4096, 1024, <<128, 64, 64, 32, 32, 8>>),
   TunedRows({144, 160, 176, 192, 208, 224, 240, 256}, 4096, 1024, <<128, 128, 64, 32, 64, 8>>),
   TunedRows({1}, 4096, 1536, <<16, 128, 128, 16, 32, 4>>), TunedRows({32}, 4096, 1536, <<16, 64, 256, 16, 16, 3>>),
   TunedRows({48, 64}, 4096, 1536, <<64, 64, 128, 32, 32, 8>>),
   TunedRows({80, 96, 112, 128}, 4096, 1536, <<128, 64, 64, 32, 32, 8>>),
   TunedRows({144, 160, 176, 192, 208, 224, 240, 256}, 4096, 1536, <<128, 128, 64, 32, 64, 8>>),
   TunedRows({32}, 4096, 12288, <<64, 128, 256, 32, 32, 5>>), TunedRows({48}, 4096, 12288, <<64, 64, 128, 32, 32, 8>>),
   TunedRows({64, 80, 96, 112, 128}, 4096, 12288, <<128, 128, 128, 32, 64, 7>>),
   TunedRows({144, 160}, 4096, 12288, <<128, 256, 128, 32, 128, 4>>),
   TunedRows({176, 192, 208, 224, 240, 256}, 4096, 12288, <<256, 128, 128, 64, 64, 5>>),
   TunedRows({48, 64}, 8192, 4096, <<64, 64, 128, 32, 32, 4>>), TunedRows({80, 96}, 8192, 4096, <<128, 128, 128, 64, 64, 3>>),
   TunedRows({48, 64}, 12288, 4096, <<64, 64, 128, 32, 32, 3>>), TunedRows({80, 96}, 12288, 4096, <<96, 128, 128, 48, 32, 3>>),
   TunedRows({112, 128}, 12288, 4096, <<64, 128, 128, 32, 64, 2>>),
   TunedRows({48, 64}, 17408, 4096, <<64, 64, 128, 32, 32, 2>>), TunedRows({80, 96}, 17408, 4096, <<96, 128, 128, 48, 64, 2>>),
   TunedRows({112, 128}, 17408, 4096, <<128, 128, 128, 64, 64, 2>>) }

\* Dense fp8.
Fp8Dense == UNION {
   TunedRows({64}, 2304, 4096, <<32, 64, 128, 16, 32, 5>>), TunedRows({128}, 2304, 4096, <<64, 64, 128, 32, 32, 4>>),
   TunedRows({144, 160}, 2304, 4096, <<64, 64, 128, 32, 32, 3>>), TunedRows({192}, 2304, 4096, <<128, 128, 128, 32, 32, 4>>),
   TunedRows({224, 256}, 2304, 4096, <<64, 256, 128, 32, 32, 3>>), TunedRows({64}, 4096, 2048, <<64, 64, 128, 32, 32, 4>>),
   TunedRows({128}, 4096, 2048, <<128, 128, 128, 32, 32, 3>>), TunedRows({144, 160}, 4096, 2048, <<192, 128, 128, 48, 32, 5>>) }

\* Grouped fp8 without padding: up to these rows per group.
Fp8NoPad == UNION {
   TunedRows({1}, 256, 2048, <<16, 128, 128, 16, 32, 4>>), TunedRows({3}, 256, 2048, <<16, 64, 128, 16, 16, 3>>),
   TunedRows({13}, 256, 2048, <<16, 64, 128, 16, 16, 4>>), TunedRows({29}, 256, 2048, <<32, 128, 128, 16, 64, 3>>),
   TunedRows({32}, 256, 2048, <<64, 256, 128, 32, 64, 3>>), TunedRows({4}, 768, 4096, <<32, 64, 128, 16, 32, 3>>),
   TunedRows({1}, 2048, 128, <<16, 256, 128, 16, 64, 2>>), TunedRows({12}, 2048, 128, <<16, 128, 128, 16, 32, 2>>),
   TunedRows({32}, 2048, 128, <<32, 128, 128, 16, 64, 2>>) }

-----------------------------------------------------------------------------
(* Which row, search or walk a problem gets.                                      *)

Table(s, k) ==
    {x \in s.lut : x.n = s.n /\ x.k = k /\ x.groups = IF s.type = "normal" THEN 1 ELSE s.groups}

\* Dense rows match m rounded up to 16; grouped ones cover the next m listed.
Covering(rows, s) ==
    LET fitting == {x \in rows : IF s.type = "normal" THEN x.m = Ceil(s.m, 16) ELSE x.m >= s.m}
    IN  {x \in fitting : x.m = Min({y.m : y \in fitting})}

\* Contiguous, fused and batched problems have no table.
RuntimeRow(s, k) ==
    IF s.type \in {"normal", "nopad", "masked"} THEN Covering(Table(s, k), s) ELSE {}

\* int8 has built-in rows for dense problems, fp8 also for unpadded groups.
BuiltinTable(s) ==
    CASE s.dtype = "int8" /\ s.type = "normal" -> IF s.ppu15 THEN Int8Dense15 ELSE Int8Dense
      [] s.dtype = "fp8" /\ s.type = "normal" -> Fp8Dense
      [] s.dtype = "fp8" /\ s.type = "nopad" -> Fp8NoPad
      [] OTHER -> {}
BuiltinRow(s) == Covering({x \in BuiltinTable(s) : x.n = s.n /\ x.k = s.k}, s)

\* The user's rows before the built-in ones.
TunedRow(s) == IF RuntimeRow(s, s.k) # {} THEN RuntimeRow(s, s.k) ELSE BuiltinRow(s)

\* What the loader accepts of a row.
RowIsValid(x, type) ==
    /\ \A v \in {x.n, x.k, x.groups, x.m, x.bm, x.bn, x.bk, x.wm, x.wn, x.stages} : v > 0
    /\ type = "normal" => x.m % 16 = 0
    /\ x.bm % x.wm = 0 /\ x.bn % x.wn = 0

FromRow(s, x, smem) == Config(s.sms, <<x.bm, x.bn>>, x.bk, <<x.wm, x.wn>>, x.stages, smem)

-----------------------------------------------------------------------------
\* The adaptive tile with `factor' bytes of K per bf16 byte, and one CTA per tile
\* up to the number of CUs.
FromTile(s, a, bytes) ==
    LET t == <<a.bm, a.bn>>
        bk == IF bytes = 1 THEN 2 * a.bk ELSE a.bk
    IN  [Config(Smallest(CeilDiv(s.m, a.bm) * CeilDiv(s.n, a.bn), s.sms), t, bk, <<a.wm, a.wn>>, a.stages,
                SmemPlain(t, bk, a.stages, bytes))
         EXCEPT !.wk = IF bytes = 1 THEN bk ELSE a.wk]
FromAdaptive(s, bytes) == FromTile(s, Adaptive!AdaptiveConfig(s), bytes)

\* Large products on PPU 1.0 whose tiles have no remainder.
IsSearched(s) ==
    s.type = "normal" /\ ~s.ppu15 /\ \A x \in {s.m, s.n, s.k} : x >= 4096 /\ x % 64 = 0
FromCandidate(t) == Config(t.sms, <<t.bm, t.bn>>, t.bk, <<t.wm, t.wn>>, t.stages, SmemPlain(<<t.bm, t.bn>>, t.bk, t.stages, 2))
FromSearch(s) == FromCandidate(Search!CandidateTile(s))

Bf16Pick(s) ==
    LET row == RuntimeRow(s, s.k)
    IN  IF row # {} THEN LET x == CHOOSE x \in row : TRUE
                         IN  FromRow(s, x, SmemPlain(<<x.bm, x.bn>>, x.bk, x.stages, 2))
        ELSE IF IsSearched(s) THEN FromSearch(s)
        ELSE IF s.type = "normal" /\ s.ppu15 THEN FromAdaptive(s, 2)
        ELSE Bf16Config(s)

Int8Pick(s) ==
    LET row == TunedRow(s)
    IN  IF row # {} THEN LET x == CHOOSE x \in row : TRUE
                         IN  FromRow(s, x, SmemPlain(<<x.bm, x.bn>>, x.bk, x.stages, 1))
        ELSE IF ~s.ppu15 THEN Int8OldConfig(s)
        ELSE IF s.type = "normal" /\ Adaptive!Int8AdaptiveEnabled(s) THEN FromAdaptive(s, 1)
        ELSE IF s.type \in {"normal", "batched"} THEN Int8DenseConfig(s)
        ELSE Int8GroupedConfig(s)

Fp8Pick(s) ==
    LET row == TunedRow(s)
    IN  IF row # {} THEN LET x == CHOOSE x \in row : TRUE
                         IN  FromRow(s, x, SmemFp8(<<x.bm, x.bn>>, x.bk, x.stages))
        ELSE IF s.type = "normal" /\ s.groups = 1 /\ s.ppu15 /\ HasDenseWave(s) THEN Fp8DenseWave(s)
        ELSE IF s.type \in {"normal", "batched"} THEN Fp8DenseConfig(s)
        ELSE Fp8GroupedConfig(s)

\* The fused epilogue refuses a row of too few columns.
Fp4Pick(s) ==
    LET row == {x \in RuntimeRow(s, 2 * s.k) : s.fusing => x.bn % 64 = 0}
    IN  IF row # {} THEN LET x == CHOOSE x \in row : TRUE
                         IN  FromRow(s, x, SmemFp4(s, <<x.bm, x.bn>>, x.wm, x.bk, x.stages))
        ELSE Fp4Config(s)

-----------------------------------------------------------------------------
(* The launch.                                                                    *)

Warps(c) == (c.bm \div c.wm) * (c.bn \div c.wn) * (c.bk \div c.wk)

Pick(s) ==
    CASE s.dtype = "bf16" -> Bf16Pick(s)
      [] s.dtype = "int8" -> Int8Pick(s)
      [] s.dtype = "fp8" -> Fp8Pick(s)
      [] s.dtype = "fp4" -> Fp4Pick(s)
=============================================================================
