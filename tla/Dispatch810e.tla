----------------------------- MODULE Dispatch810e -----------------------------
(* The shapes the 810E has measured tiles for, and what the native launchers      *)
(* (impls/bf16_gemm.hpp) make of a tile: the table is looked up before any          *)
(* heuristics, and a launcher that refuses an entry fails a call the heuristics      *)
(* would have served.                                                             *)
(*                                                                               *)
(* An entry has the shape, the type of the output, the launcher, the tile, and the   *)
(* rows and the tile of a second launch if the rows are divided.                     *)
EXTENDS Integers, Sequences, FiniteSets
LOCAL INSTANCE FiniteSetsExt

BlockThreads == 1024      \* maxThreadsPerBlock
CuMemory == 262144        \* sharedMemPerMultiprocessor

TileOf(x) == [bm |-> x[1], bn |-> x[2], bk |-> x[3], wm |-> x[4], wn |-> x[5], stages |-> x[6], splits |-> x[7]]
NoTail == TileOf(<<0, 0, 0, 0, 0, 0, 0>>)

Entries(kind, out, mFirst, tile, shapes) ==
    {[kind |-> kind, out |-> out, mFirst |-> mFirst, tile |-> TileOf(tile), m |-> x[1], n |-> x[2], k |-> x[3],
      splitM |-> 0, tail |-> NoTail] : x \in shapes}

DenseTable ==
   UNION {
   Entries("direct", "bf16", FALSE, <<16, 64, 64, 16, 16, 3, 8>>, {<<16, 1024, 7168>>}),
   Entries("direct", "bf16", FALSE, <<16, 64, 64, 16, 16, 3, 16>>, {<<16, 384, 7168>>, <<16, 512, 7168>>}),
   Entries("direct", "bf16", FALSE, <<16, 64, 64, 16, 16, 3, 32>>, {<<6, 128, 8192>>}),
   Entries("direct", "bf16", FALSE, <<16, 64, 256, 16, 16, 3, 1>>, {<<16, 2048, 7168>>}),
   Entries("direct", "bf16", FALSE, <<32, 64, 64, 16, 32, 3, 2>>, {<<160, 640, 2560>>}),
   Entries("direct", "bf16", FALSE, <<32, 64, 64, 16, 32, 3, 4>>, {<<32, 1536, 6144>>}),
   Entries("direct", "bf16", FALSE, <<32, 64, 64, 16, 32, 3, 8>>, {<<32, 768, 6144>>, <<64, 512, 2560>>,
      <<160, 96, 2560>>}),
   Entries("direct", "bf16", FALSE, <<32, 128, 64, 16, 32, 3, 4>>, {<<160, 336, 10240>>, <<160, 512, 2560>>}),
   Entries("direct", "bf16", FALSE, <<32, 128, 64, 16, 32, 3, 8>>, {<<64, 640, 2560>>}),
   Entries("direct", "bf16", FALSE, <<64, 64, 64, 32, 32, 3, 16>>, {<<64, 320, 10240>>}),
   Entries("direct", "fp32", FALSE, <<32, 128, 64, 16, 32, 3, 32>>, {<<32, 128, 6144>>}),
   Entries("direct", "fp32", FALSE, <<64, 64, 64, 32, 32, 3, 1>>, {<<384, 1024, 4096>>, <<384, 2048, 4096>>}),
   Entries("direct", "fp32", FALSE, <<64, 64, 64, 32, 32, 3, 2>>, {<<384, 512, 4096>>}),
   Entries("direct", "fp32", FALSE, <<64, 64, 64, 32, 32, 3, 4>>, {<<384, 256, 4096>>}),
   Entries("standard", "bf16", FALSE, <<64, 128, 64, 32, 32, 3, 1>>, {<<8192, 512, 2560>>}),
   Entries("standard", "bf16", FALSE, <<64, 256, 64, 32, 64, 3, 1>>, {<<4000, 768, 6144>>}),
   Entries("standard", "bf16", FALSE, <<128, 128, 64, 32, 64, 2, 1>>, {<<256, 154880, 4096>>,
      <<102400, 154880, 4096>>}),
   Entries("standard", "bf16", FALSE, <<128, 128, 64, 64, 32, 3, 1>>, {<<32768, 128, 4096>>}),
   Entries("standard", "fp32", FALSE, <<128, 128, 64, 32, 64, 3, 1>>, {<<8192, 512, 7168>>}),
   Entries("tsm", "bf16", FALSE, <<32, 64, 64, 16, 32, 2, 56>>, {<<16, 64, 7168>>}),
   Entries("tsm", "bf16", FALSE, <<32, 128, 64, 32, 32, 2, 1>>, {<<32, 6144, 384>>}),
   Entries("tsm", "bf16", FALSE, <<32, 128, 128, 16, 32, 3, 1>>, {<<32, 25008, 6144>>, <<32, 154880, 4096>>}),
   Entries("tsm", "bf16", FALSE, <<64, 16, 64, 16, 16, 3, 4>>, {<<384, 64, 4096>>}),
   Entries("tsm", "bf16", FALSE, <<64, 16, 64, 16, 16, 3, 8>>, {<<32768, 4, 4096>>}),
   Entries("tsm", "bf16", FALSE, <<64, 32, 128, 16, 16, 3, 8>>, {<<36, 128, 4096>>}),
   Entries("tsm", "bf16", FALSE, <<64, 64, 64, 32, 32, 2, 32>>, {<<36, 64, 4096>>}),
   Entries("tsm", "bf16", FALSE, <<64, 128, 32, 32, 32, 2, 1>>, {<<36, 8192, 128>>}),
   Entries("tsm", "bf16", FALSE, <<64, 128, 64, 32, 32, 2, 1>>, {<<36, 24576, 4096>>, <<4000, 1536, 6144>>}),
   Entries("tsm", "bf16", FALSE, <<64, 128, 64, 32, 32, 2, 20>>, {<<64, 96, 2560>>}),
   Entries("tsm", "bf16", FALSE, <<64, 128, 64, 32, 32, 3, 1>>, {<<36, 4096, 1536>>, <<36, 4096, 8192>>,
      <<36, 154880, 4096>>, <<64, 4864, 7168>>, <<64, 7168, 3584>>, <<160, 12800, 2560>>}),
   Entries("tsm", "bf16", FALSE, <<64, 256, 64, 32, 32, 3, 1>>, {<<40, 248320, 2560>>}),
   Entries("tsm", "bf16", FALSE, <<64, 256, 64, 32, 64, 2, 10>>, {<<192, 512, 8192>>}),
   Entries("tsm", "bf16", FALSE, <<64, 256, 64, 32, 64, 3, 1>>, {<<64, 248320, 2560>>, <<140, 248320, 2560>>,
      <<148, 248320, 2560>>, <<152, 248320, 2560>>, <<160, 13312, 2560>>, <<160, 248320, 2560>>,
      <<4000, 3072, 6144>>}),
   Entries("tsm", "bf16", FALSE, <<128, 32, 64, 32, 32, 3, 1>>, {<<8192, 24, 2560>>}),
   Entries("tsm", "bf16", FALSE, <<128, 64, 64, 32, 32, 2, 1>>, {<<4096, 2112, 7168>>}),
   Entries("tsm", "bf16", FALSE, <<128, 128, 64, 32, 64, 2, 1>>, {<<4000, 6144, 384>>, <<4096, 7168, 768>>,
      <<4096, 7168, 3584>>, <<8192, 640, 2560>>, <<8192, 10240, 320>>, <<32768, 512, 128>>}),
   Entries("tsm", "bf16", FALSE, <<128, 128, 64, 32, 64, 3, 1>>, {<<8192, 336, 10240>>}),
   Entries("tsm", "bf16", FALSE, <<128, 128, 64, 64, 32, 2, 1>>, {<<4000, 6144, 1024>>, <<4000, 6144, 1536>>,
      <<4096, 7168, 1536>>, <<8192, 10240, 2560>>, <<8192, 12800, 2560>>, <<16384, 8192, 4096>>,
      <<32768, 1536, 4096>>, <<32768, 4096, 512>>, <<90112, 3072, 512>>, <<102400, 8192, 4096>>}),
   Entries("tsm", "bf16", TRUE, <<128, 128, 64, 64, 32, 2, 1>>, {<<4096, 6016, 7168>>, <<16384, 154880, 4096>>}),
   Entries("tsm", "bf16", FALSE, <<256, 64, 64, 64, 32, 3, 1>>, {<<8192, 64, 7168>>}),
   Entries("tsm", "bf16", FALSE, <<256, 64, 64, 64, 32, 5, 1>>, {<<8192, 320, 10240>>}),
   Entries("tsm", "fp32", FALSE, <<32, 64, 64, 16, 32, 3, 2>>, {<<288, 384, 5120>>}),
   Entries("tsm", "fp32", FALSE, <<64, 64, 64, 32, 32, 2, 32>>, {<<36, 288, 4096>>}),
   Entries("tsm", "fp32", FALSE, <<128, 64, 64, 32, 32, 2, 1>>, {<<8192, 256, 4096>>, <<32768, 288, 4096>>}),
   Entries("tsm", "fp32", FALSE, <<128, 64, 64, 32, 32, 3, 1>>, {<<8192, 512, 4096>>}),
   Entries("tsm", "fp32", FALSE, <<128, 128, 64, 32, 64, 2, 1>>, {<<8192, 2048, 7168>>, <<19968, 512, 5120>>}),
   Entries("tsm", "fp32", FALSE, <<128, 128, 64, 32, 64, 3, 1>>, {<<4000, 128, 6144>>, <<8192, 384, 7168>>}),
   Entries("tsm", "fp32", FALSE, <<128, 128, 64, 64, 32, 2, 1>>, {<<8192, 2048, 4096>>})}
   \cup {[kind |-> "hybrid", out |-> "bf16", mFirst |-> FALSE, tile |-> TileOf(<<128, 128, 64, 32, 64, 2, 1>>),
          m |-> 288, n |-> 129280, k |-> 5120, splitM |-> 256, tail |-> TileOf(<<32, 128, 64, 16, 32, 3, 1>>)]}

\* Batches by all their strides: rows of A, B and D, then batches of A, B and D.
\* `static': K and the rows are constants of the kernel.
BatchTable ==
    {[m |-> 36, n |-> 256, k |-> 512, tile |-> TileOf(<<64, 128, 64, 32, 32, 3, 1>>), static |-> FALSE,
      strides |-> <<32768, 512, 16384, 512, 131072, 256>>],
     [m |-> 36, n |-> 512, k |-> 256, tile |-> TileOf(<<64, 256, 64, 32, 64, 2, 1>>), static |-> TRUE,
      strides |-> <<16384, 256, 512, 256, 131072, 18432>>],
     [m |-> 2048, n |-> 256, k |-> 512, tile |-> TileOf(<<128, 128, 64, 64, 32, 2, 1>>), static |-> FALSE,
      strides |-> <<32768, 512, 16384, 512, 131072, 256>>],
     [m |-> 2048, n |-> 512, k |-> 256, tile |-> TileOf(<<128, 128, 64, 32, 64, 2, 1>>), static |-> FALSE,
      strides |-> <<16384, 256, 512, 256, 131072, 1048576>>]}
MeasuredBatch == 64

-----------------------------------------------------------------------------
(* A native launch: rows, columns and K it covers, its tile, and whether it takes  *)
(* the TSM kernel, whose epilogue stages fp32 rows in shared memory.                *)

Native(kernel, m, n, k, t, static) ==
    [kernel |-> kernel, m |-> m, n |-> n, k |-> k, tile |-> t, static |-> static,
     threads |-> (t.bm \div t.wm) * (t.bn \div t.wn) * 32,
     smem |-> Max({(t.bm + t.bn) * t.bk * 2 * t.stages,
                   IF kernel = "tsm" THEN (t.bm \div t.wm) * 16 * t.bn * 4 + 128 ELSE 0})]

\* Whole vectors of output only: narrow and uneven rows take the direct kernel.
DenseTsm(m, n, k, t, out) ==
    LET vector == IF out = "fp32" THEN 4 ELSE 8
    IN  Native(IF n < 8 \/ n % vector # 0 THEN "direct" ELSE "tsm", m, n, k, t, FALSE)

\* The launches of an entry; a "standard" one has none, it takes the general kernel.
NativeLaunches(e) ==
    CASE e.kind = "direct" -> {Native("direct", e.m, e.n, e.k, e.tile, FALSE)}
      [] e.kind = "tsm"    -> {DenseTsm(e.m, e.n, e.k, e.tile, e.out)}
      [] e.kind = "hybrid" -> {DenseTsm(e.splitM, e.n, e.k, e.tile, e.out),
                               DenseTsm(e.m - e.splitM, e.n, e.k, e.tail, e.out)}
      [] OTHER             -> {}

\* A batch without an entry: depth by K, size by the rows.
BatchTile(m, k) ==
    LET bk == IF k >= 128 /\ k % 64 = 0 THEN 64 ELSE 32
        stages == Min({3, k \div bk})
    IN  TileOf(IF m <= 64 THEN <<32, 64, bk, 16, 32, stages, 1>> ELSE <<128, 128, bk, 32, 64, stages, 1>>)

\* Short K is bound by its output and wants the TSM epilogue.
BatchTsm(m, n, k, t, strides, static) ==
    LET vectors == n >= 8 /\ \A x \in {n, strides[3], strides[6]} : x % 8 = 0
    IN  Native(IF vectors THEN "tsm" ELSE "direct", m, n, k, t, static)
BatchLaunch(e810, batch, m, n, k, strides) ==
    LET measured == {e \in BatchTable : e810 /\ batch = MeasuredBatch /\ <<e.m, e.n, e.k, e.strides>> = <<m, n, k, strides>>}
    IN  IF measured # {} THEN LET e == CHOOSE e \in measured : TRUE
                              IN  BatchTsm(m, n, k, e.tile, strides, e.static)
        ELSE IF k = 128 THEN BatchTsm(m, n, k, BatchTile(m, k), strides, FALSE)
        ELSE Native("direct", m, n, k, BatchTile(m, k), FALSE)

\* What the launchers check before they launch.
PowersOf2 == {2 ^ i : i \in 0 .. 12}
NativeAccepts(x) ==
    LET t == x.tile
    IN  /\ {t.bm, t.bn, t.bk} \subseteq PowersOf2
        /\ t.bm >= 16 /\ t.bn >= 16 /\ t.bk >= 32
        /\ t.wm >= 16 /\ t.wn >= 16 /\ t.bm % t.wm = 0 /\ t.bn % t.wn = 0
        /\ t.stages \in 2 .. 8 /\ t.splits \in 1 .. 64
        /\ x.k % t.bk = 0 /\ (x.k \div t.bk) \div t.splits >= t.stages
        /\ x.threads <= BlockThreads /\ x.smem <= CuMemory
        /\ x.static => /\ x.kernel = "tsm" /\ x.m = 36 /\ x.n = 512 /\ x.k = 256
                       /\ t.bk = 64 /\ t.stages \in {2, 3}
=============================================================================
