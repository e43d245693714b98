--------------------------- MODULE HyperPrograms ---------------------------
(***************************************************************************)
(* The hyper-connection kernels as programs of their warps: several CTAs   *)
(* each compute a split of K, and whoever finds the count of finished      *)
(* splits complete goes on with their sum.                                 *)
(*                                                                         *)
(* g.ctas[c]: the warps of CTA c; g.launches: launches in stream order.    *)
(***************************************************************************)
EXTENDS LogitsPrograms

CtaOf(g, w) == CHOOSE c \in DOMAIN g.ctas : w \in g.ctas[c]
OwnCta(g, w) == g.ctas[CtaOf(g, w)]
CtaSync(g, w) == Bar(CtaOf(g, w), Cardinality(OwnCta(g, w)))
First(g, w) == Min(OwnCta(g, w))
Leads(g, w) == w = First(g, w)
InCta(g, w, name, i) == <<name, i, CtaOf(g, w)>>
CopiersOf(g, w) == OwnCta(g, w) \cap g.loaders

\* A launch starts when all CTAs of the one before have ended.
Launches(g, Program(_)) ==
  Unrolled(1, g.launches, LAMBDA l : Program(l) \o <<Bar(15, Cardinality(UNION ToSet(g.ctas)))>>)

\* The result of split c of launch l in global memory, and tile numbers for it and
\* for what is made of all splits.
Partial(c) == <<"partial", c, 0>>
SplitTile(g, l, c) == (l - 1) * Len(g.ctas) + c
Merged(g, l) == g.launches * Len(g.ctas) + l

-----------------------------------------------------------------------------
(* tf32_hc_prenorm_gemm.cuh: CTA c is split c of one block of rows.         *)

HcCopy(g, w, t, k, s) ==
  If(w \in g.loaders /\ k <= g.kTiles, <<Load(InCta(g, w, "stage", s), <<t, k>>)>>)
HcStep(g, w, s) == <<Get({InCta(g, w, "stage", s)}, CopiersOf(g, w), 0), Mma(0)>>

\* Two stages: a stage is filled again behind the step that has used it.
HcTwoStages(g, w, t) ==
  LET stages == Min({2, g.kTiles})
  IN  Unrolled(1, stages, LAMBDA k : HcCopy(g, w, t, k, k - 1) \o <<Fence>>)
      \o Unrolled(0, g.kTiles - 1, LAMBDA p :
           <<Wait(IF p + stages <= g.kTiles THEN stages - 1 ELSE 0), CtaSync(g, w)>>
           \o HcStep(g, w, p % stages)
           \o If(p + stages < g.kTiles,
                 <<CtaSync(g, w)>> \o HcCopy(g, w, t, p + stages + 1, p % stages) \o <<Fence>>))

\* More stages: all but one are filled, and that one at the start of a step.
HcManyStages(g, w, t) ==
  Unrolled(1, g.stages - 1, LAMBDA k : HcCopy(g, w, t, k, k - 1) \o <<Fence>>)
  \o Unrolled(0, g.kTiles - 1, LAMBDA s :
       <<Wait(g.stages - 2), CtaSync(g, w)>>
       \o HcCopy(g, w, t, s + g.stages, (s + g.stages - 1) % g.stages) \o <<Fence>>
       \o HcStep(g, w, s % g.stages) \o <<CtaSync(g, w)>>)

\* Mutant: only a counter that starts at zero names the last.
HcMergeFromZero(g, w, l) ==
  LET last == InCta(g, w, "last", 0)
  IN  <<CtaSync(g, w)>>
      \o If(Leads(g, w), <<Count(0, 1, g.launches * Len(g.ctas), last)>>)
      \o <<CtaSync(g, w)>>
      \o OnlyIfZero(last, First(g, w), <<Store(Merged(g, l))>>)

\* The counter is never reset: the last of every Len(g.ctas) is the last of its launch.
HcMerge(g, w, l) ==
  LET last == InCta(g, w, "last", 0)
  IN  <<CtaSync(g, w)>>
      \o If(Leads(g, w), <<Count(0, 1, Len(g.ctas), last)>>)
      \o <<CtaSync(g, w)>>
      \o OnlyIfZero(last, First(g, w),
           FlattenSeq([c \in DOMAIN g.ctas |-> <<Take(Partial(c), g.ctas[c], <<l>>)>>])
           \o <<Store(Merged(g, l))>>)

HcPrenorm(g, w) ==
  Launches(g, LAMBDA l :
    LET t == SplitTile(g, l, CtaOf(g, w))
    IN  (IF g.stages = 2 THEN HcTwoStages(g, w, t) ELSE HcManyStages(g, w, t))
        \o <<Store(t), Put(Partial(CtaOf(g, w)), <<l>>)>>
        \o HcMerge(g, w, l))

\* With two stages the flag is the head of the A buffer; otherwise it has a word of its own.
HcOverlay(g) ==
  IF g.stages > 2 THEN {}
  ELSE {{<<"last", 0, c>>, <<"stage", 0, c>>} : c \in DOMAIN g.ctas}

HcExpected(g) ==
  Table(1 .. g.launches * (Len(g.ctas) + 1), LAMBDA t :
    IF t <= g.launches * Len(g.ctas) THEN EachKTile(t, g.kTiles, 1) ELSE << >>)

-----------------------------------------------------------------------------
(* ppu_mega_mhc_bf16.cuh.  A task, one split of one block of rows, goes to  *)
(* the CTA that draws its number: g.tasks[c] are the tasks CTA c has drawn, *)
(* of every launch the same.  Of a K tile four routes are multiplied, and   *)
(* their weights take turns in two places.                                  *)

MhcTask(g, l, i) == (l - 1) * g.splits + i
Next1(g, w) == InCta(g, w, "next", 0)
Coefficients(g, w) == InCta(g, w, "coeff", 0)
Rows(g, w) == <<"rows", w, 0>>        \* the rows of warp w as copied
Rounded(g, w) == <<"rounded", w, 0>>  \* and as the warp has rewritten them
Weights(g, w, i) == InCta(g, w, "weights", i % 2)

\* The number of a task; behind the last one a number that tells the CTA to stop.
MhcTicket(g, w, task) ==
  If(Leads(g, w), <<Put(Next1(g, w), <<task>>)>>)
  \o <<CtaSync(g, w), Take(Next1(g, w), {First(g, w)}, <<task>>)>>

CopyRows(g, w, task, k) ==
  If(w \in g.loaders, <<LoadAll({Rows(g, v) : v \in OwnCta(g, w)}, <<task, k>>)>>)
CopyWeights(g, w, task, k, r) ==
  If(w \in g.loaders, <<Load(Weights(g, w, r), <<task, k, r>>)>>)

\* Each warp rewrites its own rows, which the routes then read.
RewriteRows(g, w, task, k) ==
  <<Take(Rows(g, w), CopiersOf(g, w), <<task, k>>), Take(Coefficients(g, w), OwnCta(g, w), <<task>>),
    Put(Rounded(g, w), <<task, k>>)>>

\* g.early (S = 5): the weights of route 1 were requested at the start of the K tile.
MhcRoute(g, w, task, k, r) ==
  If(r < 3 /\ ~(g.early /\ r = 0), CopyWeights(g, w, task, k, r + 1) \o <<Fence>>)
  \o <<Take(Rounded(g, w), {w}, <<task, k>>)>>
  \o If(r = 3, <<CtaSync(g, w)>>
        \o If(k < g.kTiles, CopyRows(g, w, task, k + 1) \o CopyWeights(g, w, task, k + 1, 0)) \o <<Fence>>)
  \o <<Get({Weights(g, w, r)}, CopiersOf(g, w), r), Mma(r)>>
  \o If(r < 3, <<Wait(0), CtaSync(g, w)>>)

MhcKTile(g, w, task, k) ==
  If(k = 1, CopyRows(g, w, task, 1) \o CopyWeights(g, w, task, 1, 0))
  \o <<Fence, Wait(0), CtaSync(g, w)>>
  \o If(g.early, CopyWeights(g, w, task, k, 1) \o <<Fence>>)
  \o RewriteRows(g, w, task, k)
  \o Unrolled(0, 3, LAMBDA r : MhcRoute(g, w, task, k, r))

\* Counter 0 counts the finished tasks of the block; g.lean (S = 12) leaves out the
\* barriers behind the counting and behind a row of the epilogue.
MhcProduce(g, w, task, p) ==
  <<Load(Coefficients(g, w), <<task>>)>>
  \o Unrolled(1, g.kTiles, LAMBDA k : MhcKTile(g, w, task, k))
  \o <<Store(task), Put(Partial(p), <<task>>), CtaSync(g, w)>>
  \o If(Leads(g, w), <<Count(0, 1, g.splits, InCta(g, w, "ignored", 0))>>)
  \o If(~g.lean, <<CtaSync(g, w)>>)

\* The epilogue of four rows needs every split of their block, and its input and the
\* weights go through the memory of the producer's stages; some take the weights of
\* the first four rows for all.
Norm(g, w, i) == InCta(g, w, "norm", i)
Producer(g, p) == g.ctas[CHOOSE c \in DOMAIN g.ctas : p \in ToSet(g.tasks[c])]

MhcFinish(g, w, l, n) ==
  If(Leads(g, w), <<AwaitCount(0, g.splits)>>)
  \o <<CtaSync(g, w)>>
  \o FlattenSeq([p \in 1 .. g.splits |-> <<Take(Partial(p), Producer(g, p), <<MhcTask(g, l, p)>>)>>])
  \o <<Load(Norm(g, w, 0), <<l, n>>)>> \o If(n = 1 \/ ~g.keepWeights, <<Load(Norm(g, w, 1), <<l>>)>>)
  \o <<Fence, Wait(0), CtaSync(g, w), Take(Norm(g, w, 0), OwnCta(g, w), <<l, n>>),
        Take(Norm(g, w, 1), OwnCta(g, w), <<l>>), CtaSync(g, w)>>
  \o If(~g.lean, <<CtaSync(g, w)>>)

\* Counter 1: the CTAs that have come to their end.  The last clears the counters for
\* the launch that follows.
MhcExit(g, w) ==
  LET last == InCta(g, w, "last", 0)
  IN  <<CtaSync(g, w)>>
      \o If(Leads(g, w), <<Count(1, 1, Len(g.ctas), last)>>
           \o OnlyIfZero(last, w, <<Clear(0 .. 3)>>))

\* g.rows[c]: how often CTA c goes on to four rows of the epilogue.
MegaMhc(g, w) ==
  LET c == CtaOf(g, w)
  IN  Launches(g, LAMBDA l :
        Unrolled(1, Len(g.tasks[c]), LAMBDA i :
          MhcTicket(g, w, MhcTask(g, l, g.tasks[c][i]))
          \o MhcProduce(g, w, MhcTask(g, l, g.tasks[c][i]), g.tasks[c][i]))
        \o MhcTicket(g, w, 0)
        \o Unrolled(1, g.rows[c], LAMBDA n : MhcFinish(g, w, l, n))
        \o MhcExit(g, w))

MhcOverlay(g) ==
  {{Rows(g, w), Rounded(g, w)} : w \in UNION ToSet(g.ctas)}
  \cup UNION {UNION {{{Norm(g, w, i), p} : i \in 0 .. 1} :
         p \in {Rows(g, w), Rounded(g, w), Weights(g, w, 0), Weights(g, w, 1), Coefficients(g, w), Next1(g, w)}} :
         w \in UNION ToSet(g.ctas)}

MhcExpected(g) ==
  Table(1 .. g.launches * g.splits, LAMBDA t :
    [i \in 1 .. 4 * g.kTiles |-> <<t, 1 + (i - 1) \div 4, (i - 1) % 4, (i - 1) % 4>>])

-----------------------------------------------------------------------------
(* The single kernel of ppu_mega_mhc_bf16.cuh: smaller tiles, g.sub splits  *)
(* in a row to a ticket, and copies that reach into the K tile after.  The  *)
(* second warp (the only one, with small tiles) copies x and the weights    *)
(* that the next K tile starts with.  With g.local there are no tickets,    *)
(* all CTAs run at once and each completes with those of its own rows.      *)

Second(g, w) == Max(OwnCta(g, w))
X(g, w) == InCta(g, w, "x", 0)
NextWeights(g, w) == InCta(g, w, "next weights", 0)  \* the place Weights(0) as the second warp fills it
LastK(g) == g.kTiles * g.sub

CopyFrom(g, w, by, p, d) == If(w = by, <<Load(p, d)>>)
CopyX(g, w, task, k) == CopyFrom(g, w, Second(g, w), X(g, w), <<task, k>>)
CopyRoute(g, w, task, k, r) == CopyFrom(g, w, First(g, w), Weights(g, w, r), <<task, k, r>>)
CopyInputs(g, w, task, k) == If(Leads(g, w), <<LoadAll({Rows(g, v) : v \in OwnCta(g, w)}, <<task, k>>)>>)
LeaderAwaits(g, w, n) == If(Leads(g, w), <<Wait(n)>>) \o <<CtaSync(g, w)>>

\* The weights of route 0 come from the second warp, but those of the first K tile.
ReadB(g, w, k, r) ==
  <<IF r = 0 /\ k > 1 THEN Get({NextWeights(g, w)}, {Second(g, w)}, 0)
    ELSE Get({Weights(g, w, r)}, {First(g, w)}, r)>>
ReadA(g, w, task, k) == <<Take(Rounded(g, w), {w}, <<task, k>>)>>

\* K tile k of all the ticket's; rows of it are rewritten in two parts.
MhcSingleKTile(g, w, task, k) ==
  If(k = 1, CopyInputs(g, w, task, 1) \o CopyRoute(g, w, task, 1, 0) \o CopyX(g, w, task, 1))
  \o <<Fence, Wait(0), CtaSync(g, w), Take(X(g, w), {Second(g, w)}, <<task, k>>),
        Take(Rows(g, w), {First(g, w)}, <<task, k>>), Put(Rounded(g, w), <<task, k>>)>>
  \o CopyRoute(g, w, task, k, 1) \o <<Fence>>
  \o ReadB(g, w, k, 0) \o LeaderAwaits(g, w, 0)
  \o CopyRoute(g, w, task, k, 2) \o If(k < LastK(g), CopyX(g, w, task, k + 1)) \o <<Fence>>
  \o ReadA(g, w, task, k) \o <<Mma(0)>>
  \o ReadB(g, w, k, 1) \o LeaderAwaits(g, w, 0)
  \o CopyRoute(g, w, task, k, 3) \o <<Fence>> \o ReadA(g, w, task, k) \o <<Mma(1)>>
  \o ReadB(g, w, k, 2) \o ReadA(g, w, task, k) \o <<CtaSync(g, w)>>
  \o If(k < LastK(g), CopyInputs(g, w, task, k + 1)
                      \o CopyFrom(g, w, Second(g, w), NextWeights(g, w), <<task, k + 1, 0>>))
  \o <<Fence, Mma(2)>>
  \o LeaderAwaits(g, w, IF k < LastK(g) THEN 1 ELSE 0) \o ReadB(g, w, k, 3) \o <<Mma(3)>>

\* Tile number of a ticket's split.
SubTile(g, task, u) == (task - 1) * g.sub + u

MhcSplits(g, w, task) ==
  Unrolled(1, g.sub, LAMBDA u :
    Unrolled((u - 1) * g.kTiles + 1, u * g.kTiles, LAMBDA k : MhcSingleKTile(g, w, task, k))
    \o <<Store(SubTile(g, task, u))>> \o If(u < g.sub, <<CtaSync(g, w)>>))

MhcDraw(g, w, task) == If(~g.local, MhcTicket(g, w, task) \o <<CtaSync(g, w)>>)

\* The CTA counts all its splits at once, behind its last ticket.
MhcArrive(g, w) ==
  LET tickets == Len(g.tasks[CtaOf(g, w)])
  IN  <<CtaSync(g, w)>>
      \o If(Leads(g, w) /\ tickets > 0,
            <<Count(0, g.sub * tickets, g.splits, InCta(g, w, "ignored", 0))>>)

Raw(g, w) == InCta(g, w, "raw", 0)
Scaled(g, w) == InCta(g, w, "scaled", 0)
Ring(w, i) == <<"ring", i % 4, w>>
RingCopy(w, n, i) == <<Load(Ring(w, i), <<n, i>>), Fence>>

\* The epilogue's rows pass through four slots of each warp's own.
RingRow(g, w, l, n) ==
  FlattenSeq([p \in 1 .. Len(g.ctas) |->
    If(g.tasks[p] # << >>, <<Take(Partial(p), g.ctas[p], <<l>>)>>)])
  \o Unrolled(0, 3, LAMBDA i : RingCopy(w, n, i))
  \o Unrolled(0, g.packs - 1, LAMBDA i :
       <<Wait(Min({3, g.packs - 1 - i})), Take(Ring(w, i), {w}, <<n, i>>), Take(Scaled(g, w), OwnCta(g, w), <<l>>)>>
       \o If(i + 4 < g.packs, RingCopy(w, n, i + 4)))
  \o <<CtaSync(g, w)>>

SingleRingFinish(g, w, l) ==
  <<Load(Raw(g, w), <<l>>), Fence, Wait(0), CtaSync(g, w), Take(Raw(g, w), {w}, <<l>>), CtaSync(g, w),
    Put(Scaled(g, w), <<l>>), CtaSync(g, w)>>
  \o If(Leads(g, w), <<AwaitCount(0, g.splits)>>) \o <<CtaSync(g, w)>>
  \o Unrolled(1, g.rows[CtaOf(g, w)], LAMBDA n : RingRow(g, w, l, n))

MegaMhcSingle(g, w) ==
  LET own == g.tasks[CtaOf(g, w)]
      number(l, i) == (l - 1) * (g.splits \div g.sub) + own[i]
  IN  Launches(g, LAMBDA l :
        Unrolled(1, Len(own), LAMBDA i : MhcDraw(g, w, number(l, i)) \o MhcSplits(g, w, number(l, i)))
        \o MhcDraw(g, w, 0)
        \o <<Put(Partial(CtaOf(g, w)), <<l>>)>>
        \o MhcArrive(g, w) \o SingleRingFinish(g, w, l) \o MhcExit(g, w))

\* The number of the ticket lies in the memory of x, the epilogue in that of all else.
MhcSingleOverlay(g) ==
  LET stages(w) == {Rows(g, w), Rounded(g, w), Weights(g, w, 0), Weights(g, w, 1), NextWeights(g, w),
                    X(g, w), Next1(g, w)}
      epilogue(w) == {Raw(g, w), Scaled(g, w)} \cup {Ring(w, i) : i \in 0 .. 3}
  IN  UNION {{{p, q} : p \in stages(w), q \in epilogue(w)}
             \cup {{Rows(g, w), Rounded(g, w)}, {Weights(g, w, 0), NextWeights(g, w)},
                   {X(g, w), Next1(g, w)}, {Raw(g, w), Scaled(g, w)}} : w \in UNION ToSet(g.ctas)}

MhcSingleExpected(g) ==
  Table(1 .. g.launches * g.splits, LAMBDA t :
    LET first == ((t - 1) % g.sub) * g.kTiles
    IN  [i \in 1 .. 4 * g.kTiles |->
          <<1 + (t - 1) \div g.sub, first + 1 + (i - 1) \div 4, (i - 1) % 4, (i - 1) % 4>>])
=============================================================================
