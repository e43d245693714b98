--------------------------- MODULE LogitsPrograms ---------------------------
(***************************************************************************)
(* The MQA logits kernels as programs of their warps: one row of Q in      *)
(* registers, the KV blocks of its window through a ring of stages.  With  *)
(* interleaving the CTA's two halves (g.first and the rest) take turns at  *)
(* the stages, and no barrier of the whole CTA is left in the loop.        *)
(*                                                                         *)
(* Field turns: the parts of a KV block after each of which the turn is    *)
(* handed on.  A tile is a pair <<row, KV block>>.                         *)
(***************************************************************************)
EXTENDS MegaPrograms

Query(s) == <<"q", s>>
Kv(s) == <<"kv", s>>

\* What a tile's accumulators must have taken: the row with each part of the KV block.
LogitsOf(g, tile) ==
  FlattenSeq([r \in 1 .. g.turns |-> << <<tile[1], 0>>, Append(tile, r) >>])

-----------------------------------------------------------------------------
(* mqa_logits_utils.cuh: the halves' turns.                                 *)

All(g) == Cardinality(g.warps)
Half(g, w) == IF w \in g.first THEN 0 ELSE 1

TurnStart(g, w)  == If(g.interleave /\ Half(g, w) = 1, <<Arrive(5, All(g))>>)
TurnSync(g, w)   == If(g.interleave, <<Bar(5 + Half(g, w), All(g))>>)
TurnArrive(g, w) == If(g.interleave, <<Arrive(6 - Half(g, w), All(g))>>)
TurnEnd(g, w)    == If(g.interleave /\ Half(g, w) = 0, <<Bar(5, All(g))>>)

\* One part after the other of the KV block that warps ws have copied to the place p.
KvTurns(g, w, p, ws) ==
  Unrolled(1, g.turns, LAMBDA r :
    If(r > 1, TurnSync(g, w)) \o <<Mma(0), Get({p}, ws, r), Mma(r)>> \o TurnArrive(g, w))

AwaitKv(g) == <<Wait(g.stages - 2)>> \o If(~g.interleave, <<Sync(g)>>)

-----------------------------------------------------------------------------
(* ppu_mqa_logits.cuh and fp4_mqa_logits.cuh.  A segment <<row, first KV    *)
(* block, KV blocks>> is a row of Q with its window, or under balanced      *)
(* output tiles the part of the window that falls to this CTA.              *)

LoadQuery(g, w, q) == If(w \in g.loaders, <<Load(Query(0), <<q>>)>>)
LoadKv(g, w, seg, i) ==
  If(w \in g.loaders /\ i < seg[3], <<Load(Kv(i % g.stages), <<seg[1], seg[2] + i>>)>>)

\* The row, and all stages but one, which the loop fills first.
KvPrologue(g, w, seg) ==
  LoadQuery(g, w, seg[1])
  \o Unrolled(0, g.stages - 2, LAMBDA i : LoadKv(g, w, seg, i) \o <<Fence>>)
  \o <<Wait(g.stages - 2), Sync(g), Get({Query(0)}, g.loaders, 0)>>

KvBlock(g, w, seg, i) ==
  TurnSync(g, w) \o LoadKv(g, w, seg, i + g.stages - 1) \o <<Fence>>
  \o KvTurns(g, w, Kv(i % g.stages), g.loaders) \o <<Store(<<seg[1], seg[2] + i>>)>> \o AwaitKv(g)

KvSegment(g, w, seg) ==
  If(seg[3] > 0, KvPrologue(g, w, seg))
  \o TurnStart(g, w)
  \o Unrolled(0, seg[3] - 1, LAMBDA i : KvBlock(g, w, seg, i))
  \o TurnEnd(g, w)
  \o <<Wait(0), Sync(g)>>

MqaLogits(g, w) == Unrolled(1, Len(g.segments), LAMBDA n : KvSegment(g, w, g.segments[n]))

\* fp4_sparse_mqa_logits.cuh: an entry without splits is passed over, and all warps
\* of the first half copy.
SparseMqaLogits(g, w) ==
  Unrolled(1, Len(g.segments), LAMBDA n : If(g.segments[n][3] > 0, KvSegment(g, w, g.segments[n])))

SegmentTiles(g) == UNION {{<<s[1], s[2] + i>> : i \in 0 .. s[3] - 1} : s \in ToSet(g.segments)}

-----------------------------------------------------------------------------
(* fp4_paged_mqa_logits.cuh: the CTA's tasks <<row, KV block, KV blocks of  *)
(* the row>>, one KV block for each of g.groups, whose warps own the ring   *)
(* they fill.  The next row is on its way while one is used.                *)

OwnKv(g, w, i) == <<"kv", (i - 1) % g.stages, g.group[w]>>
TaskTile(g, w, i) == <<g.tasks[i][1], g.tasks[i][2] + g.group[w]>>
HasKv(g, w, i) == g.tasks[i][2] + g.group[w] < g.tasks[i][3]
NewRow(g, i) == i = 1 \/ g.tasks[i][2] = 0

\* Rows of the tasks before task i, whose stages of Q are taken in turn.
RowNumber(g, i) == Cardinality({j \in 2 .. i : NewRow(g, j)})
RowStage(g, i) == Query(RowNumber(g, i) % g.rowStages)
NextRow(g, i) == {j \in i + 1 .. Len(g.tasks) : NewRow(g, j)}

LoadRow(g, w, i) == If(w \in g.rowLoaders, <<Load(RowStage(g, i), <<g.tasks[i][1]>>)>>)
LoadNextRow(g, w, i) == If(NextRow(g, i) # {}, LoadRow(g, w, Min(NextRow(g, i) \cup {Len(g.tasks)}))) \o <<Fence>>

LoadNext(g, w, i) ==
  If(i <= Len(g.tasks) /\ w \in g.loaders,
     If(HasKv(g, w, i), <<Load(OwnKv(g, w, i), TaskTile(g, w, i))>>))
  \o <<Fence>>

ChangeRow(g, w, i) ==
  If(g.rowStages > 1, LoadNextRow(g, w, i))
  \o <<Get({RowStage(g, i)}, g.rowLoaders, 0)>>
  \o If(g.rowStages = 1, <<Sync(g)>> \o LoadNextRow(g, w, i))

\* A group whose KV block is past the end of the row computes all the same: what it
\* stores is padding, and the model leaves out its accumulators.
Task(g, w, i) ==
  TurnSync(g, w)
  \o If(NewRow(g, i), ChangeRow(g, w, i))
  \o LoadNext(g, w, i + g.stages - 1)
  \o (IF HasKv(g, w, i)
      THEN KvTurns(g, w, OwnKv(g, w, i), {v \in g.loaders : g.group[v] = g.group[w]})
           \o <<Store(TaskTile(g, w, i))>>
      ELSE Unrolled(1, g.turns, LAMBDA r : If(r > 1, TurnSync(g, w)) \o TurnArrive(g, w)))
  \o AwaitKv(g)

PagedMqaLogits(g, w) ==
  If(g.tasks # << >>, LoadRow(g, w, 1))
  \o Unrolled(1, g.stages - 1, LAMBDA i : LoadNext(g, w, i))
  \o <<Wait(g.stages - 2), Sync(g)>>
  \o TurnStart(g, w)
  \o Unrolled(1, Len(g.tasks), LAMBDA i : Task(g, w, i))
  \o TurnEnd(g, w)
  \o <<Wait(0), Sync(g)>>

TaskTiles(g) ==
  {TaskTile(g, x[1], x[2]) : x \in {x \in g.warps \X DOMAIN g.tasks : HasKv(g, x[1], x[2])}}
=============================================================================
