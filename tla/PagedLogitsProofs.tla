-------------------------- MODULE PagedLogitsProofs --------------------------
(***************************************************************************)
(* Proofs about PagedLogits for every batch, configuration of the kernel   *)
(* and number of CTAs, when the metadata kernel runs as one warp           *)
(* (OneWarp): with more warps its scan races (run paged_scan).             *)
(*                                                                         *)
(* The metadata kernel's scan holds sums over a growing window (Scanned),  *)
(* its search finds the request a segment starts in (SearchAnswers), and   *)
(* so its segments follow one another over the batch (Schedule, Whole).    *)
(* A CTA's segment is a sequence of tasks, Task.  What a warp consumes is  *)
(* at one place of it (Walks), what it fetches two or three tasks further, *)
(* and its rings hold the tiles of the tasks between (TilesIn) and the     *)
(* rows of Q up to the next (RowsIn), landed or in a group of copies it    *)
(* will wait for.  Barriers or turns keep the two warps in step where one  *)
(* reads what the other loads (InStep).  What has been written follows     *)
(* from the tasks the warps have come to (WrittenOnce).                    *)
(***************************************************************************)
EXTENDS PagedLogits, NatFacts, TLAPS

-----------------------------------------------------------------------------
(* The tasks of a CTA, one after the other. *)

\* Tasks <<q, kv>> are taken in lexicographic order.
Before(t, u) == t[1] < u[1] \/ (t[1] = u[1] /\ t[2] < u[2])
Last(t) == IsLastTask(t[1], t[2])

Following(t) ==
  IF Last(t) THEN t
  ELSE IF t[2] + tile.groups >= NumKv(t[1]) THEN <<t[1] + 1, 0>> ELSE <<t[1], t[2] + tile.groups>>

\* The CTA's task number n; the last one, which it does not run, repeats itself.
Iterate(first, F) == LET s[n \in Nat] == IF n = 0 THEN first ELSE F[s[n - 1]] IN s
Successor == [t \in Nat \X Nat |-> Following(t)]
Task == Iterate(Segment(cta), Successor)
Runs == {n \in Nat : ~Last(Task[n])}
NewRows == {n \in Nat : n = 0 \/ Task[n][2] = 0}

\* Rows of Q the tasks before number n use; the n-th of them; those that are fetched.
Rows == [n \in Nat |-> IF n = 0 THEN 0 ELSE Task[n - 1][1] - Task[0][1] + 1]
Row == [r \in Nat |-> Task[0][1] + r]
Fetched == {r \in Nat : ~Last(Task[0]) /\ ExistQ(Task[0][1] + r)}

\* Tasks whose tile of math warp group g exists.
Filled == [g \in 0 .. 1 |-> {n \in Nat : ~Last(Task[n]) /\ Task[n][2] + g < NumKv(Task[n][1])}]

\* What the schedule must be for the CTAs to walk it.
Position(t) ==
  /\ t \in Nat \X Nat /\ t[2] + 4 <= Word /\ t[2] % tile.groups = 0
  /\ t[1] <= PlannedBatch /\ (t[1] = PlannedBatch => t[2] = 0)
Schedule ==
  /\ \A s \in 0 .. NumBlocks : Position(Segment(s))
  /\ \A s, u \in 0 .. NumBlocks : s <= u => ~Before(Segment(u), Segment(s))

Planned == context \in Contexts /\ tile \in Tiles /\ cta \in 0 .. NumBlocks - 1 /\ Schedule

\* The constants and the configuration.
LEMMA ConfigFacts ==
  ASSUME context \in Contexts, tile \in Tiles
  PROVE  /\ NumBlocks \in Nat \ {0} /\ MaxThreads \in Nat \ {0} /\ WarpSize \in Nat \ {0} /\ Word \in Nat \ {0}
         /\ tile.groups \in 1 .. 2 /\ tile.stageQ \in Nat \ {0} /\ tile.turns \in BOOLEAN
         /\ tile.turns => tile.groups = 2 /\ tile.stageQ = 2
         /\ PlannedBatch \in Nat \ {0} /\ ActualBatch \in Nat /\ PlannedBatch <= ActualBatch
         /\ \A q \in 0 .. PlannedBatch - 1 :
              context.planned[q] \in Nat /\ context.planned[q] + 4 <= Word
         /\ DOMAIN context.planned = 0 .. PlannedBatch - 1
         /\ \A q \in Nat : NumKv(q) \in Nat /\ (NumKv(q) > 0 => NumKv(q) + 4 <= Word /\ q < ActualBatch)
<1>1. PICK n, m : n = PlannedBatch /\ m = ActualBatch
  OBVIOUS
<1>2. /\ n \in Nat \ {0} /\ m \in Nat /\ n <= m
      /\ context.planned \in [0 .. n - 1 -> 0 .. Word - 4]
      /\ context.actual \in [0 .. m - 1 -> 0 .. Word - 4]
  BY <1>1, PagedLogitsAssumption DEF PlannedBatch, ActualBatch, Batch
<1>3. /\ NumBlocks \in Nat \ {0} /\ MaxThreads \in Nat \ {0} /\ WarpSize \in Nat \ {0} /\ Word \in Nat \ {0}
      /\ tile.groups \in 1 .. 2 /\ tile.stageQ \in Nat \ {0} /\ tile.turns \in BOOLEAN
      /\ tile.turns => tile.groups = 2 /\ tile.stageQ = 2
  BY PagedLogitsAssumption
<1>4. \A q \in 0 .. n - 1 : context.planned[q] \in Nat /\ context.planned[q] + 4 <= Word
  BY <1>2, <1>3
<1>5. ASSUME NEW q \in Nat
      PROVE  NumKv(q) \in Nat /\ (NumKv(q) > 0 => NumKv(q) + 4 <= Word /\ q < ActualBatch)
  BY <1>1, <1>2, <1>3 DEF NumKv
<1>6. DOMAIN context.planned = 0 .. n - 1
  BY <1>2
<1>. QED  BY <1>1, <1>2, <1>3, <1>4, <1>5, <1>6

\* A function that is iterated.
LEMMA Iteration ==
  ASSUME NEW V, NEW first \in V, NEW F \in [V -> V]
  PROVE  \E s \in [Nat -> V] : s[0] = first /\ \A n \in Nat : s[n + 1] = F[s[n]]
<1>1. PICK Steps : Steps = [n \in Nat |-> [m \in 1 .. n |-> F]]
  OBVIOUS
<1>2. ASSUME NEW n \in Nat
      PROVE  \E t \in [0 .. n -> V] : t[0] = first /\ \A m \in 1 .. n : t[m] = F[t[m - 1]]
  <2>1. Steps[n] \in [1 .. n -> [V -> V]] /\ \A m \in 1 .. n : Steps[n][m] = F
    BY <1>1
  <2>2. \E t : Follows(t, n, V, first, Steps[n])
    BY <2>1, Recursion
  <2>. QED  BY <2>1, <2>2 DEF Follows
<1>3. PICK t : t = [n \in Nat |-> CHOOSE u \in [0 .. n -> V] :
                     u[0] = first /\ \A m \in 1 .. n : u[m] = F[u[m - 1]]]
  OBVIOUS
<1>4. \A n \in Nat : t[n] \in [0 .. n -> V] /\ t[n][0] = first /\ \A m \in 1 .. n : t[n][m] = F[t[n][m - 1]]
  BY <1>2, <1>3
<1>5. ASSUME NEW n \in Nat, NEW i \in 0 .. n  PROVE t[n + 1][i] = t[n][i]
  <2>. DEFINE S == {k \in 0 .. n : t[n + 1][k] = t[n][k]}
  <2>1. 0 \in S
    BY <1>4
  <2>2. ASSUME NEW k \in 0 .. i - 1, k \in S  PROVE k + 1 \in S
    <3>1. t[n + 1][k + 1] = F[t[n + 1][k]]
      BY <1>4
    <3>2. t[n][k + 1] = F[t[n][k]]
      BY <1>4
    <3>. QED  BY <2>2, <3>1, <3>2
  <2>. HIDE DEF S
  <2>3. i \in S
    BY <2>1, <2>2, UpTo
  <2>. QED  BY <2>3 DEF S
<1>6. PICK s : s = [n \in Nat |-> t[n][n]]
  OBVIOUS
<1>7. s \in [Nat -> V] /\ s[0] = first
  BY <1>4, <1>6
<1>8. ASSUME NEW n \in Nat  PROVE s[n + 1] = F[s[n]]
  <2>1. t[n + 1][n + 1] = F[t[n + 1][n]]
    BY <1>4
  <2>2. t[n + 1][n] = t[n][n]
    BY <1>5
  <2>. QED  BY <1>6, <2>1, <2>2
<1>. QED  BY <1>7, <1>8

LEMMA Numbers ==
  ASSUME Planned
  PROVE  /\ NumBlocks \in Nat /\ Word \in Nat
         /\ tile.groups \in 1 .. 2 /\ tile.stageQ \in Nat \ {0} /\ tile.turns \in BOOLEAN
         /\ tile.turns => tile.groups = 2 /\ tile.stageQ = 2
         /\ PlannedBatch \in Nat /\ ActualBatch \in Nat /\ PlannedBatch <= ActualBatch
         /\ cta \in 0 .. NumBlocks /\ cta + 1 \in 0 .. NumBlocks
         /\ Position(Segment(cta)) /\ Position(End) /\ ~Before(End, Segment(cta))
<1>1. context \in Contexts /\ tile \in Tiles /\ cta \in 0 .. NumBlocks - 1 /\ Schedule
  BY DEF Planned
<1>2. /\ NumBlocks \in Nat /\ Word \in Nat
      /\ tile.groups \in 1 .. 2 /\ tile.stageQ \in Nat \ {0} /\ tile.turns \in BOOLEAN
      /\ tile.turns => tile.groups = 2 /\ tile.stageQ = 2
      /\ PlannedBatch \in Nat /\ ActualBatch \in Nat /\ PlannedBatch <= ActualBatch
  BY <1>1, ConfigFacts
<1>3. cta \in 0 .. NumBlocks /\ cta + 1 \in 0 .. NumBlocks /\ cta <= cta + 1
  BY <1>1, <1>2
<1>. QED  BY <1>1, <1>2, <1>3 DEF Schedule, End

\* What iterating a function gives, whichever function TLA+ chooses.
LEMMA IterateDef ==
  ASSUME NEW V, NEW first \in V, NEW F \in [V -> V]
  PROVE  LET t == Iterate(first, F)
         IN  t \in [Nat -> V] /\ t[0] = first /\ \A n \in Nat : t[n + 1] = F[t[n]]
<1>. DEFINE Step(f) == f = [n \in Nat |-> IF n = 0 THEN first ELSE F[f[n - 1]]]
<1>1. PICK s \in [Nat -> V] : s[0] = first /\ \A n \in Nat : s[n + 1] = F[s[n]]
  BY Iteration
<1>2. ASSUME NEW n \in Nat, n # 0  PROVE s[n] = F[s[n - 1]]
  <2>1. n - 1 \in Nat /\ (n - 1) + 1 = n
    BY <1>2
  <2>. QED  BY <1>1, <2>1
<1>3. Step(s)
  <2>1. PICK r : r = [n \in Nat |-> IF n = 0 THEN first ELSE F[s[n - 1]]]
    OBVIOUS
  <2>2. \A n \in Nat : s[n] = r[n]
    BY <1>1, <1>2, <2>1
  <2>3. s = r
    BY <1>1, <2>1, <2>2
  <2>. QED  BY <2>1, <2>3
<1>4. PICK r : r = CHOOSE f : Step(f)
  OBVIOUS
<1>5. Step(r)
  <2>. HIDE DEF Step
  <2>. QED  BY <1>3, <1>4
<1>6. Iterate(first, F) = r
  BY <1>4 DEF Iterate
<1>7. \A n \in Nat : r[n] = IF n = 0 THEN first ELSE F[r[n - 1]]
  BY <1>5
<1>8. ASSUME NEW n \in Nat  PROVE r[n] \in V
  <2>. DEFINE S == {i \in Nat : r[i] \in V}
  <2>1. 0 \in S
    BY <1>7
  <2>2. ASSUME NEW i \in 0 .. n - 1, i \in S  PROVE i + 1 \in S
    <3>1. r[i + 1] = F[r[i]] /\ r[i] \in V
      BY <1>7, <2>2
    <3>. QED  BY <3>1
  <2>. HIDE DEF S
  <2>3. n \in S
    BY <2>1, <2>2, UpTo
  <2>. QED  BY <2>3 DEF S
<1>9. r \in [Nat -> V] /\ r[0] = first /\ \A n \in Nat : r[n + 1] = F[r[n]]
  BY <1>5, <1>7, <1>8
<1>. QED  BY <1>6, <1>9

\* Each task follows from the one before.
LEMMA TaskDef ==
  ASSUME Planned
  PROVE  /\ Task \in [Nat -> Nat \X Nat] /\ Task[0] = Segment(cta)
         /\ \A n \in Nat : Task[n + 1] = Following(Task[n])
<1>1. \A t \in Nat \X Nat : Following(t) \in Nat \X Nat
  <2>1. tile.groups \in 1 .. 2
    BY Numbers
  <2>. QED  BY <2>1 DEF Following
<1>2. Successor \in [Nat \X Nat -> Nat \X Nat] /\ \A t \in Nat \X Nat : Successor[t] = Following(t)
  BY <1>1 DEF Successor
<1>3. PICK V, first, F, t : V = Nat \X Nat /\ first = Segment(cta) /\ F = Successor /\ t = Task
  OBVIOUS
<1>4. first \in V /\ F \in [V -> V]
  BY <1>2, <1>3, Numbers DEF Position
<1>5. t = Iterate(first, F)
  BY <1>3 DEF Task
<1>6. t \in [Nat -> V] /\ t[0] = first /\ \A n \in Nat : t[n + 1] = F[t[n]]
  BY <1>4, <1>5, IterateDef
<1>. QED  BY <1>2, <1>3, <1>6

\* How far tasks get: up to the end of the segment, or past its last row if the lengths
\* have changed and the row has become shorter.
Reached(t) ==
  /\ t \in Nat \X Nat /\ t[2] + 4 <= Word /\ t[2] % tile.groups = 0
  /\ ~Before(t, Segment(cta))
  /\ ~Before(End, t) \/ (t = <<End[1] + 1, 0>> /\ NumKv(End[1]) <= End[2])

\* A task that is run is followed by the next one of its row or by the next row.
LEMMA FollowingFacts ==
  ASSUME Planned, NEW t, Reached(t), ~Last(t)
  PROVE  /\ Before(t, End) /\ t[1] < PlannedBatch /\ t[1] < ActualBatch /\ ExistQ(t[1])
         /\ Before(t, Following(t)) /\ Reached(Following(t))
         /\ \/ Following(t) = <<t[1], t[2] + tile.groups>> /\ t[2] + tile.groups < NumKv(t[1])
            \/ Following(t) = <<t[1] + 1, 0>> /\ NumKv(t[1]) <= t[2] + tile.groups
<1>1. PICK g : g = tile.groups /\ g \in 1 .. 2
  BY Numbers
<1>2. PICK a, b \in Nat : t = <<a, b>>
  BY DEF Reached
<1>3. PICK x, y \in Nat : End = <<x, y>> /\ y % g = 0 /\ x <= PlannedBatch /\ (x = PlannedBatch => y = 0)
  <2>1. Position(End)
    BY Numbers
  <2>. QED  BY <1>1, <2>1 DEF Position
<1>4. PICK nk \in Nat : nk = NumKv(a) /\ (nk > 0 => nk + 4 <= Word)
  BY <1>2, ConfigFacts DEF Planned
<1>5. b % g = 0 /\ b + 4 <= Word /\ ~Before(t, Segment(cta)) /\ Word \in Nat
  BY <1>1, <1>2, Numbers DEF Reached
<1>6. a < x \/ (a = x /\ b < y)
  <2>1. ~(a > x \/ (a = x /\ b = y))
    BY <1>2, <1>3 DEF Last, IsLastTask
  <2>2. ~(x < a \/ (x = a /\ y < b)) \/ (a = x + 1)
    BY <1>2, <1>3 DEF Reached, Before
  <2>. QED  BY <2>1, <2>2
<1>7. a < PlannedBatch /\ a < ActualBatch
  BY <1>3, <1>6, Numbers
<1>8. Following(t) = IF b + g >= nk THEN <<a + 1, 0>> ELSE <<a, b + g>>
  BY <1>1, <1>2, <1>4 DEF Following
<1>9. PICK f : f = Following(t)
  OBVIOUS
<1>10. PICK u, v \in Nat : Segment(cta) = <<u, v>>
  BY Numbers DEF Position
<1>11. ~(a < u \/ (a = u /\ b < v))
  BY <1>2, <1>5, <1>10 DEF Before
<1>12. (b + g) % g = 0 /\ 0 % g = 0
  BY <1>1, <1>5, NextInClass
<1>13. a = x => b + g <= y
  <2>1. SUFFICES ASSUME a = x, y < b + g  PROVE FALSE
    BY <1>1
  <2>2. b <= y /\ y < b + g /\ b % g = y % g
    BY <1>3, <1>5, <1>6, <2>1
  <2>3. b = y
    BY <1>1, <2>2, ClassApart
  <2>. QED  BY <1>6, <2>1, <2>3
<1>14. CASE b + g >= nk
  <2>1. f = <<a + 1, 0>>
    BY <1>8, <1>9, <1>14
  <2>2. Before(t, f) /\ ~Before(f, Segment(cta))
    BY <1>2, <1>10, <1>11, <2>1 DEF Before
  <2>3. ~Before(End, f) \/ (f = <<End[1] + 1, 0>> /\ NumKv(End[1]) <= End[2])
    <3>1. CASE a < x
      BY <1>3, <2>1, <3>1 DEF Before
    <3>2. CASE a = x
      <4>1. NumKv(End[1]) <= End[2]
        BY <1>1, <1>3, <1>4, <1>13, <1>14, <3>2
      <4>. QED  BY <1>3, <2>1, <3>2, <4>1
    <3>. QED  BY <1>6, <3>1, <3>2
  <2>4. Reached(f)
    BY <1>1, <1>5, <1>12, <2>1, <2>2, <2>3 DEF Reached
  <2>5. f = <<t[1] + 1, 0>> /\ NumKv(t[1]) <= t[2] + tile.groups
    BY <1>1, <1>2, <1>4, <1>14, <2>1
  <2>6. Before(t, End) /\ ExistQ(t[1])
    BY <1>2, <1>3, <1>6 DEF Before, ExistQ
  <2>. QED  BY <1>2, <1>7, <1>9, <2>2, <2>4, <2>5, <2>6
<1>15. CASE ~(b + g >= nk)
  <2>1. f = <<a, b + g>>
    BY <1>8, <1>9, <1>15
  <2>2. Before(t, f) /\ ~Before(f, Segment(cta))
    BY <1>1, <1>2, <1>10, <1>11, <2>1 DEF Before
  <2>3. ~Before(End, f)
    BY <1>1, <1>3, <1>6, <1>13, <2>1 DEF Before
  <2>4. Reached(f)
    BY <1>1, <1>4, <1>5, <1>12, <1>15, <2>1, <2>2, <2>3 DEF Reached
  <2>5. f = <<t[1], t[2] + tile.groups>> /\ t[2] + tile.groups < NumKv(t[1])
    BY <1>1, <1>2, <1>4, <1>15, <2>1
  <2>6. Before(t, End) /\ ExistQ(t[1])
    BY <1>2, <1>3, <1>6 DEF Before, ExistQ
  <2>. QED  BY <1>2, <1>7, <1>9, <2>2, <2>4, <2>5, <2>6
<1>. QED  BY <1>14, <1>15

\* No task lies before the segment, nor past its end but in the row after one that shrank.
LEMMA TaskReached ==
  ASSUME Planned, NEW n \in Nat
  PROVE  Reached(Task[n])
<1>. DEFINE S == {i \in Nat : Reached(Task[i])}
<1>1. 0 \in S
  <2>2. Position(Segment(cta)) /\ ~Before(End, Segment(cta))
    BY Numbers
  <2>3. ~Before(Segment(cta), Segment(cta))
    BY <2>2 DEF Before, Position
  <2>4. Reached(Segment(cta))
    BY <2>2, <2>3 DEF Reached, Position
  <2>. QED  BY <2>4, TaskDef
<1>2. ASSUME NEW i \in 0 .. n - 1, i \in S  PROVE i + 1 \in S
  <2>1. Task[i + 1] = Following(Task[i]) /\ Reached(Task[i])
    BY <1>2, TaskDef
  <2>2. CASE Last(Task[i])
    BY <2>1, <2>2 DEF Following
  <2>3. CASE ~Last(Task[i])
    BY <2>1, <2>3, FollowingFacts
  <2>. QED  BY <2>2, <2>3
<1>. HIDE DEF S
<1>3. n \in S
  BY <1>1, <1>2, UpTo
<1>. QED  BY <1>3 DEF S

LEMMA TaskFacts ==
  ASSUME Planned, NEW n \in Nat
  PROVE  /\ Task[n] \in Nat \X Nat /\ Task[n][1] \in Nat /\ Task[n][2] \in Nat
         /\ Task[n][2] + 4 <= Word /\ Task[n][1] <= Task[n + 1][1]
         /\ n \notin Runs => Last(Task[n]) /\ Task[n + 1] = Task[n]
         /\ n \in Runs =>
              /\ ~Last(Task[n]) /\ Task[n][1] < ActualBatch /\ ExistQ(Task[n][1])
              /\ \/ /\ Task[n + 1] = <<Task[n][1], Task[n][2] + tile.groups>>
                    /\ Task[n][2] + tile.groups < NumKv(Task[n][1])
                 \/ Task[n + 1] = <<Task[n][1] + 1, 0>> /\ NumKv(Task[n][1]) <= Task[n][2] + tile.groups
<1>1. Reached(Task[n]) /\ Task[n + 1] = Following(Task[n])
  BY TaskReached, TaskDef
<1>2. Task[n] \in Nat \X Nat /\ Task[n][2] + 4 <= Word
  BY <1>1 DEF Reached
<1>3. CASE Last(Task[n])
  BY <1>1, <1>2, <1>3 DEF Following, Runs
<1>4. CASE ~Last(Task[n])
  <2>1. n \in Runs
    BY <1>4 DEF Runs
  <2>. QED  BY <1>1, <1>2, <1>4, <2>1, FollowingFacts
<1>. QED  BY <1>3, <1>4

\* The tasks that are run come first.
LEMMA RunsFirst ==
  ASSUME Planned, NEW n \in Runs, NEW m \in 0 .. n
  PROVE  m \in Runs
<1>. DEFINE S == {k \in Nat : k <= n => n - k \in Runs}
<1>0. n \in Nat
  BY DEF Runs
<1>1. 0 \in S
  BY <1>0
<1>2. ASSUME NEW k \in 0 .. n - m - 1, k \in S  PROVE k + 1 \in S
  <2>1. SUFFICES ASSUME k + 1 <= n, n - (k + 1) \notin Runs  PROVE FALSE
    OBVIOUS
  <2>2. PICK i \in Nat : i = n - (k + 1) /\ i + 1 = n - k
    BY <1>0, <2>1
  <2>3. Last(Task[i]) /\ Task[i + 1] = Task[i]
    BY <2>1, <2>2, TaskFacts
  <2>4. n - k \in Runs
    BY <1>0, <1>2, <2>1
  <2>. QED  BY <2>2, <2>3, <2>4 DEF Runs
<1>. HIDE DEF S
<1>3. n - m \in Nat /\ n - (n - m) = m
  BY <1>0
<1>4. n - m \in S
  BY <1>0, <1>1, <1>2, <1>3, UpTo
<1>. QED  BY <1>0, <1>3, <1>4 DEF S

\* The rows of Q grow by one at each task that starts a row.
LEMMA RowsFacts ==
  ASSUME Planned, NEW n \in Nat
  PROVE  /\ Rows[n] \in Nat /\ Rows[n + 1] \in Nat /\ Rows[n] <= Rows[n + 1]
         /\ n > 0 => Rows[n] > 0
         /\ n \in Runs /\ n \in NewRows =>
              Rows[n + 1] = Rows[n] + 1 /\ Task[n][1] = Row[Rows[n]] /\ Rows[n] \in Fetched
         /\ n \in Runs /\ n \notin NewRows => Rows[n + 1] = Rows[n] /\ n > 0
<1>1. PICK f \in Nat : f = Task[0][1]
  BY TaskFacts
<1>2. \A m \in Nat : Task[m][1] \in Nat /\ Task[m][1] >= f
  <2>1. ASSUME NEW m \in Nat  PROVE Task[m][1] \in Nat /\ Task[m][1] >= f
    <3>1. Reached(Task[m]) /\ Task[0] = Segment(cta)
      BY TaskReached, TaskDef
    <3>2. Task[m] \in Nat \X Nat /\ Segment(cta) \in Nat \X Nat /\ ~Before(Task[m], Segment(cta))
      BY <3>1, Numbers DEF Reached, Position
    <3>. QED  BY <1>1, <3>1, <3>2 DEF Before
  <2>. QED  BY <2>1
<1>3. Rows[0] = 0 /\ \A m \in Nat : Rows[m + 1] = Task[m][1] - f + 1
  BY <1>1 DEF Rows
<1>4. ASSUME NEW m \in Nat  PROVE Rows[m + 1] \in Nat /\ Rows[m + 1] > 0
  <2>1. PICK a \in Nat : a = Task[m][1] /\ a >= f
    BY <1>2
  <2>2. Rows[m + 1] = a - f + 1
    BY <1>3, <2>1
  <2>. QED  BY <2>1, <2>2
<1>5. CASE n = 0
  <2>1. Rows[1] = 1
    <3>1. Rows[0 + 1] = Task[0][1] - f + 1
      BY <1>3
    <3>. QED  BY <1>1, <3>1
  <2>2. n \in Runs => Rows[n] \in Fetched
    <3>1. n \in Runs => ~Last(Task[0]) /\ ExistQ(Task[0][1])
      BY <1>5, TaskFacts
    <3>. QED  BY <1>1, <1>3, <1>5, <3>1 DEF Fetched
  <2>3. Row[0] = f
    BY <1>1 DEF Row
  <2>. QED  BY <1>1, <1>3, <1>5, <2>1, <2>2, <2>3 DEF NewRows
<1>6. CASE n # 0
  <2>1. PICK m \in Nat : m + 1 = n
    BY <1>6
  <2>2. Rows[n] = Task[m][1] - f + 1 /\ Rows[n + 1] = Task[n][1] - f + 1
    BY <1>3, <2>1
  <2>3. Task[m] \in Nat \X Nat /\ Task[n] \in Nat \X Nat /\ Task[m][1] <= Task[n][1]
    BY <2>1, TaskFacts
  <2>4. Rows[n] \in Nat /\ Rows[n + 1] \in Nat /\ Rows[n] <= Rows[n + 1] /\ Rows[n] > 0
    BY <1>2, <2>2, <2>3
  <2>5. ASSUME n \in Runs
        PROVE  IF n \in NewRows THEN Task[n][1] = Task[m][1] + 1 ELSE Task[n][1] = Task[m][1]
    <3>1. m \in Runs
      BY <2>1, <2>5, RunsFirst
    <3>2. \/ Task[n] = <<Task[m][1], Task[m][2] + tile.groups>>
          \/ Task[n] = <<Task[m][1] + 1, 0>>
      BY <2>1, <3>1, TaskFacts
    <3>3. tile.groups \in 1 .. 2
      BY Numbers
    <3>. QED  BY <1>6, <2>3, <3>2, <3>3 DEF NewRows
  <2>6. ASSUME n \in Runs, n \in NewRows
        PROVE  Rows[n + 1] = Rows[n] + 1 /\ Task[n][1] = Row[Rows[n]] /\ Rows[n] \in Fetched
    <3>1. Task[n][1] = Task[m][1] + 1
      BY <2>5, <2>6
    <3>2. Rows[n + 1] = Rows[n] + 1 /\ f + Rows[n] = Task[n][1]
      BY <1>1, <2>2, <2>3, <3>1
    <3>3. 0 \in Runs /\ ExistQ(Task[n][1])
      BY <2>6, RunsFirst, TaskFacts
    <3>. QED  BY <1>1, <2>4, <3>2, <3>3 DEF Row, Fetched, Runs
  <2>7. ASSUME n \in Runs, n \notin NewRows  PROVE Rows[n + 1] = Rows[n]
    BY <2>2, <2>5, <2>7
  <2>. QED  BY <1>6, <2>4, <2>6, <2>7
<1>. QED  BY <1>5, <1>6

LEMMA RowsGrow ==
  ASSUME Planned, NEW n \in Nat, NEW m \in 0 .. n
  PROVE  Rows[m] \in Nat /\ Rows[n] \in Nat /\ Rows[m] <= Rows[n]
<1>. DEFINE S == {k \in Nat : Rows[m] <= Rows[m + k]}
<1>1. \A k \in Nat : Rows[k] \in Nat /\ Rows[k] <= Rows[k + 1]
  BY RowsFacts
<1>2. 0 \in S
  BY <1>1
<1>3. ASSUME NEW k \in 0 .. n - m - 1, k \in S  PROVE k + 1 \in S
  <2>1. m + k \in Nat /\ (m + k) + 1 = m + (k + 1)
    OBVIOUS
  <2>. QED  BY <1>1, <1>3, <2>1
<1>. HIDE DEF S
<1>4. n - m \in Nat /\ m + (n - m) = n
  OBVIOUS
<1>5. n - m \in S
  BY <1>2, <1>3, <1>4, UpTo
<1>. QED  BY <1>1, <1>4, <1>5 DEF S
-----------------------------------------------------------------------------
(* What the operators on a warp's view do to each part of it. *)

Data == {<<>>} \cup {<<q>> : q \in Nat} \cup (Nat \X Nat)
Cells == [data : Data, landed : BOOLEAN]
QSlots == 0 .. tile.stageQ - 1
Keys == ({"k"} \X (0 .. 2)) \cup ({"q"} \X QSlots)
Queues == {p \in Seq(SUBSET Keys) : Len(p) > 0}
Busy == {"refill", "next", "mma", "store", "advance"}
Places == {"prologue", "start", "loop", "done", "refill", "next", "mma", "store", "advance"}
Privates ==
  [pc : Places, fetchQ : Nat, fetchKv : Nat, q : Nat, kv : Nat, kvArray : [0 .. 2 -> Nat],
   readK : 0 .. 2, writeK : 0 .. 2, readQ : QSlots, writeQ : QSlots, first : BOOLEAN,
   regs : Cells, acc : {<<>>} \cup (Cells \X Cells), syncs : Nat, turnsTaken : Nat, turnsGiven : Nat]
QRings == [QSlots -> Cells]
KRings == [0 .. tile.groups - 1 -> [0 .. 2 -> Cells]]
Views == [me : Privates, q : QRings, k : KRings, p : Queues]

LEMMA CellFacts ==
  /\ Empty \in Cells /\ \A d \in Data : InFlight(d) \in Cells /\ Landed(d) \in Cells
  /\ <<>> \in Data /\ \A q \in Nat : <<q>> \in Data /\ \A kv \in Nat : <<q, kv>> \in Data
BY DEF Empty, InFlight, Landed, Cells, Data

LEMMA ViewFacts ==
  ASSUME NEW s \in Views
  PROVE  /\ s.me \in Privates /\ s.q \in QRings /\ s.k \in KRings /\ s.p \in Queues
         /\ Len(s.p) \in Nat /\ Len(s.p) > 0
         /\ \A me \in Privates, q \in QRings, k \in KRings, p \in Queues :
              [me |-> me, q |-> q, k |-> k, p |-> p] \in Views
BY DEF Views, Queues

\* Queue r is p with more keys in its open group; queue r is p with its group closed.
Joined(r, p, ks) ==
  r \in Queues /\ Len(r) = Len(p) /\ r[Len(p)] = p[Len(p)] \cup ks /\ \A i \in 1 .. Len(p) - 1 : r[i] = p[i]
Closed(r, p) ==
  r \in Queues /\ Len(r) = Len(p) + 1 /\ r[Len(p) + 1] = {} /\ \A i \in 1 .. Len(p) : r[i] = p[i]

LEMMA JoinFacts ==
  ASSUME NEW p \in Queues, NEW ks \in SUBSET Keys
  PROVE  Joined([p EXCEPT ![Len(p)] = @ \cup ks], p, ks)
<1>. DEFINE r == [p EXCEPT ![Len(p)] = @ \cup ks]
<1>1. p \in Seq(SUBSET Keys) /\ Len(p) \in Nat /\ Len(p) > 0
  BY DEF Queues
<1>2. p[Len(p)] \cup ks \in SUBSET Keys
  BY <1>1
<1>3. r \in Seq(SUBSET Keys) /\ Len(r) = Len(p)
  BY <1>1, <1>2
<1>4. r[Len(p)] = p[Len(p)] \cup ks /\ \A i \in 1 .. Len(p) - 1 : r[i] = p[i]
  BY <1>1
<1>5. r \in Queues
  BY <1>1, <1>3 DEF Queues
<1>. QED  BY <1>3, <1>4, <1>5 DEF Joined

LEMMA FenceFacts ==
  ASSUME NEW p \in Queues
  PROVE  Closed(Append(p, {}), p)
<1>1. p \in Seq(SUBSET Keys) /\ Len(p) \in Nat /\ Len(p) > 0
  BY DEF Queues
<1>2. {} \in SUBSET Keys
  OBVIOUS
<1>3. Append(p, {}) \in Seq(SUBSET Keys)
  BY <1>1, <1>2
<1>. QED  BY <1>1, <1>3 DEF Queues, Closed

LEMMA LoadQFields ==
  ASSUME Planned, NEW s \in Views, NEW w \in Warps, NEW q \in Nat
  PROVE  LET r == LoadQ(s, w, q)
             ks == IF w = 0 THEN {<<"q", s.me.writeQ>>} ELSE {}
         IN  /\ r \in Views
             /\ r.me = [s.me EXCEPT !.writeQ = (@ + 1) % tile.stageQ]
             /\ r.q = IF w = 0 THEN [s.q EXCEPT ![s.me.writeQ] = InFlight(<<q>>)] ELSE s.q
             /\ r.k = s.k
             /\ Joined(r.p, s.p, ks)
<1>. DEFINE ks == IF w = 0 THEN {<<"q", s.me.writeQ>>} ELSE {}
            r == LoadQ(s, w, q)
<1>1. s.me \in Privates /\ s.q \in QRings /\ s.k \in KRings /\ s.p \in Queues
  BY ViewFacts
<1>2. s.me.writeQ \in QSlots
  BY <1>1 DEF Privates
<1>3. (s.me.writeQ + 1) % tile.stageQ \in QSlots
  <2>1. tile.stageQ \in Nat \ {0}
    BY Numbers
  <2>. QED  BY <1>2, <2>1 DEF QSlots
<1>4. [s.me EXCEPT !.writeQ = (@ + 1) % tile.stageQ] \in Privates
  BY <1>1, <1>3 DEF Privates
<1>5. [s.q EXCEPT ![s.me.writeQ] = InFlight(<<q>>)] \in QRings
  <2>1. InFlight(<<q>>) \in Cells
    BY CellFacts
  <2>. QED  BY <1>1, <1>2, <2>1 DEF QRings
<1>6. {<<"q", s.me.writeQ>>} \in SUBSET Keys
  BY <1>2 DEF Keys
<1>7. [s.p EXCEPT ![Len(s.p)] = @ \cup {<<"q", s.me.writeQ>>}] \in Queues
  BY <1>1, <1>6, JoinFacts DEF Joined
<1>8. [s.p EXCEPT ![Len(s.p)] = @] = s.p /\ [s.p EXCEPT ![Len(s.p)] = @ \cup {}] = s.p
  BY <1>1 DEF Queues
<1>9. LoadsQ(w) <=> w = 0
  BY DEF LoadsQ
<1>10. CASE w = 0
  <2>1. r \in Views
    BY <1>1, <1>4, <1>5, <1>7, <1>9, <1>10 DEF LoadQ, Views
  <2>2. /\ r.me = [s.me EXCEPT !.writeQ = (@ + 1) % tile.stageQ]
        /\ r.q = [s.q EXCEPT ![s.me.writeQ] = InFlight(<<q>>)] /\ r.k = s.k
    BY <1>9, <1>10 DEF LoadQ, Views
  <2>3. r.p = [s.p EXCEPT ![Len(s.p)] = @ \cup {<<"q", s.me.writeQ>>}]
    BY <1>9, <1>10 DEF LoadQ, Views
  <2>4. Joined(r.p, s.p, ks)
    BY <1>1, <1>6, <1>10, <2>3, JoinFacts, Zenon
  <2>. QED  BY <1>10, <2>1, <2>2, <2>4
<1>11. CASE w # 0
  <2>1. r \in Views
    BY <1>1, <1>4, <1>8, <1>9, <1>11 DEF LoadQ, Views
  <2>2. r.me = [s.me EXCEPT !.writeQ = (@ + 1) % tile.stageQ] /\ r.q = s.q /\ r.k = s.k
    BY <1>9, <1>11 DEF LoadQ, Views
  <2>3. r.p = [s.p EXCEPT ![Len(s.p)] = @]
    BY <1>9, <1>11 DEF LoadQ, Views
  <2>4. Joined(r.p, s.p, ks)
    BY <1>1, <1>8, <1>11, <2>3 DEF Joined
  <2>. QED  BY <1>11, <2>1, <2>2, <2>4
<1>. QED  BY <1>10, <1>11

LEMMA LoadKFields ==
  ASSUME Planned, NEW s \in Views, NEW w \in Warps, NEW data \in Data
  PROVE  LET r == LoadK(s, w, data)
         IN  /\ r \in Views /\ r.me = s.me /\ r.q = s.q
             /\ r.k = [s.k EXCEPT ![Group(w)] = [@ EXCEPT ![s.me.writeK] = InFlight(data)]]
             /\ Joined(r.p, s.p, {<<"k", s.me.writeK>>})
<1>. DEFINE r == LoadK(s, w, data)
<1>1. s.me \in Privates /\ s.q \in QRings /\ s.k \in KRings /\ s.p \in Queues
  BY ViewFacts
<1>2. s.me.writeK \in 0 .. 2
  BY <1>1 DEF Privates
<1>3. Group(w) \in 0 .. tile.groups - 1
  BY Numbers DEF Group, Warps
<1>4. [s.k EXCEPT ![Group(w)] = [@ EXCEPT ![s.me.writeK] = InFlight(data)]] \in KRings
  <2>1. InFlight(data) \in Cells
    BY CellFacts
  <2>2. s.k[Group(w)] \in [0 .. 2 -> Cells]
    BY <1>1, <1>3 DEF KRings
  <2>3. [s.k[Group(w)] EXCEPT ![s.me.writeK] = InFlight(data)] \in [0 .. 2 -> Cells]
    BY <1>2, <2>1, <2>2
  <2>. QED  BY <1>1, <1>3, <2>3 DEF KRings
<1>5. [s.p EXCEPT ![Len(s.p)] = @ \cup {<<"k", s.me.writeK>>}] \in Queues
  <2>1. {<<"k", s.me.writeK>>} \in SUBSET Keys
    BY <1>2 DEF Keys
  <2>. QED  BY <1>1, <2>1, JoinFacts DEF Joined
<1>6. r \in Views
  BY <1>1, <1>4, <1>5 DEF LoadK, Views
<1>7. r.me = s.me /\ r.q = s.q
  BY DEF LoadK, Views
<1>8. r.k = [s.k EXCEPT ![Group(w)] = [@ EXCEPT ![s.me.writeK] = InFlight(data)]]
  BY DEF LoadK, Views
<1>9. r.p = [s.p EXCEPT ![Len(s.p)] = @ \cup {<<"k", s.me.writeK>>}]
  BY DEF LoadK, Views
<1>10. Joined(r.p, s.p, {<<"k", s.me.writeK>>})
  <2>1. {<<"k", s.me.writeK>>} \in SUBSET Keys
    BY <1>2 DEF Keys
  <2>. QED  BY <1>1, <1>9, <2>1, JoinFacts, Zenon
<1>. QED  BY <1>6, <1>7, <1>8, <1>10

LEMMA FenceFields ==
  ASSUME NEW s \in Views
  PROVE  /\ Fence(s) \in Views /\ Fence(s).me = s.me /\ Fence(s).q = s.q /\ Fence(s).k = s.k
         /\ Closed(Fence(s).p, s.p)
<1>1. s.p \in Queues
  BY ViewFacts
<1>2. Append(s.p, {}) \in Queues
  BY <1>1, FenceFacts DEF Closed
<1>3. Fence(s).p = Append(s.p, {})
  BY DEF Fence, Views
<1>4. Closed(Fence(s).p, s.p)
  BY <1>1, <1>3, FenceFacts, Zenon
<1>. QED  BY <1>2, <1>4 DEF Fence, Views

\* Copies of these keys have landed.
Arrived(ring, kind, done) ==
  [i \in DOMAIN ring |-> IF <<kind, i>> \in done THEN [ring[i] EXCEPT !.landed = TRUE] ELSE ring[i]]

\* The groups that cp_async_wait<n> waits for, and those it leaves.
Awaited(p, n) == UNION {p[i] : i \in 1 .. Len(p) - 1 - n}
Left(p, n) == SubSeq(p, IF Len(p) - 1 > n THEN Len(p) - n ELSE 1, Len(p))

LEMMA LeftFacts ==
  ASSUME NEW p \in Queues, NEW n \in 0 .. 1
  PROVE  LET m == IF Len(p) - 1 > n THEN Len(p) - n ELSE 1
         IN  /\ Left(p, n) \in Queues /\ Len(Left(p, n)) = Len(p) - m + 1
             /\ \A i \in 1 .. Len(p) - m + 1 : Left(p, n)[i] = p[m + i - 1]
             /\ Awaited(p, n) \in SUBSET Keys
<1>1. p \in Seq(SUBSET Keys) /\ Len(p) \in Nat /\ Len(p) > 0 /\ \A i \in 1 .. Len(p) : p[i] \in SUBSET Keys
  BY DEF Queues
<1>2. PICK m : m = IF Len(p) - 1 > n THEN Len(p) - n ELSE 1
  OBVIOUS
<1>3. m \in 1 .. Len(p)
  BY <1>1, <1>2
<1>4. PICK r : r = SubSeq(p, m, Len(p))
  OBVIOUS
<1>5. r \in Seq(SUBSET Keys) /\ Len(r) = Len(p) - m + 1 /\ \A i \in 1 .. Len(p) - m + 1 : r[i] = p[m + i - 1]
  BY <1>1, <1>3, <1>4
<1>6. r \in Queues
  BY <1>1, <1>3, <1>5 DEF Queues
<1>7. Awaited(p, n) \in SUBSET Keys
  BY <1>1 DEF Awaited
<1>. QED  BY <1>2, <1>4, <1>5, <1>6, <1>7 DEF Left

LEMMA ArrivedFacts ==
  ASSUME NEW S, NEW ring \in [S -> Cells], NEW kind, NEW done
  PROVE  /\ Arrived(ring, kind, done) \in [S -> Cells]
         /\ \A i \in S : /\ Arrived(ring, kind, done)[i].data = ring[i].data
                         /\ Arrived(ring, kind, done)[i].landed <=> (ring[i].landed \/ <<kind, i>> \in done)
                         /\ ring[i].landed => Arrived(ring, kind, done)[i] = ring[i]
         /\ (\A i \in S : <<kind, i>> \notin done) => Arrived(ring, kind, done) = ring
<1>. DEFINE r == Arrived(ring, kind, done)
<1>1. \A i \in S : r[i] = IF <<kind, i>> \in done THEN [ring[i] EXCEPT !.landed = TRUE] ELSE ring[i]
  BY DEF Arrived
<1>2. ASSUME NEW i \in S
      PROVE  /\ r[i] \in Cells /\ r[i].data = ring[i].data
             /\ r[i].landed <=> (ring[i].landed \/ <<kind, i>> \in done)
             /\ ring[i].landed => r[i] = ring[i]
  <2>1. ring[i] \in Cells
    OBVIOUS
  <2>. QED  BY <1>1, <2>1 DEF Cells
<1>3. r \in [S -> Cells]
  BY <1>2 DEF Arrived
<1>4. ASSUME \A i \in S : <<kind, i>> \notin done  PROVE r = ring
  <2>1. \A i \in S : r[i] = ring[i]
    BY <1>1, <1>4
  <2>. HIDE DEF r
  <2>. QED  BY <1>3, <2>1
<1>. QED  BY <1>2, <1>3, <1>4

LEMMA WaitFields ==
  ASSUME Planned, NEW s \in Views, NEW w \in Warps, NEW n \in 0 .. 1
  PROVE  LET r == WaitCopies(s, w, n)
             done == Awaited(s.p, n)
         IN  /\ r \in Views /\ r.me = s.me /\ r.q = Arrived(s.q, "q", done)
             /\ r.k = [s.k EXCEPT ![Group(w)] = Arrived(@, "k", done)] /\ r.p = Left(s.p, n)
<1>. DEFINE r == WaitCopies(s, w, n)
            done == Awaited(s.p, n)
<1>1. s.me \in Privates /\ s.q \in QRings /\ s.k \in KRings /\ s.p \in Queues
  BY ViewFacts
<1>3. Left(s.p, n) \in Queues
  BY <1>1, LeftFacts
<1>4. Arrived(s.q, "q", done) \in QRings
  BY <1>1, ArrivedFacts DEF QRings
<1>5. [s.k EXCEPT ![Group(w)] = Arrived(@, "k", done)] \in KRings
  <2>1. Group(w) \in 0 .. tile.groups - 1
    BY Numbers DEF Group, Warps
  <2>2. s.k[Group(w)] \in [0 .. 2 -> Cells]
    BY <1>1, <2>1 DEF KRings
  <2>3. Arrived(s.k[Group(w)], "k", done) \in [0 .. 2 -> Cells]
    BY <2>2, ArrivedFacts
  <2>. QED  BY <1>1, <2>1, <2>3 DEF KRings
<1>6. r.me = s.me
  BY DEF WaitCopies, Views
<1>7. r.q = Arrived(s.q, "q", done)
  BY DEF WaitCopies, Arrived, Awaited, Views
<1>8. r.k = [s.k EXCEPT ![Group(w)] = Arrived(@, "k", done)]
  BY DEF WaitCopies, Arrived, Awaited, Views
<1>9. r.p = Left(s.p, n)
  BY DEF WaitCopies, Left, Views
<1>10. r \in Views
  BY <1>1, <1>3, <1>4, <1>5 DEF WaitCopies, Arrived, Awaited, Left, Views
<1>. QED  BY <1>6, <1>7, <1>8, <1>9, <1>10

LEMMA GroupFacts ==
  ASSUME Planned, NEW w \in Warps
  PROVE  /\ Group(w) \in 0 .. 1 /\ Group(w) \in 0 .. tile.groups - 1 /\ Group(w) <= w
         /\ LoadsK(w) => Group(w) = w /\ w \in 0 .. tile.groups - 1
         /\ ~LoadsK(w) => w = 1 /\ Group(w) = 0 /\ tile.groups = 1
         /\ LoadsK(w) <=> w < tile.groups
  BY Numbers DEF Group, Warps, LoadsK

\* The parts of a warp's state that fetching leaves alone.
SameConsumer(r, s) ==
  /\ r.pc = s.pc /\ r.q = s.q /\ r.kv = s.kv /\ r.readK = s.readK /\ r.readQ = s.readQ
  /\ r.first = s.first /\ r.regs = s.regs /\ r.acc = s.acc /\ r.syncs = s.syncs
  /\ r.turnsTaken = s.turnsTaken /\ r.turnsGiven = s.turnsGiven

LEMMA HandOverFields ==
  ASSUME NEW s \in Views, NEW base \in Nat, NEW next \in Nat \X Nat
  PROVE  LET r == HandOver(s, base, next)
         IN  /\ r \in Views /\ r.q = s.q /\ r.k = s.k /\ Closed(r.p, s.p) /\ SameConsumer(r.me, s.me)
             /\ r.me.kvArray = [s.me.kvArray EXCEPT ![s.me.writeK] = base]
             /\ r.me.writeK = (s.me.writeK + 1) % 3 /\ r.me.writeQ = s.me.writeQ
             /\ <<r.me.fetchQ, r.me.fetchKv>> = next
<1>. DEFINE c == [s EXCEPT !.me.kvArray[s.me.writeK] = base, !.me.writeK = (@ + 1) % StageK,
                           !.me.fetchQ = next[1], !.me.fetchKv = next[2]]
            me == [s.me EXCEPT !.kvArray[s.me.writeK] = base, !.writeK = (@ + 1) % StageK,
                               !.fetchQ = next[1], !.fetchKv = next[2]]
<1>1. s.me \in Privates /\ s.me.writeK \in 0 .. 2 /\ s.me.kvArray \in [0 .. 2 -> Nat]
  BY ViewFacts DEF Privates
<1>2. next[1] \in Nat /\ next[2] \in Nat /\ next = <<next[1], next[2]>>
  OBVIOUS
<1>3. (s.me.writeK + 1) % StageK \in 0 .. 2
  BY <1>1 DEF StageK
<1>4. me \in Privates
  BY <1>1, <1>2, <1>3 DEF Privates
<1>5. /\ me.kvArray = [s.me.kvArray EXCEPT ![s.me.writeK] = base]
      /\ me.writeK = (s.me.writeK + 1) % 3 /\ me.writeQ = s.me.writeQ
      /\ me.fetchQ = next[1] /\ me.fetchKv = next[2] /\ SameConsumer(me, s.me)
  BY <1>1 DEF Privates, StageK, SameConsumer
<1>6. c.me = me /\ c.q = s.q /\ c.k = s.k /\ c.p = s.p
  BY DEF Views
<1>7. c \in Views
  BY <1>4 DEF Views
<1>. HIDE DEF me
<1>8. PICK r : r = HandOver(s, base, next)
  OBVIOUS
<1>9. r = Fence(c)
  BY <1>8 DEF HandOver
<1>. HIDE DEF c
<1>10. r \in Views /\ r.me = me /\ r.q = s.q /\ r.k = s.k /\ Closed(r.p, s.p)
  BY <1>6, <1>7, <1>9, FenceFields
<1>. QED  BY <1>2, <1>5, <1>8, <1>10

LEMMA NextTaskFacts ==
  ASSUME Planned, NEW n \in Nat, NEW q \in Nat, NEW base \in Nat, Task[n] = <<q, base>>
  PROVE  NextTask(q, base) = Task[n + 1] /\ (n \in Runs <=> ~IsLastTask(q, base))
<1>1. base + 4 <= Word /\ Word \in Nat /\ tile.groups \in 1 .. 2
  BY TaskFacts, Numbers
<1>2. (base + tile.groups) % Word = base + tile.groups
  BY <1>1
<1>3. Task[n + 1] = Following(<<q, base>>)
  BY TaskDef
<1>4. Following(<<q, base>>) = NextTask(q, base)
  BY <1>2 DEF Following, NextTask, Last
<1>. QED  BY <1>3, <1>4 DEF Runs, Last

\* What load_next_qk_g2s makes of s when it fetches task n.
Fetches(r, s, w, withQ, n) ==
  LET rowToo == n \in Runs /\ withQ
      tileToo == LoadsK(w) /\ n \in Filled[w]
      qs == IF rowToo /\ w = 0 THEN {<<"q", s.me.writeQ>>} ELSE {}
      ks == IF tileToo THEN {<<"k", s.me.writeK>>} ELSE {}
      len == Len(s.p)
  IN  /\ r \in Views /\ SameConsumer(r.me, s.me)
      /\ r.me.kvArray = [s.me.kvArray EXCEPT ![s.me.writeK] = Task[n][2]]
      /\ r.me.writeK = (s.me.writeK + 1) % 3
      /\ <<r.me.fetchQ, r.me.fetchKv>> = Task[n + 1]
      /\ r.me.writeQ = IF rowToo THEN (s.me.writeQ + 1) % tile.stageQ ELSE s.me.writeQ
      /\ r.q = IF rowToo /\ w = 0 THEN [s.q EXCEPT ![s.me.writeQ] = InFlight(<<Task[n][1]>>)] ELSE s.q
      /\ r.k = IF tileToo
               THEN [s.k EXCEPT ![w] = [@ EXCEPT ![s.me.writeK] = InFlight(<<Task[n][1], Task[n][2] + w>>)]]
               ELSE s.k
      /\ Len(r.p) = len + 1 /\ r.p[len + 1] = {} /\ r.p[len] = s.p[len] \cup qs \cup ks
      /\ \A i \in 1 .. len - 1 : r.p[i] = s.p[i]

LEMMA LoadNextFields ==
  ASSUME Planned, NEW s \in Views, NEW w \in Warps, NEW withQ \in BOOLEAN,
         NEW n \in Nat, <<s.me.fetchQ, s.me.fetchKv>> = Task[n]
  PROVE  Fetches(LoadNext(s, w, withQ), s, w, withQ, n)
<1>. DEFINE rowToo == n \in Runs /\ withQ
            tileToo == LoadsK(w) /\ n \in Filled[w]
            qs == IF rowToo /\ w = 0 THEN {<<"q", s.me.writeQ>>} ELSE {}
            ks == IF tileToo THEN {<<"k", s.me.writeK>>} ELSE {}
            len == Len(s.p)
<1>0. s.me \in Privates /\ s.p \in Queues /\ len \in Nat /\ len > 0
  BY ViewFacts
<1>1. PICK q, base \in Nat : s.me.fetchQ = q /\ s.me.fetchKv = base /\ Task[n] = <<q, base>>
  BY <1>0 DEF Privates
<1>2. base + 4 <= Word /\ Word \in Nat /\ Group(w) \in 0 .. 1
  BY <1>1, TaskFacts, Numbers, GroupFacts
<1>3. PICK kv \in Nat : kv = base + Group(w) /\ (base + Group(w)) % Word = kv
  BY <1>2
<1>4. (n \in Runs <=> ~IsLastTask(q, base)) /\ NextTask(q, base) = Task[n + 1]
  BY <1>1, NextTaskFacts
<1>5. tileToo <=> n \in Runs /\ LoadsK(w) /\ kv < NumKv(q)
  <2>1. LoadsK(w) => w = Group(w)
    BY GroupFacts
  <2>2. n \in Filled[w] <=> n \in Runs /\ base + w < NumKv(q)
    BY <1>1 DEF Filled, Runs, Warps
  <2>. QED  BY <1>3, <2>1, <2>2
<1>6. PICK a : a = IF rowToo THEN LoadQ(s, w, q) ELSE s
  OBVIOUS
<1>7. /\ a \in Views
      /\ a.me = IF rowToo THEN [s.me EXCEPT !.writeQ = (@ + 1) % tile.stageQ] ELSE s.me
      /\ a.q = IF rowToo /\ w = 0 THEN [s.q EXCEPT ![s.me.writeQ] = InFlight(<<q>>)] ELSE s.q
      /\ a.k = s.k /\ Joined(a.p, s.p, qs)
  <2>1. CASE ~rowToo
    BY <1>0, <1>6, <2>1 DEF Joined
  <2>2. CASE rowToo
    <3>1. /\ a \in Views /\ a.me = [s.me EXCEPT !.writeQ = (@ + 1) % tile.stageQ]
          /\ a.q = IF w = 0 THEN [s.q EXCEPT ![s.me.writeQ] = InFlight(<<q>>)] ELSE s.q
          /\ a.k = s.k /\ Joined(a.p, s.p, IF w = 0 THEN {<<"q", s.me.writeQ>>} ELSE {})
      <4>1. a = LoadQ(s, w, q)
        BY <1>6, <2>2
      <4>. QED  BY <4>1, LoadQFields
    <3>2. qs = IF w = 0 THEN {<<"q", s.me.writeQ>>} ELSE {}
      BY <2>2
    <3>3. Joined(a.p, s.p, qs)
      BY <3>1, <3>2
    <3>. HIDE DEF qs
    <3>. QED  BY <2>2, <3>1, <3>3
  <2>. QED  BY <2>1, <2>2
<1>8. /\ a.me \in Privates /\ a.me.writeK = s.me.writeK /\ a.me.kvArray = s.me.kvArray
      /\ a.me.writeQ = IF rowToo THEN (s.me.writeQ + 1) % tile.stageQ ELSE s.me.writeQ
      /\ SameConsumer(a.me, s.me)
  BY <1>0, <1>7, ViewFacts DEF Privates, SameConsumer
<1>9. PICK b : b = IF tileToo THEN LoadK(a, w, <<q, kv>>) ELSE a
  OBVIOUS
<1>10. /\ b \in Views /\ b.me = a.me /\ b.q = a.q /\ Joined(b.p, a.p, ks)
       /\ b.k = IF tileToo THEN [s.k EXCEPT ![w] = [@ EXCEPT ![s.me.writeK] = InFlight(<<q, kv>>)]] ELSE s.k
  <2>1. CASE ~tileToo
    <3>1. a.p \in Queues
      BY <1>7, ViewFacts
    <3>. QED  BY <1>7, <1>9, <2>1, <3>1 DEF Joined
  <2>2. CASE tileToo
    <3>1. PICK d \in Data : d = <<q, kv>>
      BY CellFacts
    <3>2. b = LoadK(a, w, d)
      BY <1>9, <2>2, <3>1
    <3>3. /\ b \in Views /\ b.me = a.me /\ b.q = a.q
          /\ b.k = [a.k EXCEPT ![Group(w)] = [@ EXCEPT ![a.me.writeK] = InFlight(d)]]
          /\ Joined(b.p, a.p, {<<"k", a.me.writeK>>})
      BY <1>7, <3>2, LoadKFields
    <3>4. Group(w) = w /\ ks = {<<"k", s.me.writeK>>}
      BY <2>2, GroupFacts
    <3>. QED  BY <1>7, <1>8, <2>2, <3>1, <3>3, <3>4
  <2>. QED  BY <2>1, <2>2
<1>11. PICK next \in Nat \X Nat : next = NextTask(q, base)
  BY <1>4, TaskFacts
<1>12. PICK r : r = LoadNext(s, w, withQ)
  OBVIOUS
<1>13. r = HandOver(b, base, next)
  <2>. DEFINE a0 == IF ~IsLastTask(q, base) /\ withQ THEN LoadQ(s, w, q) ELSE s
              kv0 == (base + Group(w)) % Word
              b0 == IF ~IsLastTask(q, base) /\ LoadsK(w) /\ kv0 < NumKv(q) THEN LoadK(a0, w, <<q, kv0>>) ELSE a0
  <2>1. r = HandOver(b0, base, NextTask(q, base))
    BY <1>1, <1>12 DEF LoadNext
  <2>2. a0 = a
    BY <1>4, <1>6
  <2>. HIDE DEF a0
  <2>3. b0 = b
    BY <1>3, <1>4, <1>5, <1>9, <2>2
  <2>. HIDE DEF b0
  <2>. QED  BY <1>11, <2>1, <2>3
<1>14. /\ r \in Views /\ r.q = b.q /\ r.k = b.k /\ Closed(r.p, b.p) /\ SameConsumer(r.me, b.me)
       /\ r.me.kvArray = [b.me.kvArray EXCEPT ![b.me.writeK] = base]
       /\ r.me.writeK = (b.me.writeK + 1) % 3 /\ r.me.writeQ = b.me.writeQ
       /\ <<r.me.fetchQ, r.me.fetchKv>> = next
  BY <1>10, <1>13, HandOverFields
<1>15. /\ r \in Views /\ SameConsumer(r.me, s.me)
       /\ r.me.kvArray = [s.me.kvArray EXCEPT ![s.me.writeK] = Task[n][2]]
       /\ r.me.writeK = (s.me.writeK + 1) % 3
       /\ <<r.me.fetchQ, r.me.fetchKv>> = Task[n + 1]
  BY <1>1, <1>4, <1>8, <1>10, <1>11, <1>14 DEF SameConsumer
<1>16. /\ r.me.writeQ = IF rowToo THEN (s.me.writeQ + 1) % tile.stageQ ELSE s.me.writeQ
       /\ r.q = IF rowToo /\ w = 0 THEN [s.q EXCEPT ![s.me.writeQ] = InFlight(<<Task[n][1]>>)] ELSE s.q
  BY <1>1, <1>7, <1>8, <1>10, <1>14
<1>17. r.k = IF tileToo
             THEN [s.k EXCEPT ![w] = [@ EXCEPT ![s.me.writeK] = InFlight(<<Task[n][1], Task[n][2] + w>>)]]
             ELSE s.k
  <2>1. tileToo => kv = Task[n][2] + w /\ q = Task[n][1]
    BY <1>1, <1>3, GroupFacts
  <2>. QED  BY <1>10, <1>14, <2>1
<1>18. /\ Len(r.p) = len + 1 /\ r.p[len + 1] = {} /\ r.p[len] = s.p[len] \cup qs \cup ks
       /\ \A i \in 1 .. len - 1 : r.p[i] = s.p[i]
  <2>. HIDE DEF qs, ks, len
  <2>1. Len(s.p) = len /\ len \in 1 .. len /\ \A i \in 1 .. len - 1 : i \in 1 .. len
    BY <1>0 DEF len
  <2>2. Len(a.p) = len /\ a.p[len] = s.p[len] \cup qs /\ \A i \in 1 .. len - 1 : a.p[i] = s.p[i]
    BY <1>7, <2>1 DEF Joined
  <2>3. Len(b.p) = len /\ b.p[len] = a.p[len] \cup ks /\ \A i \in 1 .. len - 1 : b.p[i] = a.p[i]
    BY <1>10, <2>2 DEF Joined
  <2>4. Len(r.p) = len + 1 /\ r.p[len + 1] = {} /\ \A i \in 1 .. len : r.p[i] = b.p[i]
    BY <1>14, <2>3 DEF Closed
  <2>. QED  BY <2>1, <2>2, <2>3, <2>4
<1>19. Fetches(r, s, w, withQ, n)
  <2>. HIDE DEF rowToo, tileToo, qs, ks, len
  <2>. QED  BY <1>14, <1>15, <1>16, <1>17, <1>18 DEF Fetches, rowToo, tileToo, qs, ks, len
<1>. QED  BY <1>12, <1>19
-----------------------------------------------------------------------------
(* The invariant: where a warp is among the tasks, and what its rings hold. *)

Slot == [n \in Nat |-> n % 3]
QSlot == [r \in Nat |-> r % tile.stageQ]

Ahead == {"mma", "store", "advance"}

\* The task a warp is at; it counts those it has entered.
At(me) == IF me.pc \in Busy THEN me.turnsTaken - 1 ELSE me.turnsTaken

\* A warp consumes task n while its fetcher is two or three tasks ahead.
Walks(me) ==
  LET n == At(me)
  IN  /\ me.pc \in {"start", "loop", "done"} \cup Busy
      /\ me.pc \in Busy => me.turnsTaken > 0 /\ n \in Runs
      /\ me.pc = "start" => me.turnsTaken = 0
      /\ me.pc = "done" => n \notin Runs
      /\ me.pc = "refill" => tile.stageQ = 1 /\ n \in NewRows
      /\ me.q = Task[n][1] /\ me.kv = Task[n][2] /\ me.readK = Slot[n] /\ (me.first <=> n = 0)
      /\ me.kvArray[Slot[n]] = Task[n][2] /\ me.kvArray[Slot[n + 1]] = Task[n + 1][2]
      /\ me.pc \in Ahead =>
           /\ me.kvArray[Slot[n + 2]] = Task[n + 2][2] /\ me.writeK = Slot[n + 3]
           /\ <<me.fetchQ, me.fetchKv>> = Task[n + 3]
      /\ me.pc \notin Ahead => me.writeK = Slot[n + 2] /\ <<me.fetchQ, me.fetchKv>> = Task[n + 2]

\* The row in its registers is that of its task, the products those of its tile.
Reads(me, w) ==
  LET n == At(me)
      row == Landed(<<Task[n][1]>>)
  IN  /\ me.readQ = QSlot[Rows[me.turnsTaken]]
      /\ (me.pc \in Busy \/ (me.pc = "loop" /\ n \in Runs /\ n \notin NewRows)) => me.regs = row
      /\ (me.pc = "store" /\ n \in Filled[Group(w)]) =>
            me.acc = <<row, Landed(<<Task[n][1], Task[n][2] + Group(w)>>)>>

\* Its copies in flight: of its own rings, in one or two groups and an empty one.
Queued(me, p, w) ==
  /\ w # 0 => \A i \in 1 .. Len(p), x \in QSlots : <<"q", x>> \notin p[i]
  /\ ~LoadsK(w) => \A i \in 1 .. Len(p), x \in 0 .. 2 : <<"k", x>> \notin p[i]
  /\ p[Len(p)] = {}
  /\ me.pc \in {"start", "loop", "refill", "advance"} => Len(p) = 2
  /\ me.pc = "next" => Len(p) \in 2 .. 3
  /\ me.pc \in {"mma", "store"} => Len(p) \in 3 .. 4

\* The ring of math warp group o holds its tile of task i, or keys are on their way.
TileIn(ring, i, o, keys) ==
  i \in Filled[o] =>
    /\ ring[Slot[i]].data = <<Task[i][1], Task[i][2] + o>>
    /\ ring[Slot[i]].landed \/ <<"k", Slot[i]>> \in keys
TilesIn(me, p, ring, o) ==
  LET n == At(me)
  IN  me.pc # "done" =>
        /\ TileIn(ring, n, o, {})
        /\ TileIn(ring, n + 1, o, IF me.pc = "advance" THEN {} ELSE p[1])
        /\ me.pc \in Ahead => TileIn(ring, n + 2, o, IF me.pc = "advance" THEN p[1] ELSE p[Len(p) - 1])

\* The Q ring, filled by the first warp, holds the next row that warp reads, and with
\* more than one stage the row before it.
RowIn(ring, r) == ring[QSlot[r]].data = <<Row[r]>> /\ ring[QSlot[r]].landed
RowsIn(me, p, ring) ==
  LET r == Rows[me.turnsTaken]
      coming == <<"q", QSlot[r]>> \in p[2]
  IN  /\ (r \in Fetched /\ me.pc # "refill") =>
           /\ me.writeQ = QSlot[r + 1] /\ ring[QSlot[r]].data = <<Row[r]>>
           /\ \/ ring[QSlot[r]].landed
              \/ me.pc = "next" /\ Len(p) = 3 /\ coming
              \/ me.pc \in {"mma", "store"} /\ Len(p) = 4 /\ coming
      /\ me.pc = "refill" => me.writeQ = 0
      /\ (r >= 1 /\ (tile.stageQ > 1 \/ me.pc = "refill")) => RowIn(ring, r - 1)

Running(s, w) ==
  /\ Walks(s.me) /\ Reads(s.me, w) /\ Queued(s.me, s.p, w)
  /\ LoadsK(w) => TilesIn(s.me, s.p, s.k[w], w)
  /\ w = 0 => RowsIn(s.me, s.p, s.q)

\* Nothing has happened since the CTA was launched.
Untouched(s, w) ==
  /\ s.me = WarpStart(cta) /\ s.p = <<{}>>
  /\ LoadsK(w) => s.k[w] = [i \in 0 .. 2 |-> Empty]
  /\ w = 0 => s.q = [i \in QSlots |-> Empty]

\* A step of warp w leaves the rings of others alone.
OnlyOwn(r, s, w) ==
  /\ w # 0 => r.q = s.q
  /\ \A o \in 0 .. tile.groups - 1 : (o # w) => r.k[o] = s.k[o]

\* A step of warp w makes r of its view s.
Goes(r, s, w, pc, taken, syncs, given) ==
  /\ r \in Views /\ Running(r, w) /\ OnlyOwn(r, s, w)
  /\ r.me.pc = pc /\ r.me.turnsTaken = taken /\ r.me.syncs = syncs /\ r.me.turnsGiven = given

LEMMA SlotFacts ==
  ASSUME NEW n \in Nat
  PROVE  /\ Slot[n] \in 0 .. 2 /\ Slot[n + 1] = (Slot[n] + 1) % 3 /\ Slot[n + 3] = Slot[n]
         /\ Slot[n + 2] = (Slot[n + 1] + 1) % 3 /\ Slot[n + 1] \in 0 .. 2 /\ Slot[n + 2] \in 0 .. 2
         /\ Slot[n + 1] # Slot[n] /\ Slot[n + 2] # Slot[n] /\ Slot[n + 2] # Slot[n + 1]
         /\ Slot[0] = 0 /\ Slot[1] = 1 /\ Slot[2] = 2
  BY DEF Slot

LEMMA NextRemainder ==
  ASSUME NEW n \in Nat, n > 0, NEW a \in Nat
  PROVE  (a + 1) % n = IF (a % n) + 1 = n THEN 0 ELSE (a % n) + 1
<1>1. PICK q \in Nat, j \in 0 .. n - 1 : a = q * n + j /\ a % n = j
  BY DivMod
<1>2. CASE j + 1 = n
  <2>1. a + 1 = (q + 1) * n + 0
    BY <1>1, <1>2
  <2>2. q + 1 \in Nat /\ 0 \in 0 .. n - 1
    OBVIOUS
  <2>3. (a + 1) % n = 0
    BY <2>1, <2>2, Remainder
  <2>. QED  BY <1>1, <1>2, <2>3
<1>3. CASE j + 1 # n
  <2>1. j + 1 \in 0 .. n - 1
    BY <1>3
  <2>2. PICK i \in 0 .. n - 1 : i = j + 1
    BY <2>1
  <2>3. a + 1 = q * n + i
    BY <1>1, <2>2
  <2>4. (a + 1) % n = i
    BY <2>3, Remainder
  <2>. QED  BY <1>1, <1>3, <2>2, <2>4
<1>. QED  BY <1>2, <1>3

LEMMA QSlotFacts ==
  ASSUME Planned, NEW r \in Nat
  PROVE  /\ QSlot[r] \in QSlots /\ QSlot[r + 1] \in QSlots /\ QSlot[r + 1] = (QSlot[r] + 1) % tile.stageQ
         /\ tile.stageQ > 1 => QSlot[r + 1] # QSlot[r]
         /\ tile.stageQ = 1 => QSlot[r] = 0
         /\ QSlot[0] = 0
<1>1. PICK n \in Nat : n = tile.stageQ /\ n > 0
  BY Numbers
<1>2. r % n \in 0 .. n - 1 /\ 0 % n = 0 /\ (n = 1 => r % n = 0)
  BY <1>1
<1>3. PICK j \in 0 .. n - 1 : j = r % n
  BY <1>2
<1>4. (r + 1) % n = IF j + 1 = n THEN 0 ELSE j + 1
  BY <1>1, <1>3, NextRemainder
<1>5. (j + 1) % n = IF j + 1 = n THEN 0 ELSE j + 1
  BY <1>1
<1>6. QSlot[r] = j /\ QSlot[r + 1] = (r + 1) % n /\ QSlot[0] = 0
  BY <1>1, <1>2, <1>3 DEF QSlot
<1>7. QSlots = 0 .. n - 1
  BY <1>1 DEF QSlots
<1>8. (QSlot[r] + 1) % tile.stageQ = QSlot[r + 1]
  BY <1>1, <1>4, <1>5, <1>6
<1>9. QSlot[r] = j /\ QSlot[r + 1] = IF j + 1 = n THEN 0 ELSE j + 1
  BY <1>1, <1>4, <1>6
<1>10. QSlot[r + 1] \in 0 .. n - 1
  <2>1. n \in Nat /\ n > 0 /\ j \in 0 .. n - 1
    BY <1>1, <1>3
  <2>2. (IF j + 1 = n THEN 0 ELSE j + 1) \in 0 .. n - 1
    BY <2>1
  <2>. QED  BY <1>9, <2>2
<1>11. (n > 1 => QSlot[r + 1] # QSlot[r]) /\ (n = 1 => QSlot[r] = 0)
  <2>1. n \in Nat /\ n > 0 /\ j \in 0 .. n - 1
    BY <1>1, <1>3
  <2>2. n > 1 => (IF j + 1 = n THEN 0 ELSE j + 1) # j
    BY <2>1
  <2>3. n = 1 => j = 0
    BY <2>1
  <2>. QED  BY <1>9, <2>2, <2>3
<1>13. QSlot[r] \in QSlots /\ QSlot[r + 1] \in QSlots /\ QSlot[0] = 0
  BY <1>3, <1>6, <1>7, <1>10
<1>. QED  BY <1>1, <1>8, <1>11, <1>13

LEMMA CellIs ==
  ASSUME NEW c \in Cells, NEW d, c.data = d, c.landed
  PROVE  c = Landed(d)
BY DEF Cells, Landed

-----------------------------------------------------------------------------
(* What each action of a warp makes of its view. *)

LEMMA ReadQFields ==
  ASSUME Planned, NEW s \in Views
  PROVE  LET r == ReadQ(s)
         IN  /\ r \in Views /\ r.q = s.q /\ r.k = s.k /\ r.p = s.p
             /\ r.me = [s.me EXCEPT !.regs = s.q[s.me.readQ], !.readQ = (@ + 1) % tile.stageQ]
<1>. DEFINE r == ReadQ(s)
<1>1. s.me \in Privates /\ s.q \in QRings
  BY ViewFacts
<1>2. s.me.readQ \in QSlots
  BY <1>1 DEF Privates
<1>3. s.q[s.me.readQ] \in Cells
  BY <1>1, <1>2 DEF QRings
<1>4. (s.me.readQ + 1) % tile.stageQ \in QSlots
  <2>1. tile.stageQ \in Nat \ {0}
    BY Numbers
  <2>. QED  BY <1>2, <2>1 DEF QSlots
<1>5. [s.me EXCEPT !.regs = s.q[s.me.readQ], !.readQ = (@ + 1) % tile.stageQ] \in Privates
  BY <1>1, <1>3, <1>4 DEF Privates
<1>6. r \in Views
  BY <1>5 DEF ReadQ, Views
<1>7. r.q = s.q /\ r.k = s.k /\ r.p = s.p
  BY DEF ReadQ, Views
<1>8. r.me = [s.me EXCEPT !.regs = s.q[s.me.readQ], !.readQ = (@ + 1) % tile.stageQ]
  BY DEF ReadQ, Views
<1>. QED  BY <1>6, <1>7, <1>8

LEMMA PrefetchQFields ==
  ASSUME Planned, NEW s \in Views, NEW w \in Warps
  PROVE  LET r == PrefetchQ(s, w)
             more == ExistQ(s.me.q + 1)
             len == Len(s.p)
         IN  /\ r \in Views /\ r.k = s.k
             /\ r.me = IF more THEN [s.me EXCEPT !.writeQ = (@ + 1) % tile.stageQ] ELSE s.me
             /\ r.q = IF more /\ w = 0 THEN [s.q EXCEPT ![s.me.writeQ] = InFlight(<<s.me.q + 1>>)] ELSE s.q
             /\ Len(r.p) = len + 1 /\ r.p[len + 1] = {}
             /\ r.p[len] = s.p[len] \cup (IF more /\ w = 0 THEN {<<"q", s.me.writeQ>>} ELSE {})
             /\ \A i \in 1 .. len - 1 : r.p[i] = s.p[i]
<1>. DEFINE more == ExistQ(s.me.q + 1)
            ks == IF more /\ w = 0 THEN {<<"q", s.me.writeQ>>} ELSE {}
<1>1. s.me \in Privates /\ s.p \in Queues /\ s.me.q \in Nat /\ Len(s.p) \in Nat /\ Len(s.p) > 0
  BY ViewFacts DEF Privates
<1>2. PICK q \in Nat : q = s.me.q + 1
  BY <1>1
<1>3. PICK a : a = IF more THEN LoadQ(s, w, q) ELSE s
  OBVIOUS
<1>4. /\ a \in Views /\ a.k = s.k /\ Joined(a.p, s.p, ks)
      /\ a.me = IF more THEN [s.me EXCEPT !.writeQ = (@ + 1) % tile.stageQ] ELSE s.me
      /\ a.q = IF more /\ w = 0 THEN [s.q EXCEPT ![s.me.writeQ] = InFlight(<<s.me.q + 1>>)] ELSE s.q
  <2>1. CASE ~more
    BY <1>1, <1>3, <2>1 DEF Joined
  <2>2. CASE more
    <3>1. /\ a \in Views /\ a.me = [s.me EXCEPT !.writeQ = (@ + 1) % tile.stageQ]
          /\ a.q = IF w = 0 THEN [s.q EXCEPT ![s.me.writeQ] = InFlight(<<q>>)] ELSE s.q
          /\ a.k = s.k /\ Joined(a.p, s.p, IF w = 0 THEN {<<"q", s.me.writeQ>>} ELSE {})
      <4>1. a = LoadQ(s, w, q)
        BY <1>3, <2>2
      <4>. QED  BY <4>1, LoadQFields
    <3>2. ks = IF w = 0 THEN {<<"q", s.me.writeQ>>} ELSE {}
      BY <2>2
    <3>3. Joined(a.p, s.p, ks)
      BY <3>1, <3>2
    <3>. HIDE DEF ks
    <3>. QED  BY <1>2, <2>2, <3>1, <3>3
  <2>. QED  BY <2>1, <2>2
<1>5. PICK r : r = PrefetchQ(s, w)
  OBVIOUS
<1>6. r = Fence(a)
  BY <1>2, <1>3, <1>5 DEF PrefetchQ
<1>7. r \in Views /\ r.me = a.me /\ r.q = a.q /\ r.k = a.k /\ Closed(r.p, a.p)
  BY <1>4, <1>6, FenceFields
<1>8. /\ Len(r.p) = Len(s.p) + 1 /\ r.p[Len(s.p) + 1] = {} /\ r.p[Len(s.p)] = s.p[Len(s.p)] \cup ks
      /\ \A i \in 1 .. Len(s.p) - 1 : r.p[i] = s.p[i]
  <2>. HIDE DEF ks
  <2>1. PICK n \in Nat : n = Len(s.p) /\ n \in 1 .. n /\ \A i \in 1 .. n - 1 : i \in 1 .. n
    BY <1>1
  <2>2. Len(a.p) = n /\ a.p[n] = s.p[n] \cup ks /\ \A i \in 1 .. n - 1 : a.p[i] = s.p[i]
    BY <1>4, <2>1 DEF Joined
  <2>3. Len(r.p) = n + 1 /\ r.p[n + 1] = {} /\ \A i \in 1 .. n : r.p[i] = a.p[i]
    BY <1>7, <2>2 DEF Closed
  <2>. QED  BY <2>1, <2>2, <2>3
<1>. HIDE DEF more
<1>. QED  BY <1>4, <1>5, <1>7, <1>8 DEF more

LEMMA RunningFacts ==
  ASSUME Planned, NEW s \in Views, NEW w \in Warps, Running(s, w)
  PROVE  /\ s.me.turnsTaken \in Nat /\ At(s.me) \in Nat /\ s.me \in Privates
         /\ s.me.pc \in Busy => At(s.me) + 1 = s.me.turnsTaken
         /\ s.me.pc \notin Busy => At(s.me) = s.me.turnsTaken
         /\ Task[At(s.me)] = <<s.me.q, s.me.kv>>
         /\ At(s.me) \in Runs <=> ~IsLastTask(s.me.q, s.me.kv)
         /\ At(s.me) \in NewRows <=> s.me.first \/ s.me.kv = 0
<1>1. s.me \in Privates /\ s.me.turnsTaken \in Nat
  BY ViewFacts DEF Privates
<1>2. Walks(s.me)
  BY DEF Running
<1>3. /\ At(s.me) \in Nat
      /\ s.me.pc \in Busy => At(s.me) + 1 = s.me.turnsTaken
      /\ s.me.pc \notin Busy => At(s.me) = s.me.turnsTaken
  BY <1>1, <1>2 DEF Walks, At
<1>4. Task[At(s.me)] = <<s.me.q, s.me.kv>>
  <2>1. Task[At(s.me)] \in Nat \X Nat
    BY <1>3, TaskFacts
  <2>. QED  BY <1>2, <2>1 DEF Walks
<1>5. At(s.me) \in Runs <=> ~IsLastTask(s.me.q, s.me.kv)
  BY <1>3, <1>4 DEF Runs, Last
<1>6. At(s.me) \in NewRows <=> s.me.first \/ s.me.kv = 0
  BY <1>2, <1>3 DEF NewRows, Walks
<1>. QED  BY <1>1, <1>3, <1>4, <1>5, <1>6

\* Start: warp_interleave_start.
LEMMA StartKeeps ==
  ASSUME Planned, NEW s \in Views, NEW w \in Warps, Running(s, w), s.me.pc = "start", NEW given \in Nat
  PROVE  LET r == [s EXCEPT !.me.pc = "loop", !.me.turnsGiven = given]
         IN  Goes(r, s, w, "loop", s.me.turnsTaken, s.me.syncs, given)
<1>. DEFINE me == [s.me EXCEPT !.pc = "loop", !.turnsGiven = given]
<1>1. s.me \in Privates
  BY ViewFacts
<1>2. me \in Privates
  BY <1>1 DEF Privates, Places
<1>3. /\ me.pc = "loop" /\ me.turnsGiven = given /\ me.turnsTaken = s.me.turnsTaken /\ me.syncs = s.me.syncs
      /\ me.q = s.me.q /\ me.kv = s.me.kv /\ me.readK = s.me.readK /\ me.first = s.me.first
      /\ me.kvArray = s.me.kvArray /\ me.writeK = s.me.writeK /\ me.fetchQ = s.me.fetchQ
      /\ me.fetchKv = s.me.fetchKv /\ me.readQ = s.me.readQ /\ me.writeQ = s.me.writeQ
  BY <1>1 DEF Privates
<1>. HIDE DEF me
<1>4. PICK r : r = [s EXCEPT !.me.pc = "loop", !.me.turnsGiven = given]
  OBVIOUS
<1>5. r.me = me /\ r.q = s.q /\ r.k = s.k /\ r.p = s.p
  BY <1>4 DEF Views, me
<1>6. r \in Views
  BY <1>2, <1>4 DEF Views, me
<1>7. At(me) = At(s.me) /\ At(s.me) = 0 /\ 0 \in NewRows
  BY <1>3 DEF At, Busy, Running, Walks, NewRows
<1>8. Walks(me)
  BY <1>3, <1>7 DEF Running, Walks, Busy, Ahead
<1>9. Reads(me, w)
  BY <1>3, <1>7 DEF Running, Reads, Busy
<1>10. Queued(me, s.p, w)
  BY <1>3 DEF Running, Queued
<1>11. LoadsK(w) => TilesIn(me, s.p, s.k[w], w)
  BY <1>3, <1>7 DEF Running, TilesIn, Ahead
<1>12. w = 0 => RowsIn(me, s.p, s.q)
  BY <1>3 DEF Running, RowsIn
<1>13. Running(r, w)
  BY <1>5, <1>8, <1>9, <1>10, <1>11, <1>12 DEF Running
<1>. QED  BY <1>3, <1>4, <1>5, <1>6, <1>13 DEF Goes, OnlyOwn

\* A split of the same row.
LEMMA SameRowKeeps ==
  ASSUME Planned, NEW s \in Views, NEW w \in Warps, Running(s, w), s.me.pc = "loop",
         At(s.me) \in Runs, At(s.me) \notin NewRows
  PROVE  LET r == [s EXCEPT !.me.turnsTaken = @ + 1, !.me.pc = "next"]
         IN  Goes(r, s, w, "next", s.me.turnsTaken + 1, s.me.syncs, s.me.turnsGiven)
<1>. DEFINE me == [s.me EXCEPT !.turnsTaken = @ + 1, !.pc = "next"]
<1>1. s.me \in Privates /\ s.me.turnsTaken \in Nat
  BY ViewFacts DEF Privates
<1>2. me \in Privates
  <2>1. s.me.turnsTaken + 1 \in Nat /\ "next" \in Places
    BY <1>1 DEF Places
  <2>. QED  BY <1>1, <2>1 DEF Privates
<1>3. /\ me.pc = "next" /\ me.turnsGiven = s.me.turnsGiven /\ me.turnsTaken = s.me.turnsTaken + 1
      /\ me.syncs = s.me.syncs
      /\ me.q = s.me.q /\ me.kv = s.me.kv /\ me.readK = s.me.readK /\ me.first = s.me.first
      /\ me.kvArray = s.me.kvArray /\ me.writeK = s.me.writeK /\ me.fetchQ = s.me.fetchQ
      /\ me.fetchKv = s.me.fetchKv /\ me.readQ = s.me.readQ /\ me.writeQ = s.me.writeQ
      /\ me.regs = s.me.regs
  BY <1>1 DEF Privates
<1>. HIDE DEF me
<1>4. PICK r : r = [s EXCEPT !.me.turnsTaken = @ + 1, !.me.pc = "next"]
  OBVIOUS
<1>5. r.me = me /\ r.q = s.q /\ r.k = s.k /\ r.p = s.p
  BY <1>4 DEF Views, me
<1>6. r \in Views
  BY <1>2, <1>4 DEF Views, me
<1>7. PICK n \in Nat : n = s.me.turnsTaken
  BY <1>1
<1>8. At(me) = n /\ At(s.me) = n /\ n \in Runs /\ n \notin NewRows /\ me.turnsTaken = n + 1
  BY <1>3, <1>7 DEF At, Busy
<1>9. Walks(me)
  BY <1>3, <1>8 DEF Running, Walks, Busy, Ahead
<1>10. Rows[n + 1] = Rows[n]
  BY <1>8, RowsFacts
<1>11. Reads(me, w)
  BY <1>3, <1>7, <1>8, <1>10 DEF Running, Reads, Busy
<1>12. Queued(me, s.p, w)
  BY <1>3 DEF Running, Queued
<1>13. LoadsK(w) => TilesIn(me, s.p, s.k[w], w)
  BY <1>3, <1>8 DEF Running, TilesIn, Ahead
<1>14. w = 0 => RowsIn(me, s.p, s.q)
  BY <1>3, <1>7, <1>8, <1>10 DEF Running, RowsIn
<1>15. Running(r, w)
  BY <1>5, <1>9, <1>11, <1>12, <1>13, <1>14 DEF Running
<1>. QED  BY <1>3, <1>4, <1>5, <1>6, <1>15 DEF Goes, OnlyOwn

\* A new row, read from the only stage of the Q ring.
LEMMA ReadRowKeeps ==
  ASSUME Planned, NEW s \in Views, NEW w \in Warps, Running(s, w), s.me.pc = "loop",
         At(s.me) \in Runs, At(s.me) \in NewRows, tile.stageQ = 1, RowIn(s.q, Rows[s.me.turnsTaken])
  PROVE  LET r == ReadQ([s EXCEPT !.me.turnsTaken = @ + 1, !.me.pc = "refill", !.me.syncs = @ + 1])
         IN  Goes(r, s, w, "refill", s.me.turnsTaken + 1, s.me.syncs + 1, s.me.turnsGiven)
<1>. DEFINE a == [s EXCEPT !.me.turnsTaken = @ + 1, !.me.pc = "refill", !.me.syncs = @ + 1]
            ame == [s.me EXCEPT !.turnsTaken = @ + 1, !.pc = "refill", !.syncs = @ + 1]
<1>1. s.me \in Privates /\ s.me.turnsTaken \in Nat /\ s.me.syncs \in Nat /\ s.q \in QRings
  BY ViewFacts DEF Privates
<1>2. ame \in Privates
  <2>1. s.me.turnsTaken + 1 \in Nat /\ s.me.syncs + 1 \in Nat /\ "refill" \in Places
    BY <1>1 DEF Places
  <2>. QED  BY <1>1, <2>1 DEF Privates
<1>3. /\ ame.pc = "refill" /\ ame.turnsGiven = s.me.turnsGiven /\ ame.turnsTaken = s.me.turnsTaken + 1
      /\ ame.syncs = s.me.syncs + 1
      /\ ame.q = s.me.q /\ ame.kv = s.me.kv /\ ame.readK = s.me.readK /\ ame.first = s.me.first
      /\ ame.kvArray = s.me.kvArray /\ ame.writeK = s.me.writeK /\ ame.fetchQ = s.me.fetchQ
      /\ ame.fetchKv = s.me.fetchKv /\ ame.readQ = s.me.readQ /\ ame.writeQ = s.me.writeQ
  BY <1>1 DEF Privates
<1>4. a.me = ame /\ a.q = s.q /\ a.k = s.k /\ a.p = s.p
  BY DEF Views
<1>5. a \in Views
  BY <1>2 DEF Views
<1>. HIDE DEF ame, a
<1>6. PICK r : r = ReadQ(a)
  OBVIOUS
<1>7. /\ r \in Views /\ r.q = s.q /\ r.k = s.k /\ r.p = s.p
      /\ r.me = [ame EXCEPT !.regs = s.q[ame.readQ], !.readQ = (@ + 1) % tile.stageQ]
  BY <1>4, <1>5, <1>6, ReadQFields
<1>8. PICK me \in Privates : me = r.me
  BY <1>7, ViewFacts
<1>9. /\ me.pc = "refill" /\ me.turnsGiven = s.me.turnsGiven /\ me.turnsTaken = s.me.turnsTaken + 1
      /\ me.syncs = s.me.syncs + 1
      /\ me.q = s.me.q /\ me.kv = s.me.kv /\ me.readK = s.me.readK /\ me.first = s.me.first
      /\ me.kvArray = s.me.kvArray /\ me.writeK = s.me.writeK /\ me.fetchQ = s.me.fetchQ
      /\ me.fetchKv = s.me.fetchKv /\ me.writeQ = s.me.writeQ
      /\ me.regs = s.q[s.me.readQ] /\ me.readQ = (s.me.readQ + 1) % tile.stageQ
  <2>1. /\ me.pc = ame.pc /\ me.turnsGiven = ame.turnsGiven /\ me.turnsTaken = ame.turnsTaken
        /\ me.syncs = ame.syncs
        /\ me.q = ame.q /\ me.kv = ame.kv /\ me.readK = ame.readK /\ me.first = ame.first
        /\ me.kvArray = ame.kvArray /\ me.writeK = ame.writeK /\ me.fetchQ = ame.fetchQ
        /\ me.fetchKv = ame.fetchKv /\ me.writeQ = ame.writeQ
        /\ me.regs = s.q[ame.readQ] /\ me.readQ = (ame.readQ + 1) % tile.stageQ
    BY <1>2, <1>7, <1>8 DEF Privates
  <2>. QED  BY <1>3, <2>1
<1>10. PICK n \in Nat : n = s.me.turnsTaken
  BY <1>1
<1>11. At(me) = n /\ At(s.me) = n /\ n \in Runs /\ n \in NewRows /\ me.turnsTaken = n + 1
  BY <1>9, <1>10 DEF At, Busy
<1>12. Walks(me)
  BY <1>9, <1>11 DEF Running, Walks, Busy, Ahead
<1>13. /\ Rows[n] \in Nat /\ Rows[n + 1] = Rows[n] + 1 /\ Row[Rows[n]] = Task[n][1]
       /\ Task[n][1] \in Nat
  BY <1>11, RowsFacts, TaskFacts
<1>14. s.me.readQ = QSlot[Rows[n]] /\ QSlot[Rows[n]] = 0 /\ QSlot[Rows[n + 1]] = 0 /\ me.readQ = 0
       /\ 0 \in QSlots
  <2>1. s.me.readQ = QSlot[Rows[n]]
    BY <1>10 DEF Running, Reads
  <2>2. QSlot[Rows[n]] = 0 /\ QSlot[Rows[n + 1]] = 0 /\ 0 \in QSlots
    BY <1>13, QSlotFacts
  <2>. QED  BY <1>9, <2>1, <2>2
<1>15. me.regs = Landed(<<Task[n][1]>>)
  <2>1. s.q[0] \in Cells
    BY <1>1, <1>14 DEF QRings
  <2>2. s.q[0].data = <<Task[n][1]>> /\ s.q[0].landed
    BY <1>10, <1>13, <1>14 DEF RowIn
  <2>. QED  BY <1>9, <1>14, <2>1, <2>2, CellIs
<1>16. Reads(me, w)
  BY <1>9, <1>11, <1>14, <1>15 DEF Reads
<1>17. Queued(me, s.p, w)
  BY <1>9 DEF Running, Queued
<1>18. LoadsK(w) => TilesIn(me, s.p, s.k[w], w)
  BY <1>9, <1>11 DEF Running, TilesIn, Ahead
<1>19. w = 0 => RowsIn(me, s.p, s.q)
  <2>1. me.writeQ = 0
    <3>1. QSlots = {0}
      BY DEF QSlots
    <3>. QED  BY <1>8, <3>1 DEF Privates
  <2>2. Rows[n + 1] - 1 = Rows[n]
    BY <1>13
  <2>. QED  BY <1>9, <1>10, <1>11, <2>1, <2>2 DEF RowsIn
<1>20. Running(r, w)
  BY <1>7, <1>8, <1>12, <1>16, <1>17, <1>18, <1>19 DEF Running
<1>. QED  BY <1>6, <1>7, <1>8, <1>9, <1>20 DEF Goes, OnlyOwn, a

\* A new row, while the one after it is on its way into the other stages.
LEMMA ChangeRowKeeps ==
  ASSUME Planned, NEW s \in Views, NEW w \in Warps, Running(s, w), s.me.pc = "loop",
         At(s.me) \in Runs, At(s.me) \in NewRows, tile.stageQ > 1, RowIn(s.q, Rows[s.me.turnsTaken])
  PROVE  LET r == ReadQ(PrefetchQ([s EXCEPT !.me.turnsTaken = @ + 1, !.me.pc = "next"], w))
         IN  Goes(r, s, w, "next", s.me.turnsTaken + 1, s.me.syncs, s.me.turnsGiven)
<1>. DEFINE a == [s EXCEPT !.me.turnsTaken = @ + 1, !.me.pc = "next"]
            ame == [s.me EXCEPT !.turnsTaken = @ + 1, !.pc = "next"]
<1>1. /\ s.me \in Privates /\ s.me.turnsTaken \in Nat /\ s.q \in QRings /\ s.me.writeQ \in QSlots
      /\ s.me.readQ \in QSlots /\ s.me.q \in Nat
  BY ViewFacts DEF Privates
<1>2. ame \in Privates
  <2>1. s.me.turnsTaken + 1 \in Nat /\ "next" \in Places
    BY <1>1 DEF Places
  <2>. QED  BY <1>1, <2>1 DEF Privates
<1>3. /\ ame.pc = "next" /\ ame.turnsGiven = s.me.turnsGiven /\ ame.turnsTaken = s.me.turnsTaken + 1
      /\ ame.syncs = s.me.syncs
      /\ ame.q = s.me.q /\ ame.kv = s.me.kv /\ ame.readK = s.me.readK /\ ame.first = s.me.first
      /\ ame.kvArray = s.me.kvArray /\ ame.writeK = s.me.writeK /\ ame.fetchQ = s.me.fetchQ
      /\ ame.fetchKv = s.me.fetchKv /\ ame.readQ = s.me.readQ /\ ame.writeQ = s.me.writeQ
  BY <1>1 DEF Privates
<1>4. a.me = ame /\ a.q = s.q /\ a.k = s.k /\ a.p = s.p
  BY DEF Views
<1>5. a \in Views
  BY <1>2 DEF Views
<1>. HIDE DEF ame, a
<1>. DEFINE more == ExistQ(s.me.q + 1)
            qs == IF more /\ w = 0 THEN {<<"q", s.me.writeQ>>} ELSE {}
<1>6. PICK b : b = PrefetchQ(a, w)
  OBVIOUS
<1>7. /\ b \in Views /\ b.k = s.k
      /\ b.me = IF more THEN [ame EXCEPT !.writeQ = (@ + 1) % tile.stageQ] ELSE ame
      /\ Len(b.p) = Len(s.p) + 1 /\ b.p[Len(s.p) + 1] = {}
      /\ b.p[Len(s.p)] = s.p[Len(s.p)] \cup qs
      /\ \A i \in 1 .. Len(s.p) - 1 : b.p[i] = s.p[i]
  <2>1. a.me.q = s.me.q /\ a.me.writeQ = s.me.writeQ
    BY <1>3, <1>4
  <2>2. more <=> ExistQ(a.me.q + 1)
    BY <2>1
  <2>3. qs = IF ExistQ(a.me.q + 1) /\ w = 0 THEN {<<"q", a.me.writeQ>>} ELSE {}
    BY <2>1
  <2>4. /\ b \in Views /\ b.k = a.k
        /\ b.me = IF more THEN [a.me EXCEPT !.writeQ = (@ + 1) % tile.stageQ] ELSE a.me
        /\ Len(b.p) = Len(a.p) + 1 /\ b.p[Len(a.p) + 1] = {}
        /\ b.p[Len(a.p)] = a.p[Len(a.p)] \cup qs
        /\ \A i \in 1 .. Len(a.p) - 1 : b.p[i] = a.p[i]
    <3>. HIDE DEF more, qs
    <3>. QED  BY <1>5, <1>6, <2>2, <2>3, PrefetchQFields
  <2>. HIDE DEF more, qs
  <2>. QED  BY <1>4, <2>4
<1>8. b.q = IF more /\ w = 0 THEN [s.q EXCEPT ![s.me.writeQ] = InFlight(<<s.me.q + 1>>)] ELSE s.q
  <2>1. b.q = IF ExistQ(ame.q + 1) /\ w = 0 THEN [a.q EXCEPT ![ame.writeQ] = InFlight(<<ame.q + 1>>)] ELSE a.q
    BY <1>4, <1>5, <1>6, PrefetchQFields
  <2>. QED  BY <1>3, <1>4, <2>1, Zenon
<1>. HIDE DEF qs, more
<1>9. /\ b.me \in Privates /\ b.me.pc = "next" /\ b.me.turnsGiven = s.me.turnsGiven
      /\ b.me.turnsTaken = s.me.turnsTaken + 1 /\ b.me.syncs = s.me.syncs
      /\ b.me.q = s.me.q /\ b.me.kv = s.me.kv /\ b.me.readK = s.me.readK /\ b.me.first = s.me.first
      /\ b.me.kvArray = s.me.kvArray /\ b.me.writeK = s.me.writeK /\ b.me.fetchQ = s.me.fetchQ
      /\ b.me.fetchKv = s.me.fetchKv /\ b.me.readQ = s.me.readQ
      /\ b.me.writeQ = IF more THEN (s.me.writeQ + 1) % tile.stageQ ELSE s.me.writeQ
  <2>1. b.me \in Privates
    BY <1>7, ViewFacts
  <2>2. CASE more
    <3>1. b.me = [ame EXCEPT !.writeQ = (@ + 1) % tile.stageQ]
      BY <1>7, <2>2
    <3>2. /\ b.me.pc = ame.pc /\ b.me.turnsGiven = ame.turnsGiven /\ b.me.turnsTaken = ame.turnsTaken
          /\ b.me.syncs = ame.syncs
          /\ b.me.q = ame.q /\ b.me.kv = ame.kv /\ b.me.readK = ame.readK /\ b.me.first = ame.first
          /\ b.me.kvArray = ame.kvArray /\ b.me.writeK = ame.writeK /\ b.me.fetchQ = ame.fetchQ
          /\ b.me.fetchKv = ame.fetchKv /\ b.me.readQ = ame.readQ
          /\ b.me.writeQ = (ame.writeQ + 1) % tile.stageQ
      BY <1>2, <3>1 DEF Privates
    <3>. QED  BY <1>3, <2>1, <2>2, <3>2
  <2>3. CASE ~more
    BY <1>3, <1>7, <2>1, <2>3
  <2>. QED  BY <2>2, <2>3
<1>10. PICK r : r = ReadQ(b)
  OBVIOUS
<1>11. /\ r \in Views /\ r.q = b.q /\ r.k = s.k /\ r.p = b.p
       /\ r.me = [b.me EXCEPT !.regs = b.q[b.me.readQ], !.readQ = (@ + 1) % tile.stageQ]
  BY <1>7, <1>10, ReadQFields
<1>12. PICK me \in Privates : me = r.me
  BY <1>11, ViewFacts
<1>13. /\ me.pc = "next" /\ me.turnsGiven = s.me.turnsGiven /\ me.turnsTaken = s.me.turnsTaken + 1
       /\ me.syncs = s.me.syncs
       /\ me.q = s.me.q /\ me.kv = s.me.kv /\ me.readK = s.me.readK /\ me.first = s.me.first
       /\ me.kvArray = s.me.kvArray /\ me.writeK = s.me.writeK /\ me.fetchQ = s.me.fetchQ
       /\ me.fetchKv = s.me.fetchKv /\ me.writeQ = b.me.writeQ
       /\ me.regs = b.q[s.me.readQ] /\ me.readQ = (s.me.readQ + 1) % tile.stageQ
  <2>1. /\ me.pc = b.me.pc /\ me.turnsGiven = b.me.turnsGiven /\ me.turnsTaken = b.me.turnsTaken
        /\ me.syncs = b.me.syncs
        /\ me.q = b.me.q /\ me.kv = b.me.kv /\ me.readK = b.me.readK /\ me.first = b.me.first
        /\ me.kvArray = b.me.kvArray /\ me.writeK = b.me.writeK /\ me.fetchQ = b.me.fetchQ
        /\ me.fetchKv = b.me.fetchKv /\ me.writeQ = b.me.writeQ
        /\ me.regs = b.q[b.me.readQ] /\ me.readQ = (b.me.readQ + 1) % tile.stageQ
    BY <1>9, <1>11, <1>12 DEF Privates
  <2>. QED  BY <1>9, <2>1
<1>14. PICK n \in Nat : n = s.me.turnsTaken
  BY <1>1
<1>15. At(me) = n /\ At(s.me) = n /\ n \in Runs /\ n \in NewRows /\ me.turnsTaken = n + 1
  BY <1>13, <1>14 DEF At, Busy
<1>16. Walks(me)
  BY <1>13, <1>15 DEF Running, Walks, Busy, Ahead
<1>17. PICK x \in Nat : x = Rows[n]
  BY <1>15, RowsFacts
<1>18. /\ Rows[n + 1] = x + 1 /\ Row[x] = Task[n][1] /\ x \in Fetched /\ s.me.q = Row[x]
       /\ s.me.q \in Nat /\ Row[x + 1] = s.me.q + 1
  <2>1. Rows[n + 1] = x + 1 /\ Row[x] = Task[n][1] /\ x \in Fetched
    BY <1>15, <1>17, RowsFacts
  <2>2. s.me.q = Task[n][1]
    BY <1>15 DEF Running, Walks
  <2>3. Row[x + 1] = Row[x] + 1
    <3>1. Task[0][1] \in Nat
      BY TaskFacts
    <3>. QED  BY <3>1 DEF Row
  <2>. QED  BY <1>1, <2>1, <2>2, <2>3
<1>19. s.me.readQ = QSlot[x] /\ me.readQ = QSlot[x + 1] /\ QSlot[x] \in QSlots /\ QSlot[x] # QSlot[x + 1]
       /\ QSlot[x + 1] \in QSlots /\ QSlot[x + 2] = (QSlot[x + 1] + 1) % tile.stageQ
  <2>1. s.me.readQ = QSlot[x]
    BY <1>14, <1>17 DEF Running, Reads
  <2>2. x + 1 \in Nat /\ (x + 1) + 1 = x + 2
    OBVIOUS
  <2>. QED  BY <1>13, <2>1, <2>2, QSlotFacts
<1>20. w = 0 => s.me.writeQ = QSlot[x + 1]
  <2>1. w = 0 => RowsIn(s.me, s.p, s.q)
    BY DEF Running
  <2>. QED  BY <1>14, <1>17, <1>18, <2>1 DEF RowsIn
<1>21. /\ b.q[QSlot[x]] = s.q[QSlot[x]]
       /\ (more /\ w = 0) => b.q[QSlot[x + 1]] = InFlight(<<s.me.q + 1>>)
  BY <1>1, <1>8, <1>19, <1>20 DEF QRings
<1>22. s.q[QSlot[x]] \in Cells /\ s.q[QSlot[x]].data = <<Row[x]>> /\ s.q[QSlot[x]].landed
  BY <1>1, <1>14, <1>17, <1>19 DEF RowIn, QRings
<1>23. me.regs = Landed(<<Task[n][1]>>)
  BY <1>13, <1>18, <1>19, <1>21, <1>22, CellIs
<1>24. Reads(me, w)
  BY <1>13, <1>15, <1>18, <1>19, <1>23 DEF Reads
<1>25. Len(s.p) = 2 /\ s.p[2] = {} /\ Queued(s.me, s.p, w)
  BY DEF Running, Queued
<1>26. Len(b.p) = 3 /\ b.p[3] = {} /\ b.p[2] = qs /\ b.p[1] = s.p[1]
  BY <1>7, <1>25
<1>27. Queued(me, b.p, w)
  <2>1. b.p[1] = s.p[1] /\ (w # 0 => qs = {}) /\ \A x0 \in 0 .. 2 : <<"k", x0>> \notin qs
    BY <1>26 DEF qs
  <2>2. \A i \in 1 .. 3 : i = 1 \/ i = 2 \/ i = 3
    OBVIOUS
  <2>. QED  BY <1>13, <1>25, <1>26, <2>1, <2>2 DEF Queued
<1>28. LoadsK(w) => TilesIn(me, b.p, s.k[w], w)
  BY <1>13, <1>15, <1>26 DEF Running, TilesIn, Ahead
<1>29. w = 0 => RowsIn(me, b.p, b.q)
  <2>1. SUFFICES ASSUME w = 0  PROVE RowsIn(me, b.p, b.q)
    OBVIOUS
  <2>2. x + 1 \in Fetched => more
    BY <1>18 DEF Fetched, Row, more
  <2>3. more => me.writeQ = QSlot[x + 2] /\ b.q[QSlot[x + 1]].data = <<Row[x + 1]>> /\ <<"q", QSlot[x + 1]>> \in b.p[2]
    BY <1>9, <1>13, <1>18, <1>19, <1>20, <1>21, <1>26, <2>1 DEF InFlight, qs
  <2>4. RowIn(b.q, x)
    BY <1>21, <1>22 DEF RowIn
  <2>5. Rows[me.turnsTaken] = x + 1 /\ (x + 1) + 1 = x + 2 /\ (x + 1) - 1 = x
    BY <1>15, <1>18
  <2>. QED  BY <1>13, <1>26, <2>2, <2>3, <2>4, <2>5 DEF RowsIn
<1>30. Running(r, w)
  BY <1>11, <1>12, <1>16, <1>24, <1>27, <1>28, <1>29 DEF Running
<1>31. OnlyOwn(r, s, w)
  BY <1>8, <1>11 DEF OnlyOwn
<1>. QED  BY <1>6, <1>10, <1>11, <1>12, <1>13, <1>30, <1>31 DEF Goes, a

\* The next row, copied over the one that both warps have read.
LEMMA RefillRowKeeps ==
  ASSUME Planned, NEW s \in Views, NEW w \in Warps, Running(s, w), s.me.pc = "refill"
  PROVE  LET r == PrefetchQ([s EXCEPT !.me.pc = "next"], w)
         IN  Goes(r, s, w, "next", s.me.turnsTaken, s.me.syncs, s.me.turnsGiven)
<1>. DEFINE a == [s EXCEPT !.me.pc = "next"]
            ame == [s.me EXCEPT !.pc = "next"]
<1>1. /\ s.me \in Privates /\ s.me.turnsTaken \in Nat /\ s.q \in QRings /\ s.me.writeQ \in QSlots
      /\ s.me.q \in Nat
  BY ViewFacts DEF Privates
<1>2. ame \in Privates
  <2>1. "next" \in Places
    BY DEF Places
  <2>. QED  BY <1>1, <2>1 DEF Privates
<1>3. /\ ame.pc = "next" /\ ame.turnsGiven = s.me.turnsGiven /\ ame.turnsTaken = s.me.turnsTaken
      /\ ame.syncs = s.me.syncs
      /\ ame.q = s.me.q /\ ame.kv = s.me.kv /\ ame.readK = s.me.readK /\ ame.first = s.me.first
      /\ ame.kvArray = s.me.kvArray /\ ame.writeK = s.me.writeK /\ ame.fetchQ = s.me.fetchQ
      /\ ame.fetchKv = s.me.fetchKv /\ ame.readQ = s.me.readQ /\ ame.writeQ = s.me.writeQ
      /\ ame.regs = s.me.regs
  BY <1>1 DEF Privates
<1>4. a.me = ame /\ a.q = s.q /\ a.k = s.k /\ a.p = s.p
  BY DEF Views
<1>5. a \in Views
  BY <1>2 DEF Views
<1>. HIDE DEF ame, a
<1>. DEFINE more == ExistQ(s.me.q + 1)
            qs == IF more /\ w = 0 THEN {<<"q", s.me.writeQ>>} ELSE {}
<1>6. PICK r : r = PrefetchQ(a, w)
  OBVIOUS
<1>7. /\ r \in Views /\ r.k = s.k
      /\ r.me = IF more THEN [ame EXCEPT !.writeQ = (@ + 1) % tile.stageQ] ELSE ame
      /\ Len(r.p) = Len(s.p) + 1 /\ r.p[Len(s.p) + 1] = {}
      /\ r.p[Len(s.p)] = s.p[Len(s.p)] \cup qs
      /\ \A i \in 1 .. Len(s.p) - 1 : r.p[i] = s.p[i]
  <2>1. a.me.q = s.me.q /\ a.me.writeQ = s.me.writeQ
    BY <1>3, <1>4
  <2>2. more <=> ExistQ(a.me.q + 1)
    BY <2>1
  <2>3. qs = IF ExistQ(a.me.q + 1) /\ w = 0 THEN {<<"q", a.me.writeQ>>} ELSE {}
    BY <2>1
  <2>4. /\ r \in Views /\ r.k = a.k
        /\ r.me = IF more THEN [a.me EXCEPT !.writeQ = (@ + 1) % tile.stageQ] ELSE a.me
        /\ Len(r.p) = Len(a.p) + 1 /\ r.p[Len(a.p) + 1] = {}
        /\ r.p[Len(a.p)] = a.p[Len(a.p)] \cup qs
        /\ \A i \in 1 .. Len(a.p) - 1 : r.p[i] = a.p[i]
    <3>. HIDE DEF more, qs
    <3>. QED  BY <1>5, <1>6, <2>2, <2>3, PrefetchQFields
  <2>. HIDE DEF more, qs
  <2>. QED  BY <1>4, <2>4
<1>8. r.q = IF more /\ w = 0 THEN [s.q EXCEPT ![s.me.writeQ] = InFlight(<<s.me.q + 1>>)] ELSE s.q
  <2>1. r.q = IF ExistQ(ame.q + 1) /\ w = 0 THEN [a.q EXCEPT ![ame.writeQ] = InFlight(<<ame.q + 1>>)] ELSE a.q
    BY <1>4, <1>5, <1>6, PrefetchQFields
  <2>. QED  BY <1>3, <1>4, <2>1, Zenon
<1>. HIDE DEF qs, more
<1>9. PICK me \in Privates : me = r.me
  BY <1>7, ViewFacts
<1>10. /\ me.pc = "next" /\ me.turnsGiven = s.me.turnsGiven
       /\ me.turnsTaken = s.me.turnsTaken /\ me.syncs = s.me.syncs
       /\ me.q = s.me.q /\ me.kv = s.me.kv /\ me.readK = s.me.readK /\ me.first = s.me.first
       /\ me.kvArray = s.me.kvArray /\ me.writeK = s.me.writeK /\ me.fetchQ = s.me.fetchQ
       /\ me.fetchKv = s.me.fetchKv /\ me.readQ = s.me.readQ /\ me.regs = s.me.regs
  <2>1. CASE more
    <3>1. me = [ame EXCEPT !.writeQ = (@ + 1) % tile.stageQ]
      BY <1>7, <1>9, <2>1
    <3>2. /\ me.pc = ame.pc /\ me.turnsGiven = ame.turnsGiven /\ me.turnsTaken = ame.turnsTaken
          /\ me.syncs = ame.syncs
          /\ me.q = ame.q /\ me.kv = ame.kv /\ me.readK = ame.readK /\ me.first = ame.first
          /\ me.kvArray = ame.kvArray /\ me.writeK = ame.writeK /\ me.fetchQ = ame.fetchQ
          /\ me.fetchKv = ame.fetchKv /\ me.readQ = ame.readQ /\ me.regs = ame.regs
      BY <1>2, <3>1 DEF Privates
    <3>. QED  BY <1>3, <3>2
  <2>2. CASE ~more
    BY <1>3, <1>7, <1>9, <2>2
  <2>. QED  BY <2>1, <2>2
<1>11. PICK n \in Nat : n + 1 = s.me.turnsTaken /\ n = s.me.turnsTaken - 1
  BY <1>1 DEF Running, Walks, Busy
<1>12. /\ At(me) = n /\ At(s.me) = n /\ n \in Runs /\ n \in NewRows /\ me.turnsTaken = n + 1
       /\ tile.stageQ = 1
  BY <1>10, <1>11 DEF At, Busy, Running, Walks
<1>13. Walks(me)
  BY <1>10, <1>12 DEF Running, Walks, Busy, Ahead
<1>14. PICK x \in Nat : x = Rows[n]
  BY <1>12, RowsFacts
<1>15. Rows[n + 1] = x + 1 /\ Row[x] = Task[n][1] /\ s.me.q = Row[x] /\ Row[x + 1] = s.me.q + 1
  <2>1. Rows[n + 1] = x + 1 /\ Row[x] = Task[n][1]
    BY <1>12, <1>14, RowsFacts
  <2>2. s.me.q = Task[n][1]
    BY <1>12 DEF Running, Walks
  <2>3. Row[x + 1] = Row[x] + 1
    <3>1. Task[0][1] \in Nat
      BY TaskFacts
    <3>. QED  BY <3>1 DEF Row
  <2>. QED  BY <1>1, <2>1, <2>2, <2>3
<1>16. QSlots = {0} /\ QSlot[x + 1] = 0 /\ QSlot[x + 2] = 0
  <2>1. x + 1 \in Nat /\ x + 2 \in Nat
    OBVIOUS
  <2>. QED  BY <1>12, <2>1, QSlotFacts DEF QSlots
<1>17. Reads(me, w)
  BY <1>10, <1>12 DEF Running, Reads, Busy
<1>18. Len(s.p) = 2 /\ s.p[2] = {} /\ Queued(s.me, s.p, w)
  BY DEF Running, Queued
<1>19. Len(r.p) = 3 /\ r.p[3] = {} /\ r.p[2] = qs /\ r.p[1] = s.p[1]
  BY <1>7, <1>18
<1>20. Queued(me, r.p, w)
  <2>1. r.p[1] = s.p[1] /\ (w # 0 => qs = {}) /\ \A x0 \in 0 .. 2 : <<"k", x0>> \notin qs
    BY <1>19 DEF qs
  <2>2. \A i \in 1 .. 3 : i = 1 \/ i = 2 \/ i = 3
    OBVIOUS
  <2>. QED  BY <1>10, <1>18, <1>19, <2>1, <2>2 DEF Queued
<1>21. LoadsK(w) => TilesIn(me, r.p, s.k[w], w)
  BY <1>10, <1>12, <1>19 DEF Running, TilesIn, Ahead
<1>22. w = 0 => RowsIn(me, r.p, r.q)
  <2>1. SUFFICES ASSUME w = 0  PROVE RowsIn(me, r.p, r.q)
    OBVIOUS
  <2>2. x + 1 \in Fetched => more
    BY <1>15 DEF Fetched, Row, more
  <2>3. more => r.q[0].data = <<Row[x + 1]>> /\ <<"q", 0>> \in r.p[2]
    BY <1>1, <1>8, <1>15, <1>16, <1>19, <2>1 DEF InFlight, qs, QRings
  <2>4. me.writeQ = 0
    BY <1>9, <1>16 DEF Privates
  <2>5. Rows[me.turnsTaken] = x + 1 /\ (x + 1) + 1 = x + 2
    BY <1>12, <1>15
  <2>. QED  BY <1>10, <1>12, <1>16, <1>19, <2>2, <2>3, <2>4, <2>5 DEF RowsIn
<1>23. Running(r, w)
  BY <1>7, <1>9, <1>13, <1>17, <1>20, <1>21, <1>22 DEF Running
<1>24. OnlyOwn(r, s, w)
  BY <1>7, <1>8 DEF OnlyOwn
<1>. QED  BY <1>6, <1>7, <1>9, <1>10, <1>23, <1>24 DEF Goes, a

\* The copies of the tile two tasks ahead.
LEMMA LoadAheadKeeps ==
  ASSUME Planned, NEW s \in Views, NEW w \in Warps, Running(s, w), s.me.pc = "next"
  PROVE  LET r == LoadNext([s EXCEPT !.me.pc = "mma"], w, FALSE)
         IN  Goes(r, s, w, "mma", s.me.turnsTaken, s.me.syncs, s.me.turnsGiven)
<1>. DEFINE a == [s EXCEPT !.me.pc = "mma"]
            ame == [s.me EXCEPT !.pc = "mma"]
<1>1. /\ s.me \in Privates /\ s.me.turnsTaken \in Nat /\ s.k \in KRings /\ s.me.kvArray \in [0 .. 2 -> Nat]
  BY ViewFacts DEF Privates
<1>2. ame \in Privates
  <2>1. "mma" \in Places
    BY DEF Places
  <2>. QED  BY <1>1, <2>1 DEF Privates
<1>3. /\ ame.pc = "mma" /\ ame.turnsGiven = s.me.turnsGiven /\ ame.turnsTaken = s.me.turnsTaken
      /\ ame.syncs = s.me.syncs
      /\ ame.q = s.me.q /\ ame.kv = s.me.kv /\ ame.readK = s.me.readK /\ ame.first = s.me.first
      /\ ame.kvArray = s.me.kvArray /\ ame.writeK = s.me.writeK /\ ame.fetchQ = s.me.fetchQ
      /\ ame.fetchKv = s.me.fetchKv /\ ame.readQ = s.me.readQ /\ ame.writeQ = s.me.writeQ
      /\ ame.regs = s.me.regs
  BY <1>1 DEF Privates
<1>4. a.me = ame /\ a.q = s.q /\ a.k = s.k /\ a.p = s.p
  BY DEF Views
<1>5. a \in Views
  BY <1>2 DEF Views
<1>. HIDE DEF ame, a
<1>6. PICK n \in Nat : n + 1 = s.me.turnsTaken /\ n = s.me.turnsTaken - 1
  BY <1>1 DEF Running, Walks, Busy
<1>7. /\ At(s.me) = n /\ n \in Runs /\ s.me.writeK = Slot[n + 2] /\ <<s.me.fetchQ, s.me.fetchKv>> = Task[n + 2]
      /\ s.me.kvArray[Slot[n]] = Task[n][2] /\ s.me.kvArray[Slot[n + 1]] = Task[n + 1][2]
  BY <1>6 DEF At, Busy, Ahead, Running, Walks
<1>8. PICK m \in Nat : m = n + 2 /\ m + 1 = n + 3
  OBVIOUS
<1>. DEFINE new == LoadsK(w) /\ m \in Filled[w]
            tileOf == <<Task[m][1], Task[m][2] + w>>
            keys == IF new THEN {<<"k", a.me.writeK>>} ELSE {}
<1>9. PICK r : r = LoadNext(a, w, FALSE)
  OBVIOUS
<1>10. /\ r \in Views /\ SameConsumer(r.me, a.me)
       /\ r.me.kvArray = [a.me.kvArray EXCEPT ![a.me.writeK] = Task[m][2]]
       /\ r.me.writeK = (a.me.writeK + 1) % 3
       /\ <<r.me.fetchQ, r.me.fetchKv>> = Task[m + 1]
       /\ r.me.writeQ = a.me.writeQ /\ r.q = a.q
       /\ r.k = IF new THEN [a.k EXCEPT ![w] = [@ EXCEPT ![a.me.writeK] = InFlight(tileOf)]] ELSE a.k
       /\ Len(r.p) = Len(a.p) + 1 /\ r.p[Len(a.p) + 1] = {} /\ r.p[Len(a.p)] = a.p[Len(a.p)] \cup keys
       /\ \A i \in 1 .. Len(a.p) - 1 : r.p[i] = a.p[i]
  <2>1. <<a.me.fetchQ, a.me.fetchKv>> = Task[m]
    BY <1>3, <1>4, <1>7, <1>8
  <2>2. Fetches(r, a, w, FALSE, m)
    BY <1>5, <1>9, <2>1, LoadNextFields
  <2>. DEFINE rowToo == m \in Runs /\ FALSE
              qs == IF rowToo /\ w = 0 THEN {<<"q", a.me.writeQ>>} ELSE {}
  <2>3. /\ r \in Views /\ SameConsumer(r.me, a.me)
        /\ r.me.kvArray = [a.me.kvArray EXCEPT ![a.me.writeK] = Task[m][2]]
        /\ r.me.writeK = (a.me.writeK + 1) % 3
        /\ <<r.me.fetchQ, r.me.fetchKv>> = Task[m + 1]
        /\ r.me.writeQ = IF rowToo THEN (a.me.writeQ + 1) % tile.stageQ ELSE a.me.writeQ
        /\ r.q = IF rowToo /\ w = 0 THEN [a.q EXCEPT ![a.me.writeQ] = InFlight(<<Task[m][1]>>)] ELSE a.q
        /\ r.k = IF new THEN [a.k EXCEPT ![w] = [@ EXCEPT ![a.me.writeK] = InFlight(tileOf)]] ELSE a.k
        /\ Len(r.p) = Len(a.p) + 1 /\ r.p[Len(a.p) + 1] = {} /\ r.p[Len(a.p)] = a.p[Len(a.p)] \cup qs \cup keys
        /\ \A i \in 1 .. Len(a.p) - 1 : r.p[i] = a.p[i]
    BY <2>2 DEF Fetches
  <2>4. ~rowToo /\ qs = {}
    OBVIOUS
  <2>. HIDE DEF rowToo, qs, new, tileOf, keys
  <2>5. r.p[Len(a.p)] = a.p[Len(a.p)] \cup keys
    BY <2>3, <2>4
  <2>. QED  BY <2>3, <2>4, <2>5
<1>. HIDE DEF new, tileOf, keys
<1>11. PICK me \in Privates : me = r.me
  BY <1>10, ViewFacts
<1>12. /\ me.pc = "mma" /\ me.turnsGiven = s.me.turnsGiven
       /\ me.turnsTaken = s.me.turnsTaken /\ me.syncs = s.me.syncs
       /\ me.q = s.me.q /\ me.kv = s.me.kv /\ me.readK = s.me.readK /\ me.first = s.me.first
       /\ me.readQ = s.me.readQ /\ me.regs = s.me.regs /\ me.writeQ = s.me.writeQ
  BY <1>3, <1>4, <1>10, <1>11 DEF SameConsumer
<1>13. /\ Slot[n] \in 0 .. 2 /\ Slot[n + 1] \in 0 .. 2 /\ Slot[m] \in 0 .. 2 /\ Slot[n + 3] = (Slot[m] + 1) % 3
       /\ Slot[m] # Slot[n] /\ Slot[m] # Slot[n + 1]
  <2>1. Slot[m + 1] = (Slot[m] + 1) % 3
    BY SlotFacts
  <2>. QED  BY <1>8, <2>1, SlotFacts
<1>14. a.me.writeK = Slot[m] /\ a.me.kvArray = s.me.kvArray
  BY <1>3, <1>4, <1>7, <1>8
<1>15. /\ me.kvArray[Slot[n]] = Task[n][2] /\ me.kvArray[Slot[n + 1]] = Task[n + 1][2]
       /\ me.kvArray[Slot[m]] = Task[m][2]
  <2>1. a.me.kvArray \in [0 .. 2 -> Nat] /\ a.me.writeK \in 0 .. 2
    BY <1>1, <1>13, <1>14
  <2>2. \A i \in 0 .. 2 : me.kvArray[i] = IF i = a.me.writeK THEN Task[m][2] ELSE a.me.kvArray[i]
    BY <1>10, <1>11, <2>1
  <2>. QED  BY <1>7, <1>13, <1>14, <2>2
<1>16. At(me) = n
  BY <1>6, <1>12 DEF At, Busy
<1>17. Walks(me)
  <2>1. me.writeK = Slot[n + 3] /\ <<me.fetchQ, me.fetchKv>> = Task[n + 3]
    BY <1>8, <1>10, <1>11, <1>13, <1>14
  <2>2. me.kvArray[Slot[n + 2]] = Task[n + 2][2]
    BY <1>8, <1>15
  <2>3. /\ s.me.q = Task[n][1] /\ s.me.kv = Task[n][2] /\ s.me.readK = Slot[n] /\ (s.me.first <=> n = 0)
        /\ s.me.turnsTaken > 0
    BY <1>7 DEF Running, Walks, Busy
  <2>. QED  BY <1>7, <1>12, <1>15, <1>16, <2>1, <2>2, <2>3 DEF Walks, Busy, Ahead
<1>18. Reads(me, w)
  BY <1>7, <1>12, <1>16 DEF Running, Reads, Busy
<1>19. Len(s.p) \in 2 .. 3 /\ s.p[Len(s.p)] = {} /\ Queued(s.me, s.p, w)
  BY DEF Running, Queued
<1>20. PICK len \in Nat : len = Len(s.p) /\ (len = 2 \/ len = 3)
  <2>1. Len(s.p) = 2 \/ Len(s.p) = 3
    BY <1>19
  <2>. QED  BY <2>1
<1>21. /\ Len(r.p) = len + 1 /\ r.p[len + 1] = {} /\ r.p[len] = keys /\ r.p[1] = s.p[1]
       /\ len = 3 => r.p[2] = s.p[2]
  <2>1. Len(a.p) = len /\ a.p = s.p /\ s.p[len] = {}
    BY <1>4, <1>19, <1>20
  <2>2. Len(r.p) = len + 1 /\ r.p[len + 1] = {} /\ r.p[len] = s.p[len] \cup keys
    BY <1>10, <2>1
  <2>3. \A i \in 1 .. len - 1 : r.p[i] = s.p[i]
    BY <1>10, <2>1
  <2>4. 1 \in 1 .. len - 1 /\ (len = 3 => 2 \in 1 .. len - 1)
    <3>1. len = 2 \/ len = 3
      BY <1>20
    <3>. QED  BY <3>1
  <2>. QED  BY <2>1, <2>2, <2>3, <2>4
<1>22. keys = IF new THEN {<<"k", Slot[m]>>} ELSE {}
  BY <1>14 DEF keys
<1>23. Queued(me, r.p, w)
  <2>1. ~LoadsK(w) => keys = {}
    BY DEF keys, new
  <2>2. \A x \in QSlots : <<"q", x>> \notin keys
    BY <1>22
  <2>3. \A i \in 1 .. len + 1 : i = 1 \/ i = len + 1 \/ i = len \/ (len = 3 /\ i = 2)
    <3>1. CASE len = 2
      BY <3>1
    <3>2. CASE len = 3
      BY <3>2
    <3>. QED  BY <1>20, <3>1, <3>2
  <2>4. \A i \in 1 .. len + 1 : r.p[i] = {} \/ r.p[i] = keys \/ (i \in 1 .. Len(s.p) /\ r.p[i] = s.p[i])
    BY <1>20, <1>21, <2>3
  <2>5. w # 0 => \A i \in 1 .. Len(r.p), x \in QSlots : <<"q", x>> \notin r.p[i]
    BY <1>19, <1>21, <2>2, <2>4 DEF Queued
  <2>6. ~LoadsK(w) => \A i \in 1 .. Len(r.p), x \in 0 .. 2 : <<"k", x>> \notin r.p[i]
    BY <1>19, <1>21, <2>1, <2>4 DEF Queued
  <2>7. r.p[Len(r.p)] = {} /\ Len(r.p) \in 3 .. 4
    <3>1. len = 2 \/ len = 3
      BY <1>20
    <3>2. len + 1 \in 3 .. 4
      BY <3>1
    <3>. QED  BY <1>21, <3>2
  <2>. QED  BY <1>12, <2>5, <2>6, <2>7 DEF Queued
<1>24. LoadsK(w) => TilesIn(me, r.p, r.k[w], w)
  <2>1. SUFFICES ASSUME LoadsK(w)  PROVE TilesIn(me, r.p, r.k[w], w)
    OBVIOUS
  <2>2. w \in 0 .. tile.groups - 1 /\ s.k[w] \in [0 .. 2 -> Cells]
    BY <1>1, <2>1, GroupFacts DEF KRings
  <2>3. /\ r.k[w][Slot[n]] = s.k[w][Slot[n]] /\ r.k[w][Slot[n + 1]] = s.k[w][Slot[n + 1]]
        /\ new => r.k[w][Slot[m]] = InFlight(tileOf)
    <3>1. CASE new
      <4>1. a.k \in KRings /\ a.k[w] = s.k[w] /\ a.me.writeK \in 0 .. 2
        BY <1>1, <1>4, <1>13, <1>14
      <4>2. r.k[w] = [a.k[w] EXCEPT ![a.me.writeK] = InFlight(tileOf)]
        BY <1>10, <2>2, <3>1, <4>1 DEF KRings
      <4>3. \A i \in 0 .. 2 : r.k[w][i] = IF i = a.me.writeK THEN InFlight(tileOf) ELSE s.k[w][i]
        BY <2>2, <4>1, <4>2
      <4>. QED  BY <1>13, <1>14, <4>3
    <3>2. CASE ~new
      BY <1>4, <1>10, <3>2
    <3>. QED  BY <3>1, <3>2
  <2>4. TileIn(s.k[w], n, w, {}) /\ TileIn(s.k[w], n + 1, w, s.p[1])
    BY <1>7, <2>1 DEF Running, TilesIn, Ahead
  <2>5. TileIn(r.k[w], n, w, {}) /\ TileIn(r.k[w], n + 1, w, r.p[1])
    BY <1>21, <2>3, <2>4 DEF TileIn
  <2>6. TileIn(r.k[w], m, w, r.p[len])
    BY <1>21, <1>22, <2>1, <2>3 DEF TileIn, InFlight, tileOf, new
  <2>7. r.p[Len(r.p) - 1] = r.p[len]
    BY <1>20, <1>21
  <2>. QED  BY <1>8, <1>12, <1>16, <2>5, <2>6, <2>7 DEF TilesIn, Ahead
<1>25. w = 0 => RowsIn(me, r.p, r.q)
  <2>1. s.q = r.q
    BY <1>4, <1>10
  <2>2. (Len(s.p) = 3 => Len(r.p) = 4 /\ r.p[2] = s.p[2]) /\ s.me.pc = "next"
    <3>1. len = 3 => len + 1 = 4
      OBVIOUS
    <3>. QED  BY <1>20, <1>21, <3>1
  <2>. QED  BY <1>12, <2>1, <2>2 DEF Running, RowsIn
<1>26. Running(r, w)
  BY <1>10, <1>11, <1>17, <1>18, <1>23, <1>24, <1>25 DEF Running
<1>27. OnlyOwn(r, s, w)
  <2>1. \A o \in 0 .. tile.groups - 1 : o # w => r.k[o] = s.k[o]
    BY <1>1, <1>4, <1>10 DEF KRings
  <2>. QED  BY <1>4, <1>10, <2>1 DEF OnlyOwn
<1>. QED  BY <1>9, <1>10, <1>11, <1>12, <1>26, <1>27 DEF Goes, a

\* The products of the tile with the row in the registers.
LEMMA MultiplyKeeps ==
  ASSUME Planned, NEW s \in Views, NEW w \in Warps, Running(s, w), s.me.pc = "mma", NEW given \in Nat,
         TileIn(s.k[Group(w)], At(s.me), Group(w), {})
  PROVE  LET r == [s EXCEPT !.me.pc = "store", !.me.acc = <<s.me.regs, s.k[Group(w)][s.me.readK]>>,
                            !.me.turnsGiven = given]
         IN  Goes(r, s, w, "store", s.me.turnsTaken, s.me.syncs, given)
<1>. DEFINE me == [s.me EXCEPT !.pc = "store", !.acc = <<s.me.regs, s.k[Group(w)][s.me.readK]>>,
                               !.turnsGiven = given]
<1>1. /\ s.me \in Privates /\ s.me.turnsTaken \in Nat /\ s.k \in KRings /\ s.me.regs \in Cells
      /\ s.me.readK \in 0 .. 2 /\ s.k[Group(w)] \in [0 .. 2 -> Cells]
  BY ViewFacts, GroupFacts DEF Privates, KRings
<1>2. me \in Privates
  <2>1. "store" \in Places /\ <<s.me.regs, s.k[Group(w)][s.me.readK]>> \in Cells \X Cells
    BY <1>1 DEF Places
  <2>. QED  BY <1>1, <2>1 DEF Privates
<1>3. /\ me.pc = "store" /\ me.turnsGiven = given /\ me.turnsTaken = s.me.turnsTaken
      /\ me.syncs = s.me.syncs
      /\ me.q = s.me.q /\ me.kv = s.me.kv /\ me.readK = s.me.readK /\ me.first = s.me.first
      /\ me.kvArray = s.me.kvArray /\ me.writeK = s.me.writeK /\ me.fetchQ = s.me.fetchQ
      /\ me.fetchKv = s.me.fetchKv /\ me.readQ = s.me.readQ /\ me.writeQ = s.me.writeQ
      /\ me.regs = s.me.regs /\ me.acc = <<s.me.regs, s.k[Group(w)][s.me.readK]>>
  BY <1>1 DEF Privates
<1>. HIDE DEF me
<1>4. PICK r : r = [s EXCEPT !.me.pc = "store", !.me.acc = <<s.me.regs, s.k[Group(w)][s.me.readK]>>,
                             !.me.turnsGiven = given]
  OBVIOUS
<1>5. r.me = me /\ r.q = s.q /\ r.k = s.k /\ r.p = s.p
  BY <1>4 DEF Views, me
<1>6. r \in Views
  BY <1>2, <1>4 DEF Views, me
<1>7. PICK n \in Nat : n + 1 = s.me.turnsTaken /\ n = s.me.turnsTaken - 1
  BY <1>1 DEF Running, Walks, Busy
<1>8. At(me) = n /\ At(s.me) = n /\ n \in Runs /\ s.me.readK = Slot[n]
  BY <1>3, <1>7 DEF At, Busy, Running, Walks
<1>9. Walks(me)
  BY <1>3, <1>8 DEF Running, Walks, Busy, Ahead
<1>10. n \in Filled[Group(w)] =>
         s.k[Group(w)][Slot[n]] = Landed(<<Task[n][1], Task[n][2] + Group(w)>>)
  <2>1. s.k[Group(w)][Slot[n]] \in Cells
    BY <1>1, <1>8
  <2>. QED  BY <1>8, <2>1, CellIs DEF TileIn
<1>11. Reads(me, w)
  BY <1>3, <1>8, <1>10 DEF Running, Reads, Busy
<1>12. Queued(me, s.p, w)
  BY <1>3 DEF Running, Queued
<1>13. LoadsK(w) => TilesIn(me, s.p, s.k[w], w)
  BY <1>3, <1>8 DEF Running, TilesIn, Ahead
<1>14. w = 0 => RowsIn(me, s.p, s.q)
  BY <1>3 DEF Running, RowsIn
<1>15. Running(r, w)
  BY <1>5, <1>9, <1>11, <1>12, <1>13, <1>14 DEF Running
<1>. QED  BY <1>3, <1>4, <1>5, <1>6, <1>15 DEF Goes, OnlyOwn

LEMMA WaitMe ==
  ASSUME Planned, NEW s \in Views, NEW w \in Warps, NEW d \in 0 .. 1
  PROVE  /\ WaitCopies(s, w, d) \in Views /\ WaitCopies(s, w, d).me = s.me
         /\ WaitCopies(s, w, d).p = Left(s.p, d)
BY WaitFields

\* The ring of a warp group when its loader has waited for copies.
Lands(r, s, w, done) ==
  /\ OnlyOwn(r, s, w)
  /\ LoadsK(w) => \A i \in Nat : \A keys : TileIn(s.k[w], i, w, keys) => TileIn(r.k[w], i, w, keys \ done)
  /\ \A x \in QSlots : /\ r.q[x].data = s.q[x].data
                       /\ r.q[x].landed <=> (s.q[x].landed \/ <<"q", x>> \in done)

LEMMA WaitRings ==
  ASSUME Planned, NEW s \in Views, NEW w \in Warps, Queued(s.me, s.p, w), NEW d \in 0 .. 1
  PROVE  Lands(WaitCopies(s, w, d), s, w, Awaited(s.p, d))
<1>. DEFINE done == Awaited(s.p, d)
<1>1. PICK r : r = WaitCopies(s, w, d)
  OBVIOUS
<1>2. /\ r.q = Arrived(s.q, "q", done)
      /\ r.k = [s.k EXCEPT ![Group(w)] = Arrived(@, "k", done)]
  BY <1>1, WaitFields
<1>3. s.q \in [QSlots -> Cells] /\ s.k \in KRings /\ s.p \in Queues /\ Len(s.p) \in Nat
  BY ViewFacts DEF QRings
<1>4. /\ w # 0 => \A x \in QSlots : <<"q", x>> \notin done
      /\ ~LoadsK(w) => \A x \in 0 .. 2 : <<"k", x>> \notin done
  <2>1. \A i \in 1 .. Len(s.p) - 1 - d : i \in 1 .. Len(s.p)
    BY <1>3
  <2>. QED  BY <2>1 DEF Queued, Awaited
<1>5. Group(w) \in 0 .. tile.groups - 1 /\ s.k[Group(w)] \in [0 .. 2 -> Cells] /\ (LoadsK(w) => Group(w) = w)
  BY <1>3, GroupFacts DEF KRings
<1>. HIDE DEF done
<1>6. r.k[Group(w)] = Arrived(s.k[Group(w)], "k", done)
  BY <1>2, <1>3, <1>5 DEF KRings
<1>7. OnlyOwn(r, s, w)
  <2>1. w # 0 => r.q = s.q
    BY <1>2, <1>3, <1>4, ArrivedFacts
  <2>2. ASSUME NEW o \in 0 .. tile.groups - 1, o # w  PROVE r.k[o] = s.k[o]
    <3>1. CASE o # Group(w)
      BY <1>2, <1>3, <3>1 DEF KRings
    <3>2. CASE o = Group(w)
      <4>1. ~LoadsK(w)
        BY <1>5, <2>2, <3>2
      <4>2. Arrived(s.k[o], "k", done) = s.k[o]
        BY <1>4, <1>5, <3>2, <4>1, ArrivedFacts
      <4>. QED  BY <1>6, <3>2, <4>2
    <3>. QED  BY <3>1, <3>2
  <2>. QED  BY <2>1, <2>2 DEF OnlyOwn
<1>8. ASSUME LoadsK(w)
      PROVE  \A i \in Nat : \A keys : TileIn(s.k[w], i, w, keys) => TileIn(r.k[w], i, w, keys \ done)
  <2>1. s.k[w] \in [0 .. 2 -> Cells] /\ r.k[w] = Arrived(s.k[w], "k", done)
    BY <1>5, <1>6, <1>8
  <2>2. \A x \in 0 .. 2 : /\ r.k[w][x].data = s.k[w][x].data
                          /\ r.k[w][x].landed <=> (s.k[w][x].landed \/ <<"k", x>> \in done)
    BY <2>1, ArrivedFacts
  <2>3. \A i \in Nat : Slot[i] \in 0 .. 2
    BY SlotFacts
  <2>. QED  BY <2>1, <2>2, <2>3 DEF TileIn
<1>9. \A x \in QSlots : /\ r.q[x].data = s.q[x].data
                        /\ r.q[x].landed <=> (s.q[x].landed \/ <<"q", x>> \in done)
  BY <1>2, <1>3, ArrivedFacts
<1>. QED  BY <1>1, <1>7, <1>8, <1>9 DEF done, Lands

\* Store: the copies for the next task have landed, those after it may not.
LEMMA StoreKeeps ==
  ASSUME Planned, NEW s \in Views, NEW w \in Warps, Running(s, w), s.me.pc = "store", NEW n1 \in Nat
  PROVE  LET r == [WaitCopies(s, w, 1) EXCEPT !.me.pc = "advance", !.me.syncs = n1]
         IN  Goes(r, s, w, "advance", s.me.turnsTaken, n1, s.me.turnsGiven)
<1>. DEFINE me == [s.me EXCEPT !.pc = "advance", !.syncs = n1]
            done == Awaited(s.p, 1)
<1>1. s.me \in Privates /\ s.me.turnsTaken \in Nat /\ s.p \in Queues
  BY ViewFacts DEF Privates
<1>2. me \in Privates
  <2>1. "advance" \in Places
    BY DEF Places
  <2>. QED  BY <1>1, <2>1 DEF Privates
<1>3. /\ me.pc = "advance" /\ me.turnsGiven = s.me.turnsGiven /\ me.turnsTaken = s.me.turnsTaken
      /\ me.syncs = n1
      /\ me.q = s.me.q /\ me.kv = s.me.kv /\ me.readK = s.me.readK /\ me.first = s.me.first
      /\ me.kvArray = s.me.kvArray /\ me.writeK = s.me.writeK /\ me.fetchQ = s.me.fetchQ
      /\ me.fetchKv = s.me.fetchKv /\ me.readQ = s.me.readQ /\ me.writeQ = s.me.writeQ
      /\ me.regs = s.me.regs
  BY <1>1 DEF Privates
<1>0. 1 \in 0 .. 1
  OBVIOUS
<1>4. PICK a : a = WaitCopies(s, w, 1)
  OBVIOUS
<1>5. a \in Views /\ a.me = s.me /\ a.p = Left(s.p, 1)
  BY <1>0, <1>4, WaitMe
<1>6. PICK r : r = [a EXCEPT !.me.pc = "advance", !.me.syncs = n1]
  OBVIOUS
<1>7. r.me = me /\ r.q = a.q /\ r.k = a.k /\ r.p = a.p /\ r \in Views
  <2>1. r.me = [a.me EXCEPT !.pc = "advance", !.syncs = n1] /\ r.q = a.q /\ r.k = a.k /\ r.p = a.p
    BY <1>5, <1>6 DEF Views
  <2>2. r.me = me
    BY <1>5, <2>1, Zenon
  <2>. HIDE DEF me
  <2>3. r = [me |-> r.me, q |-> a.q, k |-> a.k, p |-> a.p]
    BY <1>5, <1>6 DEF Views
  <2>4. r \in Views
    BY <1>2, <1>5, <2>2, <2>3, ViewFacts
  <2>. QED  BY <2>1, <2>2, <2>4
<1>. HIDE DEF me
<1>8. PICK n \in Nat : n + 1 = s.me.turnsTaken /\ n = s.me.turnsTaken - 1
  BY <1>1 DEF Running, Walks, Busy
<1>9. At(me) = n /\ At(s.me) = n /\ n \in Runs
  BY <1>3, <1>8 DEF At, Busy, Running, Walks
<1>10. Walks(me)
  BY <1>3, <1>9 DEF Running, Walks, Busy, Ahead
<1>11. Reads(me, w)
  BY <1>3, <1>9 DEF Running, Reads, Busy
<1>12. PICK len \in Nat : len = Len(s.p) /\ (len = 3 \/ len = 4) /\ s.p[len] = {}
  <2>1. (Len(s.p) = 3 \/ Len(s.p) = 4) /\ s.p[Len(s.p)] = {}
    BY DEF Running, Queued
  <2>. QED  BY <2>1
<1>12a. len = 3 \/ len = 4
  BY <1>12
<1>12b. Len(s.p) = len
  BY <1>12
<1>13. Len(r.p) = 2 /\ r.p[1] = s.p[len - 1] /\ r.p[2] = {}
  <2>1. PICK m \in Nat : m = len - 1 /\ m = IF len - 1 > 1 THEN len - 1 ELSE 1
    BY <1>12a
  <2>2. Len(Left(s.p, 1)) = len - m + 1 /\ \A i \in 1 .. len - m + 1 : Left(s.p, 1)[i] = s.p[m + i - 1]
    <3>1. m = IF Len(s.p) - 1 > 1 THEN Len(s.p) - 1 ELSE 1
      BY <1>12b, <2>1
    <3>. HIDE <2>1
    <3>. QED  BY <1>0, <1>1, <1>12b, <3>1, LeftFacts
  <2>3. len - m + 1 = 2 /\ m + 1 - 1 = len - 1 /\ m + 2 - 1 = len
    BY <1>12a, <2>1
  <2>4. 1 \in 1 .. len - m + 1 /\ 2 \in 1 .. len - m + 1
    BY <2>3
  <2>. QED  BY <1>5, <1>7, <1>12, <2>2, <2>3, <2>4
<1>14. s.p[1] \subseteq done /\ (len = 4 => s.p[2] \subseteq done)
  <2>1. 1 \in 1 .. len - 1 - 1 /\ (len = 4 => 2 \in 1 .. len - 1 - 1)
    BY <1>12a
  <2>2. done = UNION {s.p[i] : i \in 1 .. len - 1 - 1}
    BY <1>12b DEF Awaited
  <2>. HIDE DEF done
  <2>. QED  BY <2>1, <2>2
<1>15. Queued(s.me, s.p, w) /\ len - 1 \in 1 .. Len(s.p) /\ Len(s.p) \in 1 .. Len(s.p)
  <2>1. Queued(s.me, s.p, w)
    BY DEF Running
  <2>2. len - 1 \in 1 .. len /\ len \in 1 .. len
    BY <1>12a
  <2>. QED  BY <1>12, <2>1, <2>2
<1>16. Queued(me, r.p, w)
  <2>1. \A i \in 1 .. 2 : i = 1 \/ i = 2
    OBVIOUS
  <2>. QED  BY <1>3, <1>13, <1>15, <2>1 DEF Queued
<1>17. Lands(a, s, w, done)
  BY <1>0, <1>4, <1>15, WaitRings
<1>. HIDE DEF done
<1>18. LoadsK(w) => TilesIn(me, r.p, r.k[w], w)
  <2>1. SUFFICES ASSUME LoadsK(w)  PROVE TilesIn(me, r.p, r.k[w], w)
    OBVIOUS
  <2>2. TileIn(s.k[w], n, w, {}) /\ TileIn(s.k[w], n + 1, w, s.p[1]) /\ TileIn(s.k[w], n + 2, w, s.p[len - 1])
    BY <1>9, <1>12, <2>1 DEF Running, TilesIn, Ahead
  <2>3. TileIn(a.k[w], n, w, {} \ done) /\ TileIn(a.k[w], n + 1, w, s.p[1] \ done)
        /\ TileIn(a.k[w], n + 2, w, s.p[len - 1] \ done)
    BY <1>17, <2>1, <2>2 DEF Lands
  <2>4. TileIn(a.k[w], n, w, {}) /\ TileIn(a.k[w], n + 1, w, {}) /\ TileIn(a.k[w], n + 2, w, r.p[1])
    BY <1>13, <1>14, <2>3 DEF TileIn
  <2>. QED  BY <1>3, <1>7, <1>9, <2>4 DEF TilesIn, Ahead
<1>19. w = 0 => RowsIn(me, r.p, r.q)
  <2>1. SUFFICES ASSUME w = 0  PROVE RowsIn(me, r.p, r.q)
    OBVIOUS
  <2>2. RowsIn(s.me, s.p, s.q) /\ s.me.pc = "store"
    BY <2>1 DEF Running
  <2>3. PICK x \in Nat : x = Rows[s.me.turnsTaken]
    BY <1>8, RowsFacts
  <2>4. QSlot[x] \in QSlots /\ (x >= 1 => x - 1 \in Nat /\ QSlot[x - 1] \in QSlots)
    BY QSlotFacts
  <2>5. x \in Fetched => /\ s.me.writeQ = QSlot[x + 1] /\ s.q[QSlot[x]].data = <<Row[x]>>
                         /\ s.q[QSlot[x]].landed \/ (len = 4 /\ <<"q", QSlot[x]>> \in s.p[2])
    BY <1>12, <2>2, <2>3 DEF RowsIn
  <2>6. x \in Fetched => a.q[QSlot[x]].data = <<Row[x]>> /\ a.q[QSlot[x]].landed
    BY <1>14, <1>17, <2>4, <2>5 DEF Lands
  <2>7. (x >= 1 /\ tile.stageQ > 1) => RowIn(a.q, x - 1)
    BY <1>17, <2>2, <2>3, <2>4 DEF RowsIn, RowIn, Lands
  <2>. QED  BY <1>3, <1>7, <2>3, <2>5, <2>6, <2>7 DEF RowsIn
<1>20. Running(r, w)
  BY <1>7, <1>10, <1>11, <1>16, <1>18, <1>19 DEF Running
<1>21. OnlyOwn(r, s, w)
  BY <1>7, <1>17 DEF OnlyOwn, Lands
<1>. QED  BY <1>3, <1>4, <1>6, <1>7, <1>20, <1>21 DEF Goes

\* Advance: the consumer's row is the next one whenever its next split starts at 0.
LEMMA AdvanceKeeps ==
  ASSUME Planned, NEW s \in Views, NEW w \in Warps, Running(s, w), s.me.pc = "advance"
  PROVE  LET stage == (s.me.readK + 1) % StageK
             kv == s.me.kvArray[stage]
             r == [s EXCEPT !.me.pc = "loop", !.me.readK = stage, !.me.kv = kv,
                            !.me.q = IF kv = 0 THEN @ + 1 ELSE @, !.me.first = FALSE, !.me.acc = <<>>]
         IN  Goes(r, s, w, "loop", s.me.turnsTaken, s.me.syncs, s.me.turnsGiven)
<1>1. /\ s.me \in Privates /\ s.me.turnsTaken \in Nat /\ s.me.kvArray \in [0 .. 2 -> Nat] /\ s.me.q \in Nat
      /\ s.me.kv \in Nat
  BY ViewFacts DEF Privates
<1>2. PICK n \in Nat : n + 1 = s.me.turnsTaken /\ n = s.me.turnsTaken - 1
  BY <1>1 DEF Running, Walks, Busy
<1>3. At(s.me) = n /\ n \in Runs /\ Walks(s.me)
  BY <1>2 DEF At, Busy, Running, Walks
<1>4. PICK stage \in 0 .. 2 : stage = (s.me.readK + 1) % StageK /\ stage = Slot[n + 1]
  <2>1. s.me.readK = Slot[n]
    BY <1>3 DEF Walks
  <2>. QED  BY <2>1, SlotFacts DEF StageK
<1>5. PICK kv \in Nat : kv = s.me.kvArray[stage] /\ kv = Task[n + 1][2]
  BY <1>1, <1>3, <1>4 DEF Walks
<1>6. PICK q \in Nat : q = IF kv = 0 THEN s.me.q + 1 ELSE s.me.q
  BY <1>1
<1>7. s.me.q = Task[n][1] /\ s.me.kv = Task[n][2]
  BY <1>3 DEF Walks
<1>8. PICK g \in Nat : g = tile.groups /\ g > 0
  BY Numbers
<1>9. Task[n + 1] = <<s.me.q, s.me.kv + g>> \/ Task[n + 1] = <<s.me.q + 1, 0>>
  BY <1>3, <1>7, <1>8, TaskFacts
<1>10. q = Task[n + 1][1] /\ (kv # 0 => Task[n + 1][1] = Task[n][1])
  BY <1>1, <1>5, <1>6, <1>7, <1>8, <1>9
<1>. DEFINE me == [s.me EXCEPT !.pc = "loop", !.readK = stage, !.kv = kv, !.q = q, !.first = FALSE, !.acc = <<>>]
<1>11. me \in Privates
  <2>1. "loop" \in Places /\ <<>> \in {<<>>} \cup (Cells \X Cells)
    BY DEF Places
  <2>. QED  BY <1>1, <2>1 DEF Privates
<1>12. /\ me.pc = "loop" /\ me.turnsGiven = s.me.turnsGiven /\ me.turnsTaken = s.me.turnsTaken
       /\ me.syncs = s.me.syncs
       /\ me.q = q /\ me.kv = kv /\ me.readK = stage /\ me.first = FALSE
       /\ me.kvArray = s.me.kvArray /\ me.writeK = s.me.writeK /\ me.fetchQ = s.me.fetchQ
       /\ me.fetchKv = s.me.fetchKv /\ me.readQ = s.me.readQ /\ me.writeQ = s.me.writeQ
       /\ me.regs = s.me.regs
  BY <1>1 DEF Privates
<1>13. PICK r : r = [s EXCEPT !.me.pc = "loop", !.me.readK = stage, !.me.kv = kv,
                              !.me.q = q, !.me.first = FALSE, !.me.acc = <<>>]
  OBVIOUS
<1>. HIDE DEF me
<1>14. r.me = me /\ r.q = s.q /\ r.k = s.k /\ r.p = s.p
  BY <1>13 DEF Views, me
<1>15. r \in Views
  BY <1>11, <1>13 DEF Views, me
<1>16. At(me) = n + 1
  BY <1>2, <1>12 DEF At, Busy
<1>17. Walks(me)
  <2>1. /\ s.me.kvArray[Slot[n + 1]] = Task[n + 1][2] /\ s.me.kvArray[Slot[n + 2]] = Task[n + 2][2]
        /\ s.me.writeK = Slot[n + 3] /\ <<s.me.fetchQ, s.me.fetchKv>> = Task[n + 3]
    BY <1>3 DEF Walks, Ahead
  <2>2. (n + 1) + 1 = n + 2 /\ (n + 1) + 2 = n + 3 /\ n + 1 # 0
    OBVIOUS
  <2>. QED  BY <1>4, <1>5, <1>10, <1>12, <1>16, <2>1, <2>2 DEF Walks, Busy, Ahead
<1>18. Reads(me, w)
  <2>1. /\ s.me.readQ = QSlot[Rows[s.me.turnsTaken]] /\ s.me.regs = Landed(<<Task[n][1]>>)
    BY <1>3 DEF Running, Reads, Busy
  <2>2. n + 1 \notin NewRows => kv # 0
    BY <1>5 DEF NewRows
  <2>. QED  BY <1>10, <1>12, <1>16, <2>1, <2>2 DEF Reads, Busy
<1>19. Queued(me, s.p, w)
  BY <1>12 DEF Running, Queued
<1>20. LoadsK(w) => TilesIn(me, s.p, s.k[w], w)
  <2>1. (n + 1) + 1 = n + 2
    OBVIOUS
  <2>. QED  BY <1>3, <1>12, <1>16, <2>1 DEF Running, TilesIn, Ahead
<1>21. w = 0 => RowsIn(me, s.p, s.q)
  BY <1>12 DEF Running, RowsIn
<1>22. Running(r, w)
  BY <1>14, <1>17, <1>18, <1>19, <1>20, <1>21 DEF Running
<1>23. r = [s EXCEPT !.me.pc = "loop", !.me.readK = stage, !.me.kv = kv,
                     !.me.q = IF kv = 0 THEN @ + 1 ELSE @, !.me.first = FALSE, !.me.acc = <<>>]
  BY <1>6, <1>13, Zenon
<1>24. /\ r \in Views /\ Running(r, w) /\ OnlyOwn(r, s, w)
       /\ r.me.pc = "loop" /\ r.me.turnsTaken = s.me.turnsTaken /\ r.me.syncs = s.me.syncs
       /\ r.me.turnsGiven = s.me.turnsGiven
  BY <1>12, <1>14, <1>15, <1>22 DEF OnlyOwn
<1>25. stage = (s.me.readK + 1) % StageK /\ kv = s.me.kvArray[stage]
  BY <1>4, <1>5
<1>. QED  BY <1>23, <1>24, <1>25, Zenon DEF Goes

\* Leave: every copy has landed.
LEMMA LeaveKeeps ==
  ASSUME Planned, NEW s \in Views, NEW w \in Warps, Running(s, w), s.me.pc = "loop", At(s.me) \notin Runs
  PROVE  LET r == [WaitCopies(s, w, 0) EXCEPT !.me.pc = "done"]
         IN  Goes(r, s, w, "done", s.me.turnsTaken, s.me.syncs, s.me.turnsGiven)
<1>. DEFINE me == [s.me EXCEPT !.pc = "done"]
            done == Awaited(s.p, 0)
<1>1. s.me \in Privates /\ s.me.turnsTaken \in Nat /\ s.p \in Queues
  BY ViewFacts DEF Privates
<1>2. me \in Privates
  <2>1. "done" \in Places
    BY DEF Places
  <2>. QED  BY <1>1, <2>1 DEF Privates
<1>3. /\ me.pc = "done" /\ me.turnsGiven = s.me.turnsGiven /\ me.turnsTaken = s.me.turnsTaken
      /\ me.syncs = s.me.syncs
      /\ me.q = s.me.q /\ me.kv = s.me.kv /\ me.readK = s.me.readK /\ me.first = s.me.first
      /\ me.kvArray = s.me.kvArray /\ me.writeK = s.me.writeK /\ me.fetchQ = s.me.fetchQ
      /\ me.fetchKv = s.me.fetchKv /\ me.readQ = s.me.readQ /\ me.writeQ = s.me.writeQ
      /\ me.regs = s.me.regs
  BY <1>1 DEF Privates
<1>4. 0 \in 0 .. 1
  OBVIOUS
<1>5. PICK a : a = WaitCopies(s, w, 0)
  OBVIOUS
<1>6. a \in Views /\ a.me = s.me /\ a.p = Left(s.p, 0)
  BY <1>4, <1>5, WaitMe
<1>7. PICK r : r = [a EXCEPT !.me.pc = "done"]
  OBVIOUS
<1>8. r.me = me /\ r.q = a.q /\ r.k = a.k /\ r.p = a.p /\ r \in Views
  <2>1. r.me = [a.me EXCEPT !.pc = "done"] /\ r.q = a.q /\ r.k = a.k /\ r.p = a.p
    BY <1>6, <1>7 DEF Views
  <2>2. r.me = me
    BY <1>6, <2>1, Zenon
  <2>. HIDE DEF me
  <2>3. r = [me |-> r.me, q |-> a.q, k |-> a.k, p |-> a.p]
    BY <1>6, <1>7 DEF Views
  <2>4. r \in Views
    BY <1>2, <1>6, <2>2, <2>3, ViewFacts
  <2>. QED  BY <2>1, <2>2, <2>4
<1>. HIDE DEF me
<1>9. PICK n \in Nat : n = s.me.turnsTaken
  BY <1>1
<1>10. At(me) = n /\ At(s.me) = n /\ n \notin Runs
  BY <1>3, <1>9 DEF At, Busy
<1>11. Walks(me)
  BY <1>3, <1>10 DEF Running, Walks, Busy, Ahead
<1>12. Reads(me, w)
  BY <1>3, <1>10 DEF Running, Reads, Busy
<1>13. Len(s.p) = 2 /\ s.p[2] = {} /\ Queued(s.me, s.p, w)
  BY DEF Running, Queued
<1>14. Len(r.p) = 1 /\ r.p[1] = {}
  <2>1. PICK m \in Nat : m = 2 /\ m = IF Len(s.p) - 1 > 0 THEN Len(s.p) - 0 ELSE 1
    BY <1>13
  <2>2. /\ Len(Left(s.p, 0)) = 1
        /\ \A i \in 1 .. 1 : Left(s.p, 0)[i] = s.p[2 + i - 1]
    <3>1. /\ Len(Left(s.p, 0)) = Len(s.p) - m + 1
          /\ \A i \in 1 .. Len(s.p) - m + 1 : Left(s.p, 0)[i] = s.p[m + i - 1]
      <4>1. m = IF Len(s.p) - 1 > 0 THEN Len(s.p) - 0 ELSE 1
        BY <2>1
      <4>. QED  BY <1>1, <1>4, <4>1, LeftFacts
    <3>2. Len(s.p) - m + 1 = 1 /\ m = 2
      BY <1>13, <2>1
    <3>. QED  BY <3>1, <3>2
  <2>3. 1 \in 1 .. 1 /\ 2 + 1 - 1 = 2
    OBVIOUS
  <2>. QED  BY <1>6, <1>8, <1>13, <2>2, <2>3
<1>15. Queued(me, r.p, w)
  <2>1. \A i \in 1 .. 1 : i = 1
    OBVIOUS
  <2>. QED  BY <1>3, <1>14, <2>1 DEF Queued
<1>16. Lands(a, s, w, done)
  BY <1>4, <1>5, <1>13, WaitRings
<1>. HIDE DEF done
<1>17. LoadsK(w) => TilesIn(me, r.p, r.k[w], w)
  BY <1>3 DEF TilesIn
<1>18. w = 0 => RowsIn(me, r.p, r.q)
  <2>1. SUFFICES ASSUME w = 0  PROVE RowsIn(me, r.p, r.q)
    OBVIOUS
  <2>2. RowsIn(s.me, s.p, s.q)
    BY <2>1 DEF Running
  <2>3. PICK x \in Nat : x = Rows[s.me.turnsTaken]
    BY <1>9, RowsFacts
  <2>4. QSlot[x] \in QSlots /\ (x >= 1 => x - 1 \in Nat /\ QSlot[x - 1] \in QSlots)
    BY QSlotFacts
  <2>5. x \in Fetched => s.me.writeQ = QSlot[x + 1] /\ s.q[QSlot[x]].data = <<Row[x]>> /\ s.q[QSlot[x]].landed
    BY <2>2, <2>3 DEF RowsIn
  <2>6. x \in Fetched => a.q[QSlot[x]].data = <<Row[x]>> /\ a.q[QSlot[x]].landed
    BY <1>16, <2>4, <2>5 DEF Lands
  <2>7. (x >= 1 /\ tile.stageQ > 1) => RowIn(a.q, x - 1)
    BY <1>16, <2>2, <2>3, <2>4 DEF RowsIn, RowIn, Lands
  <2>. QED  BY <1>3, <1>8, <2>3, <2>5, <2>6, <2>7 DEF RowsIn
<1>19. Running(r, w)
  BY <1>8, <1>11, <1>12, <1>15, <1>17, <1>18 DEF Running
<1>20. OnlyOwn(r, s, w)
  BY <1>8, <1>16 DEF OnlyOwn, Lands
<1>. QED  BY <1>3, <1>5, <1>7, <1>8, <1>19, <1>20 DEF Goes

\* Prologue: the first two tasks are fetched, and the copies of the first have landed.
LEMMA PrologueKeeps ==
  ASSUME Planned, NEW s \in Views, NEW w \in Warps, Untouched(s, w)
  PROVE  LET t == WaitCopies(LoadNext(LoadNext(s, w, TRUE), w, FALSE), w, StageK - 2)
             r == [t EXCEPT !.me.kv = t.me.kvArray[0], !.me.pc = "start", !.me.syncs = @ + 1]
         IN  Goes(r, s, w, "start", 0, 1, 0)
<1>1. /\ s.me \in Privates /\ s.p = <<{}>> /\ s.k \in KRings /\ s.q \in QRings
      /\ s.me.fetchQ = Segment(cta)[1] /\ s.me.fetchKv = Segment(cta)[2] /\ s.me.q = Segment(cta)[1]
      /\ s.me.readK = 0 /\ s.me.writeK = 0 /\ s.me.readQ = 0 /\ s.me.writeQ = 0 /\ s.me.first = TRUE
      /\ s.me.syncs = 0 /\ s.me.turnsTaken = 0 /\ s.me.turnsGiven = 0 /\ s.me.kvArray \in [0 .. 2 -> Nat]
  <2>1. s.me \in Privates /\ s.k \in KRings /\ s.q \in QRings
    BY ViewFacts
  <2>2. s.p = <<{}>> /\ s.me = WarpStart(cta)
    BY DEF Untouched
  <2>3. s.me.kvArray \in [0 .. 2 -> Nat]
    BY <2>1 DEF Privates
  <2>. QED  BY <2>1, <2>2, <2>3 DEF WarpStart
<1>2. Task[0] = Segment(cta) /\ Task[0] = <<Task[0][1], Task[0][2]>> /\ Task[0][1] \in Nat /\ Task[0][2] \in Nat
      /\ Task[1][2] \in Nat
  <2>1. Task[0] \in Nat \X Nat /\ Task[1] \in Nat \X Nat
    BY TaskFacts
  <2>2. Task[0] = Segment(cta)
    BY TaskDef
  <2>3. \A x \in Nat \X Nat : x = <<x[1], x[2]>> /\ x[1] \in Nat /\ x[2] \in Nat
    OBVIOUS
  <2>. QED  BY <2>1, <2>2, <2>3
<1>. DEFINE new0 == LoadsK(w) /\ 0 \in Filled[w]
            new1 == LoadsK(w) /\ 1 \in Filled[w]
            row0 == 0 \in Runs
            qs == IF row0 /\ w = 0 THEN {<<"q", 0>>} ELSE {}
            ks0 == IF new0 THEN {<<"k", 0>>} ELSE {}
            ks1 == IF new1 THEN {<<"k", 1>>} ELSE {}
            tile0 == <<Task[0][1], Task[0][2] + w>>
            tile1 == <<Task[1][1], Task[1][2] + w>>
<1>3. PICK a : a = LoadNext(s, w, TRUE)
  OBVIOUS
<1>4. Fetches(a, s, w, TRUE, 0)
  <2>1. <<s.me.fetchQ, s.me.fetchKv>> = Task[0]
    BY <1>1, <1>2
  <2>. QED  BY <1>3, <2>1, LoadNextFields
<1>5. /\ a \in Views /\ SameConsumer(a.me, s.me)
      /\ a.me.kvArray = [s.me.kvArray EXCEPT ![s.me.writeK] = Task[0][2]]
      /\ a.me.writeK = (s.me.writeK + 1) % 3 /\ <<a.me.fetchQ, a.me.fetchKv>> = Task[0 + 1]
      /\ a.me.writeQ = IF row0 THEN (s.me.writeQ + 1) % tile.stageQ ELSE s.me.writeQ
      /\ a.q = IF row0 /\ w = 0 THEN [s.q EXCEPT ![s.me.writeQ] = InFlight(<<Task[0][1]>>)] ELSE s.q
      /\ a.k = IF new0 THEN [s.k EXCEPT ![w] = [@ EXCEPT ![s.me.writeK] = InFlight(tile0)]] ELSE s.k
      /\ Len(a.p) = Len(s.p) + 1 /\ a.p[Len(s.p) + 1] = {}
      /\ a.p[Len(s.p)] = s.p[Len(s.p)] \cup (IF row0 /\ w = 0 THEN {<<"q", s.me.writeQ>>} ELSE {})
                                       \cup (IF new0 THEN {<<"k", s.me.writeK>>} ELSE {})
  BY <1>4 DEF Fetches
<1>6. Len(a.p) = 2 /\ a.p[2] = {} /\ a.p[1] = qs \cup ks0
  <2>1. Len(s.p) = 1 /\ s.p[1] = {}
    BY <1>1
  <2>. HIDE DEF row0, new0, new1, tile0, tile1
  <2>. QED  BY <1>1, <1>5, <2>1
<1>7. PICK b : b = LoadNext(a, w, FALSE)
  OBVIOUS
<1>8. Fetches(b, a, w, FALSE, 1)
  <2>1. <<a.me.fetchQ, a.me.fetchKv>> = Task[1]
    BY <1>5
  <2>. QED  BY <1>5, <1>7, <2>1, LoadNextFields
<1>9. /\ b \in Views /\ SameConsumer(b.me, a.me)
      /\ b.me.kvArray = [a.me.kvArray EXCEPT ![a.me.writeK] = Task[1][2]]
      /\ b.me.writeK = (a.me.writeK + 1) % 3 /\ <<b.me.fetchQ, b.me.fetchKv>> = Task[1 + 1]
      /\ b.me.writeQ = a.me.writeQ /\ b.q = a.q
      /\ b.k = IF new1 THEN [a.k EXCEPT ![w] = [@ EXCEPT ![a.me.writeK] = InFlight(tile1)]] ELSE a.k
      /\ Len(b.p) = Len(a.p) + 1 /\ b.p[Len(a.p) + 1] = {}
      /\ b.p[Len(a.p)] = a.p[Len(a.p)] \cup {} \cup (IF new1 THEN {<<"k", a.me.writeK>>} ELSE {})
      /\ \A i \in 1 .. Len(a.p) - 1 : b.p[i] = a.p[i]
  BY <1>8 DEF Fetches
<1>. HIDE DEF row0, new0, new1, tile0, tile1
<1>10. a.me.writeK = 1 /\ b.me.writeK = 2
  BY <1>1, <1>5, <1>9
<1>11. Len(b.p) = 3 /\ b.p[3] = {} /\ b.p[2] = ks1 /\ b.p[1] = qs \cup ks0
  BY <1>6, <1>9, <1>10
<1>12. b.me.kvArray[0] = Task[0][2] /\ b.me.kvArray[1] = Task[1][2]
  <2>1. \A i \in 0 .. 2 : a.me.kvArray[i] = IF i = 0 THEN Task[0][2] ELSE s.me.kvArray[i]
    BY <1>1, <1>5
  <2>2. a.me.kvArray \in [0 .. 2 -> Nat]
    BY <1>5, ViewFacts DEF Privates
  <2>3. \A i \in 0 .. 2 : b.me.kvArray[i] = IF i = 1 THEN Task[1][2] ELSE a.me.kvArray[i]
    BY <1>9, <1>10, <2>2
  <2>. QED  BY <2>1, <2>3
<1>13. PICK t : t = WaitCopies(b, w, 1)
  OBVIOUS
<1>14. 1 \in 0 .. 1
  OBVIOUS
<1>15. t \in Views /\ t.me = b.me /\ t.p = Left(b.p, 1)
  BY <1>9, <1>13, <1>14, WaitMe
<1>16. /\ b.me.q = Task[0][1] /\ b.me.readK = 0 /\ b.me.readQ = 0 /\ b.me.first = TRUE
       /\ b.me.syncs = 0 /\ b.me.turnsTaken = 0 /\ b.me.turnsGiven = 0
       /\ b.me.writeQ = IF row0 THEN (0 + 1) % tile.stageQ ELSE 0
  BY <1>1, <1>2, <1>5, <1>9 DEF SameConsumer
<1>. DEFINE me == [b.me EXCEPT !.kv = b.me.kvArray[0], !.pc = "start", !.syncs = @ + 1]
<1>17. b.me \in Privates
  BY <1>9, ViewFacts
<1>18. me \in Privates
  <2>1. "start" \in Places /\ b.me.kvArray[0] \in Nat /\ b.me.syncs + 1 \in Nat
    BY <1>2, <1>12, <1>16 DEF Places
  <2>. QED  BY <1>17, <2>1 DEF Privates
<1>19. /\ me.pc = "start" /\ me.turnsGiven = 0 /\ me.turnsTaken = 0 /\ me.syncs = 1
       /\ me.q = Task[0][1] /\ me.kv = Task[0][2] /\ me.readK = 0 /\ me.first = TRUE
       /\ me.kvArray = b.me.kvArray /\ me.writeK = 2 /\ me.fetchQ = b.me.fetchQ
       /\ me.fetchKv = b.me.fetchKv /\ me.readQ = 0 /\ me.writeQ = b.me.writeQ
  <2>1. /\ me.pc = "start" /\ me.turnsGiven = b.me.turnsGiven /\ me.turnsTaken = b.me.turnsTaken
        /\ me.syncs = b.me.syncs + 1
        /\ me.q = b.me.q /\ me.kv = b.me.kvArray[0] /\ me.readK = b.me.readK /\ me.first = b.me.first
        /\ me.kvArray = b.me.kvArray /\ me.writeK = b.me.writeK /\ me.fetchQ = b.me.fetchQ
        /\ me.fetchKv = b.me.fetchKv /\ me.readQ = b.me.readQ /\ me.writeQ = b.me.writeQ
    BY <1>17 DEF Privates
  <2>. QED  BY <1>10, <1>12, <1>16, <2>1
<1>20. PICK r : r = [t EXCEPT !.me.kv = t.me.kvArray[0], !.me.pc = "start", !.me.syncs = @ + 1]
  OBVIOUS
<1>21. r.me = me /\ r.q = t.q /\ r.k = t.k /\ r.p = t.p /\ r \in Views
  <2>1. r.me = [t.me EXCEPT !.kv = t.me.kvArray[0], !.pc = "start", !.syncs = @ + 1]
        /\ r.q = t.q /\ r.k = t.k /\ r.p = t.p
    BY <1>15, <1>20 DEF Views
  <2>2. r.me = me
    BY <1>15, <2>1, Zenon
  <2>. HIDE DEF me
  <2>3. r = [me |-> r.me, q |-> t.q, k |-> t.k, p |-> t.p]
    BY <1>15, <1>20 DEF Views
  <2>4. r \in Views
    BY <1>15, <1>18, <2>2, <2>3, ViewFacts
  <2>. QED  BY <2>1, <2>2, <2>4
<1>. HIDE DEF me
<1>22. At(me) = 0 /\ Slot[0] = 0 /\ Slot[1] = 1 /\ Slot[2] = 2
  BY <1>19, SlotFacts DEF At, Busy
<1>23. Walks(me)
  <2>1. <<me.fetchQ, me.fetchKv>> = Task[2] /\ 0 + 1 = 1 /\ 0 + 2 = 2
    BY <1>9, <1>19
  <2>. QED  BY <1>12, <1>19, <1>22, <2>1 DEF Walks, Busy, Ahead
<1>24. Rows[0] = 0 /\ QSlot[0] = 0 /\ 0 \in QSlots /\ QSlot[1] = (0 + 1) % tile.stageQ
  <2>1. QSlot[0] = 0 /\ QSlot[0] \in QSlots /\ QSlot[0 + 1] = (QSlot[0] + 1) % tile.stageQ
    BY QSlotFacts
  <2>. QED  BY <2>1 DEF Rows
<1>25. Reads(me, w)
  BY <1>19, <1>24 DEF Reads, Busy
<1>26. Len(r.p) = 2 /\ r.p[1] = ks1 /\ r.p[2] = {}
  <2>1. PICK m \in Nat : m = 2 /\ m = IF Len(b.p) - 1 > 1 THEN Len(b.p) - 1 ELSE 1
    BY <1>11
  <2>2. b.p \in Queues
    BY <1>9, ViewFacts
  <2>3. /\ Len(Left(b.p, 1)) = Len(b.p) - m + 1
        /\ \A i \in 1 .. Len(b.p) - m + 1 : Left(b.p, 1)[i] = b.p[m + i - 1]
    <3>1. m = IF Len(b.p) - 1 > 1 THEN Len(b.p) - 1 ELSE 1
      BY <2>1
    <3>. QED  BY <1>14, <2>2, <3>1, LeftFacts
  <2>4. m = 2 /\ Len(b.p) - m + 1 = 2 /\ 1 \in 1 .. 2 /\ 2 \in 1 .. 2 /\ m + 1 - 1 = 2 /\ m + 2 - 1 = 3
    BY <1>11, <2>1
  <2>. QED  BY <1>11, <1>15, <1>21, <2>3, <2>4
<1>27. Awaited(b.p, 1) = qs \cup ks0
  <2>1. Len(b.p) - 1 - 1 = 1
    BY <1>11
  <2>. HIDE DEF qs, ks0
  <2>2. Awaited(b.p, 1) = UNION {b.p[i] : i \in 1 .. 1}
    BY <2>1 DEF Awaited
  <2>. QED  BY <1>11, <2>2
<1>28. Queued(b.me, b.p, w)
  <2>1. \A i \in 1 .. 3 : i = 1 \/ i = 2 \/ i = 3
    OBVIOUS
  <2>2. b.me.pc = "prologue"
    BY <1>5, <1>9 DEF SameConsumer, Untouched, WarpStart
  <2>. QED  BY <1>11, <2>1, <2>2 DEF Queued, new0, new1
<1>29. Lands(t, b, w, qs \cup ks0)
  <2>. HIDE DEF qs, ks0
  <2>1. Lands(t, b, w, Awaited(b.p, 1))
    BY <1>9, <1>13, <1>14, <1>28, WaitRings
  <2>. QED  BY <1>27, <2>1
<1>30. Queued(me, r.p, w)
  <2>1. \A i \in 1 .. 2 : i = 1 \/ i = 2
    OBVIOUS
  <2>. QED  BY <1>19, <1>26, <2>1 DEF Queued, new1
<1>31. LoadsK(w) => TilesIn(me, r.p, r.k[w], w)
  <2>1. SUFFICES ASSUME LoadsK(w)  PROVE TilesIn(me, r.p, r.k[w], w)
    OBVIOUS
  <2>2. w \in 0 .. tile.groups - 1 /\ s.k[w] \in [0 .. 2 -> Cells]
    BY <1>1, <2>1, GroupFacts DEF KRings
  <2>3. \A i \in 0 .. 2 : a.k[w][i] = IF new0 /\ i = 0 THEN InFlight(tile0) ELSE s.k[w][i]
    <3>1. new0 => a.k[w] = [s.k[w] EXCEPT ![s.me.writeK] = InFlight(tile0)]
      BY <1>1, <1>5, <2>2 DEF KRings
    <3>. QED  BY <1>1, <1>5, <2>2, <3>1
  <2>4. a.k \in KRings /\ a.k[w] \in [0 .. 2 -> Cells]
    BY <1>5, <2>2, ViewFacts DEF KRings
  <2>5. \A i \in 0 .. 2 : b.k[w][i] = IF new1 /\ i = 1 THEN InFlight(tile1) ELSE a.k[w][i]
    <3>1. new1 => b.k[w] = [a.k[w] EXCEPT ![a.me.writeK] = InFlight(tile1)]
      BY <1>9, <2>2, <2>4 DEF KRings
    <3>. QED  BY <1>9, <1>10, <2>4, <3>1
  <2>6. TileIn(b.k[w], 0, w, ks0) /\ TileIn(b.k[w], 1, w, ks1)
    BY <1>22, <2>1, <2>3, <2>5 DEF TileIn, InFlight, tile0, tile1, new0, new1
  <2>7. TileIn(t.k[w], 0, w, ks0 \ (qs \cup ks0)) /\ TileIn(t.k[w], 1, w, ks1 \ (qs \cup ks0))
    <3>. HIDE DEF qs, ks0, ks1
    <3>. QED  BY <1>29, <2>1, <2>6 DEF Lands
  <2>8. TileIn(t.k[w], 0, w, {}) /\ TileIn(t.k[w], 1, w, ks1)
    BY <2>7 DEF TileIn
  <2>. QED  BY <1>19, <1>21, <1>22, <1>26, <2>8 DEF TilesIn, Ahead
<1>32. w = 0 => RowsIn(me, r.p, r.q)
  <2>1. SUFFICES ASSUME w = 0  PROVE RowsIn(me, r.p, r.q)
    OBVIOUS
  <2>2. 0 \in Fetched => row0 /\ Row[0] = Task[0][1]
    BY <1>2 DEF Fetched, row0, Runs, Row
  <2>3. row0 => b.q[0] = InFlight(<<Task[0][1]>>)
    <3>1. row0 => a.q = [s.q EXCEPT ![s.me.writeQ] = InFlight(<<Task[0][1]>>)]
      BY <1>5, <2>1
    <3>2. row0 => a.q[s.me.writeQ] = InFlight(<<Task[0][1]>>)
      BY <1>1, <1>24, <3>1 DEF QRings
    <3>. QED  BY <1>1, <1>9, <3>2
  <2>4. row0 => t.q[0].data = <<Task[0][1]>> /\ t.q[0].landed
    <3>1. row0 => <<"q", 0>> \in qs \cup ks0
      BY <2>1
    <3>. HIDE DEF qs, ks0
    <3>. QED  BY <1>24, <1>29, <2>3, <3>1 DEF Lands, InFlight
  <2>. QED  BY <1>16, <1>19, <1>21, <1>24, <2>2, <2>4 DEF RowsIn
<1>33. Running(r, w)
  BY <1>21, <1>23, <1>25, <1>30, <1>31, <1>32 DEF Running
<1>34. OnlyOwn(r, s, w)
  <2>1. w # 0 => b.q = s.q
    BY <1>5, <1>9
  <2>2. \A o \in 0 .. tile.groups - 1 : o # w => a.k[o] = s.k[o]
    BY <1>1, <1>5 DEF KRings
  <2>3. \A o \in 0 .. tile.groups - 1 : o # w => b.k[o] = a.k[o]
    BY <1>5, <1>9, ViewFacts DEF KRings
  <2>. QED  BY <1>21, <1>29, <2>1, <2>2, <2>3 DEF OnlyOwn, Lands
<1>35. StageK - 2 = 1
  BY DEF StageK
<1>. QED  BY <1>3, <1>7, <1>13, <1>19, <1>20, <1>21, <1>33, <1>34, <1>35, Zenon DEF Goes

-----------------------------------------------------------------------------
(* How far apart the two warps can be. *)

\* Barriers a warp has arrived at when it has begun n tasks and is done with them.
Count == [n \in Nat |-> 1 + n + (IF tile.stageQ = 1 THEN Rows[n] ELSE 0)]

Short == {"refill", "next", "mma", "store"}
Waiting == {"start", "refill", "advance"}

\* The barriers and the turns that the warp has come to are those of its place.
Paced(me, w) ==
  /\ me.pc = "prologue" => me.syncs = 0 /\ me.turnsTaken = 0
  /\ (~tile.turns /\ me.pc # "prologue") =>
        me.syncs = IF me.pc \in Short THEN Count[me.turnsTaken] - 1 ELSE Count[me.turnsTaken]
  /\ tile.turns =>
        me.turnsGiven = me.turnsTaken - (IF me.pc \in {"next", "mma"} THEN 1 ELSE 0)
                                      + (IF w = 1 /\ me.pc \notin {"prologue", "start"} THEN 1 ELSE 0)

\* A warp is past no barrier that the other has not reached, nor does it take a turn
\* that the other has not given.
InStep(me, other) ==
  /\ ~tile.turns => me.syncs <= other.syncs + (IF me.pc \in Waiting THEN 1 ELSE 0)
  /\ tile.turns => me.turnsTaken <= other.turnsGiven

\* The barriers a warp has passed when it comes to a task.
LEMMA CountFacts ==
  ASSUME Planned, NEW n \in Nat
  PROVE  /\ Count[n] \in Nat /\ Count[n] > 0 /\ Count[0] = 1
         /\ n \in Runs => Count[n + 1] = IF tile.stageQ = 1 /\ n \in NewRows THEN Count[n] + 2 ELSE Count[n] + 1
         /\ \A m \in 0 .. n : Count[m] \in Nat /\ Count[n] >= Count[m] + (n - m)
         /\ tile.stageQ > 1 => Count[n] = 1 + n
<1>1. \A i \in Nat : Count[i] = 1 + i + (IF tile.stageQ = 1 THEN Rows[i] ELSE 0) /\ Rows[i] \in Nat
  BY RowsFacts DEF Count
<1>2. Rows[0] = 0
  BY DEF Rows
<1>3. Count[n] \in Nat /\ Count[n] > 0 /\ Count[0] = 1 /\ (tile.stageQ > 1 => Count[n] = 1 + n)
  BY <1>1, <1>2
<1>4. n \in Runs => Count[n + 1] = IF tile.stageQ = 1 /\ n \in NewRows THEN Count[n] + 2 ELSE Count[n] + 1
  <2>1. n \in Runs => Rows[n + 1] = IF n \in NewRows THEN Rows[n] + 1 ELSE Rows[n]
    BY RowsFacts
  <2>2. Count[n + 1] = 1 + (n + 1) + (IF tile.stageQ = 1 THEN Rows[n + 1] ELSE 0)
    BY <1>1
  <2>3. Count[n] = 1 + n + (IF tile.stageQ = 1 THEN Rows[n] ELSE 0) /\ Rows[n] \in Nat
    BY <1>1
  <2>. QED  BY <2>1, <2>2, <2>3
<1>5. ASSUME NEW m \in 0 .. n  PROVE Count[m] \in Nat /\ Count[n] >= Count[m] + (n - m)
  <2>1. Rows[m] \in Nat /\ Rows[n] \in Nat /\ Rows[m] <= Rows[n]
    BY RowsGrow
  <2>2. m \in Nat /\ n \in Nat
    OBVIOUS
  <2>3. Count[m] = 1 + m + (IF tile.stageQ = 1 THEN Rows[m] ELSE 0)
    BY <1>1
  <2>4. Count[n] = 1 + n + (IF tile.stageQ = 1 THEN Rows[n] ELSE 0)
    BY <1>1
  <2>. QED  BY <2>1, <2>2, <2>3, <2>4
<1>. QED  BY <1>3, <1>4, <1>5

\* The counts of barriers decide which of two warps has begun more tasks.
LEMMA CountOrder ==
  ASSUME Planned, NEW a \in Nat, NEW b \in Nat
  PROVE  /\ Count[a] \in Nat /\ Count[b] \in Nat
         /\ Count[a] = Count[b] => a = b
         /\ Count[a] = Count[b] + 1 => a = b + 1
         /\ Count[a] > Count[b] => a > b
<1>1. a >= b => Count[a] >= Count[b] + (a - b)
  BY CountFacts
<1>2. b >= a => Count[b] >= Count[a] + (b - a)
  BY CountFacts
<1>3. Count[a] \in Nat /\ Count[b] \in Nat
  BY CountFacts
<1>. QED  BY <1>1, <1>2, <1>3

\* When the second warp comes to a new row, the first has fetched it or keeps it.
LEMMA RowKept ==
  ASSUME Planned, NEW s \in Views, NEW u \in Views, s.q = u.q,
         Running(s, 1), u.me.pc = "prologue" \/ Running(u, 0),
         Paced(s.me, 1), Paced(u.me, 0), InStep(s.me, u.me), InStep(u.me, s.me),
         s.me.pc = "loop", At(s.me) \in Runs, At(s.me) \in NewRows,
         tile.turns => u.me.turnsGiven > s.me.turnsTaken
  PROVE  RowIn(s.q, Rows[s.me.turnsTaken])
<1>1. PICK a \in Nat, b \in Nat : a = u.me.turnsTaken /\ b = s.me.turnsTaken
  BY ViewFacts DEF Privates
<1>2. b = At(s.me) /\ b \in Runs /\ b \in NewRows
  BY <1>1 DEF At, Busy
<1>3. PICK r \in Nat : r = Rows[b] /\ Rows[b + 1] = r + 1 /\ r \in Fetched
  BY <1>2, RowsFacts
<1>4. 0 \in Warps /\ 1 \in Warps /\ tile.stageQ \in Nat \ {0}
  BY Numbers DEF Warps
<1>5. ASSUME Running(u, 0), a = b + 1, tile.stageQ > 1 \/ u.me.pc = "refill"
      PROVE  RowIn(s.q, Rows[b])
  <2>1. Rows[u.me.turnsTaken] = r + 1 /\ r + 1 >= 1 /\ (r + 1) - 1 = r
    BY <1>1, <1>3, <1>5
  <2>. QED  BY <1>3, <1>5, <2>1 DEF Running, RowsIn
<1>6. ASSUME Running(u, 0), a = b, u.me.pc \notin Short
      PROVE  RowIn(s.q, Rows[b])
  <2>1. Rows[u.me.turnsTaken] = r
    BY <1>1, <1>3, <1>6
  <2>. QED  BY <1>3, <1>6, <2>1 DEF Running, RowsIn, RowIn, Short
<1>7. CASE tile.turns
  <2>1. tile.stageQ = 2
    BY <1>7, Numbers
  <2>2. u.me.turnsGiven > b /\ a <= s.me.turnsGiven
    BY <1>1, <1>7 DEF InStep
  <2>3. s.me.turnsGiven = b - 0 + 1
    BY <1>1, <1>7 DEF Paced
  <2>4. u.me.turnsGiven = a - (IF u.me.pc \in {"next", "mma"} THEN 1 ELSE 0) + 0
    BY <1>1, <1>7 DEF Paced
  <2>5. a = b + 1 /\ u.me.pc # "prologue"
    <3>1. a = b + 1
      BY <2>2, <2>3, <2>4
    <3>2. u.me.pc = "prologue" => a = 0
      BY <1>1 DEF Paced
    <3>. QED  BY <3>1, <3>2
  <2>. QED  BY <1>1, <1>5, <2>1, <2>5
<1>8. CASE ~tile.turns
  <2>1. s.me.syncs = Count[b]
    BY <1>1, <1>8 DEF Paced, Short
  <2>2. Count[b] \in Nat /\ Count[b] > 0 /\ Count[a] \in Nat /\ Count[b + 1] = IF tile.stageQ = 1 THEN Count[b] + 2 ELSE Count[b] + 1
    BY <1>2, CountFacts
  <2>3. u.me.syncs >= Count[b]
    <3>1. s.me.syncs <= u.me.syncs + 0
      BY <1>8 DEF InStep, Waiting
    <3>2. u.me.syncs \in Nat
      BY ViewFacts DEF Privates
    <3>. QED  BY <2>1, <2>2, <3>1, <3>2
  <2>4. u.me.syncs <= Count[b] + (IF u.me.pc \in Waiting THEN 1 ELSE 0)
    BY <1>8, <2>1 DEF InStep
  <2>5. Running(u, 0) /\ u.me.pc # "prologue"
    <3>1. u.me.pc = "prologue" => u.me.syncs = 0
      BY DEF Paced
    <3>. QED  BY <2>2, <2>3, <3>1
  <2>6. u.me.syncs = IF u.me.pc \in Short THEN Count[a] - 1 ELSE Count[a]
    BY <1>1, <1>8, <2>5 DEF Paced
  <2>7. /\ Count[a] = Count[b] => a = b
        /\ Count[a] = Count[b] + 1 => a = b + 1
        /\ Count[a] > Count[b] => a >= b + 1
    BY CountOrder
  <2>8. a >= b + 1 => Count[a] >= Count[b + 1] + (a - (b + 1)) /\ Count[b + 1] \in Nat
    BY CountFacts
  <2>9. u.me.pc = "refill" => tile.stageQ = 1
    BY <2>5 DEF Running, Walks
  <2>10. CASE u.me.pc \in Short
    <3>1. Count[a] >= Count[b] + 1 /\ a >= b + 1
      BY <2>2, <2>3, <2>6, <2>7, <2>10
    <3>2. u.me.pc \in Waiting <=> u.me.pc = "refill"
      BY <2>10 DEF Short, Waiting
    <3>3. CASE tile.stageQ = 1
      <4>1. Count[a] >= Count[b] + 2 + (a - (b + 1))
        BY <2>2, <2>8, <3>1, <3>3
      <4>2. a = b + 1 /\ u.me.pc = "refill"
        BY <2>2, <2>4, <2>6, <2>10, <3>1, <3>2, <4>1
      <4>. QED  BY <1>1, <1>5, <2>5, <4>2
    <3>4. CASE tile.stageQ # 1
      <4>1. u.me.pc # "refill"
        BY <2>9, <3>4
      <4>2. Count[a] = Count[b] + 1
        BY <2>2, <2>4, <2>6, <2>10, <3>1, <3>2, <4>1
      <4>. QED  BY <1>1, <1>4, <1>5, <2>5, <2>7, <3>4, <4>2
    <3>. QED  BY <3>3, <3>4
  <2>11. CASE u.me.pc \notin Short
    <3>1. Count[a] = Count[b] \/ (Count[a] = Count[b] + 1 /\ u.me.pc \in Waiting)
      BY <2>2, <2>3, <2>4, <2>6, <2>11
    <3>2. CASE Count[a] = Count[b]
      BY <1>1, <1>6, <2>5, <2>7, <2>11, <3>2
    <3>3. CASE Count[a] = Count[b] + 1
      <4>1. a = b + 1
        BY <2>7, <3>3
      <4>2. tile.stageQ # 1
        BY <2>2, <3>3, <4>1
      <4>. QED  BY <1>1, <1>4, <1>5, <2>5, <4>1, <4>2
    <3>. QED  BY <3>1, <3>2, <3>3
  <2>. QED  BY <2>10, <2>11
<1>. QED  BY <1>7, <1>8

\* The first warp's only math warp group keeps its tile until the second is done with it.
LEMMA TileKept ==
  ASSUME Planned, NEW s \in Views, NEW u \in Views, s.k = u.k, ~LoadsK(1),
         Running(s, 1), u.me.pc = "prologue" \/ Running(u, 0),
         Paced(s.me, 1), Paced(u.me, 0), InStep(s.me, u.me), InStep(u.me, s.me),
         s.me.pc \in {"mma", "store"}
  PROVE  TileIn(s.k[0], At(s.me), 0, {})
<1>1. PICK a \in Nat, b \in Nat : a = u.me.turnsTaken /\ b = s.me.turnsTaken
  BY ViewFacts DEF Privates
<1>2. PICK n \in Nat : n = At(s.me) /\ n + 1 = b /\ n \in Runs
  <2>1. b > 0 /\ At(s.me) = b - 1 /\ At(s.me) \in Runs
    BY <1>1 DEF At, Busy, Running, Walks
  <2>. QED  BY <2>1
<1>3. ~tile.turns /\ LoadsK(0)
  <2>1. tile.groups = 1 /\ 0 < tile.groups
    BY GroupFacts DEF Warps
  <2>. QED  BY <2>1, Numbers DEF LoadsK
<1>4. s.me.syncs = Count[b] - 1
  BY <1>1, <1>3 DEF Paced, Short
<1>5. Count[a] \in Nat /\ Count[b] \in Nat /\ Count[b] > 1
  <2>1. Count[b] >= Count[0] + (b - 0) /\ Count[0] = 1 /\ Count[b] \in Nat /\ Count[a] \in Nat
    BY CountFacts
  <2>. QED  BY <1>2, <2>1
<1>6. u.me.syncs >= Count[b] - 1
  <2>1. s.me.syncs <= u.me.syncs + 0
    BY <1>3 DEF InStep, Waiting
  <2>2. u.me.syncs \in Nat
    BY ViewFacts DEF Privates
  <2>. QED  BY <1>4, <1>5, <2>1, <2>2
<1>7. u.me.syncs <= Count[b] - 1 + (IF u.me.pc \in Waiting THEN 1 ELSE 0)
  BY <1>3, <1>4 DEF InStep
<1>8. Running(u, 0) /\ u.me.pc # "prologue"
  <2>1. u.me.pc = "prologue" => u.me.syncs = 0
    BY DEF Paced
  <2>. QED  BY <1>5, <1>6, <2>1
<1>9. u.me.syncs = IF u.me.pc \in Short THEN Count[a] - 1 ELSE Count[a]
  BY <1>1, <1>3, <1>8 DEF Paced
<1>10. TilesIn(u.me, u.p, u.k[0], 0) /\ Walks(u.me)
  BY <1>3, <1>8 DEF Running
<1>11. ASSUME a = b, u.me.pc \in Busy  PROVE TileIn(s.k[0], n, 0, {})
  <2>1. At(u.me) = n /\ u.me.pc # "done"
    BY <1>1, <1>2, <1>11 DEF At, Busy
  <2>. QED  BY <1>10, <2>1 DEF TilesIn
<1>12. CASE u.me.pc \in Short
  <2>1. Count[a] = Count[b] \/ (Count[a] = Count[b] + 1 /\ u.me.pc = "refill")
    BY <1>5, <1>6, <1>7, <1>9, <1>12 DEF Short, Waiting
  <2>2. CASE Count[a] = Count[b]
    <3>1. a = b
      BY <2>2, CountOrder
    <3>2. u.me.pc \in Busy
      BY <1>12 DEF Short, Busy
    <3>. QED  BY <1>2, <1>11, <3>1, <3>2
  <2>3. CASE Count[a] = Count[b] + 1 /\ u.me.pc = "refill"
    <3>1. a = b + 1
      BY <2>3, CountOrder
    <3>2. At(u.me) = b /\ b \in Runs /\ b \in NewRows /\ tile.stageQ = 1
      <4>1. At(u.me) = b
        BY <1>1, <2>3, <3>1 DEF At, Busy
      <4>. QED  BY <1>10, <2>3, <4>1 DEF Walks, Busy
    <3>3. Count[b + 1] = Count[b] + 2
      BY <3>2, CountFacts
    <3>. QED  BY <1>5, <2>3, <3>1, <3>3
  <2>. QED  BY <2>1, <2>2, <2>3
<1>13. CASE u.me.pc \notin Short
  <2>1. Count[b] = Count[a] + 1 \/ (Count[a] = Count[b] /\ u.me.pc \in {"start", "advance"})
    BY <1>5, <1>6, <1>7, <1>9, <1>13 DEF Short, Waiting
  <2>2. CASE Count[a] = Count[b] /\ u.me.pc \in {"start", "advance"}
    <3>1. a = b
      BY <2>2, CountOrder
    <3>2. u.me.pc = "start" => a = 0
      BY <1>1, <1>10 DEF Walks
    <3>. QED  BY <1>2, <1>11, <2>2, <3>1, <3>2 DEF Busy
  <2>3. CASE Count[b] = Count[a] + 1
    <3>1. a = n
      <4>1. b = a + 1
        BY <2>3, CountOrder
      <4>. QED  BY <1>2, <4>1
    <3>2. CASE u.me.pc = "advance"
      <4>1. At(u.me) + 1 = n /\ At(u.me) \in Nat
        BY <1>1, <1>10, <3>1, <3>2 DEF At, Busy, Walks
      <4>. QED  BY <1>2, <1>10, <3>2, <4>1 DEF TilesIn
    <3>3. CASE u.me.pc # "advance"
      <4>1. At(u.me) = n
        BY <1>1, <1>13, <3>1, <3>3 DEF At, Busy, Short
      <4>2. u.me.pc # "done"
        BY <1>2, <1>10, <4>1 DEF Walks
      <4>. QED  BY <1>2, <1>10, <4>1, <4>2 DEF TilesIn
    <3>. QED  BY <3>2, <3>3
  <2>. QED  BY <2>1, <2>2, <2>3
<1>. QED  BY <1>2, <1>12, <1>13

-----------------------------------------------------------------------------
(* The steps of the warps. *)

WarpOK(s, w) ==
  /\ s \in Views /\ Paced(s.me, w)
  /\ s.me.pc = "prologue" => Untouched(s, w)
  /\ s.me.pc # "prologue" => Running(s, w)

Rings == smemQ \in QRings /\ smemK \in KRings
Kernel ==
  /\ warp \in [Warps -> Privates] /\ pending \in [Warps -> Queues] /\ Rings
  /\ \A w \in Warps : \A s, other :
       s = View(w) /\ other = warp[1 - w] => WarpOK(s, w) /\ InStep(s.me, other)

\* Tasks whose logits the warp has stored.
Stored(me) == IF me.pc \in Short THEN me.turnsTaken - 1 ELSE me.turnsTaken

\* A step of warp w that makes r of its view.
Moves(w, r) ==
  /\ Commit(w, r) /\ r \in Views /\ Running(r, w) /\ OnlyOwn(r, View(w), w)
  /\ Paced(r.me, w) /\ InStep(r.me, warp[1 - w])
  /\ r.me.syncs >= warp[w].syncs /\ (tile.turns => r.me.turnsGiven >= warp[w].turnsGiven)

\* What the invariant says of one warp.
LEMMA KernelFacts ==
  ASSUME Planned, Kernel, NEW w \in Warps
  PROVE  LET s == View(w)  me == warp[w]  other == warp[1 - w]
         IN  /\ s \in Views /\ s.me = me /\ s.q = smemQ /\ s.k = smemK /\ s.p = pending[w]
             /\ me \in Privates /\ me.turnsTaken \in Nat /\ me.syncs \in Nat /\ me.turnsGiven \in Nat
             /\ other \in Privates /\ other.turnsTaken \in Nat /\ other.syncs \in Nat /\ other.turnsGiven \in Nat
             /\ Paced(me, w) /\ InStep(me, other)
             /\ me.pc = "prologue" => Untouched(s, w)
             /\ me.pc # "prologue" => Running(s, w)
             /\ tile.turns \in BOOLEAN /\ tile.stageQ \in Nat \ {0} /\ (tile.turns => tile.stageQ = 2)
<1>1. 1 - w \in Warps
  BY DEF Warps
<1>2. View(w).me = warp[w] /\ View(w).q = smemQ /\ View(w).k = smemK /\ View(w).p = pending[w]
  BY DEF View
<1>3. WarpOK(View(w), w) /\ InStep(warp[w], warp[1 - w]) /\ warp[w] \in Privates /\ warp[1 - w] \in Privates
  BY <1>1, <1>2 DEF Kernel
<1>4. \A me \in Privates : me.turnsTaken \in Nat /\ me.syncs \in Nat /\ me.turnsGiven \in Nat
  BY DEF Privates
<1>5. tile.turns \in BOOLEAN /\ tile.stageQ \in Nat \ {0} /\ (tile.turns => tile.stageQ = 2)
  BY Numbers
<1>. QED  BY <1>2, <1>3, <1>4, <1>5 DEF WarpOK

LEMMA PrologueMoves ==
  ASSUME Planned, Kernel, NEW w \in Warps, Prologue(w)
  PROVE  \E r : Moves(w, r) /\ Stored(r.me) = Stored(warp[w])
<1>1. PICK s, me, other : s = View(w) /\ me = warp[w] /\ other = warp[1 - w]
  OBVIOUS
<1>2. /\ s \in Views /\ s.me = me /\ me.pc = "prologue" /\ Untouched(s, w) /\ Paced(me, w)
      /\ other.syncs \in Nat /\ other.turnsGiven \in Nat /\ tile.turns \in BOOLEAN
      /\ me.syncs = 0 /\ me.turnsTaken = 0 /\ (tile.turns => me.turnsGiven = 0)
  <2>1. /\ s \in Views /\ s.me = me /\ me.pc = "prologue" /\ Untouched(s, w) /\ Paced(me, w)
        /\ other.syncs \in Nat /\ other.turnsGiven \in Nat /\ tile.turns \in BOOLEAN
    BY <1>1, KernelFacts DEF Prologue
  <2>. QED  BY <2>1 DEF Paced
<1>. DEFINE t == WaitCopies(LoadNext(LoadNext(s, w, TRUE), w, FALSE), w, StageK - 2)
<1>3. PICK r : r = [t EXCEPT !.me.kv = t.me.kvArray[0], !.me.pc = "start", !.me.syncs = @ + 1]
  OBVIOUS
<1>4. Commit(w, r)
  BY <1>1, <1>3, Zenon DEF Prologue
<1>5. /\ r \in Views /\ Running(r, w) /\ OnlyOwn(r, s, w)
      /\ r.me.pc = "start" /\ r.me.turnsTaken = 0 /\ r.me.syncs = 1 /\ r.me.turnsGiven = 0
  <2>1. Goes(r, s, w, "start", 0, 1, 0)
    BY <1>2, <1>3, PrologueKeeps, Zenon
  <2>. QED  BY <2>1 DEF Goes
<1>. HIDE DEF t
<1>6. Count[0] = 1
  BY CountFacts
<1>7. Paced(r.me, w)
  BY <1>5, <1>6 DEF Paced, Short
<1>8. InStep(r.me, other)
  BY <1>2, <1>5 DEF InStep, Waiting
<1>9. Stored(r.me) = Stored(me)
  BY <1>2, <1>5 DEF Stored, Short
<1>10. r.me.syncs >= me.syncs /\ (tile.turns => r.me.turnsGiven >= me.turnsGiven)
  BY <1>2, <1>5
<1>. QED  BY <1>1, <1>4, <1>5, <1>7, <1>8, <1>9, <1>10 DEF Moves

LEMMA StartMoves ==
  ASSUME Planned, Kernel, NEW w \in Warps, Start(w)
  PROVE  \E r : Moves(w, r) /\ Stored(r.me) = Stored(warp[w])
<1>1. PICK s, me, other : s = View(w) /\ me = warp[w] /\ other = warp[1 - w]
  OBVIOUS
<1>2. /\ s \in Views /\ s.me = me /\ me.pc = "start" /\ Running(s, w) /\ Paced(me, w) /\ InStep(me, other)
      /\ me.turnsTaken \in Nat /\ me.syncs \in Nat /\ me.turnsGiven \in Nat
      /\ other.syncs \in Nat /\ other.turnsGiven \in Nat /\ tile.turns \in BOOLEAN
  BY <1>1, KernelFacts DEF Start
<1>3. PICK given \in Nat : given = IF tile.turns /\ w = 1 THEN 1 ELSE 0
  OBVIOUS
<1>4. PICK r : r = [s EXCEPT !.me.pc = "loop", !.me.turnsGiven = given]
  OBVIOUS
<1>5. Commit(w, r)
  BY <1>1, <1>3, <1>4, Zenon DEF Start
<1>6. /\ r \in Views /\ Running(r, w) /\ OnlyOwn(r, s, w)
      /\ r.me.pc = "loop" /\ r.me.turnsTaken = me.turnsTaken /\ r.me.syncs = me.syncs
      /\ r.me.turnsGiven = given
  <2>1. s.me.pc = "start"
    BY <1>2
  <2>2. Goes(r, s, w, "loop", s.me.turnsTaken, s.me.syncs, given)
    BY <1>2, <1>4, <2>1, StartKeeps, Zenon
  <2>. QED  BY <1>2, <2>2 DEF Goes
<1>7. me.turnsTaken = 0
  BY <1>2 DEF Running, Walks
<1>8. other.syncs >= me.syncs
  <2>1. 1 - w \in Warps
    BY DEF Warps
  <2>. QED  BY <1>1, <2>1 DEF Start, BarrierPassed
<1>9. Paced(r.me, w)
  BY <1>2, <1>3, <1>6, <1>7 DEF Paced, Short
<1>10. InStep(r.me, other)
  BY <1>2, <1>6, <1>8 DEF InStep, Waiting
<1>11. Stored(r.me) = Stored(me)
  BY <1>2, <1>6 DEF Stored, Short
<1>12. r.me.syncs >= me.syncs /\ (tile.turns => r.me.turnsGiven >= me.turnsGiven)
  <2>1. tile.turns => me.turnsGiven = 0
    BY <1>2, <1>7 DEF Paced
  <2>. QED  BY <1>2, <1>6, <2>1
<1>. QED  BY <1>1, <1>5, <1>6, <1>9, <1>10, <1>11, <1>12 DEF Moves

\* Which row the loop is at, and that it is there for this warp to read.
LEMMA EnteringFacts ==
  ASSUME Planned, Kernel, NEW w \in Warps, Entering(w)
  PROVE  LET s == View(w)  me == warp[w]  other == warp[1 - w]
         IN  /\ s \in Views /\ s.me = me /\ me.pc = "loop" /\ Running(s, w) /\ Paced(me, w) /\ InStep(me, other)
             /\ me.turnsTaken \in Nat /\ me.syncs \in Nat /\ me.turnsGiven \in Nat
             /\ other.syncs \in Nat /\ other.turnsGiven \in Nat /\ tile.turns \in BOOLEAN
             /\ At(me) = me.turnsTaken /\ At(me) \in Runs /\ (At(me) \in NewRows <=> NewRow(w))
             /\ tile.turns => other.turnsGiven > me.turnsTaken
             /\ NewRow(w) => RowIn(s.q, Rows[me.turnsTaken])
<1>1. PICK s, me, other : s = View(w) /\ me = warp[w] /\ other = warp[1 - w]
  OBVIOUS
<1>2. /\ s \in Views /\ s.me = me /\ me.pc = "loop" /\ Running(s, w) /\ Paced(me, w) /\ InStep(me, other)
      /\ me.turnsTaken \in Nat /\ me.syncs \in Nat /\ me.turnsGiven \in Nat
      /\ other.syncs \in Nat /\ other.turnsGiven \in Nat /\ tile.turns \in BOOLEAN
  BY <1>1, KernelFacts DEF Entering
<1>3. At(me) = me.turnsTaken /\ At(me) \in Runs /\ (At(me) \in NewRows <=> NewRow(w))
  <2>1. ~IsLastTask(me.q, me.kv)
    BY <1>1 DEF Entering
  <2>2. me.pc \notin Busy
    BY <1>2 DEF Busy
  <2>3. (At(me) \in Runs <=> ~IsLastTask(me.q, me.kv)) /\ At(me) = me.turnsTaken
        /\ (At(me) \in NewRows <=> me.first \/ me.kv = 0)
    BY <1>2, <2>2, RunningFacts
  <2>. QED  BY <1>1, <2>1, <2>3 DEF NewRow
<1>4. tile.turns => other.turnsGiven > me.turnsTaken
  BY <1>1 DEF Entering, HasTurn
<1>5. ASSUME NewRow(w)  PROVE RowIn(s.q, Rows[me.turnsTaken])
  <2>1. CASE w = 0
    <3>1. Rows[me.turnsTaken] \in Fetched
      BY <1>2, <1>3, <1>5, RowsFacts
    <3>. QED  BY <1>2, <2>1, <3>1 DEF Running, RowsIn, RowIn
  <2>2. CASE w = 1
    <3>1. PICK u : u = View(0)
      OBVIOUS
    <3>2. 0 \in Warps /\ 1 - 0 = 1 /\ 1 - 1 = 0
      BY DEF Warps
    <3>3. /\ u \in Views /\ u.me = other /\ u.q = s.q /\ Paced(other, 0) /\ InStep(other, me)
          /\ other.pc = "prologue" => Untouched(u, 0)
          /\ other.pc # "prologue" => Running(u, 0)
      <4>1. /\ u \in Views /\ u.me = warp[0] /\ u.q = smemQ /\ Paced(warp[0], 0) /\ InStep(warp[0], warp[1])
            /\ warp[0].pc = "prologue" => Untouched(u, 0)
            /\ warp[0].pc # "prologue" => Running(u, 0)
        BY <3>1, <3>2, KernelFacts
      <4>2. other = warp[0] /\ me = warp[1] /\ s.q = smemQ
        BY <1>1, <2>2, <3>2, KernelFacts
      <4>. QED  BY <4>1, <4>2
    <3>4. RowIn(s.q, Rows[s.me.turnsTaken])
      <4>1. u.me.pc = "prologue" \/ Running(u, 0)
        BY <3>3
      <4>. QED  BY <1>2, <1>3, <1>4, <1>5, <2>2, <3>3, <4>1, RowKept
    <3>. QED  BY <1>2, <3>4
  <2>. QED  BY <2>1, <2>2 DEF Warps
<1>. QED  BY <1>1, <1>2, <1>3, <1>4, <1>5

LEMMA SameRowMoves ==
  ASSUME Planned, Kernel, NEW w \in Warps, SameRow(w)
  PROVE  \E r : Moves(w, r) /\ Stored(r.me) = Stored(warp[w])
<1>1. PICK s, me, other : s = View(w) /\ me = warp[w] /\ other = warp[1 - w]
  OBVIOUS
<1>2. /\ s \in Views /\ s.me = me /\ me.pc = "loop" /\ Running(s, w) /\ Paced(me, w) /\ InStep(me, other)
      /\ me.turnsTaken \in Nat /\ me.syncs \in Nat /\ me.turnsGiven \in Nat
      /\ other.syncs \in Nat /\ other.turnsGiven \in Nat /\ tile.turns \in BOOLEAN
      /\ At(me) = me.turnsTaken /\ At(me) \in Runs /\ At(me) \notin NewRows
      /\ tile.turns => other.turnsGiven > me.turnsTaken
  BY <1>1, EnteringFacts DEF SameRow
<1>3. PICK r : r = [s EXCEPT !.me.turnsTaken = @ + 1, !.me.pc = "next"]
  OBVIOUS
<1>4. Commit(w, r)
  <2>1. Commit(w, [[s EXCEPT !.me.turnsTaken = @ + 1] EXCEPT !.me.pc = "next"])
    BY <1>1, Zenon DEF SameRow, Entered
  <2>2. [[s EXCEPT !.me.turnsTaken = @ + 1] EXCEPT !.me.pc = "next"] = r
    BY <1>3
  <2>. QED  BY <2>1, <2>2, Zenon
<1>5. /\ r \in Views /\ Running(r, w) /\ OnlyOwn(r, s, w)
      /\ r.me.pc = "next" /\ r.me.turnsTaken = me.turnsTaken + 1 /\ r.me.syncs = me.syncs
      /\ r.me.turnsGiven = me.turnsGiven
  <2>1. s.me.pc = "loop" /\ At(s.me) \in Runs /\ At(s.me) \notin NewRows
    BY <1>2
  <2>2. Goes(r, s, w, "next", s.me.turnsTaken + 1, s.me.syncs, s.me.turnsGiven)
    BY <1>2, <1>3, <2>1, SameRowKeeps, Zenon
  <2>. QED  BY <1>2, <2>2 DEF Goes
<1>6. PICK n \in Nat : n = me.turnsTaken /\ n \in Runs /\ n \notin NewRows
  BY <1>2
<1>7. Count[n + 1] = Count[n] + 1 /\ Count[n] \in Nat
  BY <1>6, CountFacts
<1>8. Paced(r.me, w)
  BY <1>2, <1>5, <1>6, <1>7 DEF Paced, Short
<1>9. InStep(r.me, other)
  BY <1>2, <1>5 DEF InStep, Waiting
<1>10. Stored(r.me) = Stored(me)
  BY <1>2, <1>5 DEF Stored, Short
<1>11. r.me.syncs >= me.syncs /\ (tile.turns => r.me.turnsGiven >= me.turnsGiven)
  BY <1>2, <1>5
<1>. QED  BY <1>1, <1>4, <1>5, <1>8, <1>9, <1>10, <1>11 DEF Moves

LEMMA ChangeRowMoves ==
  ASSUME Planned, Kernel, NEW w \in Warps, ChangeRow(w)
  PROVE  \E r : Moves(w, r) /\ Stored(r.me) = Stored(warp[w])
<1>1. PICK s, me, other : s = View(w) /\ me = warp[w] /\ other = warp[1 - w]
  OBVIOUS
<1>2. /\ s \in Views /\ s.me = me /\ me.pc = "loop" /\ Running(s, w) /\ Paced(me, w) /\ InStep(me, other)
      /\ me.turnsTaken \in Nat /\ me.syncs \in Nat /\ me.turnsGiven \in Nat
      /\ other.syncs \in Nat /\ other.turnsGiven \in Nat /\ tile.turns \in BOOLEAN
      /\ At(me) = me.turnsTaken /\ At(me) \in Runs /\ At(me) \in NewRows
      /\ tile.turns => other.turnsGiven > me.turnsTaken
      /\ RowIn(s.q, Rows[me.turnsTaken]) /\ tile.stageQ > 1
  BY <1>1, EnteringFacts DEF ChangeRow
<1>3. PICK r : r = ReadQ(PrefetchQ([s EXCEPT !.me.turnsTaken = @ + 1, !.me.pc = "next"], w))
  OBVIOUS
<1>4. Commit(w, r)
  <2>1. Commit(w, ReadQ(PrefetchQ([[s EXCEPT !.me.turnsTaken = @ + 1] EXCEPT !.me.pc = "next"], w)))
    BY <1>1, Zenon DEF ChangeRow, Entered
  <2>2. [[s EXCEPT !.me.turnsTaken = @ + 1] EXCEPT !.me.pc = "next"] = [s EXCEPT !.me.turnsTaken = @ + 1, !.me.pc = "next"]
    OBVIOUS
  <2>. QED  BY <1>3, <2>1, <2>2, Zenon
<1>5. /\ r \in Views /\ Running(r, w) /\ OnlyOwn(r, s, w)
      /\ r.me.pc = "next" /\ r.me.turnsTaken = me.turnsTaken + 1 /\ r.me.syncs = me.syncs
      /\ r.me.turnsGiven = me.turnsGiven
  <2>1. s.me.pc = "loop" /\ At(s.me) \in Runs /\ At(s.me) \in NewRows /\ RowIn(s.q, Rows[s.me.turnsTaken])
    BY <1>2
  <2>2. Goes(r, s, w, "next", s.me.turnsTaken + 1, s.me.syncs, s.me.turnsGiven)
    BY <1>2, <1>3, <2>1, ChangeRowKeeps, Zenon
  <2>. QED  BY <1>2, <2>2 DEF Goes
<1>6. PICK n \in Nat : n = me.turnsTaken /\ n \in Runs /\ n \in NewRows
  BY <1>2
<1>7. Count[n + 1] = Count[n] + 1 /\ Count[n] \in Nat
  <2>1. tile.stageQ # 1
    BY <1>2, Numbers
  <2>. QED  BY <1>6, <2>1, CountFacts
<1>8. Paced(r.me, w)
  BY <1>2, <1>5, <1>6, <1>7 DEF Paced, Short
<1>9. InStep(r.me, other)
  BY <1>2, <1>5 DEF InStep, Waiting
<1>10. Stored(r.me) = Stored(me)
  BY <1>2, <1>5 DEF Stored, Short
<1>11. r.me.syncs >= me.syncs /\ (tile.turns => r.me.turnsGiven >= me.turnsGiven)
  BY <1>2, <1>5
<1>. QED  BY <1>1, <1>4, <1>5, <1>8, <1>9, <1>10, <1>11 DEF Moves

LEMMA ReadRowMoves ==
  ASSUME Planned, Kernel, NEW w \in Warps, ReadRow(w)
  PROVE  \E r : Moves(w, r) /\ Stored(r.me) = Stored(warp[w])
<1>1. PICK s, me, other : s = View(w) /\ me = warp[w] /\ other = warp[1 - w]
  OBVIOUS
<1>2. /\ s \in Views /\ s.me = me /\ me.pc = "loop" /\ Running(s, w) /\ Paced(me, w) /\ InStep(me, other)
      /\ me.turnsTaken \in Nat /\ me.syncs \in Nat /\ me.turnsGiven \in Nat
      /\ other.syncs \in Nat /\ other.turnsGiven \in Nat /\ ~tile.turns
      /\ At(me) = me.turnsTaken /\ At(me) \in Runs /\ At(me) \in NewRows
      /\ RowIn(s.q, Rows[me.turnsTaken]) /\ tile.stageQ = 1
  <2>1. tile.stageQ = 1 /\ NewRow(w) /\ Entering(w)
    BY DEF ReadRow
  <2>2. ~tile.turns
    BY <2>1, Numbers
  <2>. QED  BY <1>1, <2>1, <2>2, EnteringFacts
<1>3. PICK r : r = ReadQ([s EXCEPT !.me.turnsTaken = @ + 1, !.me.pc = "refill", !.me.syncs = @ + 1])
  OBVIOUS
<1>4. Commit(w, r)
  <2>1. Commit(w, ReadQ([[s EXCEPT !.me.turnsTaken = @ + 1] EXCEPT !.me.pc = "refill", !.me.syncs = @ + 1]))
    BY <1>1, Zenon DEF ReadRow, Entered
  <2>2. [[s EXCEPT !.me.turnsTaken = @ + 1] EXCEPT !.me.pc = "refill", !.me.syncs = @ + 1]
          = [s EXCEPT !.me.turnsTaken = @ + 1, !.me.pc = "refill", !.me.syncs = @ + 1]
    OBVIOUS
  <2>. QED  BY <1>3, <2>1, <2>2, Zenon
<1>5. /\ r \in Views /\ Running(r, w) /\ OnlyOwn(r, s, w)
      /\ r.me.pc = "refill" /\ r.me.turnsTaken = me.turnsTaken + 1 /\ r.me.syncs = me.syncs + 1
      /\ r.me.turnsGiven = me.turnsGiven
  <2>1. s.me.pc = "loop" /\ At(s.me) \in Runs /\ At(s.me) \in NewRows /\ RowIn(s.q, Rows[s.me.turnsTaken])
    BY <1>2
  <2>2. Goes(r, s, w, "refill", s.me.turnsTaken + 1, s.me.syncs + 1, s.me.turnsGiven)
    BY <1>2, <1>3, <2>1, ReadRowKeeps, Zenon
  <2>. QED  BY <1>2, <2>2 DEF Goes
<1>6. PICK n \in Nat : n = me.turnsTaken /\ n \in Runs /\ n \in NewRows
  BY <1>2
<1>7. Count[n + 1] = Count[n] + 2 /\ Count[n] \in Nat
  BY <1>2, <1>6, CountFacts
<1>8. Paced(r.me, w)
  BY <1>2, <1>5, <1>6, <1>7 DEF Paced, Short
<1>9. InStep(r.me, other)
  BY <1>2, <1>5 DEF InStep, Waiting
<1>10. Stored(r.me) = Stored(me)
  BY <1>2, <1>5 DEF Stored, Short
<1>11. r.me.syncs >= me.syncs /\ (tile.turns => r.me.turnsGiven >= me.turnsGiven)
  BY <1>2, <1>5
<1>. QED  BY <1>1, <1>4, <1>5, <1>8, <1>9, <1>10, <1>11 DEF Moves

LEMMA RefillRowMoves ==
  ASSUME Planned, Kernel, NEW w \in Warps, RefillRow(w)
  PROVE  \E r : Moves(w, r) /\ Stored(r.me) = Stored(warp[w])
<1>1. PICK s, me, other : s = View(w) /\ me = warp[w] /\ other = warp[1 - w]
  OBVIOUS
<1>2. /\ s \in Views /\ s.me = me /\ me.pc = "refill" /\ Running(s, w) /\ Paced(me, w) /\ InStep(me, other)
      /\ me.turnsTaken \in Nat /\ me.syncs \in Nat /\ me.turnsGiven \in Nat
      /\ other.syncs \in Nat /\ other.turnsGiven \in Nat /\ tile.turns \in BOOLEAN
      /\ tile.turns => tile.stageQ = 2
  BY <1>1, KernelFacts DEF RefillRow
<1>3. PICK r : r = PrefetchQ([s EXCEPT !.me.pc = "next"], w)
  OBVIOUS
<1>4. Commit(w, r)
  BY <1>1, <1>3, Zenon DEF RefillRow
<1>5. /\ r \in Views /\ Running(r, w) /\ OnlyOwn(r, s, w)
      /\ r.me.pc = "next" /\ r.me.turnsTaken = me.turnsTaken /\ r.me.syncs = me.syncs
      /\ r.me.turnsGiven = me.turnsGiven
  <2>1. s.me.pc = "refill"
    BY <1>2
  <2>2. Goes(r, s, w, "next", s.me.turnsTaken, s.me.syncs, s.me.turnsGiven)
    BY <1>2, <1>3, <2>1, RefillRowKeeps, Zenon
  <2>. QED  BY <1>2, <2>2 DEF Goes
<1>6. ~tile.turns
  BY <1>2 DEF Running, Walks
<1>7. other.syncs >= me.syncs
  <2>1. 1 - w \in Warps
    BY DEF Warps
  <2>. QED  BY <1>1, <2>1 DEF RefillRow, BarrierPassed
<1>8. Paced(r.me, w)
  BY <1>2, <1>5, <1>6 DEF Paced, Short
<1>9. InStep(r.me, other)
  BY <1>2, <1>5, <1>6, <1>7 DEF InStep, Waiting
<1>10. Stored(r.me) = Stored(me)
  BY <1>2, <1>5 DEF Stored, Short
<1>11. r.me.syncs >= me.syncs /\ (tile.turns => r.me.turnsGiven >= me.turnsGiven)
  BY <1>2, <1>5
<1>. QED  BY <1>1, <1>4, <1>5, <1>8, <1>9, <1>10, <1>11 DEF Moves

LEMMA LoadAheadMoves ==
  ASSUME Planned, Kernel, NEW w \in Warps, LoadAhead(w)
  PROVE  \E r : Moves(w, r) /\ Stored(r.me) = Stored(warp[w])
<1>1. PICK s, me, other : s = View(w) /\ me = warp[w] /\ other = warp[1 - w]
  OBVIOUS
<1>2. /\ s \in Views /\ s.me = me /\ me.pc = "next" /\ Running(s, w) /\ Paced(me, w) /\ InStep(me, other)
      /\ me.turnsTaken \in Nat /\ me.syncs \in Nat /\ me.turnsGiven \in Nat
      /\ other.syncs \in Nat /\ other.turnsGiven \in Nat /\ tile.turns \in BOOLEAN
  BY <1>1, KernelFacts DEF LoadAhead
<1>3. PICK r : r = LoadNext([s EXCEPT !.me.pc = "mma"], w, FALSE)
  OBVIOUS
<1>4. Commit(w, r)
  BY <1>1, <1>3, Zenon DEF LoadAhead
<1>5. /\ r \in Views /\ Running(r, w) /\ OnlyOwn(r, s, w)
      /\ r.me.pc = "mma" /\ r.me.turnsTaken = me.turnsTaken /\ r.me.syncs = me.syncs
      /\ r.me.turnsGiven = me.turnsGiven
  <2>1. s.me.pc = "next"
    BY <1>2
  <2>2. Goes(r, s, w, "mma", s.me.turnsTaken, s.me.syncs, s.me.turnsGiven)
    BY <1>2, <1>3, <2>1, LoadAheadKeeps, Zenon
  <2>. QED  BY <1>2, <2>2 DEF Goes
<1>6. Paced(r.me, w)
  BY <1>2, <1>5 DEF Paced, Short
<1>7. InStep(r.me, other)
  BY <1>2, <1>5 DEF InStep, Waiting
<1>8. Stored(r.me) = Stored(me)
  BY <1>2, <1>5 DEF Stored, Short
<1>9. r.me.syncs >= me.syncs /\ (tile.turns => r.me.turnsGiven >= me.turnsGiven)
  BY <1>2, <1>5
<1>. QED  BY <1>1, <1>4, <1>5, <1>6, <1>7, <1>8, <1>9 DEF Moves

\* The tile a warp multiplies is in its ring, until it has stored the logits.
LEMMA TileReady ==
  ASSUME Planned, Kernel, NEW w \in Warps, warp[w].pc \in {"mma", "store"}
  PROVE  TileIn(smemK[Group(w)], At(warp[w]), Group(w), {})
<1>1. PICK s, me, other : s = View(w) /\ me = warp[w] /\ other = warp[1 - w]
  OBVIOUS
<1>2. /\ s \in Views /\ s.me = me /\ s.k = smemK /\ Running(s, w) /\ Paced(me, w) /\ InStep(me, other)
      /\ me.pc \in {"mma", "store"}
  BY <1>1, KernelFacts
<1>3. CASE LoadsK(w)
  <2>1. Group(w) = w
    BY <1>3, GroupFacts
  <2>2. TilesIn(s.me, s.p, s.k[w], w)
    BY <1>2, <1>3 DEF Running
  <2>3. me.pc # "done"
    BY <1>2
  <2>. QED  BY <1>1, <1>2, <2>1, <2>2, <2>3 DEF TilesIn
<1>4. CASE ~LoadsK(w)
  <2>1. w = 1 /\ Group(w) = 0
    BY <1>4, GroupFacts
  <2>2. PICK u : u = View(0)
    OBVIOUS
  <2>3. 0 \in Warps /\ 1 - 0 = 1 /\ 1 - 1 = 0
    BY DEF Warps
  <2>4. /\ u \in Views /\ u.me = warp[0] /\ u.k = smemK /\ Paced(warp[0], 0) /\ InStep(warp[0], warp[1])
        /\ warp[0].pc = "prologue" => Untouched(u, 0)
        /\ warp[0].pc # "prologue" => Running(u, 0)
    BY <2>2, <2>3, KernelFacts
  <2>5. other = warp[0] /\ me = warp[1]
    BY <1>1, <2>1, <2>3
  <2>6. /\ s.k = u.k /\ ~LoadsK(1) /\ Running(s, 1) /\ (u.me.pc = "prologue" \/ Running(u, 0))
        /\ Paced(s.me, 1) /\ Paced(u.me, 0) /\ InStep(s.me, u.me) /\ InStep(u.me, s.me)
        /\ s.me.pc \in {"mma", "store"}
    BY <1>2, <1>4, <2>1, <2>4, <2>5
  <2>7. TileIn(s.k[0], At(s.me), 0, {})
    BY <1>2, <2>4, <2>6, TileKept
  <2>. QED  BY <1>1, <1>2, <2>1, <2>7
<1>. QED  BY <1>3, <1>4

LEMMA MultiplyMoves ==
  ASSUME Planned, Kernel, NEW w \in Warps, Multiply(w)
  PROVE  \E r : Moves(w, r) /\ Stored(r.me) = Stored(warp[w])
<1>1. PICK s, me, other : s = View(w) /\ me = warp[w] /\ other = warp[1 - w]
  OBVIOUS
<1>2. /\ s \in Views /\ s.me = me /\ s.k = smemK /\ me.pc = "mma" /\ Running(s, w) /\ Paced(me, w) /\ InStep(me, other)
      /\ me.turnsTaken \in Nat /\ me.syncs \in Nat /\ me.turnsGiven \in Nat
      /\ other.syncs \in Nat /\ other.turnsGiven \in Nat /\ tile.turns \in BOOLEAN
  BY <1>1, KernelFacts DEF Multiply
<1>3. PICK given \in Nat : given = IF tile.turns THEN me.turnsGiven + 1 ELSE me.turnsGiven
  BY <1>2
<1>4. PICK r : r = [s EXCEPT !.me.pc = "store", !.me.acc = <<s.me.regs, s.k[Group(w)][s.me.readK]>>,
                             !.me.turnsGiven = given]
  OBVIOUS
<1>5. Commit(w, r)
  <2>1. Commit(w, [s EXCEPT !.me.pc = "store", !.me.acc = <<warp[w].regs, smemK[Group(w)][warp[w].readK]>>,
                            !.me.turnsGiven = IF tile.turns THEN @ + 1 ELSE @])
    BY <1>1, Zenon DEF Multiply
  <2>2. [s EXCEPT !.me.pc = "store", !.me.acc = <<s.me.regs, s.k[Group(w)][s.me.readK]>>,
                  !.me.turnsGiven = IF tile.turns THEN @ + 1 ELSE @] = r
    BY <1>2, <1>3, <1>4
  <2>3. <<warp[w].regs, smemK[Group(w)][warp[w].readK]>> = <<s.me.regs, s.k[Group(w)][s.me.readK]>>
    BY <1>1, <1>2
  <2>. QED  BY <2>1, <2>2, <2>3, Zenon
<1>6. /\ r \in Views /\ Running(r, w) /\ OnlyOwn(r, s, w)
      /\ r.me.pc = "store" /\ r.me.turnsTaken = me.turnsTaken /\ r.me.syncs = me.syncs
      /\ r.me.turnsGiven = given
  <2>0. given \in Nat
    BY <1>2, <1>3
  <2>1. s \in Views /\ Running(s, w) /\ s.me.pc = "mma" /\ TileIn(s.k[Group(w)], At(s.me), Group(w), {})
    BY <1>1, <1>2, TileReady
  <2>2. Goes(r, s, w, "store", s.me.turnsTaken, s.me.syncs, given)
    BY <1>4, <2>0, <2>1, MultiplyKeeps, Zenon
  <2>. QED  BY <1>2, <2>2 DEF Goes
<1>7. Paced(r.me, w)
  BY <1>2, <1>3, <1>6 DEF Paced, Short
<1>8. InStep(r.me, other)
  BY <1>2, <1>6 DEF InStep, Waiting
<1>9. Stored(r.me) = Stored(me)
  BY <1>2, <1>6 DEF Stored, Short
<1>10. r.me.syncs >= me.syncs /\ (tile.turns => r.me.turnsGiven >= me.turnsGiven)
  BY <1>2, <1>3, <1>6
<1>. QED  BY <1>1, <1>5, <1>6, <1>7, <1>8, <1>9, <1>10 DEF Moves

LEMMA StoreMoves ==
  ASSUME Planned, Kernel, NEW w \in Warps, Store(w)
  PROVE  \E r : Moves(w, r) /\ Stored(r.me) = Stored(warp[w]) + 1
<1>1. PICK s, me, other : s = View(w) /\ me = warp[w] /\ other = warp[1 - w]
  OBVIOUS
<1>2. /\ s \in Views /\ s.me = me /\ me.pc = "store" /\ Running(s, w) /\ Paced(me, w) /\ InStep(me, other)
      /\ me.turnsTaken \in Nat /\ me.syncs \in Nat /\ me.turnsGiven \in Nat
      /\ other.syncs \in Nat /\ other.turnsGiven \in Nat /\ tile.turns \in BOOLEAN
  BY <1>1, KernelFacts DEF Store
<1>3. PICK n1 \in Nat : n1 = IF tile.turns THEN me.syncs ELSE me.syncs + 1
  BY <1>2
<1>4. PICK t : t = WaitCopies(s, w, 1)
  OBVIOUS
<1>5. PICK r : r = [t EXCEPT !.me.pc = "advance", !.me.syncs = n1]
  OBVIOUS
<1>6. Commit(w, r)
  <2>1. StageK - 2 = 1
    BY DEF StageK
  <2>2. t \in Views /\ t.me = me
    BY <1>2, <1>4, <2>1, WaitMe
  <2>3. Commit(w, [t EXCEPT !.me.pc = "advance", !.me.syncs = IF tile.turns THEN @ ELSE @ + 1])
    <3>1. Commit(w, [WaitCopies(View(w), w, StageK - 2) EXCEPT !.me.pc = "advance",
                                  !.me.syncs = IF tile.turns THEN @ ELSE @ + 1])
      BY Zenon DEF Store
    <3>. QED  BY <1>1, <1>4, <2>1, <3>1, Zenon
  <2>4. [t EXCEPT !.me.pc = "advance", !.me.syncs = IF tile.turns THEN @ ELSE @ + 1] = r
    BY <1>3, <1>5, <2>2
  <2>. QED  BY <2>3, <2>4, Zenon
<1>7. /\ r \in Views /\ Running(r, w) /\ OnlyOwn(r, s, w)
      /\ r.me.pc = "advance" /\ r.me.turnsTaken = me.turnsTaken /\ r.me.syncs = n1
      /\ r.me.turnsGiven = me.turnsGiven
  <2>0. n1 \in Nat
    BY <1>2, <1>3
  <2>1. s \in Views /\ Running(s, w) /\ s.me.pc = "store"
    BY <1>2
  <2>2. Goes(r, s, w, "advance", s.me.turnsTaken, n1, s.me.turnsGiven)
    BY <1>4, <1>5, <2>0, <2>1, StoreKeeps, Zenon
  <2>. QED  BY <1>2, <2>2 DEF Goes
<1>8. Paced(r.me, w)
  <2>1. Count[me.turnsTaken] \in Nat /\ Count[me.turnsTaken] > 0
    BY <1>2, CountFacts
  <2>. QED  BY <1>2, <1>3, <1>7, <2>1 DEF Paced, Short
<1>9. InStep(r.me, other)
  BY <1>2, <1>3, <1>7 DEF InStep, Waiting
<1>10. Stored(r.me) = Stored(me) + 1
  BY <1>2, <1>7 DEF Stored, Short
<1>11. r.me.syncs >= me.syncs /\ (tile.turns => r.me.turnsGiven >= me.turnsGiven)
  BY <1>2, <1>3, <1>7
<1>. QED  BY <1>1, <1>6, <1>7, <1>8, <1>9, <1>10, <1>11 DEF Moves

LEMMA AdvanceMoves ==
  ASSUME Planned, Kernel, NEW w \in Warps, Advance(w)
  PROVE  \E r : Moves(w, r) /\ Stored(r.me) = Stored(warp[w])
<1>1. PICK s, me, other : s = View(w) /\ me = warp[w] /\ other = warp[1 - w]
  OBVIOUS
<1>2. /\ s \in Views /\ s.me = me /\ me.pc = "advance" /\ Running(s, w) /\ Paced(me, w) /\ InStep(me, other)
      /\ me.turnsTaken \in Nat /\ me.syncs \in Nat /\ me.turnsGiven \in Nat
      /\ other.syncs \in Nat /\ other.turnsGiven \in Nat /\ tile.turns \in BOOLEAN
  BY <1>1, KernelFacts DEF Advance
<1>3. PICK stage, kv : stage = (s.me.readK + 1) % StageK /\ kv = s.me.kvArray[stage]
  OBVIOUS
<1>4. PICK r : r = [s EXCEPT !.me.pc = "loop", !.me.readK = stage, !.me.kv = kv,
                             !.me.q = IF kv = 0 THEN @ + 1 ELSE @, !.me.first = FALSE, !.me.acc = <<>>]
  OBVIOUS
<1>5. Commit(w, r)
  <2>1. stage = (warp[w].readK + 1) % StageK /\ kv = warp[w].kvArray[stage]
    BY <1>1, <1>2, <1>3
  <2>2. Commit(w, [View(w) EXCEPT !.me.pc = "loop", !.me.readK = stage, !.me.kv = kv,
                      !.me.q = IF kv = 0 THEN @ + 1 ELSE @, !.me.first = FALSE, !.me.acc = <<>>])
    BY <2>1, Zenon DEF Advance
  <2>. QED  BY <1>1, <1>4, <2>2, Zenon
<1>6. /\ r \in Views /\ Running(r, w) /\ OnlyOwn(r, s, w)
      /\ r.me.pc = "loop" /\ r.me.turnsTaken = me.turnsTaken /\ r.me.syncs = me.syncs
      /\ r.me.turnsGiven = me.turnsGiven
  <2>1. s.me.pc = "advance"
    BY <1>2
  <2>2. Goes(r, s, w, "loop", s.me.turnsTaken, s.me.syncs, s.me.turnsGiven)
    BY <1>2, <1>3, <1>4, <2>1, AdvanceKeeps, Zenon
  <2>. QED  BY <1>2, <2>2 DEF Goes
<1>7. tile.turns \/ other.syncs >= me.syncs
  <2>1. 1 - w \in Warps
    BY DEF Warps
  <2>. QED  BY <1>1, <2>1 DEF Advance, BarrierPassed
<1>8. Paced(r.me, w)
  BY <1>2, <1>6 DEF Paced, Short
<1>9. InStep(r.me, other)
  BY <1>2, <1>6, <1>7 DEF InStep, Waiting
<1>10. Stored(r.me) = Stored(me)
  BY <1>2, <1>6 DEF Stored, Short
<1>11. r.me.syncs >= me.syncs /\ (tile.turns => r.me.turnsGiven >= me.turnsGiven)
  BY <1>2, <1>6
<1>. QED  BY <1>1, <1>5, <1>6, <1>8, <1>9, <1>10, <1>11 DEF Moves

LEMMA LeaveMoves ==
  ASSUME Planned, Kernel, NEW w \in Warps, Leave(w)
  PROVE  \E r : Moves(w, r) /\ Stored(r.me) = Stored(warp[w])
<1>1. PICK s, me, other : s = View(w) /\ me = warp[w] /\ other = warp[1 - w]
  OBVIOUS
<1>2. /\ s \in Views /\ s.me = me /\ me.pc = "loop" /\ Running(s, w) /\ Paced(me, w) /\ InStep(me, other)
      /\ me.turnsTaken \in Nat /\ me.syncs \in Nat /\ me.turnsGiven \in Nat
      /\ other.syncs \in Nat /\ other.turnsGiven \in Nat /\ tile.turns \in BOOLEAN
  BY <1>1, KernelFacts DEF Leave
<1>3. PICK r : r = [WaitCopies(s, w, 0) EXCEPT !.me.pc = "done"]
  OBVIOUS
<1>4. Commit(w, r)
  BY <1>1, <1>3, Zenon DEF Leave
<1>5. /\ r \in Views /\ Running(r, w) /\ OnlyOwn(r, s, w)
      /\ r.me.pc = "done" /\ r.me.turnsTaken = me.turnsTaken /\ r.me.syncs = me.syncs
      /\ r.me.turnsGiven = me.turnsGiven
  <2>1. IsLastTask(s.me.q, s.me.kv)
    BY <1>1, <1>2 DEF Leave
  <2>2. s.me.pc = "loop" /\ At(s.me) \notin Runs
    BY <1>2, <2>1, RunningFacts
  <2>3. Goes(r, s, w, "done", s.me.turnsTaken, s.me.syncs, s.me.turnsGiven)
    BY <1>2, <1>3, <2>2, LeaveKeeps, Zenon
  <2>. QED  BY <1>2, <2>3 DEF Goes
<1>6. Paced(r.me, w)
  BY <1>2, <1>5 DEF Paced, Short
<1>7. InStep(r.me, other)
  BY <1>2, <1>5 DEF InStep, Waiting
<1>8. Stored(r.me) = Stored(me)
  BY <1>2, <1>5 DEF Stored, Short
<1>9. r.me.syncs >= me.syncs /\ (tile.turns => r.me.turnsGiven >= me.turnsGiven)
  BY <1>2, <1>5
<1>. QED  BY <1>1, <1>4, <1>5, <1>6, <1>7, <1>8, <1>9 DEF Moves

-----------------------------------------------------------------------------
(* The invariant of the logits kernel is kept. *)

\* While a CTA runs its tasks stay what they are.
LEMMA Frozen ==
  ASSUME LogitsUnchanged
  PROVE  /\ Task' = Task /\ Runs' = Runs /\ NewRows' = NewRows /\ Rows' = Rows /\ Row' = Row
         /\ Fetched' = Fetched /\ Filled' = Filled /\ QSlot' = QSlot /\ QSlots' = QSlots /\ Count' = Count
         /\ \A t : (Last(t)' <=> Last(t))
         /\ \A s : Segment(s)' = Segment(s)
         /\ tile' = tile /\ context' = context /\ cta' = cta /\ meta' = meta
<1>1. tile' = tile /\ context' = context /\ cta' = cta /\ meta' = meta
  BY DEF LogitsUnchanged, metaVars
<1>2. \A s : Segment(s)' = Segment(s)
  BY <1>1 DEF Segment
<1>3. End' = End
  BY <1>1, <1>2 DEF End
<1>4. \A q : NumKv(q)' = NumKv(q)
  BY <1>1 DEF NumKv, ActualBatch
<1>5. \A t : Last(t)' <=> Last(t)
  BY <1>3 DEF Last, IsLastTask
<1>6. \A t : Following(t)' = Following(t)
  BY <1>1, <1>4, <1>5 DEF Following
<1>7. Successor' = Successor
  BY <1>6 DEF Successor
<1>8. Segment(cta)' = Segment(cta)
  BY <1>1 DEF Segment
<1>9. Task' = Task
  BY <1>7, <1>8 DEF Task
<1>10. Runs' = Runs
  BY <1>5, <1>9 DEF Runs
<1>11. NewRows' = NewRows
  BY <1>9 DEF NewRows
<1>12. Rows' = Rows
  BY <1>9 DEF Rows
<1>13. Row' = Row
  BY <1>9 DEF Row
<1>14. \A q : ExistQ(q)' <=> ExistQ(q)
  BY <1>3 DEF ExistQ
<1>15. Fetched' = Fetched
  BY <1>5, <1>9, <1>14 DEF Fetched
<1>16. Filled' = Filled
  BY <1>4, <1>5, <1>9 DEF Filled
<1>17. QSlot' = QSlot /\ QSlots' = QSlots
  BY <1>1 DEF QSlot, QSlots
<1>18. Count' = Count
  BY <1>1, <1>12 DEF Count
<1>. QED  BY <1>1, <1>2, <1>5, <1>9, <1>10, <1>11, <1>12, <1>13, <1>15, <1>16, <1>17, <1>18

LEMMA FrozenPlan ==
  ASSUME LogitsUnchanged, Planned
  PROVE  Planned'
<1>1. tile' = tile /\ context' = context /\ cta' = cta /\ \A s : Segment(s)' = Segment(s)
  BY Frozen
<1>2. PlannedBatch' = PlannedBatch
  BY <1>1 DEF PlannedBatch
<1>3. \A t : Position(t)' <=> Position(t)
  BY <1>1, <1>2 DEF Position
<1>4. \A s : Position(Segment(s))' <=> Position(Segment(s))
  BY <1>1, <1>2 DEF Position
<1>5. \A s, u : Before(Segment(u), Segment(s))' <=> Before(Segment(u), Segment(s))
  BY <1>1 DEF Before
<1>6. Schedule'
  BY <1>4, <1>5 DEF Schedule, Planned
<1>. QED  BY <1>1, <1>6 DEF Planned

LEMMA FrozenSets ==
  ASSUME LogitsUnchanged
  PROVE  Privates' = Privates /\ QRings' = QRings /\ KRings' = KRings /\ Queues' = Queues /\ Views' = Views
<1>1. tile' = tile /\ QSlots' = QSlots
  BY Frozen
<1>2. Privates' = Privates
  BY <1>1 DEF Privates
<1>3. QRings' = QRings
  BY <1>1 DEF QRings
<1>4. KRings' = KRings
  BY <1>1 DEF KRings
<1>5. Keys' = Keys
  BY <1>1 DEF Keys
<1>6. Queues' = Queues
  BY <1>5 DEF Queues
<1>7. Views' = Views
  BY <1>2, <1>3, <1>4, <1>6 DEF Views
<1>. QED  BY <1>2, <1>3, <1>4, <1>6, <1>7

\* What is known of a warp depends on the constants of its CTA only.
LEMMA FrozenWarp ==
  ASSUME LogitsUnchanged, NEW r, NEW w
  PROVE  /\ Running(r, w) => Running(r, w)'
         /\ Paced(r.me, w) => Paced(r.me, w)'
         /\ Untouched(r, w) => Untouched(r, w)'
         /\ \A other : InStep(r.me, other) => InStep(r.me, other)'
<1>1. /\ Task' = Task /\ Runs' = Runs /\ NewRows' = NewRows /\ Rows' = Rows /\ Row' = Row
      /\ Fetched' = Fetched /\ Filled' = Filled /\ QSlot' = QSlot /\ QSlots' = QSlots /\ Count' = Count
      /\ tile' = tile /\ cta' = cta /\ \A s : Segment(s)' = Segment(s)
  BY Frozen
<1>2. Group(w)' = Group(w) /\ (LoadsK(w)' <=> LoadsK(w))
  BY <1>1 DEF Group, LoadsK
<1>3. Walks(r.me) => Walks(r.me)'
  BY <1>1 DEF Walks, At
<1>4. Reads(r.me, w) => Reads(r.me, w)'
  BY <1>1, <1>2 DEF Reads, At
<1>5. Queued(r.me, r.p, w) => Queued(r.me, r.p, w)'
  BY <1>1, <1>2 DEF Queued
<1>6. TilesIn(r.me, r.p, r.k[w], w) => TilesIn(r.me, r.p, r.k[w], w)'
  BY <1>1 DEF TilesIn, TileIn, At
<1>7. RowsIn(r.me, r.p, r.q) => RowsIn(r.me, r.p, r.q)'
  BY <1>1 DEF RowsIn, RowIn
<1>8. Running(r, w) => Running(r, w)'
  BY <1>2, <1>3, <1>4, <1>5, <1>6, <1>7 DEF Running
<1>9. Paced(r.me, w) => Paced(r.me, w)'
  BY <1>1 DEF Paced
<1>10. Untouched(r, w) => Untouched(r, w)'
  <2>1. WarpStart(cta)' = WarpStart(cta)
    BY <1>1 DEF WarpStart
  <2>. QED  BY <1>1, <1>2, <2>1 DEF Untouched
<1>11. \A other : InStep(r.me, other) => InStep(r.me, other)'
  BY <1>1 DEF InStep
<1>. QED  BY <1>8, <1>9, <1>10, <1>11

LEMMA KernelKept ==
  ASSUME Planned, Kernel, LogitsUnchanged, NEW w \in Warps, NEW r, Moves(w, r)
  PROVE  Kernel'
<1>1. /\ warp \in [Warps -> Privates] /\ pending \in [Warps -> Queues]
      /\ warp' = [warp EXCEPT ![w] = r.me] /\ smemQ' = r.q /\ smemK' = r.k
      /\ pending' = [pending EXCEPT ![w] = r.p]
      /\ r \in Views /\ r.me \in Privates /\ r.q \in QRings /\ r.k \in KRings /\ r.p \in Queues
  BY ViewFacts DEF Moves, Commit, Kernel
<1>2. PICK v \in Warps : v = 1 - w /\ w = 1 - v /\ v # w
  BY DEF Warps
<1>3. warp'[w] = r.me /\ warp'[v] = warp[v] /\ pending'[w] = r.p /\ pending'[v] = pending[v]
  BY <1>1, <1>2
<1>4. warp' \in [Warps -> Privates]' /\ pending' \in [Warps -> Queues]' /\ Rings'
  <2>1. warp' \in [Warps -> Privates] /\ pending' \in [Warps -> Queues]
    BY <1>1
  <2>2. Privates' = Privates /\ QRings' = QRings /\ KRings' = KRings /\ Queues' = Queues
    BY FrozenSets
  <2>. QED  BY <1>1, <2>1, <2>2 DEF Rings, Warps
<1>5. View(w)' = r
  BY <1>1, <1>3 DEF View, Views
<1>6. WarpOK(r, w)'
  <2>1. r \in Views'
    BY <1>1, FrozenSets
  <2>2. Paced(r.me, w)' /\ Running(r, w)'
    BY FrozenWarp DEF Moves
  <2>3. r.me.pc # "prologue"
    BY DEF Moves, Running, Walks, Busy
  <2>. QED  BY <2>1, <2>2, <2>3 DEF WarpOK
<1>7. PICK s, u : s = View(v) /\ u = View(v)'
  OBVIOUS
<1>8. /\ s \in Views /\ s.me = warp[v] /\ s.q = smemQ /\ s.k = smemK /\ s.p = pending[v]
      /\ Paced(s.me, v) /\ InStep(s.me, warp[w])
      /\ s.me.pc = "prologue" => Untouched(s, v)
      /\ s.me.pc # "prologue" => Running(s, v)
  BY <1>2, <1>7, KernelFacts
<1>9. u.me = s.me /\ u.p = s.p /\ u.q = r.q /\ u.k = r.k /\ u \in Views
  <2>1. u = [me |-> warp[v], q |-> r.q, k |-> r.k, p |-> pending[v]]
    BY <1>1, <1>3, <1>7 DEF View
  <2>2. warp[v] \in Privates /\ pending[v] \in Queues
    BY <1>1
  <2>. QED  BY <1>1, <1>8, <2>1, <2>2 DEF Views
<1>10. (v = 0 => u.q = s.q) /\ (LoadsK(v) => u.k[v] = s.k[v])
  <2>1. OnlyOwn(r, View(w), w) /\ View(w).q = smemQ /\ View(w).k = smemK
    BY DEF Moves, View
  <2>2. v = 0 => w # 0
    BY <1>2
  <2>3. LoadsK(v) => v \in 0 .. tile.groups - 1
    BY GroupFacts
  <2>. QED  BY <1>2, <1>8, <1>9, <2>1, <2>2, <2>3 DEF OnlyOwn
<1>11. u.me.pc = "prologue" => Untouched(u, v)
  BY <1>8, <1>9, <1>10 DEF Untouched
<1>12. u.me.pc # "prologue" => Running(u, v)
  BY <1>8, <1>9, <1>10 DEF Running
<1>13. InStep(u.me, r.me)
  <2>1. r.me.syncs >= warp[w].syncs /\ (tile.turns => r.me.turnsGiven >= warp[w].turnsGiven)
    BY DEF Moves
  <2>2. /\ warp[w].syncs \in Nat /\ warp[w].turnsGiven \in Nat /\ s.me.syncs \in Nat /\ s.me.turnsTaken \in Nat
        /\ r.me.syncs \in Nat /\ r.me.turnsGiven \in Nat
    <3>1. \A me \in Privates : me.syncs \in Nat /\ me.turnsGiven \in Nat /\ me.turnsTaken \in Nat
      BY DEF Privates
    <3>. QED  BY <1>1, <1>8, <3>1
  <2>. QED  BY <1>8, <1>9, <2>1, <2>2 DEF InStep
<1>14. WarpOK(u, v)'
  <2>1. u \in Views'
    BY <1>9, FrozenSets
  <2>2. Paced(u.me, v)
    BY <1>8, <1>9
  <2>3. Paced(u.me, v)' /\ (Untouched(u, v) => Untouched(u, v)') /\ (Running(u, v) => Running(u, v)')
    BY <2>2, FrozenWarp
  <2>. QED  BY <1>11, <1>12, <2>1, <2>3 DEF WarpOK
<1>15. InStep(r.me, warp[v])' /\ InStep(u.me, r.me)'
  <2>1. PICK other : other = warp[v]
    OBVIOUS
  <2>2. InStep(r.me, other)'
    BY <1>2, <2>1, FrozenWarp DEF Moves
  <2>3. InStep(u.me, r.me)'
    BY <1>13, FrozenWarp
  <2>. QED  BY <1>3, <2>1, <2>2, <2>3 DEF InStep
<1>16. ASSUME NEW x \in Warps, NEW s1, NEW other, s1 = View(x)', other = warp'[1 - x]
       PROVE  WarpOK(s1, x)' /\ InStep(s1.me, other)'
  <2>1. CASE x = w
    <3>1. s1 = r /\ other = warp'[v]
      BY <1>2, <1>5, <1>16, <2>1
    <3>. QED  BY <1>6, <1>15, <2>1, <3>1 DEF InStep
  <2>2. CASE x = v
    <3>1. s1 = u /\ other = r.me
      BY <1>2, <1>3, <1>7, <1>16, <2>2
    <3>. QED  BY <1>14, <1>15, <2>2, <3>1
  <2>. QED  BY <1>2, <2>1, <2>2 DEF Warps
<1>. QED  BY <1>4, <1>16 DEF Kernel

\* A step of a warp moves that warp only, and the epilogue counts a task as stored.
LEMMA WarpStepMoves ==
  ASSUME Planned, Kernel, NEW w \in Warps, WarpStep(w)
  PROVE  /\ LogitsUnchanged
         /\ \E r : /\ Moves(w, r)
                   /\ \/ Stored(r.me) = Stored(warp[w]) /\ UNCHANGED written
                      \/ Stored(r.me) = Stored(warp[w]) + 1 /\ Store(w)
<1>1. CASE Prologue(w)
  BY <1>1, PrologueMoves DEF Prologue
<1>2. CASE Start(w)
  BY <1>2, StartMoves DEF Start
<1>3. CASE SameRow(w)
  BY <1>3, SameRowMoves DEF SameRow
<1>4. CASE ChangeRow(w)
  BY <1>4, ChangeRowMoves DEF ChangeRow
<1>5. CASE ReadRow(w)
  BY <1>5, ReadRowMoves DEF ReadRow
<1>6. CASE RefillRow(w)
  BY <1>6, RefillRowMoves DEF RefillRow
<1>7. CASE LoadAhead(w)
  BY <1>7, LoadAheadMoves DEF LoadAhead
<1>8. CASE Multiply(w)
  BY <1>8, MultiplyMoves DEF Multiply
<1>9. CASE Store(w)
  <2>1. LogitsUnchanged
    BY <1>9 DEF Store
  <2>. QED  BY <1>9, <2>1, StoreMoves
<1>10. CASE Advance(w)
  <2>1. LogitsUnchanged /\ UNCHANGED written
    BY <1>10 DEF Advance
  <2>. QED  BY <1>10, <2>1, AdvanceMoves
<1>11. CASE Leave(w)
  BY <1>11, LeaveMoves DEF Leave
<1>. QED  BY <1>1, <1>2, <1>3, <1>4, <1>5, <1>6, <1>7, <1>8, <1>9, <1>10, <1>11 DEF WarpStep

\* A CTA begins at its segment, with rings that hold nothing.
LEMMA LaunchMakes ==
  ASSUME context \in Contexts, tile \in Tiles, cta \in -1 .. NumBlocks - 1, Schedule, LaunchCta
  PROVE  Planned' /\ Kernel'
<1>1. /\ cta' = cta + 1 /\ context' = context /\ tile' = tile /\ meta' = meta
      /\ NumBlocks \in Nat /\ cta < NumBlocks - 1 /\ tile.stageQ \in Nat \ {0} /\ tile.groups \in 1 .. 2
      /\ tile.turns \in BOOLEAN
  BY ConfigFacts DEF LaunchCta, metaVars
<1>2. \A s : Segment(s)' = Segment(s)
  BY <1>1 DEF Segment
<1>3. Planned'
  <2>1. PlannedBatch' = PlannedBatch
    BY <1>1 DEF PlannedBatch
  <2>2. \A s : Position(Segment(s))' <=> Position(Segment(s))
    BY <1>1, <1>2, <2>1 DEF Position
  <2>3. \A s, u : Before(Segment(u), Segment(s))' <=> Before(Segment(u), Segment(s))
    BY <1>1, <1>2 DEF Before
  <2>4. Schedule'
    BY <2>2, <2>3 DEF Schedule
  <2>. QED  BY <1>1, <2>4 DEF Planned
<1>4. PICK me, c : c = cta' /\ me = WarpStart(c)
  OBVIOUS
<1>5. c \in 0 .. NumBlocks /\ Segment(c)[1] \in Nat /\ Segment(c)[2] \in Nat
  <2>1. c \in 0 .. NumBlocks
    BY <1>1, <1>4
  <2>. QED  BY <2>1 DEF Schedule, Position
<1>6. QSlots' = QSlots /\ 0 \in QSlots
  BY <1>1 DEF QSlots
<1>7. /\ me.pc = "prologue" /\ me.syncs = 0 /\ me.turnsTaken = 0 /\ me.turnsGiven = 0
  BY <1>4 DEF WarpStart
<1>8. me \in Privates'
  <2>1. Empty \in Cells /\ "prologue" \in Places /\ [i \in 0 .. StageK - 1 |-> 0] \in [0 .. 2 -> Nat]
    BY CellFacts DEF Places, StageK
  <2>. QED  BY <1>4, <1>5, <1>6, <2>1 DEF WarpStart, Privates
<1>9. me = WarpStart(cta)'
  BY <1>2, <1>4 DEF WarpStart
<1>10. PICK q, k : /\ q = [i \in QSlots |-> Empty]
                   /\ k = [g \in 0 .. tile.groups - 1 |-> [i \in 0 .. 2 |-> Empty]]
  OBVIOUS
<1>11. /\ warp' = [w \in Warps |-> me] /\ smemQ' = q /\ smemK' = k /\ pending' = [w \in Warps |-> <<{}>>]
  BY <1>4, <1>10 DEF LaunchCta, QSlots, StageK
<1>12. q \in QRings' /\ k \in KRings' /\ <<{}>> \in Queues'
  <2>1. <<{}>> \in Seq(SUBSET Keys') /\ Len(<<{}>>) = 1
    OBVIOUS
  <2>. QED  BY <1>1, <1>6, <1>10, <2>1, CellFacts DEF QRings, KRings, Queues
<1>13. warp' \in [Warps -> Privates]' /\ pending' \in [Warps -> Queues]' /\ Rings'
  BY <1>8, <1>11, <1>12 DEF Rings, Warps
<1>14. ASSUME NEW w \in Warps, NEW s, NEW other, s = View(w)', other = warp'[1 - w]
       PROVE  WarpOK(s, w)' /\ InStep(s.me, other)'
  <2>1. s.me = me /\ s.q = q /\ s.k = k /\ s.p = <<{}>> /\ other = me /\ s = [me |-> me, q |-> q, k |-> k, p |-> <<{}>>]
    <3>1. w \in 0 .. 1 /\ 1 - w \in 0 .. 1
      BY DEF Warps
    <3>2. s = [me |-> warp'[w], q |-> smemQ', k |-> smemK', p |-> pending'[w]]
      BY <1>14 DEF View
    <3>3. warp'[w] = me /\ pending'[w] = <<{}>> /\ warp'[1 - w] = me
      BY <1>11, <3>1 DEF Warps
    <3>. QED  BY <1>11, <1>14, <3>2, <3>3
  <2>2. s \in Views'
    BY <1>8, <1>12, <2>1 DEF Views
  <2>3. Paced(s.me, w)'
    BY <1>1, <1>7, <2>1 DEF Paced
  <2>4. LoadsK(w)' => w \in 0 .. tile.groups - 1
    BY <1>1 DEF LoadsK, Warps
  <2>5. Untouched(s, w)'
    BY <1>6, <1>9, <1>10, <2>1, <2>4 DEF Untouched
  <2>6. InStep(s.me, other)'
    BY <1>1, <1>7, <2>1 DEF InStep
  <2>. QED  BY <1>7, <2>1, <2>2, <2>3, <2>5, <2>6 DEF WarpOK
<1>15. Kernel'
  BY <1>13, <1>14 DEF Kernel
<1>. QED  BY <1>3, <1>15

\* What a warp is about to store belongs to its place.
LEMMA StoresItsTile ==
  ASSUME Planned, Kernel
  PROVE  PairsItsTile
<1>1. SUFFICES ASSUME NEW w \in Warps, warp[w].pc = "store"
               PROVE  /\ warp[w].q < ActualBatch
                      /\ warp[w].kv + Group(w) < NumKv(warp[w].q) =>
                           LET place == <<warp[w].q, warp[w].kv + Group(w)>>
                           IN  /\ warp[w].acc = <<Landed(<<place[1]>>), Landed(place)>>
                               /\ smemK[Group(w)][warp[w].readK] = Landed(place)
  BY DEF PairsItsTile
<1>2. PICK s, me, n : s = View(w) /\ me = warp[w] /\ n = At(me)
  OBVIOUS
<1>3. s.me = me /\ Running(s, w) /\ me.pc = "store" /\ s \in Views /\ smemK \in KRings
  BY <1>1, <1>2, KernelFacts DEF Kernel, Rings
<1>4. n \in Nat /\ n \in Runs /\ me.q = Task[n][1] /\ me.kv = Task[n][2] /\ me.readK = Slot[n]
  <2>1. n \in Nat
    BY <1>2, <1>3, RunningFacts
  <2>. QED  BY <1>2, <1>3, <2>1 DEF Running, Walks, Busy
<1>5. Group(w) \in 0 .. 1 /\ Group(w) \in 0 .. tile.groups - 1
  BY GroupFacts
<1>6. me.q < ActualBatch /\ ~Last(Task[n])
  BY <1>4, TaskFacts
<1>7. ASSUME me.kv + Group(w) < NumKv(me.q)
      PROVE  /\ me.acc = <<Landed(<<me.q>>), Landed(<<me.q, me.kv + Group(w)>>)>>
             /\ smemK[Group(w)][me.readK] = Landed(<<me.q, me.kv + Group(w)>>)
  <2>1. n \in Filled[Group(w)]
    BY <1>4, <1>5, <1>6, <1>7 DEF Filled
  <2>2. me.acc = <<Landed(<<me.q>>), Landed(<<me.q, me.kv + Group(w)>>)>>
    BY <1>2, <1>3, <1>4, <2>1 DEF Running, Reads
  <2>3. TileIn(smemK[Group(w)], n, Group(w), {})
    BY <1>1, <1>2, TileReady
  <2>4. smemK[Group(w)][Slot[n]] \in Cells
    BY <1>3, <1>4, <1>5, SlotFacts DEF KRings
  <2>5. smemK[Group(w)][Slot[n]] = Landed(<<me.q, me.kv + Group(w)>>)
    BY <1>4, <2>1, <2>3, <2>4, CellIs DEF TileIn
  <2>. QED  BY <1>4, <2>2, <2>5
<1>. QED  BY <1>2, <1>6, <1>7
-----------------------------------------------------------------------------
(* How often the parts of the logits are written. *)

\* The split a part belongs to; the task its warp has come to.
Split(p) == <<p[1], p[2] - Group(p[3])>>
ComeTo(w) == Task[Stored(warp[w])]

\* The parts that have been written, once, are those between the first segment and the
\* task their warp has come to.
Once(p, t) == IF ~Before(Split(p), Segment(0)) /\ Before(Split(p), t) THEN 1 ELSE 0
WrittenOnce ==
  /\ cta = -1 => written = [p \in Parts |-> 0]
  /\ cta >= 0 => written = [p \in Parts |-> Once(p, ComeTo(p[3]))]

\* A part of the logits and the split it belongs to.
LEMMA PartFacts ==
  ASSUME Planned, NEW p \in Parts
  PROVE  /\ p[3] \in Warps /\ p[1] \in Nat /\ p[2] \in Nat /\ p = <<p[1], p[2], p[3]>>
         /\ p[2] < NumKv(p[1]) /\ p[1] < ActualBatch /\ p[2] % tile.groups = Group(p[3])
         /\ Split(p) \in Nat \X Nat /\ Split(p)[2] % tile.groups = 0 /\ Split(p)[2] <= p[2]
<1>1. PICK q \in 0 .. ActualBatch - 1 : p \in {q} \X (0 .. NumKv(q) - 1) \X Warps
  BY DEF Parts
<1>2. ActualBatch \in Nat /\ tile.groups \in 1 .. 2 /\ q \in Nat /\ q < ActualBatch /\ NumKv(q) \in Nat
  <2>1. ActualBatch \in Nat /\ tile.groups \in 1 .. 2
    BY Numbers
  <2>2. q \in Nat /\ q < ActualBatch
    BY <1>1, <2>1
  <2>3. NumKv(q) \in Nat
    BY <2>2, ConfigFacts DEF Planned
  <2>. QED  BY <2>1, <2>2, <2>3
<1>3. PICK a \in Nat, w \in Warps : p = <<q, a, w>> /\ a < NumKv(q)
  BY <1>1, <1>2
<1>4. a % tile.groups = Group(w)
  BY <1>3 DEF Parts
<1>5. Group(w) \in Nat /\ Group(w) <= a /\ (a - Group(w)) % tile.groups = 0
  <2>1. PICK g \in 1 .. 2 : g = tile.groups
    BY <1>2
  <2>2. a % g \in Nat /\ a % g <= a /\ (a - (a % g)) % g = 0
    BY <2>1
  <2>. QED  BY <1>4, <2>1, <2>2
<1>6. p[1] = q /\ p[2] = a /\ p[3] = w
  BY <1>3
<1>7. Split(p) = <<q, a - Group(w)>> /\ a - Group(w) \in Nat
  BY <1>5, <1>6 DEF Split
<1>. QED  BY <1>2, <1>3, <1>4, <1>5, <1>6, <1>7

\* The first segment starts before the CTA's own.
LEMMA FirstSegment ==
  ASSUME Planned
  PROVE  Segment(0) \in Nat \X Nat /\ Segment(cta) \in Nat \X Nat /\ ~Before(Segment(cta), Segment(0))
<1>1. 0 \in 0 .. NumBlocks /\ cta \in 0 .. NumBlocks /\ 0 <= cta
  BY Numbers
<1>2. Schedule
  BY DEF Planned
<1>. QED  BY <1>1, <1>2 DEF Schedule, Position

\* A task that is run is the split of one part of its warp.
LEMMA PartDone ==
  ASSUME Planned, NEW p \in Parts, NEW n \in Runs
  PROVE  /\ n \in Nat /\ ~Before(Task[n], Segment(0))
         /\ Before(Split(p), Task[n + 1]) <=> Before(Split(p), Task[n]) \/ Split(p) = Task[n]
         /\ Split(p) = Task[n] => ~Before(Split(p), Task[n])
<1>1. n \in Nat
  BY DEF Runs
<1>0. PICK q, a, b, c, d, e : /\ q = p[1] /\ a = Split(p)[2] /\ b = p[2]
                             /\ c = Task[n][1] /\ d = Task[n][2] /\ e = tile.groups
  OBVIOUS
<1>2. /\ Split(p) = <<q, a>> /\ a <= b /\ p[2] = b /\ p[1] = q /\ b < NumKv(q)
      /\ Task[n] = <<c, d>> /\ e = tile.groups
      /\ q \in Nat /\ a \in Nat /\ b \in Nat /\ c \in Nat /\ d \in Nat /\ e \in Nat
  <2>1. /\ Split(p) \in Nat \X Nat /\ Split(p)[2] <= p[2] /\ p[2] \in Nat /\ p[1] \in Nat /\ p[2] < NumKv(p[1])
    BY PartFacts
  <2>2. Task[n] \in Nat \X Nat /\ tile.groups \in Nat
    BY <1>1, TaskFacts, Numbers
  <2>3. Split(p)[1] = p[1]
    BY DEF Split
  <2>. QED  BY <1>0, <2>1, <2>2, <2>3
<1>3. /\ e \in 1 .. 2 /\ a % e = 0 /\ d % e = 0
      /\ q \in Nat /\ a \in Nat /\ b \in Nat /\ c \in Nat /\ d \in Nat /\ e \in Nat
  <2>1. Split(p)[2] % tile.groups = 0 /\ tile.groups \in 1 .. 2
    BY PartFacts, Numbers
  <2>2. Reached(Task[n])
    BY <1>1, TaskReached
  <2>3. Task[n][2] % tile.groups = 0
    BY <2>2 DEF Reached
  <2>. QED  BY <1>2, <2>1, <2>3
<1>4. PICK next : next = Task[n + 1]
  OBVIOUS
<1>5. \/ next = <<c, d + e>>
      \/ next = <<c + 1, 0>> /\ NumKv(c) <= d + e
  BY <1>1, <1>2, <1>4, TaskFacts
<1>6. a > d => a >= d + e
  <2>1. SUFFICES ASSUME a > d, a < d + e  PROVE FALSE
    BY <1>3
  <2>2. e > 0 /\ d <= a /\ d % e = a % e
    BY <1>3, <2>1
  <2>3. d = a
    BY <1>3, <2>1, <2>2, ClassApart
  <2>. QED  BY <1>3, <2>1, <2>3
<1>7. Before(Split(p), Task[n]) <=> q < c \/ (q = c /\ a < d)
  BY <1>2 DEF Before
<1>8. Split(p) = Task[n] <=> q = c /\ a = d
  BY <1>2
<1>9. Before(Split(p), next) <=> q < c \/ (q = c /\ a <= d)
  <2>1. CASE next = <<c, d + e>>
    <3>1. Before(Split(p), next) <=> q < c \/ (q = c /\ a < d + e)
      BY <1>2, <2>1 DEF Before
    <3>2. a < d + e <=> a <= d
      <4>1. a \in Nat /\ d \in Nat /\ e \in 1 .. 2
        BY <1>3
      <4>. QED  BY <1>6, <4>1
    <3>. QED  BY <3>1, <3>2
  <2>2. CASE next = <<c + 1, 0>> /\ NumKv(c) <= d + e
    <3>1. Before(Split(p), next) <=> q < c + 1
      BY <1>2, <2>2 DEF Before
    <3>2. q = c => a <= d
      <4>1. NumKv(q) \in Nat
        BY <1>3, ConfigFacts DEF Planned
      <4>. QED  BY <1>2, <1>3, <1>6, <2>2, <4>1
    <3>. QED  BY <1>2, <3>1, <3>2
  <2>. QED  BY <1>5, <2>1, <2>2
<1>10. ~Before(Task[n], Segment(0))
  <2>1. ~Before(Task[n], Segment(cta))
    BY <1>1, TaskReached DEF Reached
  <2>2. PICK x, y, u, v \in Nat : Segment(0) = <<x, y>> /\ Segment(cta) = <<u, v>>
    BY FirstSegment
  <2>3. ~Before(Segment(cta), Segment(0))
    BY FirstSegment
  <2>4. ~(u < x \/ (u = x /\ v < y)) /\ ~(c < u \/ (c = u /\ d < v))
    BY <1>2, <2>1, <2>2, <2>3 DEF Before
  <2>5. ~(c < x \/ (c = x /\ d < y))
    BY <1>3, <2>4
  <2>6. Task[n][1] = c /\ Task[n][2] = d /\ Segment(0)[1] = x /\ Segment(0)[2] = y
    BY <1>0, <2>2
  <2>. QED  BY <2>5, <2>6, Zenon DEF Before
<1>11. Before(Split(p), Task[n + 1]) <=> Before(Split(p), Task[n]) \/ Split(p) = Task[n]
  BY <1>2, <1>4, <1>7, <1>8, <1>9
<1>12. Split(p) = Task[n] => ~Before(Split(p), Task[n])
  BY <1>3, <1>7, <1>8
<1>. QED  BY <1>1, <1>10, <1>11, <1>12

\* A warp that is done has come to the end of the segment.
LEMMA PartsOfSegment ==
  ASSUME Planned, NEW p \in Parts, NEW n \in Nat, n \notin Runs
  PROVE  Before(Split(p), Task[n]) <=> Before(Split(p), End)
<1>0. PICK q, a, b, c, d : /\ q = p[1] /\ a = Split(p)[2] /\ b = p[2] /\ c = Task[n][1] /\ d = Task[n][2]
  OBVIOUS
<1>1. /\ Split(p) = <<q, a>> /\ a <= b /\ b < NumKv(q) /\ NumKv(q) \in Nat
      /\ q \in Nat /\ a \in Nat /\ b \in Nat
  <2>1. /\ Split(p) \in Nat \X Nat /\ Split(p)[2] <= p[2] /\ p[2] \in Nat /\ p[1] \in Nat /\ p[2] < NumKv(p[1])
    BY PartFacts
  <2>2. Split(p)[1] = p[1] /\ NumKv(p[1]) \in Nat
    BY <2>1, ConfigFacts DEF Split, Planned
  <2>. QED  BY <1>0, <2>1, <2>2
<1>2. PICK x, y \in Nat : End = <<x, y>>
  BY Numbers DEF Position
<1>3. Task[n] = <<c, d>> /\ c \in Nat /\ d \in Nat
  BY <1>0, TaskFacts
<1>4. \/ c = x /\ d = y
      \/ c = x + 1 /\ d = 0 /\ NumKv(x) <= y
  <2>1. Last(Task[n]) /\ Reached(Task[n])
    BY TaskFacts, TaskReached
  <2>2. c > x \/ (c = x /\ d = y)
    BY <1>2, <1>3, <2>1 DEF Last, IsLastTask
  <2>3. ~(x < c \/ (x = c /\ y < d)) \/ (c = x + 1 /\ d = 0 /\ NumKv(x) <= y)
    BY <1>2, <1>3, <2>1 DEF Reached, Before
  <2>. QED  BY <1>2, <1>3, <2>2, <2>3
<1>5. Before(Split(p), Task[n]) <=> q < c \/ (q = c /\ a < d)
  BY <1>1, <1>3 DEF Before
<1>6. Before(Split(p), End) <=> q < x \/ (q = x /\ a < y)
  BY <1>1, <1>2 DEF Before
<1>7. q = x /\ NumKv(x) <= y => a < y
  BY <1>1, <1>2
<1>. QED  BY <1>1, <1>2, <1>3, <1>4, <1>5, <1>6, <1>7

LEMMA PartsStay ==
  ASSUME context' = context, tile' = tile
  PROVE  Parts' = Parts /\ \A w : Group(w)' = Group(w)
<1>1. \A q : NumKv(q)' = NumKv(q)
  BY DEF NumKv, ActualBatch
<1>2. \A w : Group(w)' = Group(w)
  BY DEF Group
<1>3. ActualBatch' = ActualBatch
  BY DEF ActualBatch
<1>4. Parts' = Parts
  <2>1. PICK U, V : /\ U = [q \in 0 .. ActualBatch - 1 |-> {q} \X (0 .. NumKv(q) - 1) \X Warps]
                    /\ V = [q \in 0 .. ActualBatch' - 1 |-> {q} \X (0 .. NumKv(q)' - 1) \X Warps]
    OBVIOUS
  <2>2. U = V
    BY <1>1, <1>3, <2>1
  <2>3. Parts = {p \in UNION {U[q] : q \in 0 .. ActualBatch - 1} : Group(p[3]) = p[2] % tile.groups}
    BY <2>1 DEF Parts
  <2>4. Parts' = {p \in UNION {V[q] : q \in 0 .. ActualBatch' - 1} : Group(p[3])' = p[2] % tile'.groups}
    BY <2>1 DEF Parts
  <2>. QED  BY <1>2, <1>3, <2>2, <2>3, <2>4
<1>. QED  BY <1>2, <1>4

LEMMA FrozenParts ==
  ASSUME context' = context, tile' = tile, meta' = meta
  PROVE  /\ Parts' = Parts /\ \A p : Split(p)' = Split(p)
         /\ \A p, t : Once(p, t)' = Once(p, t)
<1>2. \A w : Group(w)' = Group(w)
  BY PartsStay
<1>4. Parts' = Parts
  BY PartsStay
<1>5. \A p : Split(p)' = Split(p)
  BY <1>2 DEF Split
<1>6. Segment(0)' = Segment(0)
  BY DEF Segment
<1>7. \A p, t : Once(p, t)' = Once(p, t)
  BY <1>5, <1>6 DEF Once, Before
<1>. QED  BY <1>4, <1>5, <1>7

\* A step of a warp.
LEMMA WarpStepWrites ==
  ASSUME Planned, Kernel, WrittenOnce, NEW w \in Warps, WarpStep(w)
  PROVE  WrittenOnce'
<1>1. PICK r : /\ Moves(w, r)
               /\ \/ Stored(r.me) = Stored(warp[w]) /\ UNCHANGED written
                  \/ Stored(r.me) = Stored(warp[w]) + 1 /\ Store(w)
  BY WarpStepMoves
<1>2. LogitsUnchanged
  BY WarpStepMoves
<1>3. /\ Task' = Task /\ Parts' = Parts /\ cta' = cta /\ cta >= 0 /\ cta # -1
      /\ \A p, t : Once(p, t)' = Once(p, t)
  <2>1. cta \in 0 .. NumBlocks
    BY Numbers
  <2>2. Task' = Task /\ context' = context /\ tile' = tile /\ meta' = meta /\ cta' = cta
    BY <1>2, Frozen
  <2>. QED  BY <2>1, <2>2, FrozenParts
<1>4. written = [p \in Parts |-> Once(p, ComeTo(p[3]))]
  BY <1>3 DEF WrittenOnce
<1>5. \A v \in Warps : ComeTo(v)' = IF v = w THEN Task[Stored(r.me)] ELSE ComeTo(v)
  <2>1. warp \in [Warps -> Privates] /\ warp' = [warp EXCEPT ![w] = r.me]
    BY <1>1 DEF Kernel, Moves, Commit
  <2>. QED  BY <1>3, <2>1 DEF ComeTo, Stored
<1>6. ASSUME Stored(r.me) = Stored(warp[w]), written' = written
      PROVE  written' = [p \in Parts |-> Once(p, ComeTo(p[3])')]
  <2>1. \A v \in Warps : ComeTo(v)' = ComeTo(v)
    BY <1>5, <1>6 DEF ComeTo
  <2>2. \A p \in Parts : Once(p, ComeTo(p[3])') = Once(p, ComeTo(p[3]))
    BY <2>1, PartFacts
  <2>. QED  BY <1>4, <1>6, <2>2
<1>7. ASSUME Stored(r.me) = Stored(warp[w]) + 1, Store(w)
      PROVE  written' = [p \in Parts |-> Once(p, ComeTo(p[3])')]
  <2>1. PICK n : n = Stored(warp[w])
    OBVIOUS
  <2>2. n \in Nat /\ n \in Runs /\ Task[n] = <<warp[w].q, warp[w].kv>>
    <3>1. PICK s : s = View(w)
      OBVIOUS
    <3>2. s \in Views /\ s.me = warp[w] /\ Running(s, w) /\ s.me.pc = "store"
      BY <1>7, <3>1, KernelFacts DEF Store
    <3>3. n = At(s.me)
      BY <2>1, <3>2 DEF Stored, At, Busy, Short
    <3>. QED  BY <3>2, <3>3, RunningFacts DEF Running, Walks, Busy
  <2>3. ComeTo(w) = Task[n] /\ \A v \in Warps : ComeTo(v)' = IF v = w THEN Task[n + 1] ELSE ComeTo(v)
    BY <1>5, <1>7, <2>1 DEF ComeTo
  <2>4. ASSUME NEW p \in Parts
        PROVE  Once(p, ComeTo(p[3])') = IF p = Part(w) THEN written[p] + 1 ELSE written[p]
    <3>1. written[p] = Once(p, ComeTo(p[3])) /\ p[3] \in Warps /\ p = <<p[1], p[2], p[3]>>
      BY <1>4, PartFacts
    <3>2. CASE p[3] # w
      <4>1. p # Part(w)
        BY <3>1, <3>2 DEF Part
      <4>. QED  BY <2>3, <3>1, <3>2, <4>1
    <3>3. CASE p[3] = w
      <4>1. p = Part(w) <=> Split(p) = Task[n]
        <5>1. p[1] \in Nat /\ p[2] \in Nat /\ Group(w) \in Nat
          BY PartFacts, GroupFacts
        <5>2. p = <<p[1], p[2], w>> /\ Split(p) = <<p[1], p[2] - Group(w)>>
          BY <3>1, <3>3 DEF Split
        <5>3. PICK a, b : a = warp[w].q /\ b = warp[w].kv /\ b \in Nat
          <6>1. Task[n][2] \in Nat /\ Task[n][2] = warp[w].kv
            BY <2>2, TaskFacts
          <6>. QED  BY <6>1
        <5>4. Part(w) = <<a, b + Group(w), w>> /\ Task[n] = <<a, b>>
          BY <2>2, <5>3 DEF Part
        <5>5. p[2] = b + Group(w) <=> p[2] - Group(w) = b
          BY <5>1, <5>3
        <5>. QED  BY <5>2, <5>4, <5>5
      <4>2. /\ ~Before(Task[n], Segment(0))
            /\ Before(Split(p), Task[n + 1]) <=> Before(Split(p), Task[n]) \/ Split(p) = Task[n]
            /\ Split(p) = Task[n] => ~Before(Split(p), Task[n])
        BY <2>2, PartDone
      <4>3. Once(p, Task[n + 1]) = IF p = Part(w) THEN Once(p, Task[n]) + 1 ELSE Once(p, Task[n])
        <5>1. PICK split : split = Split(p)
          OBVIOUS
        <5>2. CASE split = Task[n]
          <6>1. Once(p, Task[n + 1]) = 1 /\ Once(p, Task[n]) = 0
            BY <4>2, <5>1, <5>2 DEF Once
          <6>. QED  BY <4>1, <5>1, <5>2, <6>1
        <5>3. CASE split # Task[n]
          BY <4>1, <4>2, <5>1, <5>3 DEF Once
        <5>. QED  BY <5>2, <5>3
      <4>4. ComeTo(p[3]) = Task[n] /\ ComeTo(p[3])' = Task[n + 1]
        BY <2>3, <3>1, <3>3
      <4>. QED  BY <3>1, <4>3, <4>4
    <3>. QED  BY <3>2, <3>3
  <2>5. written' = [p \in DOMAIN written |-> IF p = Part(w) THEN written[p] + 1 ELSE written[p]]
    BY <1>7 DEF Store
  <2>. QED  BY <1>4, <2>4, <2>5
<1>8. written' = [p \in Parts |-> Once(p, ComeTo(p[3])')]
  BY <1>1, <1>6, <1>7
<1>9. written' = [p \in Parts' |-> Once(p, ComeTo(p[3]))']
  BY <1>3, <1>8 DEF Once
<1>. QED  BY <1>3, <1>9 DEF WrittenOnce

\* The next CTA begins where the last one has ended.
LEMMA LaunchWrites ==
  ASSUME context \in Contexts, tile \in Tiles, cta \in -1 .. NumBlocks - 1, Schedule,
         cta >= 0 => Planned /\ Kernel, WrittenOnce, LaunchCta
  PROVE  WrittenOnce'
<1>1. /\ cta' = cta + 1 /\ context' = context /\ tile' = tile /\ meta' = meta /\ written' = written
      /\ warp' = [w \in Warps |-> WarpStart(cta')] /\ NumBlocks \in Nat /\ tile.groups \in 1 .. 2
      /\ cta' \in 0 .. NumBlocks /\ cta' >= 0 /\ cta' # -1
  BY ConfigFacts DEF LaunchCta, metaVars
<1>2. Parts' = Parts /\ \A p, t : Once(p, t)' = Once(p, t)
  BY <1>1, FrozenParts
<1>3. PICK start : start = Segment(cta')
  OBVIOUS
<1>4. start = Segment(cta)' /\ start \in Nat \X Nat
  BY <1>1, <1>3 DEF Segment, Schedule, Position
<1>5. Task'[0] = start
  <2>1. PICK V, F, t : V = Nat \X Nat /\ F = Successor' /\ t = Task'
    OBVIOUS
  <2>2. F \in [V -> V]
    <3>1. \A x \in V : Following(x)' \in V
      BY <1>1, <2>1 DEF Following
    <3>. QED  BY <2>1, <3>1 DEF Successor
  <2>3. t = Iterate(start, F)
    BY <1>4, <2>1 DEF Task
  <2>4. t[0] = start
    BY <1>4, <2>1, <2>2, <2>3, IterateDef
  <2>. QED  BY <2>1, <2>4
<1>6. \A w \in Warps : ComeTo(w)' = start
  <2>1. \A w \in Warps : Stored(warp'[w]) = 0
    BY <1>1 DEF WarpStart, Stored, Short
  <2>. QED  BY <1>5, <2>1 DEF ComeTo, Stored
<1>7. ASSUME NEW p \in Parts  PROVE written[p] = Once(p, start)
  <2>1. CASE cta = -1
    <3>1. written[p] = 0 /\ start = Segment(0)
      BY <1>1, <1>3, <2>1 DEF WrittenOnce
    <3>. QED  BY <3>1 DEF Once
  <2>2. CASE cta # -1
    <3>1. cta >= 0 /\ Planned /\ Kernel
      BY <2>2
    <3>2. PICK w \in Warps : w = p[3]
      BY <3>1, PartFacts
    <3>3. PICK s, n : s = View(w) /\ n = Stored(warp[w])
      OBVIOUS
    <3>4. s \in Views /\ s.me = warp[w] /\ s.me.pc = "done" /\ Running(s, w)
      BY <3>1, <3>3, KernelFacts DEF LaunchCta
    <3>5. n \in Nat /\ n \notin Runs
      <4>1. n = At(s.me)
        BY <3>3, <3>4 DEF Stored, At, Short, Busy
      <4>. QED  BY <3>1, <3>4, <4>1, RunningFacts DEF Running, Walks
    <3>6. written[p] = Once(p, Task[n]) /\ start = End
      BY <1>1, <1>3, <3>1, <3>2, <3>3 DEF WrittenOnce, ComeTo, End
    <3>7. Before(Split(p), Task[n]) <=> Before(Split(p), End)
      BY <3>1, <3>5, PartsOfSegment
    <3>. QED  BY <3>6, <3>7 DEF Once
  <2>. QED  BY <2>1, <2>2
<1>8. written = [p \in Parts |-> Once(p, start)]
  <2>1. \E f : written = [p \in Parts |-> f[p]]
    <3>1. CASE cta = -1
      <4>1. PICK f : f = [p \in Parts |-> 0]
        OBVIOUS
      <4>. QED  BY <3>1, <4>1 DEF WrittenOnce
    <3>2. CASE cta # -1
      <4>1. PICK f : f = [p \in Parts |-> Once(p, ComeTo(p[3]))]
        OBVIOUS
      <4>. QED  BY <3>2, <4>1 DEF WrittenOnce
    <3>. QED  BY <3>1, <3>2
  <2>. QED  BY <1>7, <2>1
<1>9. \A p \in Parts : Once(p, start) = Once(p, ComeTo(p[3])')
  <2>1. \A p \in Parts : p[3] \in Warps
    BY DEF Parts
  <2>. QED  BY <1>6, <2>1
<1>10. written' = [p \in Parts' |-> Once(p, ComeTo(p[3]))']
  <2>1. written' = [p \in Parts |-> Once(p, ComeTo(p[3])')]
    BY <1>1, <1>8, <1>9
  <2>. QED  BY <1>2, <2>1 DEF Once
<1>. QED  BY <1>1, <1>10 DEF WrittenOnce

\* The segments cover the whole batch but for the empty requests before the first.
Whole ==
  /\ Segment(NumBlocks) = <<PlannedBatch, 0>> /\ Segment(0)[2] = 0
  /\ \A q \in 0 .. PlannedBatch - 1 : q < Segment(0)[1] => context.planned[q] = 0

\* In the end every part has been written.
LEMMA AllWritten ==
  ASSUME context \in Contexts, tile \in Tiles, cta \in -1 .. NumBlocks - 1,
         cta >= 0 => Planned /\ Kernel /\ Whole, WrittenOnce
  PROVE  EveryTileOnce
<1>. DEFINE covered == \/ context.planned = context.actual
                       \/ PlannedBatch = ActualBatch /\ context.planned[0] > 0
<1>1. /\ DOMAIN written = Parts
      /\ cta = -1 => \A p \in Parts : written[p] = 0
      /\ cta # -1 => cta >= 0 /\ \A p \in Parts : written[p] = Once(p, ComeTo(p[3]))
  <2>1. CASE cta = -1
    BY <2>1 DEF WrittenOnce
  <2>2. CASE cta # -1
    BY <2>2 DEF WrittenOnce
  <2>. QED  BY <2>1, <2>2
<1>2. \A p \in Parts : written[p] <= 1
  BY <1>1 DEF Once
<1>3. ASSUME Done, covered, NEW p \in Parts  PROVE written[p] = 1
  <2>1. NumBlocks \in Nat \ {0} /\ cta = NumBlocks - 1 /\ cta # -1 /\ Planned /\ Kernel /\ Whole
    BY <1>3, ConfigFacts DEF Done
  <2>2. PICK w \in Warps : w = p[3]
    BY <2>1, PartFacts
  <2>3. PICK s, n : s = View(w) /\ n = Stored(warp[w])
    OBVIOUS
  <2>4. s \in Views /\ s.me = warp[w] /\ s.me.pc = "done" /\ Running(s, w)
    BY <1>3, <2>1, <2>3, KernelFacts DEF Done
  <2>5. n \in Nat /\ n \notin Runs
    <3>1. n = At(s.me)
      BY <2>3, <2>4 DEF Stored, At, Short, Busy
    <3>. QED  BY <2>1, <2>4, <3>1, RunningFacts DEF Running, Walks
  <2>6. written[p] = Once(p, Task[n]) /\ End = Segment(NumBlocks)
    BY <1>1, <2>1, <2>2, <2>3 DEF ComeTo, End
  <2>7. Before(Split(p), Task[n]) <=> Before(Split(p), End)
    BY <2>1, <2>5, PartsOfSegment
  <2>8. PICK a, b \in Nat : Split(p) = <<a, b>> /\ a = p[1]
    BY <2>1, PartFacts DEF Split
  <2>9. /\ PlannedBatch \in Nat \ {0} /\ PlannedBatch = ActualBatch /\ a < PlannedBatch /\ NumKv(a) > 0
        /\ DOMAIN context.planned = 0 .. PlannedBatch - 1
    <3>1. PlannedBatch \in Nat \ {0} /\ DOMAIN context.planned = 0 .. PlannedBatch - 1
      BY ConfigFacts
    <3>2. PlannedBatch = ActualBatch
      BY <1>3 DEF PlannedBatch, ActualBatch
    <3>3. p[2] \in Nat /\ p[2] < NumKv(a) /\ a < ActualBatch /\ NumKv(a) \in Nat
      BY <2>1, <2>8, PartFacts, ConfigFacts
    <3>. QED  BY <3>1, <3>2, <3>3
  <2>10. Before(Split(p), End)
    BY <2>1, <2>6, <2>8, <2>9 DEF Whole, Before
  <2>11. PICK x \in Nat : x = Segment(0)[1] /\ Segment(0)[2] = 0
    BY <2>1, FirstSegment DEF Whole
  <2>12. x <= a
    <3>1. SUFFICES ASSUME a < x  PROVE FALSE
      BY <2>11
    <3>2. \A q \in 0 .. PlannedBatch - 1 : q < x => context.planned[q] = 0
      BY <2>1, <2>11 DEF Whole
    <3>3. context.planned[a] = 0 /\ context.planned[0] = 0
      BY <2>9, <2>11, <3>1, <3>2
    <3>4. context.planned = context.actual
      BY <1>3, <3>3
    <3>. QED  BY <2>9, <3>3, <3>4 DEF NumKv
  <2>13. ~Before(Split(p), Segment(0))
    BY <2>8, <2>11, <2>12 DEF Before
  <2>. QED  BY <2>6, <2>7, <2>10, <2>13 DEF Once
<1>. QED  BY <1>1, <1>2, <1>3 DEF EveryTileOnce
-----------------------------------------------------------------------------
(* The metadata kernel, when its CTA is one warp. *)

OneWarp == \A c \in Contexts : Least(Batch(c.planned), MaxThreads) <= WarpSize

\* The splits of each request, and of the requests before each.
SumsOf(N, a) == LET total[e \in 0 .. N] == IF e = 0 THEN 0 ELSE total[e - 1] + a[e - 1] IN total
Splits == [k \in 0 .. PlannedBatch - 1 |-> CeilDiv(context.planned[k], tile.groups)]
Sums == SumsOf(PlannedBatch, Splits)

\* The running sums of the splits.
LEMMA SumsFacts ==
  ASSUME context \in Contexts, tile \in Tiles
  PROVE  /\ PlannedBatch \in Nat /\ PlannedBatch > 0
         /\ Splits \in [0 .. PlannedBatch - 1 -> Nat]
         /\ Sums \in [0 .. PlannedBatch -> Nat] /\ Sums[0] = 0
         /\ \A e \in 0 .. PlannedBatch - 1 : Sums[e + 1] = Sums[e] + Splits[e]
         /\ \A k \in 0 .. PlannedBatch - 1 : /\ context.planned[k] \in Nat /\ context.planned[k] + 4 <= Word
                                             /\ Splits[k] = 0 <=> context.planned[k] = 0
                                             /\ \A x \in Nat : x < Splits[k] => x * tile.groups < context.planned[k]
<1>0. PICK n, g : n = PlannedBatch /\ g = tile.groups
  OBVIOUS
<1>1. n = PlannedBatch /\ g = tile.groups /\ n \in Nat /\ n > 0 /\ g \in 1 .. 2
  BY <1>0, ConfigFacts
<1>2. ASSUME NEW k \in 0 .. n - 1
      PROVE  /\ context.planned[k] \in Nat /\ context.planned[k] + 4 <= Word
             /\ Splits[k] \in Nat /\ (Splits[k] = 0 <=> context.planned[k] = 0)
             /\ \A x \in Nat : x < Splits[k] => x * g < context.planned[k]
  <2>1. PICK p \in Nat : p = context.planned[k] /\ p + 4 <= Word
    BY <1>1, ConfigFacts
  <2>2. Splits[k] = (p + g - 1) \div g
    BY <1>1, <2>1 DEF Splits, CeilDiv
  <2>3. CASE g = 1
    BY <2>1, <2>2, <2>3
  <2>4. CASE g = 2
    BY <2>1, <2>2, <2>4
  <2>. QED  BY <1>1, <2>3, <2>4
<1>3. Splits \in [0 .. n - 1 -> Nat]
  <2>1. Splits = [k \in 0 .. n - 1 |-> Splits[k]]
    BY <1>1 DEF Splits
  <2>. QED  BY <1>2, <2>1
<1>4. PICK a, s : a = Splits /\ s = SumsOf(n, a)
  OBVIOUS
<1>5. s \in [0 .. n -> Nat] /\ s[0] = 0 /\ \A e \in 0 .. n - 1 : s[e + 1] = s[e] + a[e]
  <2>1. n \in Nat /\ a \in [0 .. n - 1 -> Nat]
    BY <1>1, <1>3, <1>4
  <2>2. LET total == SumsOf(n, a)
        IN  /\ total \in [0 .. n -> Nat] /\ total[0] = 0
            /\ \A e \in 0 .. n - 1 : total[e + 1] = total[e] + a[e]
    BY <2>1, PrefixSums, Zenon DEF SumsOf
  <2>. QED  BY <1>4, <2>2
<1>6. Sums = s
  BY <1>1, <1>4 DEF Sums
<1>. QED  BY <1>1, <1>2, <1>3, <1>4, <1>5, <1>6

\* They never shrink.
LEMMA SumsGrow ==
  ASSUME context \in Contexts, tile \in Tiles, NEW e \in 0 .. PlannedBatch, NEW d \in 0 .. e
  PROVE  Sums[d] <= Sums[e]
<1>1. PICK n \in Nat : n = PlannedBatch /\ e \in 0 .. n
  BY SumsFacts
<1>. DEFINE S == {i \in Nat : d + i <= e => Sums[d] <= Sums[d + i]}
<1>2. /\ Sums \in [0 .. n -> Nat] /\ Splits \in [0 .. n - 1 -> Nat]
      /\ \A k \in 0 .. n - 1 : Sums[k + 1] = Sums[k] + Splits[k]
  BY <1>1, SumsFacts
<1>3. 0 \in S
  BY <1>1, <1>2
<1>4. ASSUME NEW i \in 0 .. e - d - 1, i \in S  PROVE i + 1 \in S
  <2>1. d + i \in 0 .. n - 1 /\ (d + i) + 1 = d + (i + 1) /\ d + i <= e
    BY <1>1
  <2>2. Sums[d + (i + 1)] = Sums[d + i] + Splits[d + i] /\ Splits[d + i] \in Nat /\ Sums[d + i] \in Nat /\ Sums[d] \in Nat
    BY <1>1, <1>2, <2>1
  <2>. QED  BY <1>4, <2>1, <2>2
<1>. HIDE DEF S
<1>5. e - d \in Nat /\ d + (e - d) = e
  BY <1>1
<1>6. e - d \in S
  BY <1>3, <1>4, <1>5, UpTo
<1>. QED  BY <1>1, <1>5, <1>6 DEF S

\* With one warp a chunk is scanned by all its threads together.
LEMMA ChunkFacts ==
  ASSUME OneWarp, context \in Contexts, tile \in Tiles, chunk \in Nat
  PROVE  /\ MetaWarps = {0} /\ BlockDim \in Nat /\ BlockDim > 0 /\ BlockDim <= PlannedBatch /\ Base \in Nat
         /\ (chunk + 1) * BlockDim = Base + BlockDim
         /\ Base < PlannedBatch =>
              /\ Width \in Nat /\ Width > 0 /\ Base + Width <= PlannedBatch
              /\ Least(Base + BlockDim, PlannedBatch) = Base + Width
              /\ Lanes(0) = 0 .. Width - 1
         /\ Base >= PlannedBatch => Width <= 0
<1>1. PICK n \in Nat, m \in Nat, wp \in Nat :
        n = PlannedBatch /\ n > 0 /\ m = MaxThreads /\ m > 0 /\ wp = WarpSize /\ wp > 0
  BY ConfigFacts
<1>2. PICK d \in Nat : d = BlockDim /\ d > 0 /\ d <= n
  BY <1>1 DEF BlockDim, Least
<1>3. d <= wp
  BY <1>1, <1>2 DEF OneWarp, BlockDim, PlannedBatch
<1>4. (d + wp - 1) \div wp = 1
  <2>1. d - 1 \in 0 .. wp - 1 /\ d + wp - 1 = 1 * wp + (d - 1)
    BY <1>1, <1>2, <1>3
  <2>2. (1 * wp + (d - 1)) \div wp = 1
    BY <1>1, <2>1, Remainder
  <2>. QED  BY <2>1, <2>2
<1>5. MetaWarps = {0}
  BY <1>1, <1>2, <1>4 DEF MetaWarps, CeilDiv
<1>6. PICK b \in Nat : b = Base /\ (chunk + 1) * d = b + d
  BY <1>2 DEF Base
<1>7. ASSUME b < n
      PROVE  /\ Width \in Nat /\ Width > 0 /\ b + Width <= n /\ Least(b + d, n) = b + Width
             /\ Lanes(0) = 0 .. Width - 1
  <2>1. PICK x \in Nat : x = Width /\ x > 0 /\ b + x <= n /\ x <= d /\ Least(b + d, n) = b + x
    BY <1>1, <1>2, <1>6, <1>7 DEF Width, Least
  <2>2. Lanes(0) = {t \in 0 .. wp - 1 : t < x}
    BY <1>1, <2>1 DEF Lanes
  <2>3. x \in Nat /\ x <= wp /\ wp \in Nat
    BY <1>1, <1>2, <1>3, <2>1
  <2>4. {t \in 0 .. wp - 1 : t < x} = 0 .. x - 1
    BY <2>3
  <2>. QED  BY <2>1, <2>2, <2>4
<1>8. b >= n => Width <= 0
  BY <1>1, <1>2, <1>6 DEF Width, Least
<1>. QED  BY <1>1, <1>2, <1>5, <1>6, <1>7, <1>8

\* The inclusive scan of a chunk at base: what it has summed up at distance o, whether its
\* threads have added the sum of the chunks before, and the chunks after it untouched.
Scanned(p, base, width, o, joined) ==
  \A k \in 0 .. PlannedBatch - 1 :
    p[k] = IF k < base \/ (joined /\ k < base + width) THEN Sums[k + 1]
           ELSE IF k < base + width
                THEN Sums[k + 1] - Sums[IF k + 1 > base + o THEN k + 1 - o ELSE base]
                ELSE Splits[k]

Scanning(o, pc, temp) ==
  /\ scan = [w \in {0} |-> [offset |-> o, pc |-> pc, temp |-> temp]]
  /\ o \in Nat /\ o > 0 /\ pc \in {"read", "write", "joined"}
  /\ Scanned(prefix, Base, Width, o, pc = "joined")
  /\ pc = "write" => temp = [t \in 0 .. Width - 1 |-> IF t >= o THEN prefix[Base + t - o] ELSE 0]
  /\ Base >= PlannedBatch => o = 1 /\ pc = "read"

Metadata ==
  /\ chunk \in Nat /\ prefix \in [0 .. PlannedBatch - 1 -> Int]
  /\ sum = Sums[Least(Base, PlannedBatch)]
  /\ \E o, pc, temp : Scanning(o, pc, temp)
  /\ meta # <<>> => Base >= PlannedBatch /\ Schedule /\ Whole

LEMMA MetaFrozen ==
  ASSUME context' = context, tile' = tile
  PROVE  /\ PlannedBatch' = PlannedBatch /\ BlockDim' = BlockDim /\ Splits' = Splits /\ Sums' = Sums
         /\ chunk' = chunk => Base' = Base /\ Width' = Width
<1>1. PlannedBatch' = PlannedBatch
  BY DEF PlannedBatch
<1>2. BlockDim' = BlockDim
  BY <1>1 DEF BlockDim
<1>3. Splits' = Splits
  BY <1>1 DEF Splits
<1>4. Sums' = Sums
  BY <1>1, <1>3 DEF Sums
<1>5. chunk' = chunk => Base' = Base /\ Width' = Width
  BY <1>1, <1>2 DEF Base, Width
<1>. QED  BY <1>1, <1>2, <1>3, <1>4, <1>5

\* A warp that is done scanning the chunks has nothing left to do.
LEMMA ScanOver ==
  ASSUME OneWarp, context \in Contexts, tile \in Tiles, Metadata, MetaStep
  PROVE  meta = <<>>
<1>1. SUFFICES ASSUME Base >= PlannedBatch, ~Search  PROVE FALSE
  BY DEF Metadata, Search
<1>2. PICK o, pc, temp : Scanning(o, pc, temp)
  BY DEF Metadata
<1>3. MetaWarps = {0} /\ Width <= 0 /\ Base \in Nat /\ PlannedBatch \in Nat /\ Width \in Int
  <2>1. chunk \in Nat
    BY DEF Metadata
  <2>2. MetaWarps = {0} /\ Width <= 0 /\ Base \in Nat /\ PlannedBatch \in Nat /\ BlockDim \in Nat
    BY <1>1, <2>1, ChunkFacts, SumsFacts
  <2>. QED  BY <2>2 DEF Width, Least
<1>4. scan[0].offset = 1 /\ scan[0].pc = "read"
  BY <1>1, <1>2 DEF Scanning
<1>5. ~NextChunk /\ ~\E w \in MetaWarps : Read(w) \/ Write(w) \/ Add(w)
  BY <1>1, <1>3, <1>4 DEF NextChunk, Read, Write, Add
<1>. QED  BY <1>1, <1>5 DEF MetaStep

LEMMA ReadKeeps ==
  ASSUME OneWarp, context \in Contexts, tile \in Tiles, Metadata, meta = <<>>, NEW w \in MetaWarps, Read(w)
  PROVE  Metadata'
<1>1. PICK o, pc, temp : Scanning(o, pc, temp)
  BY DEF Metadata
<1>2. /\ w = 0 /\ context' = context /\ tile' = tile /\ prefix' = prefix /\ sum' = sum /\ chunk' = chunk
      /\ meta' = meta /\ chunk \in Nat
  BY ChunkFacts DEF Read, Metadata
<1>3. /\ PlannedBatch' = PlannedBatch /\ Splits' = Splits /\ Sums' = Sums /\ Base' = Base /\ Width' = Width
  BY <1>2, MetaFrozen
<1>4. pc = "read" /\ o < Width /\ o \in Nat
  BY <1>1, <1>2 DEF Read, Scanning
<1>5. Base < PlannedBatch /\ Lanes(0) = 0 .. Width - 1 /\ Base \in Nat /\ PlannedBatch \in Nat
  <2>1. Base \in Nat /\ PlannedBatch \in Nat /\ (Base < PlannedBatch => Lanes(0) = 0 .. Width - 1)
    BY <1>2, ChunkFacts, SumsFacts
  <2>2. Base >= PlannedBatch => Width <= 0
    BY <1>2, ChunkFacts
  <2>3. ~(Base >= PlannedBatch)
    <3>1. Width \in Int
      <4>1. BlockDim \in Nat
        BY <1>2, ChunkFacts
      <4>. QED  BY <2>1, <4>1 DEF Width, Least
    <3>. QED  BY <1>4, <2>2, <3>1
  <2>. QED  BY <2>1, <2>3
<1>6. PICK t1 : t1 = [t \in 0 .. Width - 1 |-> IF t >= o THEN prefix[Base + t - o] ELSE 0]
  OBVIOUS
<1>7. scan' = [v \in {0} |-> [offset |-> o, pc |-> "write", temp |-> t1]]
  <2>1. scan[0].offset = o
    BY <1>1 DEF Scanning
  <2>2. scan' = [scan EXCEPT ![0] = [offset |-> o, pc |-> "write", temp |-> t1]]
    BY <1>2, <1>5, <1>6, <2>1 DEF Read
  <2>. QED  BY <1>1, <2>2 DEF Scanning
<1>8. Scanning(o, "write", t1)'
  <2>1. Scanned(prefix, Base, Width, o, FALSE)
    BY <1>1, <1>4 DEF Scanning
  <2>2. Scanned(prefix, Base, Width, o, FALSE)'
    BY <1>2, <1>3, <2>1 DEF Scanned
  <2>3. o > 0 /\ o \in Nat
    BY <1>1 DEF Scanning
  <2>4. ~(Base' >= PlannedBatch')
    BY <1>3, <1>5
  <2>. QED  BY <1>2, <1>3, <1>6, <1>7, <2>2, <2>3, <2>4 DEF Scanning
<1>. QED  BY <1>2, <1>3, <1>8 DEF Metadata

LEMMA WriteKeeps ==
  ASSUME OneWarp, context \in Contexts, tile \in Tiles, Metadata, meta = <<>>, NEW w \in MetaWarps, Write(w)
  PROVE  Metadata'
<1>1. PICK o, pc, temp : Scanning(o, pc, temp)
  BY DEF Metadata
<1>2. /\ w = 0 /\ context' = context /\ tile' = tile /\ sum' = sum /\ chunk' = chunk
      /\ meta' = meta /\ chunk \in Nat /\ prefix \in [0 .. PlannedBatch - 1 -> Int]
  BY ChunkFacts DEF Write, Metadata
<1>3. /\ PlannedBatch' = PlannedBatch /\ Splits' = Splits /\ Sums' = Sums /\ Base' = Base /\ Width' = Width
  BY <1>2, MetaFrozen
<1>4. pc = "write" /\ o \in Nat /\ o > 0
  BY <1>1, <1>2 DEF Write, Scanning
<1>5. PICK n, b, x : n = PlannedBatch /\ b = Base /\ x = Width
  OBVIOUS
<1>6. b < n /\ Lanes(0) = 0 .. x - 1 /\ b \in Nat /\ n \in Nat /\ x \in Nat /\ x > 0 /\ b + x <= n
  <2>1. b \in Nat /\ n \in Nat /\ ~(b >= n)
    BY <1>1, <1>2, <1>4, <1>5, ChunkFacts, SumsFacts DEF Scanning
  <2>. QED  BY <1>2, <1>5, <2>1, ChunkFacts
<1>7. temp = [t \in 0 .. x - 1 |-> IF t >= o THEN prefix[b + t - o] ELSE 0]
  BY <1>1, <1>4, <1>5 DEF Scanning
<1>8. prefix' = [k \in 0 .. n - 1 |-> IF k - b \in 0 .. x - 1 THEN prefix[k] + temp[k - b] ELSE prefix[k]]
  <2>1. scan[0].temp = temp /\ DOMAIN prefix = 0 .. n - 1
    BY <1>1, <1>2, <1>5 DEF Scanning
  <2>. QED  BY <1>2, <1>5, <1>6, <2>1 DEF Write
<1>9. scan' = [v \in {0} |-> [offset |-> 2 * o, pc |-> "read", temp |-> <<>>]]
  BY <1>1, <1>2 DEF Write, Scanning
<1>10. /\ Sums \in [0 .. n -> Nat]
       /\ \A k \in 0 .. n - 1 : prefix[k] =
            IF k < b THEN Sums[k + 1]
            ELSE IF k < b + x THEN Sums[k + 1] - Sums[IF k + 1 > b + o THEN k + 1 - o ELSE b] ELSE Splits[k]
  <2>1. Sums \in [0 .. n -> Nat]
    BY <1>5, SumsFacts
  <2>. QED  BY <1>1, <1>4, <1>5, <2>1 DEF Scanning, Scanned
<1>11. ASSUME NEW k \in 0 .. n - 1
       PROVE  /\ prefix'[k] \in Int
              /\ prefix'[k] = IF k < b THEN Sums[k + 1]
                              ELSE IF k < b + x THEN Sums[k + 1] - Sums[IF k + 1 > b + 2 * o THEN k + 1 - 2 * o ELSE b]
                              ELSE Splits[k]
  <2>1. CASE k - b \in 0 .. x - 1
    <3>1. PICK t \in 0 .. x - 1 : t = k - b /\ k = b + t /\ ~(k < b) /\ k < b + x
      BY <1>6, <2>1
    <3>2. prefix'[k] = prefix[k] + (IF t >= o THEN prefix[b + t - o] ELSE 0)
      BY <1>7, <1>8, <2>1, <3>1
    <3>3. prefix[k] = Sums[k + 1] - Sums[IF k + 1 > b + o THEN k + 1 - o ELSE b]
      BY <1>10, <3>1
    <3>4. k + 1 \in 0 .. n /\ b \in 0 .. n /\ Sums[k + 1] \in Nat /\ Sums[b] \in Nat
      BY <1>6, <1>10, <3>1
    <3>5. CASE t >= o
      <4>1. PICK j \in 0 .. n - 1 : j = b + t - o /\ ~(j < b) /\ j < b + x /\ j + 1 = k + 1 - o
        BY <1>4, <1>6, <3>1, <3>5
      <4>2. prefix[j] = Sums[k + 1 - o] - Sums[IF j + 1 > b + o THEN j + 1 - o ELSE b]
        BY <1>10, <4>1
      <4>3. (j + 1 > b + o <=> k + 1 > b + 2 * o) /\ j + 1 - o = k + 1 - 2 * o /\ k + 1 > b + o
        BY <1>4, <1>6, <3>1, <3>5, <4>1
      <4>4. PICK i \in 0 .. n : i = IF k + 1 > b + 2 * o THEN k + 1 - 2 * o ELSE b
        <5>1. k + 1 > b + 2 * o => k + 1 - 2 * o \in 0 .. n
          BY <1>4, <1>6, <3>1
        <5>. QED  BY <3>4, <5>1
      <4>5. prefix[k] = Sums[k + 1] - Sums[j + 1] /\ prefix[j] = Sums[j + 1] - Sums[i]
        BY <3>3, <4>1, <4>2, <4>3, <4>4
      <4>6. Sums[j + 1] \in Nat /\ Sums[i] \in Nat
        <5>1. j + 1 \in 0 .. n /\ i \in 0 .. n
          BY <1>6, <4>1, <4>4
        <5>. QED  BY <1>10, <5>1
      <4>7. prefix'[k] = Sums[k + 1] - Sums[i]
        BY <3>2, <3>4, <3>5, <4>1, <4>5, <4>6
      <4>. QED  BY <3>1, <3>4, <4>4, <4>6, <4>7
    <3>6. CASE ~(t >= o)
      <4>1. ~(k + 1 > b + o) /\ ~(k + 1 > b + 2 * o)
        BY <1>4, <1>6, <3>1, <3>6
      <4>. QED  BY <3>1, <3>2, <3>3, <3>4, <3>6, <4>1
    <3>. QED  BY <3>5, <3>6
  <2>2. CASE k - b \notin 0 .. x - 1
    <3>1. prefix'[k] = prefix[k] /\ prefix[k] \in Int
      BY <1>2, <1>5, <1>8, <2>2
    <3>2. ~(k < b) => ~(k < b + x)
      BY <1>6, <2>2
    <3>. QED  BY <1>10, <3>1, <3>2
  <2>. QED  BY <2>1, <2>2
<1>12. prefix' \in [0 .. n - 1 -> Int]
  BY <1>8, <1>11
<1>13. Scanning(2 * o, "read", <<>>)'
  <2>1. Scanned(prefix', b, x, 2 * o, FALSE)
    BY <1>3, <1>5, <1>11 DEF Scanned
  <2>2. Scanned(prefix, Base, Width, 2 * o, FALSE)'
    BY <1>3, <1>5, <2>1 DEF Scanned
  <2>3. 2 * o \in Nat /\ 2 * o > 0
    BY <1>4
  <2>4. ~(Base' >= PlannedBatch')
    BY <1>3, <1>5, <1>6
  <2>. QED  BY <1>9, <2>2, <2>3, <2>4 DEF Scanning
<1>. QED  BY <1>2, <1>3, <1>5, <1>12, <1>13 DEF Metadata

LEMMA AddKeeps ==
  ASSUME OneWarp, context \in Contexts, tile \in Tiles, Metadata, meta = <<>>, NEW w \in MetaWarps, Add(w)
  PROVE  Metadata'
<1>1. PICK o, pc, temp : Scanning(o, pc, temp)
  BY DEF Metadata
<1>2. /\ w = 0 /\ context' = context /\ tile' = tile /\ sum' = sum /\ chunk' = chunk
      /\ meta' = meta /\ chunk \in Nat /\ prefix \in [0 .. PlannedBatch - 1 -> Int]
  BY ChunkFacts DEF Add, Metadata
<1>3. /\ PlannedBatch' = PlannedBatch /\ Splits' = Splits /\ Sums' = Sums /\ Base' = Base /\ Width' = Width
  BY <1>2, MetaFrozen
<1>4. pc = "read" /\ o \in Nat /\ o > 0 /\ o >= Width
  BY <1>1, <1>2 DEF Add, Scanning
<1>5. PICK n, b, x : n = PlannedBatch /\ b = Base /\ x = Width
  OBVIOUS
<1>6. b < n /\ Lanes(0) = 0 .. x - 1 /\ b \in Nat /\ n \in Nat /\ x \in Nat /\ x > 0 /\ b + x <= n
  <2>1. b \in Nat /\ n \in Nat /\ b < n
    BY <1>2, <1>5, ChunkFacts, SumsFacts DEF Add
  <2>. QED  BY <1>2, <1>5, <2>1, ChunkFacts
<1>7. Sums \in [0 .. n -> Nat] /\ sum = Sums[b]
  <2>1. Sums \in [0 .. n -> Nat]
    BY <1>5, SumsFacts
  <2>2. Least(b, n) = b
    BY <1>6 DEF Least
  <2>. QED  BY <1>5, <2>1, <2>2 DEF Metadata
<1>8. prefix' = [k \in 0 .. n - 1 |-> IF k - b \in 0 .. x - 1 THEN prefix[k] + sum ELSE prefix[k]]
  <2>1. DOMAIN prefix = 0 .. n - 1
    BY <1>2, <1>5
  <2>. QED  BY <1>2, <1>5, <1>6, <2>1 DEF Add
<1>9. scan' = [v \in {0} |-> [offset |-> o, pc |-> "joined", temp |-> <<>>]]
  <2>1. scan[0].offset = o
    BY <1>1 DEF Scanning
  <2>2. scan' = [scan EXCEPT ![0] = [offset |-> o, pc |-> "joined", temp |-> <<>>]]
    BY <1>2, <2>1 DEF Add
  <2>. QED  BY <1>1, <2>2 DEF Scanning
<1>10. \A k \in 0 .. n - 1 : prefix[k] =
            IF k < b THEN Sums[k + 1]
            ELSE IF k < b + x THEN Sums[k + 1] - Sums[IF k + 1 > b + o THEN k + 1 - o ELSE b] ELSE Splits[k]
  BY <1>1, <1>4, <1>5 DEF Scanning, Scanned
<1>11. ASSUME NEW k \in 0 .. n - 1
       PROVE  prefix'[k] \in Int /\ prefix'[k] = IF k < b + x THEN Sums[k + 1] ELSE Splits[k]
  <2>1. CASE k - b \in 0 .. x - 1
    <3>1. ~(k < b) /\ k < b + x /\ ~(k + 1 > b + o) /\ k + 1 \in 0 .. n /\ b \in 0 .. n
      BY <1>4, <1>5, <1>6, <2>1
    <3>2. prefix'[k] = prefix[k] + Sums[b] /\ prefix[k] = Sums[k + 1] - Sums[b]
      BY <1>7, <1>8, <1>10, <2>1, <3>1
    <3>3. Sums[k + 1] \in Nat /\ Sums[b] \in Nat
      BY <1>7, <3>1
    <3>. QED  BY <3>1, <3>2, <3>3
  <2>2. CASE k - b \notin 0 .. x - 1
    <3>1. prefix'[k] = prefix[k] /\ prefix[k] \in Int
      BY <1>2, <1>5, <1>8, <2>2
    <3>2. (k < b + x) <=> k < b
      BY <1>6, <2>2
    <3>. QED  BY <1>10, <3>1, <3>2
  <2>. QED  BY <2>1, <2>2
<1>12. prefix' \in [0 .. n - 1 -> Int]
  BY <1>8, <1>11
<1>13. Scanning(o, "joined", <<>>)'
  <2>1. \A k \in 0 .. n - 1 : k < b => k < b + x
    BY <1>6
  <2>2. Scanned(prefix', b, x, o, TRUE)
    BY <1>3, <1>5, <1>11, <2>1 DEF Scanned
  <2>3. Scanned(prefix, Base, Width, o, TRUE)'
    BY <1>3, <1>5, <2>2 DEF Scanned
  <2>4. ~(Base' >= PlannedBatch')
    BY <1>3, <1>5, <1>6
  <2>. QED  BY <1>4, <1>9, <2>3, <2>4 DEF Scanning
<1>. QED  BY <1>2, <1>3, <1>5, <1>12, <1>13 DEF Metadata

LEMMA NextChunkKeeps ==
  ASSUME OneWarp, context \in Contexts, tile \in Tiles, Metadata, meta = <<>>, NextChunk
  PROVE  Metadata'
<1>1. PICK o, pc, temp : Scanning(o, pc, temp)
  BY DEF Metadata
<1>2. /\ context' = context /\ tile' = tile /\ prefix' = prefix /\ chunk' = chunk + 1
      /\ meta' = meta /\ chunk \in Nat /\ prefix \in [0 .. PlannedBatch - 1 -> Int]
  BY DEF NextChunk, Metadata
<1>3. /\ PlannedBatch' = PlannedBatch /\ Splits' = Splits /\ Sums' = Sums /\ BlockDim' = BlockDim
  BY <1>2, MetaFrozen
<1>4. pc = "joined"
  BY <1>1, <1>2, ChunkFacts DEF NextChunk, Scanning
<1>5. PICK n, b, x, d : n = PlannedBatch /\ b = Base /\ x = Width /\ d = BlockDim
  OBVIOUS
<1>6. /\ b < n /\ b \in Nat /\ n \in Nat /\ x \in Nat /\ x > 0 /\ b + x <= n
      /\ d \in Nat /\ d > 0 /\ Least(b + d, n) = b + x
  <2>1. b \in Nat /\ n \in Nat /\ b < n /\ d \in Nat /\ d > 0
    BY <1>2, <1>5, ChunkFacts, SumsFacts DEF NextChunk
  <2>. QED  BY <1>2, <1>5, <2>1, ChunkFacts
<1>7. Base' = b + d
  BY <1>2, <1>3, <1>5, ChunkFacts DEF Base
<1>8. /\ Sums \in [0 .. n -> Nat] /\ Splits \in [0 .. n - 1 -> Nat]
      /\ \A k \in 0 .. n - 1 : Sums[k + 1] = Sums[k] + Splits[k]
  BY <1>5, SumsFacts
<1>9. \A k \in 0 .. n - 1 : /\ (k < b \/ k < b + x) => prefix[k] = Sums[k + 1]
                            /\ ~(k < b \/ k < b + x) => prefix[k] = Splits[k]
  BY <1>1, <1>4, <1>5 DEF Scanning, Scanned
<1>10. sum' = Sums[b + x]
  <2>1. b + x - 1 \in 0 .. n - 1 /\ b + x - 1 < b + x /\ (b + x - 1) + 1 = b + x
    BY <1>6
  <2>2. sum' = prefix[b + x - 1]
    BY <1>5 DEF NextChunk
  <2>. QED  BY <1>9, <2>1, <2>2
<1>11. scan' = [v \in {0} |-> [offset |-> 1, pc |-> "read", temp |-> <<>>]]
  BY <1>2, ChunkFacts DEF NextChunk, ScanStart
<1>12. PICK y : y = Width'
  OBVIOUS
<1>13. ASSUME NEW k \in 0 .. n - 1
       PROVE  prefix[k] = IF k < b + d THEN Sums[k + 1]
                          ELSE IF k < b + d + y THEN Sums[k + 1] - Sums[IF k + 1 > b + d + 1 THEN k + 1 - 1 ELSE b + d]
                          ELSE Splits[k]
  <2>1. (k < b \/ k < b + x) <=> k < b + d
    BY <1>6 DEF Least
  <2>2. CASE ~(k < b + d)
    <3>1. (IF k + 1 > b + d + 1 THEN k + 1 - 1 ELSE b + d) = k
      BY <1>6, <2>2
    <3>2. Sums[k + 1] = Sums[k] + Splits[k] /\ Sums[k] \in Nat /\ Splits[k] \in Nat
      <4>1. k \in 0 .. n
        BY <1>6
      <4>. QED  BY <1>8, <4>1
    <3>3. Sums[k + 1] - Sums[k] = Splits[k]
      BY <3>2
    <3>. QED  BY <1>9, <2>1, <2>2, <3>1, <3>3
  <2>. QED  BY <1>9, <2>1, <2>2
<1>14. Scanning(1, "read", <<>>)'
  <2>1. PICK c : c = b + d
    OBVIOUS
  <2>2. Scanned(prefix', c, y, 1, FALSE)
    BY <1>2, <1>5, <1>13, <2>1 DEF Scanned
  <2>3. Base' = c /\ Width' = y
    BY <1>7, <1>12, <2>1
  <2>4. Scanned(prefix, Base, Width, 1, FALSE)'
    BY <1>3, <2>2, <2>3 DEF Scanned
  <2>5. ("read" = "joined") = FALSE
    OBVIOUS
  <2>6. Scanned(prefix, Base, Width, 1, "read" = "joined")'
    BY <2>4, <2>5
  <2>. QED  BY <1>11, <2>6 DEF Scanning
<1>15. sum' = Sums'[Least(Base', PlannedBatch')]
  BY <1>3, <1>5, <1>6, <1>7, <1>10
<1>16. sum' = Sums[Least(Base, PlannedBatch)]'
  BY <1>15 DEF Least
<1>. QED  BY <1>2, <1>3, <1>14, <1>16 DEF Metadata

-----------------------------------------------------------------------------
(* The binary search. *)

\* q is what a search of left .. right answers: the first request whose prefix sum
\* exceeds start, or what was found before.
Answer(p, start, r, q) ==
  \/ q \in r[1] .. r[2] /\ p[q] > start /\ \A k \in r[1] .. q - 1 : p[k] <= start
  \/ q = r[3] /\ \A k \in r[1] .. r[2] : p[k] <= start

SearchIn(n) == (0 .. n) \X (-1 .. n - 1) \X (0 .. n)
Probe(r) == (r[1] + r[2]) \div 2
Lower(r) == <<r[1], Probe(r) - 1, Probe(r)>>
Upper(r) == <<Probe(r) + 1, r[2], r[3]>>
SearchOf(n, p, start) ==
  LET search[r \in SearchIn(n)] ==
        IF r[1] > r[2] THEN r[3] ELSE IF p[Probe(r)] > start THEN search[Lower(r)] ELSE search[Upper(r)]
  IN  search

LEMMA ProbeFacts ==
  ASSUME NEW n \in Nat, n > 0, NEW r \in SearchIn(n), r[1] <= r[2]
  PROVE  /\ r[1] \in 0 .. n /\ r[2] \in -1 .. n - 1 /\ r[3] \in 0 .. n
         /\ Probe(r) \in r[1] .. r[2] /\ Probe(r) \in 0 .. n - 1
         /\ Lower(r) \in SearchIn(n) /\ Upper(r) \in SearchIn(n)
         /\ Lower(r)[1] = r[1] /\ Lower(r)[2] = Probe(r) - 1 /\ Lower(r)[3] = Probe(r)
         /\ Upper(r)[1] = Probe(r) + 1 /\ Upper(r)[2] = r[2] /\ Upper(r)[3] = r[3]
<1>1. r[1] \in 0 .. n /\ r[2] \in -1 .. n - 1 /\ r[3] \in 0 .. n
  BY DEF SearchIn
<1>2. PICK a \in 0 .. n, b \in -1 .. n - 1 : a = r[1] /\ b = r[2] /\ a <= b
  BY <1>1
<1>3. (a + b) \div 2 \in a .. b
  BY <1>2
<1>4. PICK m \in a .. b : m = Probe(r)
  BY <1>2, <1>3 DEF Probe
<1>5. m \in 0 .. n - 1 /\ m - 1 \in -1 .. n - 1 /\ m \in 0 .. n /\ m + 1 \in 0 .. n
  BY <1>2, <1>4
<1>6. Lower(r) = <<r[1], m - 1, m>> /\ Upper(r) = <<m + 1, r[2], r[3]>>
  BY <1>4 DEF Lower, Upper
<1>7. Lower(r) \in SearchIn(n) /\ Upper(r) \in SearchIn(n)
  BY <1>1, <1>5, <1>6 DEF SearchIn
<1>. QED  BY <1>1, <1>2, <1>4, <1>5, <1>6, <1>7

\* What half of the range answers is the answer for the range.
LEMMA AnswerStep ==
  ASSUME NEW n \in Nat, n > 0, NEW p \in [0 .. n - 1 -> Int], NEW start \in Int,
         \A i, k \in 0 .. n - 1 : i <= k => p[i] <= p[k],
         NEW r \in SearchIn(n), r[1] <= r[2], NEW q
  PROVE  /\ (p[Probe(r)] > start /\ Answer(p, start, Lower(r), q)) => Answer(p, start, r, q)
         /\ (~(p[Probe(r)] > start) /\ Answer(p, start, Upper(r), q)) => Answer(p, start, r, q)
<1>1. PICK a \in 0 .. n, b \in -1 .. n - 1, f \in 0 .. n : a = r[1] /\ b = r[2] /\ f = r[3]
  BY ProbeFacts
<1>2. PICK m \in 0 .. n - 1 : m = Probe(r) /\ m \in a .. b
  BY <1>1, ProbeFacts
<1>3. ASSUME p[m] > start, Answer(p, start, Lower(r), q)  PROVE Answer(p, start, r, q)
  <2>1. \/ q \in a .. m - 1 /\ p[q] > start /\ \A k \in a .. q - 1 : p[k] <= start
        \/ q = m /\ \A k \in a .. m - 1 : p[k] <= start
    BY <1>1, <1>2, <1>3, ProbeFacts DEF Answer
  <2>2. q \in a .. b /\ p[q] > start /\ \A k \in a .. q - 1 : p[k] <= start
    BY <1>2, <1>3, <2>1
  <2>. QED  BY <1>1, <2>2 DEF Answer
<1>4. ASSUME ~(p[m] > start), Answer(p, start, Upper(r), q)  PROVE Answer(p, start, r, q)
  <2>1. \/ q \in m + 1 .. b /\ p[q] > start /\ \A k \in m + 1 .. q - 1 : p[k] <= start
        \/ q = f /\ \A k \in m + 1 .. b : p[k] <= start
    BY <1>1, <1>2, <1>4, ProbeFacts DEF Answer
  <2>2. ASSUME NEW k \in a .. m  PROVE p[k] <= start
    <3>1. k \in 0 .. n - 1 /\ k <= m
      BY <1>2
    <3>2. p[k] \in Int /\ p[m] \in Int /\ p[k] <= p[m]
      BY <3>1
    <3>. QED  BY <1>4, <3>2
  <2>3. CASE q \in m + 1 .. b /\ p[q] > start /\ \A k \in m + 1 .. q - 1 : p[k] <= start
    <3>1. q \in a .. b
      BY <1>2, <2>3
    <3>2. ASSUME NEW k \in a .. q - 1  PROVE p[k] <= start
      <4>1. k \in a .. m \/ k \in m + 1 .. q - 1
        BY <1>2, <2>3
      <4>. QED  BY <2>2, <2>3, <4>1
    <3>. QED  BY <1>1, <2>3, <3>1, <3>2 DEF Answer
  <2>4. CASE q = f /\ \A k \in m + 1 .. b : p[k] <= start
    <3>1. ASSUME NEW k \in a .. b  PROVE p[k] <= start
      <4>1. k \in a .. m \/ k \in m + 1 .. b
        BY <1>2
      <4>. QED  BY <2>2, <2>4, <4>1
    <3>. QED  BY <1>1, <2>4, <3>1 DEF Answer
  <2>. QED  BY <2>1, <2>3, <2>4
<1>. QED  BY <1>2, <1>3, <1>4

\* A search has one answer,
LEMMA AnswerUnique ==
  ASSUME NEW n \in Nat, n > 0, NEW p \in [0 .. n - 1 -> Int], NEW start \in Int,
         NEW r \in SearchIn(n), NEW q, NEW e, Answer(p, start, r, q), Answer(p, start, r, e)
  PROVE  q = e
<1>1. PICK a \in 0 .. n, b \in -1 .. n - 1, f \in 0 .. n : a = r[1] /\ b = r[2] /\ f = r[3]
  BY DEF SearchIn
<1>2. /\ \/ q \in a .. b /\ p[q] > start /\ \A k \in a .. q - 1 : p[k] <= start
         \/ q = f /\ \A k \in a .. b : p[k] <= start
      /\ \/ e \in a .. b /\ p[e] > start /\ \A k \in a .. e - 1 : p[k] <= start
         \/ e = f /\ \A k \in a .. b : p[k] <= start
  BY <1>1 DEF Answer
<1>3. \A k \in a .. b : k \in 0 .. n - 1 /\ (p[k] > start => ~(p[k] <= start))
  BY <1>1
<1>4. CASE q \in a .. b /\ p[q] > start /\ \A k \in a .. q - 1 : p[k] <= start
  <2>1. ~\A k \in a .. b : p[k] <= start
    BY <1>3, <1>4
  <2>2. e \in a .. b /\ p[e] > start /\ \A k \in a .. e - 1 : p[k] <= start
    BY <1>2, <2>1
  <2>3. q \notin a .. e - 1 /\ e \notin a .. q - 1
    BY <1>3, <1>4, <2>2
  <2>4. q \in Int /\ e \in Int
    BY <1>1, <1>4, <2>2
  <2>. QED  BY <1>1, <1>4, <2>2, <2>3, <2>4
<1>5. CASE q = f /\ \A k \in a .. b : p[k] <= start
  <2>1. ~(e \in a .. b /\ p[e] > start)
    BY <1>3, <1>5
  <2>. QED  BY <1>2, <1>5, <2>1
<1>. QED  BY <1>2, <1>4, <1>5

\* and always one.
LEMMA AnswerExists ==
  ASSUME NEW n \in Nat, n > 0, NEW p \in [0 .. n - 1 -> Int], NEW start \in Int,
         NEW r \in SearchIn(n)
  PROVE  \E q : Answer(p, start, r, q)
<1>1. PICK a \in 0 .. n, b \in -1 .. n - 1, f \in 0 .. n : a = r[1] /\ b = r[2] /\ f = r[3]
  BY DEF SearchIn
<1>2. PICK T : T = {k \in a .. b : p[k] > start}
  OBVIOUS
<1>3. CASE T = {}
  <2>1. ASSUME NEW k \in a .. b  PROVE p[k] <= start
    <3>1. ~(p[k] > start)
      BY <1>2, <1>3
    <3>2. p[k] \in Int
      <4>1. k \in 0 .. n - 1
        BY <1>1
      <4>. QED  BY <4>1
    <3>. QED  BY <3>1, <3>2
  <2>. QED  BY <1>1, <2>1 DEF Answer
<1>4. CASE T # {}
  <2>1. T \subseteq Nat
    BY <1>1, <1>2
  <2>2. PICK q \in T : \A k \in T : q <= k
    BY <1>4, <2>1, LeastMember
  <2>3. q \in a .. b /\ p[q] > start
    BY <1>2, <2>2
  <2>4. ASSUME NEW k \in a .. q - 1  PROVE p[k] <= start
    <3>1. k \in a .. b /\ ~(q <= k)
      BY <1>1, <2>3
    <3>2. ~(p[k] > start)
      BY <1>2, <2>2, <3>1
    <3>3. p[k] \in Int
      BY <1>1, <3>1
    <3>. QED  BY <3>2, <3>3
  <2>. QED  BY <1>1, <2>3, <2>4 DEF Answer
<1>. QED  BY <1>3, <1>4

\* The search returns the answer.
LEMMA SearchAnswers ==
  ASSUME NEW n \in Nat, n > 0, NEW p \in [0 .. n - 1 -> Int], NEW start \in Int,
         \A i, k \in 0 .. n - 1 : i <= k => p[i] <= p[k]
  PROVE  Answer(p, start, <<0, n - 1, n>>, SearchOf(n, p, start)[<<0, n - 1, n>>])
<1>. DEFINE Step(f) == f = [r \in SearchIn(n) |->
              IF r[1] > r[2] THEN r[3] ELSE IF p[Probe(r)] > start THEN f[Lower(r)] ELSE f[Upper(r)]]
<1>0. PICK D : D = SearchIn(n)
  OBVIOUS
<1>1. PICK e : e = [r \in D |-> CHOOSE q : Answer(p, start, r, q)]
  OBVIOUS
<1>2. \A r \in D : Answer(p, start, r, e[r])
  BY <1>0, <1>1, AnswerExists
<1>3. ASSUME NEW r \in D
      PROVE  e[r] = IF r[1] > r[2] THEN r[3] ELSE IF p[Probe(r)] > start THEN e[Lower(r)] ELSE e[Upper(r)]
  <2>1. CASE r[1] > r[2]
    <3>1. r[1] \in 0 .. n /\ r[2] \in -1 .. n - 1
      BY <1>0 DEF SearchIn
    <3>2. r[1] .. r[2] = {}
      BY <2>1, <3>1
    <3>3. Answer(p, start, r, r[3])
      BY <3>2 DEF Answer
    <3>4. e[r] = r[3]
      BY <1>0, <1>2, <3>3, AnswerUnique
    <3>. QED  BY <2>1, <3>4
  <2>2. CASE ~(r[1] > r[2])
    <3>1. r[1] <= r[2]
      <4>1. r[1] \in Int /\ r[2] \in Int
        BY <1>0 DEF SearchIn
      <4>. QED  BY <2>2, <4>1
    <3>2. Lower(r) \in D /\ Upper(r) \in D
      BY <1>0, <3>1, ProbeFacts
    <3>3. CASE p[Probe(r)] > start
      <4>1. Answer(p, start, r, e[Lower(r)])
        BY <1>0, <1>2, <3>1, <3>2, <3>3, AnswerStep
      <4>2. e[r] = e[Lower(r)]
        BY <1>0, <1>2, <4>1, AnswerUnique
      <4>. QED  BY <2>2, <3>3, <4>2
    <3>4. CASE ~(p[Probe(r)] > start)
      <4>1. Answer(p, start, r, e[Upper(r)])
        BY <1>0, <1>2, <3>1, <3>2, <3>4, AnswerStep
      <4>2. e[r] = e[Upper(r)]
        BY <1>0, <1>2, <4>1, AnswerUnique
      <4>. QED  BY <2>2, <3>4, <4>2
    <3>. QED  BY <3>3, <3>4
  <2>. QED  BY <2>1, <2>2
<1>4. Step(e)
  <2>1. PICK r : r = [x \in D |-> IF x[1] > x[2] THEN x[3]
                                  ELSE IF p[Probe(x)] > start THEN e[Lower(x)] ELSE e[Upper(x)]]
    OBVIOUS
  <2>2. \A x \in D : e[x] = r[x]
    BY <1>3, <2>1
  <2>3. e = r
    BY <1>1, <2>1, <2>2
  <2>. QED  BY <1>0, <2>1, <2>3
<1>5. PICK g : g = CHOOSE f : Step(f)
  OBVIOUS
<1>6. Step(g)
  <2>. HIDE DEF Step
  <2>. QED  BY <1>4, <1>5
<1>7. SearchOf(n, p, start) = g
  BY <1>5 DEF SearchOf
<1>. DEFINE S == {i \in Nat : \A r \in D : r[2] + 1 - r[1] <= i => Answer(p, start, r, g[r])}
<1>8. \A r \in D : g[r] = IF r[1] > r[2] THEN r[3] ELSE IF p[Probe(r)] > start THEN g[Lower(r)] ELSE g[Upper(r)]
  BY <1>0, <1>6
<1>9. ASSUME NEW r \in D, r[1] > r[2]  PROVE Answer(p, start, r, g[r])
  <2>1. r[1] \in 0 .. n /\ r[2] \in -1 .. n - 1
    BY <1>0 DEF SearchIn
  <2>2. r[1] .. r[2] = {}
    BY <1>9, <2>1
  <2>3. g[r] = r[3]
    BY <1>8, <1>9
  <2>. QED  BY <2>2, <2>3 DEF Answer
<1>10. 0 \in S
  <2>1. ASSUME NEW r \in D, r[2] + 1 - r[1] <= 0  PROVE r[1] > r[2]
    <3>1. r[1] \in Int /\ r[2] \in Int
      BY <1>0 DEF SearchIn
    <3>. QED  BY <2>1, <3>1
  <2>. QED  BY <1>9, <2>1
<1>11. ASSUME NEW i \in Nat, i \in S  PROVE i + 1 \in S
  <2>1. SUFFICES ASSUME NEW r \in D, r[2] + 1 - r[1] <= i + 1, ~(r[1] > r[2])  PROVE Answer(p, start, r, g[r])
    BY <1>9
  <2>2. r[1] \in Int /\ r[2] \in Int
    BY <1>0 DEF SearchIn
  <2>3. r[1] <= r[2]
    BY <2>1, <2>2
  <2>4. /\ Lower(r) \in D /\ Upper(r) \in D /\ Probe(r) \in r[1] .. r[2]
        /\ Lower(r)[1] = r[1] /\ Lower(r)[2] = Probe(r) - 1
        /\ Upper(r)[1] = Probe(r) + 1 /\ Upper(r)[2] = r[2]
    BY <1>0, <2>3, ProbeFacts
  <2>5. Lower(r)[2] + 1 - Lower(r)[1] <= i /\ Upper(r)[2] + 1 - Upper(r)[1] <= i
    BY <2>1, <2>2, <2>4
  <2>6. Answer(p, start, Lower(r), g[Lower(r)]) /\ Answer(p, start, Upper(r), g[Upper(r)])
    BY <1>11, <2>4, <2>5
  <2>7. CASE p[Probe(r)] > start
    <3>1. g[r] = g[Lower(r)]
      BY <1>8, <2>1, <2>7
    <3>. QED  BY <1>0, <2>3, <2>6, <2>7, <3>1, AnswerStep
  <2>8. CASE ~(p[Probe(r)] > start)
    <3>1. g[r] = g[Upper(r)]
      BY <1>8, <2>1, <2>8
    <3>. QED  BY <1>0, <2>3, <2>6, <2>8, <3>1, AnswerStep
  <2>. QED  BY <2>7, <2>8
<1>12. n \in S
  <2>. HIDE DEF S
  <2>1. \A i \in 0 .. n - 1 : i \in S => i + 1 \in S
    BY <1>11
  <2>. QED  BY <1>10, <2>1, UpTo
<1>13. PICK r : r = <<0, n - 1, n>>
  OBVIOUS
<1>14. r \in D /\ r[2] + 1 - r[1] <= n
  BY <1>0, <1>13 DEF SearchIn
<1>15. Answer(p, start, r, g[r])
  BY <1>12, <1>14
<1>. QED  BY <1>7, <1>13, <1>15

-----------------------------------------------------------------------------
(* The schedule. *)

LEMMA Sizes ==
  ASSUME context \in Contexts, tile \in Tiles
  PROVE  /\ PlannedBatch \in Nat /\ PlannedBatch > 0 /\ tile.groups \in 1 .. 2
         /\ Word \in Nat /\ Word > 0 /\ NumBlocks \in Nat /\ NumBlocks > 0
<1>1. Word \in Nat /\ Word > 0 /\ NumBlocks \in Nat /\ NumBlocks > 0
  BY PagedLogitsAssumption
<1>2. tile.groups \in 1 .. 2
  BY PagedLogitsAssumption
<1>. QED  BY <1>1, <1>2, SumsFacts

\* The splits before segment s when total splits are handed out to n CTAs.
StartOf(total, n, s) == s * (total \div n) + Least(s, total % n)

\* The starts of the segments cover 0 to total in order.
LEMMA StartFacts ==
  ASSUME NEW total \in Nat, NEW n \in Nat, n > 0
  PROVE  /\ \A s \in 0 .. n : StartOf(total, n, s) \in Nat
         /\ StartOf(total, n, 0) = 0 /\ StartOf(total, n, n) = total
         /\ \A s, u \in 0 .. n : s <= u => StartOf(total, n, s) <= StartOf(total, n, u)
<1>1. PICK q \in Nat, j \in 0 .. n - 1 : total = q * n + j /\ total \div n = q /\ total % n = j
  BY DivMod
<1>2. \A s \in 0 .. n : StartOf(total, n, s) = s * q + Least(s, j)
  BY <1>1 DEF StartOf
<1>3. \A s \in 0 .. n : s * q \in Nat /\ Least(s, j) \in Nat
  BY <1>1 DEF Least
<1>4. StartOf(total, n, 0) = 0
  <2>1. 0 * q = 0 /\ Least(0, j) = 0 /\ 0 \in 0 .. n
    BY <1>1 DEF Least
  <2>. QED  BY <1>2, <2>1
<1>5. StartOf(total, n, n) = total
  <2>1. n * q = q * n /\ Least(n, j) = j /\ n \in 0 .. n
    BY <1>1 DEF Least
  <2>. QED  BY <1>1, <1>2, <2>1
<1>6. ASSUME NEW s \in 0 .. n, NEW u \in 0 .. n, s <= u
      PROVE  StartOf(total, n, s) <= StartOf(total, n, u)
  <2>1. PICK v \in Nat : u = s + v
    <3>1. u - s \in Nat /\ u = s + (u - s)
      BY <1>6
    <3>. QED  BY <3>1
  <2>2. PICK a \in Nat, b \in Nat, c \in Nat : a = s * q /\ b = u * q /\ c = v * q
    BY <1>1
  <2>3. u * q = s * q + v * q
    BY <1>1, <2>1
  <2>4. Least(s, j) <= Least(u, j) /\ Least(s, j) \in Nat /\ Least(u, j) \in Nat
    BY <1>1, <1>6 DEF Least
  <2>. QED  BY <1>2, <2>2, <2>3, <2>4
<1>. QED  BY <1>2, <1>3, <1>4, <1>5, <1>6

\* The scan is over and every thread has its sum.
Summed ==
  /\ prefix \in [0 .. PlannedBatch - 1 -> Int] /\ \A k \in 0 .. PlannedBatch - 1 : prefix[k] = Sums[k + 1]
  /\ sum = Sums[PlannedBatch]

Total == Sums[PlannedBatch]
StartSplit(s) == StartOf(Total, NumBlocks, s)

\* The model's search finds the request whose splits hold a segment's start.
LEMMA FoundFacts ==
  ASSUME context \in Contexts, tile \in Tiles, Summed, NEW start \in Nat
  PROVE  /\ FoundIdx(start) \in 0 .. PlannedBatch
         /\ \A k \in 0 .. FoundIdx(start) - 1 : Sums[k + 1] <= start
         /\ FoundIdx(start) < PlannedBatch => Sums[FoundIdx(start) + 1] > start
<1>1. PICK n \in Nat : n = PlannedBatch /\ n > 0
  BY SumsFacts
<1>2. prefix \in [0 .. n - 1 -> Int] /\ \A k \in 0 .. n - 1 : prefix[k] = Sums[k + 1]
  BY <1>1 DEF Summed
<1>3. PICK p : p = prefix
  OBVIOUS
<1>4. \A i, k \in 0 .. n - 1 : i <= k => p[i] <= p[k]
  <2>1. SUFFICES ASSUME NEW i \in 0 .. n - 1, NEW k \in 0 .. n - 1, i <= k  PROVE p[i] <= p[k]
    OBVIOUS
  <2>2. k + 1 \in 0 .. PlannedBatch /\ i + 1 \in 0 .. k + 1
    BY <1>1, <2>1
  <2>3. Sums[i + 1] <= Sums[k + 1]
    BY <2>2, SumsGrow
  <2>. QED  BY <1>2, <1>3, <2>3
<1>5. PICK r : r = <<0, n - 1, n>>
  OBVIOUS
<1>6. PICK q : q = FoundIdx(start)
  OBVIOUS
<1>7. q = SearchOf(n, p, start)[r]
  <2>1. FoundIdx(start) = SearchOf(PlannedBatch, prefix, start)[<<0, PlannedBatch - 1, PlannedBatch>>]
    BY DEF FoundIdx, SearchOf, SearchIn, Probe, Lower, Upper
  <2>. QED  BY <1>1, <1>3, <1>5, <1>6, <2>1
<1>8. Answer(p, start, r, q)
  <2>1. start \in Int /\ p \in [0 .. n - 1 -> Int]
    BY <1>2, <1>3
  <2>2. Answer(p, start, <<0, n - 1, n>>, SearchOf(n, p, start)[<<0, n - 1, n>>])
    BY <1>1, <1>4, <2>1, SearchAnswers
  <2>. QED  BY <1>5, <1>7, <2>2
<1>9. r[1] = 0 /\ r[2] = n - 1 /\ r[3] = n
  BY <1>5
<1>10. \/ q \in 0 .. n - 1 /\ p[q] > start /\ \A k \in 0 .. q - 1 : p[k] <= start
       \/ q = n /\ \A k \in 0 .. n - 1 : p[k] <= start
  BY <1>8, <1>9 DEF Answer
<1>11. q \in 0 .. n /\ (\A k \in 0 .. q - 1 : p[k] <= start) /\ (q < n => p[q] > start)
  BY <1>1, <1>10
<1>12. \A k \in 0 .. q - 1 : k \in 0 .. n - 1
  BY <1>1, <1>11
<1>13. q < n => q \in 0 .. n - 1
  BY <1>1, <1>11
<1>. QED  BY <1>1, <1>2, <1>3, <1>6, <1>11, <1>12, <1>13

\* Where segment s starts: split x of request q.
StartsAt(s, q, x) ==
  /\ q \in 0 .. PlannedBatch /\ x \in Nat /\ StartSplit(s) \in Nat /\ StartSplit(s) = Sums[q] + x
  /\ \A k \in 0 .. q - 1 : Sums[k + 1] <= StartSplit(s)
  /\ q < PlannedBatch => Sums[q + 1] > StartSplit(s) /\ x * tile.groups < context.planned[q]
  /\ q = PlannedBatch => x = 0

\* No subtraction or product of a segment's start wraps.
LEMMA SegmentStarts ==
  ASSUME context \in Contexts, tile \in Tiles, Summed, NEW s \in 0 .. NumBlocks
  PROVE  \E q, x : SegmentStart(s) = <<q, x>> /\ StartsAt(s, q, x)
<1>1. PICK n \in Nat, g \in 1 .. 2, word \in Nat : n = PlannedBatch /\ g = tile.groups /\ word = Word /\ n > 0 /\ word > 0
  <2>1. PlannedBatch \in Nat /\ PlannedBatch > 0 /\ tile.groups \in 1 .. 2 /\ Word \in Nat /\ Word > 0
    BY Sizes
  <2>. QED  BY <2>1
<1>2. Sums \in [0 .. n -> Nat] /\ Sums[0] = 0
  BY <1>1, SumsFacts
<1>3. Total \in Nat /\ NumBlocks \in Nat /\ NumBlocks > 0
  <2>1. n \in 0 .. n
    BY <1>1
  <2>. QED  BY <1>1, <1>2, <2>1, ConfigFacts DEF Total
<1>4. PICK start \in Nat : start = StartSplit(s) /\ start <= Total
  <2>1. StartSplit(s) \in Nat /\ StartSplit(s) <= StartSplit(NumBlocks) /\ StartSplit(NumBlocks) = Total
    <3>1. NumBlocks \in 0 .. NumBlocks /\ s <= NumBlocks
      BY <1>3
    <3>. QED  BY <1>3, <3>1, StartFacts DEF StartSplit
  <2>. QED  BY <2>1
<1>5. PICK q : q = FoundIdx(start)
  OBVIOUS
<1>6. /\ q \in 0 .. n /\ \A k \in 0 .. q - 1 : Sums[k + 1] <= start
      /\ q < n => Sums[q + 1] > start
  BY <1>1, <1>5, FoundFacts
<1>7. SegmentStart(s) = <<q, (start - (IF q = 0 THEN 0 ELSE prefix[q - 1])) % word>>
  <2>1. start = s * (sum \div NumBlocks) + Least(s, sum % NumBlocks)
    BY <1>4 DEF StartSplit, StartOf, Summed, Total
  <2>2. LET start0 == s * (sum \div NumBlocks) + Least(s, sum % NumBlocks)
        IN  SegmentStart(s) = <<FoundIdx(start0),
               (start0 - (IF FoundIdx(start0) = 0 THEN 0 ELSE prefix[FoundIdx(start0) - 1])) % Word>>
    BY DEF SegmentStart
  <2>. QED  BY <1>1, <1>5, <2>1, <2>2
<1>8. Sums[q] \in Nat /\ Sums[q] <= start /\ (IF q = 0 THEN 0 ELSE prefix[q - 1]) = Sums[q]
  <2>1. CASE q = 0
    BY <1>2, <1>4, <2>1
  <2>2. CASE q # 0
    <3>1. q - 1 \in 0 .. q - 1 /\ q - 1 \in 0 .. n - 1 /\ (q - 1) + 1 = q
      BY <1>6, <2>2
    <3>2. prefix[q - 1] = Sums[(q - 1) + 1] /\ Sums[(q - 1) + 1] <= start
      BY <1>1, <1>6, <3>1 DEF Summed
    <3>3. Sums[q] \in Nat
      BY <1>2, <1>6
    <3>. QED  BY <2>2, <3>1, <3>2, <3>3
  <2>. QED  BY <2>1, <2>2
<1>9. PICK x \in Nat : x = start - Sums[q] /\ start = Sums[q] + x
  BY <1>4, <1>8
<1>10. q = n => x = 0
  BY <1>1, <1>4, <1>6, <1>8, <1>9 DEF Total
<1>11. q < n => x * g < context.planned[q] /\ context.planned[q] \in Nat /\ context.planned[q] + 4 <= word
  <2>1. SUFFICES ASSUME q < n  PROVE x * g < context.planned[q] /\ context.planned[q] \in Nat /\ context.planned[q] + 4 <= word
    OBVIOUS
  <2>2. q \in 0 .. n - 1
    BY <1>6, <2>1
  <2>3. Sums[q + 1] = Sums[q] + Splits[q] /\ Splits[q] \in Nat
    BY <1>1, <2>2, SumsFacts
  <2>4. x < Splits[q]
    BY <1>6, <1>8, <1>9, <2>1, <2>3
  <2>. QED  BY <1>1, <2>2, <2>4, SumsFacts
<1>12. x < word
  <2>1. CASE q = n
    BY <1>1, <1>10, <2>1
  <2>2. CASE q < n
    <3>1. x <= x * g /\ x * g \in Nat
      <4>1. g = 1 \/ g = 2
        OBVIOUS
      <4>. QED  BY <4>1
    <3>2. PICK y \in Nat, c \in Nat : y = x * g /\ c = context.planned[q]
      BY <1>11, <2>2, <3>1
    <3>. QED  BY <1>11, <2>2, <3>1, <3>2
  <2>. QED  BY <1>6, <2>1, <2>2
<1>13. x % word = x
  BY <1>1, <1>12
<1>14. SegmentStart(s) = <<q, x>>
  BY <1>7, <1>8, <1>9, <1>13
<1>15. StartsAt(s, q, x)
  BY <1>1, <1>4, <1>6, <1>9, <1>10, <1>11 DEF StartsAt
<1>. QED  BY <1>14, <1>15

\* The segment, a task of the logits kernel.
SegmentOf(q, x) == <<q, x * tile.groups>>

LEMMA SegmentFacts ==
  ASSUME context \in Contexts, tile \in Tiles, NEW s, NEW q, NEW x, StartsAt(s, q, x)
  PROVE  (x * tile.groups) % Word = x * tile.groups /\ Position(SegmentOf(q, x))
<1>1. PICK n, g, word : n = PlannedBatch /\ g = tile.groups /\ word = Word
  OBVIOUS
<1>2. n \in Nat /\ n > 0 /\ g \in 1 .. 2 /\ word \in Nat /\ word > 0
  BY <1>1, Sizes
<1>3. q \in 0 .. n /\ x \in Nat /\ (q < n => x * g < context.planned[q]) /\ (q = n => x = 0)
  BY <1>1 DEF StartsAt
<1>4. PICK y \in Nat : y = x * g /\ y % g = 0
  <2>1. g = 1 \/ g = 2
    BY <1>2
  <2>2. x * g \in Nat /\ (x * g) % g = 0
    BY <1>3, <2>1
  <2>. QED  BY <2>2
<1>5. y + 4 <= word
  <2>1. CASE q = n
    <3>1. y = 0
      BY <1>2, <1>3, <1>4, <2>1
    <3>2. 0 \in 0 .. n - 1
      BY <1>2
    <3>3. PICK c \in Nat : c + 4 <= word
      BY <1>1, <3>2, ConfigFacts
    <3>. QED  BY <1>2, <3>1, <3>3
  <2>2. CASE q < n
    <3>1. q \in 0 .. n - 1
      BY <1>2, <1>3, <2>2
    <3>2. PICK c \in Nat : c = context.planned[q] /\ c + 4 <= word
      BY <1>1, <3>1, ConfigFacts
    <3>3. y < c
      BY <1>3, <1>4, <2>2, <3>2
    <3>. QED  BY <1>2, <3>2, <3>3
  <2>. QED  BY <1>2, <1>3, <2>1, <2>2
<1>6. y % word = y
  BY <1>2, <1>5
<1>7. q = n => y = 0
  BY <1>2, <1>3, <1>4
<1>8. SegmentOf(q, x) = <<q, y>>
  BY <1>1, <1>4 DEF SegmentOf
<1>9. Position(<<q, y>>)
  BY <1>1, <1>2, <1>3, <1>4, <1>5, <1>7 DEF Position
<1>. QED  BY <1>1, <1>4, <1>6, <1>8, <1>9

\* Segments start in the order of their numbers.
LEMMA SegmentsInOrder ==
  ASSUME context \in Contexts, tile \in Tiles, NEW s \in 0 .. NumBlocks, NEW u \in 0 .. NumBlocks, s <= u,
         NEW q, NEW x, NEW r, NEW y, StartsAt(s, q, x), StartsAt(u, r, y)
  PROVE  ~Before(SegmentOf(r, y), SegmentOf(q, x))
<1>1. PICK n, g, a, b : n = PlannedBatch /\ g = tile.groups /\ a = StartSplit(s) /\ b = StartSplit(u)
  OBVIOUS
<1>2. n \in Nat /\ n > 0 /\ g \in 1 .. 2 /\ Sums \in [0 .. n -> Nat]
  BY <1>1, ConfigFacts, SumsFacts
<1>3. a <= b
  <2>1. n \in 0 .. n /\ NumBlocks \in Nat /\ NumBlocks > 0
    BY <1>2, ConfigFacts
  <2>2. Total \in Nat
    BY <1>1, <1>2, <2>1 DEF Total
  <2>. QED  BY <1>1, <2>1, <2>2, StartFacts DEF StartSplit
<1>4. /\ q \in 0 .. n /\ r \in 0 .. n /\ x \in Nat /\ y \in Nat /\ a \in Nat /\ b \in Nat
      /\ a = Sums[q] + x /\ b = Sums[r] + y
      /\ \A k \in 0 .. q - 1 : Sums[k + 1] <= a
      /\ r < n => Sums[r + 1] > b
  BY <1>1 DEF StartsAt
<1>5. ~(r < q)
  <2>1. SUFFICES ASSUME r < q  PROVE FALSE
    OBVIOUS
  <2>2. r \in 0 .. q - 1 /\ r < n /\ r + 1 \in 0 .. n
    BY <1>2, <1>4, <2>1
  <2>3. Sums[r + 1] <= a /\ Sums[r + 1] > b /\ Sums[r + 1] \in Nat
    BY <1>2, <1>4, <2>2
  <2>. QED  BY <1>3, <1>4, <2>3
<1>6. r = q => ~(y * g < x * g)
  <2>1. SUFFICES ASSUME r = q  PROVE ~(y * g < x * g)
    OBVIOUS
  <2>2. PICK c \in Nat : c = Sums[q]
    BY <1>2, <1>4
  <2>3. x <= y
    BY <1>3, <1>4, <2>1, <2>2
  <2>4. g = 1 \/ g = 2
    BY <1>2
  <2>. QED  BY <1>4, <2>3, <2>4
<1>7. SegmentOf(r, y) = <<r, y * g>> /\ SegmentOf(q, x) = <<q, x * g>>
  BY <1>1 DEF SegmentOf
<1>. QED  BY <1>4, <1>5, <1>6, <1>7 DEF Before

LEMMA SegmentsCover ==
  ASSUME context \in Contexts, tile \in Tiles, NEW q, NEW x
  PROVE  /\ StartsAt(NumBlocks, q, x) => SegmentOf(q, x) = <<PlannedBatch, 0>>
         /\ StartsAt(0, q, x) => /\ x * tile.groups = 0
                                 /\ \A k \in 0 .. PlannedBatch - 1 : k < q => context.planned[k] = 0
<1>1. PICK n, g : n = PlannedBatch /\ g = tile.groups
  OBVIOUS
<1>2. /\ n \in Nat /\ n > 0 /\ g \in 1 .. 2 /\ Sums \in [0 .. n -> Nat] /\ Splits \in [0 .. n - 1 -> Nat]
      /\ \A k \in 0 .. n - 1 : Sums[k + 1] = Sums[k] + Splits[k]
  BY <1>1, ConfigFacts, SumsFacts
<1>3. NumBlocks \in Nat /\ NumBlocks > 0 /\ n \in 0 .. n
  BY <1>2, ConfigFacts
<1>4. Total = Sums[n] /\ Total \in Nat
  BY <1>1, <1>2, <1>3 DEF Total
<1>5. StartSplit(0) = 0 /\ StartSplit(NumBlocks) = Sums[n]
  BY <1>3, <1>4, StartFacts DEF StartSplit
<1>6. ASSUME StartsAt(NumBlocks, q, x)  PROVE SegmentOf(q, x) = <<n, 0>>
  <2>1. q \in 0 .. n /\ (q < n => Sums[q + 1] > Sums[n]) /\ (q = n => x = 0)
    BY <1>1, <1>5, <1>6 DEF StartsAt
  <2>2. q = n
    <3>1. SUFFICES ASSUME q < n  PROVE FALSE
      BY <1>2, <2>1
    <3>2. n \in 0 .. PlannedBatch /\ q + 1 \in 0 .. n
      BY <1>1, <1>2, <2>1, <3>1
    <3>3. Sums[q + 1] <= Sums[n] /\ Sums[q + 1] \in Nat /\ Sums[n] \in Nat
      BY <1>2, <1>3, <3>2, SumsGrow
    <3>. QED  BY <2>1, <3>1, <3>3
  <2>3. 0 * g = 0
    BY <1>2
  <2>. QED  BY <1>1, <2>1, <2>2, <2>3 DEF SegmentOf
<1>7. ASSUME StartsAt(0, q, x)
      PROVE  x * g = 0 /\ \A k \in 0 .. n - 1 : k < q => context.planned[k] = 0
  <2>1. /\ q \in 0 .. n /\ x \in Nat /\ 0 = Sums[q] + x /\ \A k \in 0 .. q - 1 : Sums[k + 1] <= 0
    BY <1>1, <1>5, <1>7 DEF StartsAt
  <2>2. x = 0
    <3>1. Sums[q] \in Nat
      BY <1>2, <2>1
    <3>. QED  BY <2>1, <3>1
  <2>3. ASSUME NEW k \in 0 .. n - 1, k < q  PROVE context.planned[k] = 0
    <3>1. k \in 0 .. q - 1 /\ k \in 0 .. n
      BY <1>2, <2>1, <2>3
    <3>2. PICK c \in Nat, d \in Nat : c = Sums[k] /\ d = Splits[k]
      BY <1>2, <3>1
    <3>3. c + d <= 0
      BY <1>2, <2>1, <3>1, <3>2
    <3>4. Splits[k] = 0
      BY <3>2, <3>3
    <3>. QED  BY <1>1, <3>4, SumsFacts
  <2>4. 0 * g = 0
    BY <1>2
  <2>. QED  BY <2>2, <2>3, <2>4
<1>. QED  BY <1>1, <1>6, <1>7

\* The search makes a schedule that covers the batch.
LEMMA SearchMakes ==
  ASSUME context \in Contexts, tile \in Tiles, Summed, Search
  PROVE  Schedule' /\ Whole'
<1>1. /\ context' = context /\ tile' = tile /\ meta' = [s \in 0 .. NumBlocks |-> SegmentStart(s)]
  BY DEF Search
<1>2. PlannedBatch' = PlannedBatch
  BY <1>1, MetaFrozen
<1>3. ASSUME NEW s \in 0 .. NumBlocks
      PROVE  \E q, x : StartsAt(s, q, x) /\ Segment(s)' = SegmentOf(q, x)
  <2>1. PICK q, x : SegmentStart(s) = <<q, x>> /\ StartsAt(s, q, x)
    BY SegmentStarts
  <2>2. meta'[s] = <<q, x>>
    BY <1>1, <2>1
  <2>3. Segment(s)' = <<q, (x * tile.groups) % Word>>
    BY <1>1, <2>2 DEF Segment
  <2>4. (x * tile.groups) % Word = x * tile.groups
    BY <2>1, SegmentFacts
  <2>. QED  BY <2>1, <2>3, <2>4 DEF SegmentOf
<1>4. ASSUME NEW s \in 0 .. NumBlocks
      PROVE  Position(Segment(s))'
  <2>1. PICK q, x : StartsAt(s, q, x) /\ Segment(s)' = SegmentOf(q, x)
    BY <1>3
  <2>2. PICK t : t = SegmentOf(q, x)
    OBVIOUS
  <2>3. Position(t)
    BY <2>1, <2>2, SegmentFacts
  <2>. QED  BY <1>1, <1>2, <2>1, <2>2, <2>3 DEF Position
<1>5. ASSUME NEW s \in 0 .. NumBlocks, NEW u \in 0 .. NumBlocks, s <= u
      PROVE  ~Before(Segment(u), Segment(s))'
  <2>1. PICK q, x : StartsAt(s, q, x) /\ Segment(s)' = SegmentOf(q, x)
    BY <1>3
  <2>2. PICK r, y : StartsAt(u, r, y) /\ Segment(u)' = SegmentOf(r, y)
    BY <1>3
  <2>3. ~Before(SegmentOf(r, y), SegmentOf(q, x))
    BY <1>5, <2>1, <2>2, SegmentsInOrder
  <2>. QED  BY <2>1, <2>2, <2>3 DEF Before
<1>6. Schedule'
  BY <1>4, <1>5 DEF Schedule
<1>7. 0 \in 0 .. NumBlocks /\ NumBlocks \in 0 .. NumBlocks
  BY Sizes
<1>8. Segment(NumBlocks)' = <<PlannedBatch, 0>>
  BY <1>3, <1>7, SegmentsCover
<1>9. PICK q, x : StartsAt(0, q, x) /\ Segment(0)' = SegmentOf(q, x)
  BY <1>3, <1>7
<1>10. x * tile.groups = 0 /\ \A k \in 0 .. PlannedBatch - 1 : k < q => context.planned[k] = 0
  BY <1>9, SegmentsCover
<1>11. Segment(0)' = <<q, 0>>
  BY <1>9, <1>10 DEF SegmentOf
<1>12. Whole'
  BY <1>1, <1>2, <1>8, <1>10, <1>11 DEF Whole
<1>. QED  BY <1>6, <1>12

LEMMA SearchKeeps ==
  ASSUME OneWarp, context \in Contexts, tile \in Tiles, Metadata, Search
  PROVE  Metadata'
<1>1. PICK o, pc, temp : Scanning(o, pc, temp)
  BY DEF Metadata
<1>2. /\ context' = context /\ tile' = tile /\ prefix' = prefix /\ sum' = sum /\ chunk' = chunk
      /\ scan' = scan /\ chunk \in Nat /\ prefix \in [0 .. PlannedBatch - 1 -> Int] /\ Base >= PlannedBatch
  BY DEF Search, Metadata
<1>3. /\ PlannedBatch' = PlannedBatch /\ Splits' = Splits /\ Sums' = Sums /\ Base' = Base /\ Width' = Width
  BY <1>2, MetaFrozen
<1>4. Base \in Nat /\ PlannedBatch \in Nat
  BY <1>2, ChunkFacts, Sizes
<1>5. Least(Base, PlannedBatch) = PlannedBatch
  BY <1>2, <1>4 DEF Least
<1>6. Summed
  <2>1. sum = Sums[PlannedBatch]
    BY <1>5 DEF Metadata
  <2>2. \A k \in 0 .. PlannedBatch - 1 : k < Base
    BY <1>2, <1>4
  <2>3. \A k \in 0 .. PlannedBatch - 1 : prefix[k] = Sums[k + 1]
    BY <1>1, <2>2 DEF Scanning, Scanned
  <2>. QED  BY <1>2, <2>1, <2>3 DEF Summed
<1>7. Schedule' /\ Whole'
  BY <1>6, SearchMakes
<1>8. Scanned(prefix, Base, Width, o, pc = "joined") => Scanned(prefix, Base, Width, o, pc = "joined")'
  BY <1>2, <1>3 DEF Scanned
<1>9. Scanning(o, pc, temp)'
  BY <1>1, <1>2, <1>3, <1>8 DEF Scanning
<1>. QED  BY <1>2, <1>3, <1>5, <1>7, <1>9 DEF Metadata

\* The logits kernel leaves the metadata alone.
LEMMA MetadataStays ==
  ASSUME Metadata, UNCHANGED <<context, tile, metaVars>>
  PROVE  Metadata'
<1>1. /\ context' = context /\ tile' = tile /\ prefix' = prefix /\ sum' = sum /\ chunk' = chunk
      /\ scan' = scan /\ meta' = meta
  BY DEF metaVars
<1>2. /\ PlannedBatch' = PlannedBatch /\ Splits' = Splits /\ Sums' = Sums /\ Base' = Base /\ Width' = Width
  BY <1>1, MetaFrozen
<1>3. PICK o, pc, temp : Scanning(o, pc, temp)
  BY DEF Metadata
<1>4. Scanned(prefix, Base, Width, o, pc = "joined") => Scanned(prefix, Base, Width, o, pc = "joined")'
  BY <1>1, <1>2 DEF Scanned
<1>5. Scanning(o, pc, temp)'
  BY <1>1, <1>2, <1>3, <1>4 DEF Scanning
<1>6. \A s : Segment(s)' = Segment(s)
  BY <1>1 DEF Segment
<1>7. \A s : Position(Segment(s))' <=> Position(Segment(s))
  BY <1>1, <1>2, <1>6 DEF Position
<1>8. \A s, u : Before(Segment(u), Segment(s))' <=> Before(Segment(u), Segment(s))
  BY <1>1, <1>6 DEF Before
<1>9. Schedule => Schedule'
  BY <1>7, <1>8 DEF Schedule
<1>10. Whole => Whole'
  BY <1>1, <1>2, <1>6 DEF Whole
<1>11. Least(Base, PlannedBatch)' = Least(Base, PlannedBatch)
  BY <1>2 DEF Least
<1>. QED  BY <1>1, <1>2, <1>5, <1>9, <1>10, <1>11 DEF Metadata

-----------------------------------------------------------------------------
(* The invariant. *)

\* Every CTA walks its segment of a schedule that covers the batch, and the warps have
\* written what lies between the batch's start and the tasks they have come to.
IInv ==
  /\ OneWarp
  /\ context \in Contexts /\ tile \in Tiles /\ cta \in -1 .. NumBlocks - 1
  /\ Metadata
  /\ cta >= 0 => meta # <<>> /\ Planned /\ Kernel
  /\ WrittenOnce

LEMMA InitInv == OneWarp /\ Init => IInv
<1>. SUFFICES ASSUME OneWarp, Init  PROVE IInv
  OBVIOUS
<1>1. context \in Contexts /\ tile \in Tiles /\ chunk = 0 /\ sum = 0 /\ meta = <<>> /\ cta = -1
  BY DEF Init
<1>2. PICK n \in Nat : n = PlannedBatch /\ n > 0
  BY <1>1, Sizes
<1>3. /\ Splits \in [0 .. n - 1 -> Nat] /\ Sums \in [0 .. n -> Nat] /\ Sums[0] = 0
      /\ \A k \in 0 .. n - 1 : Sums[k + 1] = Sums[k] + Splits[k]
  BY <1>1, <1>2, SumsFacts
<1>4. prefix = Splits
  <2>1. DOMAIN context.planned = 0 .. PlannedBatch - 1
    BY <1>1, ConfigFacts
  <2>. QED  BY <2>1 DEF Init, Splits
<1>5. MetaWarps = {0} /\ Base = 0
  <2>1. MetaWarps = {0} /\ BlockDim \in Nat
    BY <1>1, ChunkFacts
  <2>. QED  BY <1>1, <2>1 DEF Base
<1>6. PICK x : x = Width
  OBVIOUS
<1>7. ASSUME NEW k \in 0 .. n - 1
      PROVE  Splits[k] = IF k < 0 THEN Sums[k + 1]
                         ELSE IF k < 0 + x THEN Sums[k + 1] - Sums[IF k + 1 > 0 + 1 THEN k + 1 - 1 ELSE 0]
                         ELSE Splits[k]
  <2>1. ~(k < 0) /\ (IF k + 1 > 0 + 1 THEN k + 1 - 1 ELSE 0) = k /\ k \in 0 .. n
    BY <1>2
  <2>2. Sums[k + 1] = Sums[k] + Splits[k] /\ Sums[k] \in Nat /\ Splits[k] \in Nat
    BY <1>3, <2>1
  <2>3. Sums[k + 1] - Sums[k] = Splits[k]
    BY <2>2
  <2>. QED  BY <2>1, <2>3
<1>8. Scanned(prefix, Base, Width, 1, "read" = "joined")
  <2>1. Scanned(Splits, 0, x, 1, FALSE)
    BY <1>2, <1>7 DEF Scanned
  <2>2. ("read" = "joined") = FALSE
    OBVIOUS
  <2>. QED  BY <1>4, <1>5, <1>6, <2>1, <2>2
<1>9. Scanning(1, "read", <<>>)
  <2>1. scan = [w \in {0} |-> [offset |-> 1, pc |-> "read", temp |-> <<>>]]
    BY <1>5 DEF Init, ScanStart
  <2>. QED  BY <1>8, <2>1 DEF Scanning
<1>10. Metadata
  <2>1. Least(Base, PlannedBatch) = 0
    BY <1>2, <1>5 DEF Least
  <2>2. prefix \in [0 .. n - 1 -> Int]
    BY <1>3, <1>4
  <2>3. chunk \in Nat /\ sum = Sums[Least(Base, PlannedBatch)] /\ meta = <<>>
    BY <1>1, <1>3, <2>1
  <2>. QED  BY <1>2, <1>9, <2>2, <2>3 DEF Metadata
<1>11. WrittenOnce /\ cta \in -1 .. NumBlocks - 1 /\ ~(cta >= 0)
  <2>1. NumBlocks \in Nat /\ NumBlocks > 0 /\ cta = -1 /\ written = [p \in Parts |-> 0]
    BY <1>1, Sizes DEF Init
  <2>. QED  BY <2>1 DEF WrittenOnce
<1>. QED  BY <1>1, <1>10, <1>11 DEF IInv

LEMMA MetaStepInv == IInv /\ MetaStep => IInv'
<1>. SUFFICES ASSUME IInv, MetaStep  PROVE IInv'
  OBVIOUS
<1>1. OneWarp /\ context \in Contexts /\ tile \in Tiles /\ Metadata /\ cta \in -1 .. NumBlocks - 1
  BY DEF IInv
<1>2. meta = <<>>
  BY <1>1, ScanOver
<1>3. cta = -1
  <2>1. ~(cta >= 0) /\ NumBlocks \in Nat
    BY <1>1, <1>2, Sizes DEF IInv
  <2>. QED  BY <1>1, <2>1
<1>4. context' = context /\ tile' = tile /\ cta' = cta /\ written' = written
  BY DEF MetaStep, NextChunk, Search, Read, Write, Add
<1>5. Metadata'
  BY <1>1, <1>2, NextChunkKeeps, SearchKeeps, ReadKeeps, WriteKeeps, AddKeeps DEF MetaStep
<1>6. WrittenOnce'
  <2>1. Parts' = Parts
    BY <1>4, PartsStay
  <2>2. written = [p \in Parts |-> 0]
    BY <1>3 DEF IInv, WrittenOnce
  <2>. QED  BY <1>3, <1>4, <2>1, <2>2 DEF WrittenOnce
<1>7. OneWarp' /\ ~(cta' >= 0)
  BY <1>1, <1>3, <1>4 DEF OneWarp, Least, Batch
<1>. QED  BY <1>1, <1>4, <1>5, <1>6, <1>7 DEF IInv

LEMMA LaunchInv == IInv /\ LaunchCta => IInv'
<1>. SUFFICES ASSUME IInv, LaunchCta  PROVE IInv'
  OBVIOUS
<1>1. OneWarp /\ context \in Contexts /\ tile \in Tiles /\ Metadata /\ cta \in -1 .. NumBlocks - 1
  BY DEF IInv
<1>2. meta # <<>> /\ Schedule
  BY DEF IInv, Metadata, LaunchCta
<1>3. Planned' /\ Kernel'
  BY <1>1, <1>2, LaunchMakes
<1>4. WrittenOnce'
  <2>1. cta >= 0 => Planned /\ Kernel
    BY DEF IInv
  <2>2. WrittenOnce
    BY DEF IInv
  <2>. QED  BY <1>1, <1>2, <2>1, <2>2, LaunchWrites
<1>5. Metadata'
  BY <1>1, MetadataStays DEF LaunchCta
<1>6. cta' \in -1 .. NumBlocks - 1 /\ meta' # <<>> /\ context' = context /\ tile' = tile
  <2>1. cta' = cta + 1 /\ cta < NumBlocks - 1 /\ NumBlocks \in Nat
    BY <1>1, Sizes DEF LaunchCta
  <2>2. meta' = meta /\ context' = context /\ tile' = tile
    BY DEF LaunchCta, metaVars
  <2>. QED  BY <1>1, <1>2, <2>1, <2>2
<1>7. OneWarp'
  BY <1>1 DEF OneWarp, Least, Batch
<1>. QED  BY <1>1, <1>3, <1>4, <1>5, <1>6, <1>7 DEF IInv

LEMMA LogitsStepInv == IInv /\ LogitsStep => IInv'
<1>. SUFFICES ASSUME IInv, cta >= 0, NEW w \in Warps, WarpStep(w)  PROVE IInv'
  BY DEF LogitsStep
<1>1. OneWarp /\ context \in Contexts /\ tile \in Tiles /\ Metadata /\ cta \in -1 .. NumBlocks - 1
  BY DEF IInv
<1>2. meta # <<>> /\ Planned /\ Kernel /\ WrittenOnce
  BY DEF IInv
<1>3. PICK r : Moves(w, r)
  BY <1>2, WarpStepMoves
<1>4. LogitsUnchanged
  BY <1>2, WarpStepMoves
<1>5. context' = context /\ tile' = tile /\ cta' = cta /\ meta' = meta
  BY <1>4 DEF LogitsUnchanged, metaVars
<1>6. Planned' /\ Kernel'
  BY <1>2, <1>3, <1>4, FrozenPlan, KernelKept
<1>7. WrittenOnce'
  BY <1>2, WarpStepWrites
<1>8. Metadata'
  BY <1>1, <1>4, MetadataStays DEF LogitsUnchanged
<1>9. OneWarp'
  BY <1>1 DEF OneWarp, Least, Batch
<1>. QED  BY <1>1, <1>2, <1>5, <1>6, <1>7, <1>8, <1>9 DEF IInv

LEMMA StutterInv == IInv /\ UNCHANGED vars => IInv'
<1>. SUFFICES ASSUME IInv, UNCHANGED vars  PROVE IInv'
  OBVIOUS
<1>1. /\ UNCHANGED <<context, tile, metaVars>> /\ context' = context /\ tile' = tile /\ meta' = meta
      /\ cta' = cta /\ warp' = warp /\ smemQ' = smemQ /\ smemK' = smemK /\ pending' = pending
      /\ written' = written /\ LogitsUnchanged
  BY DEF vars, metaVars, smem, LogitsUnchanged
<1>2. Metadata'
  BY <1>1, MetadataStays DEF IInv
<1>3. cta >= 0 => Planned'
  BY <1>1, FrozenPlan DEF IInv
<1>4. cta >= 0 => Kernel'
  <2>1. SUFFICES ASSUME cta >= 0  PROVE Kernel'
    OBVIOUS
  <2>2. Planned /\ Kernel
    BY <2>1 DEF IInv
  <2>3. /\ Privates' = Privates /\ QRings' = QRings /\ KRings' = KRings /\ Queues' = Queues /\ Views' = Views
    BY <1>1, FrozenSets
  <2>4. ASSUME NEW w \in Warps, NEW s, NEW other, s = View(w)', other = warp'[1 - w]
        PROVE  WarpOK(s, w)' /\ InStep(s.me, other)'
    <3>1. s = View(w) /\ other = warp[1 - w]
      BY <1>1, <2>4 DEF View
    <3>2. WarpOK(s, w) /\ InStep(s.me, other)
      BY <2>2, <3>1 DEF Kernel
    <3>3. s.me = warp[w] /\ Views' = Views
      BY <1>1, <3>1, FrozenSets DEF View
    <3>4. InStep(s.me, other)'
      BY <1>1, <3>2, FrozenWarp
    <3>5. Running(s, w) => Running(s, w)'
      BY <1>1, FrozenWarp
    <3>6. Untouched(s, w) => Untouched(s, w)'
      BY <1>1, FrozenWarp
    <3>7. Paced(s.me, w) => Paced(s.me, w)'
      BY <1>1, FrozenWarp
    <3>8. WarpOK(s, w)'
      BY <3>2, <3>3, <3>5, <3>6, <3>7 DEF WarpOK
    <3>. QED  BY <3>4, <3>8
  <2>. QED  BY <1>1, <2>2, <2>3, <2>4 DEF Kernel, Rings
<1>5. WrittenOnce'
  <2>1. Parts' = Parts /\ \A p, t : Once(p, t)' = Once(p, t)
    BY <1>1, FrozenParts
  <2>2. \A w : ComeTo(w)' = ComeTo(w)
    BY <1>1, Frozen DEF ComeTo, Stored
  <2>. QED  BY <1>1, <2>1, <2>2 DEF IInv, WrittenOnce
<1>6. OneWarp'
  BY DEF IInv, OneWarp, Least, Batch
<1>. QED  BY <1>1, <1>2, <1>3, <1>4, <1>5, <1>6 DEF IInv

\* The invariant holds throughout.
LEMMA Invariance == OneWarp => (Spec => []IInv)
<1>1. OneWarp /\ Init => IInv
  BY InitInv
<1>2. IInv /\ [Next \/ Finished]_vars => IInv'
  <2>. SUFFICES ASSUME IInv, [Next \/ Finished]_vars  PROVE IInv'
    OBVIOUS
  <2>1. MetaStep \/ LaunchCta \/ LogitsStep \/ UNCHANGED vars
    BY DEF Next, Finished
  <2>. QED  BY <2>1, MetaStepInv, LaunchInv, LogitsStepInv, StutterInv
<1>. QED  BY <1>1, <1>2, PTL DEF Spec

\* What a warp is about to store is the product of the row and the tile of the place it
\* stores to, for every batch, configuration and number of CTAs, when the metadata kernel
\* runs as one warp.
THEOREM AlwaysPairsItsTile == OneWarp => (Spec => []PairsItsTile)
<1>1. IInv => PairsItsTile
  <2>. SUFFICES ASSUME IInv  PROVE PairsItsTile
    OBVIOUS
  <2>1. CASE cta >= 0
    BY <2>1, StoresItsTile DEF IInv
  <2>2. CASE ~(cta >= 0)
    BY <2>2 DEF PairsItsTile
  <2>. QED  BY <2>1, <2>2
<1>. QED  BY <1>1, Invariance, PTL

\* No part of the logits is written twice, and in the end every one has been written,
\* for every batch, configuration and number of CTAs, when the metadata kernel runs as
\* one warp.
THEOREM AlwaysEveryTileOnce == OneWarp => (Spec => []EveryTileOnce)
<1>1. IInv => EveryTileOnce
  <2>. SUFFICES ASSUME IInv  PROVE EveryTileOnce
    OBVIOUS
  <2>1. cta >= 0 => Planned /\ Kernel /\ Whole
    BY DEF IInv, Metadata
  <2>2. context \in Contexts /\ tile \in Tiles /\ cta \in -1 .. NumBlocks - 1 /\ WrittenOnce
    BY DEF IInv
  <2>. QED  BY <2>1, <2>2, AllWritten
<1>. QED  BY <1>1, Invariance, PTL

\* When the metadata kernel searches prefix_sum it holds the running sums of the splits,
\* for every batch, when the kernel runs as one warp.
THEOREM AlwaysPrefixIsSum == OneWarp => (Spec => []PrefixIsSum)
<1>1. IInv => PrefixIsSum
  <2>. SUFFICES ASSUME IInv, Base >= PlannedBatch  PROVE PrefixIsSum
    BY DEF PrefixIsSum
  <2>. DEFINE Step(f) == f = [k \in DOMAIN prefix |->
                 CeilDiv(context.planned[k], tile.groups) + (IF k = 0 THEN 0 ELSE f[k - 1])]
  <2>1. PICK n \in Nat : n = PlannedBatch /\ n > 0
    BY Sizes DEF IInv
  <2>2. DOMAIN prefix = 0 .. n - 1 /\ prefix = [k \in 0 .. n - 1 |-> prefix[k]]
    BY <2>1 DEF IInv, Metadata
  <2>3. /\ Splits \in [0 .. n - 1 -> Nat] /\ Sums \in [0 .. n -> Nat] /\ Sums[0] = 0
        /\ \A k \in 0 .. n - 1 : Sums[k + 1] = Sums[k] + Splits[k]
    BY <2>1, SumsFacts DEF IInv
  <2>4. \A k \in 0 .. n - 1 : prefix[k] = Sums[k + 1]
    <3>1. PICK o, pc, temp : Scanning(o, pc, temp)
      BY DEF IInv, Metadata
    <3>2. Base \in Nat
      BY ChunkFacts DEF IInv, Metadata
    <3>3. \A k \in 0 .. n - 1 : k < Base
      BY <2>1, <3>2
    <3>. QED  BY <2>1, <3>1, <3>3 DEF Scanning, Scanned
  <2>5. ASSUME NEW k \in 0 .. n - 1
        PROVE  /\ CeilDiv(context.planned[k], tile.groups) = Splits[k] /\ Splits[k] \in Nat
               /\ prefix[k] = Splits[k] + (IF k = 0 THEN 0 ELSE prefix[k - 1])
    <3>1. Splits[k] = CeilDiv(context.planned[k], tile.groups)
      BY <2>1 DEF Splits
    <3>2. k \in 0 .. n /\ Sums[k] \in Nat /\ Splits[k] \in Nat /\ Sums[k + 1] = Sums[k] + Splits[k]
      BY <2>1, <2>3
    <3>3. Sums[k] = IF k = 0 THEN 0 ELSE prefix[k - 1]
      <4>1. k # 0 => k - 1 \in 0 .. n - 1 /\ (k - 1) + 1 = k
        BY <2>1
      <4>. QED  BY <2>3, <2>4, <4>1
    <3>4. prefix[k] = Sums[k + 1]
      BY <2>4
    <3>. QED  BY <3>1, <3>2, <3>3, <3>4
  <2>6. Step(prefix)
    <3>1. PICK f : f = [k \in 0 .. n - 1 |->
                 CeilDiv(context.planned[k], tile.groups) + (IF k = 0 THEN 0 ELSE prefix[k - 1])]
      OBVIOUS
    <3>2. \A k \in 0 .. n - 1 : f[k] = prefix[k]
      BY <2>5, <3>1
    <3>3. f = prefix
      BY <2>2, <3>1, <3>2
    <3>. QED  BY <2>2, <3>1, <3>3
  <2>7. PICK total : total = CHOOSE f : Step(f)
    OBVIOUS
  <2>8. Step(total)
    <3>. HIDE DEF Step
    <3>. QED  BY <2>6, <2>7
  <2>9. \A k \in 0 .. n - 1 : total[k] = Splits[k] + (IF k = 0 THEN 0 ELSE total[k - 1])
    BY <2>2, <2>5, <2>8
  <2>10. ASSUME NEW e \in 0 .. n - 1  PROVE total[e] = prefix[e]
    <3>. DEFINE S == {i \in 0 .. n - 1 : total[i] = prefix[i]}
    <3>1. 0 \in S
      BY <2>1, <2>5, <2>9
    <3>2. ASSUME NEW i \in 0 .. e - 1, i \in S  PROVE i + 1 \in S
      <4>1. i + 1 \in 0 .. n - 1 /\ i + 1 # 0 /\ (i + 1) - 1 = i
        BY <2>1, <2>10
      <4>2. total[i + 1] = Splits[i + 1] + total[i] /\ prefix[i + 1] = Splits[i + 1] + prefix[i]
        BY <2>5, <2>9, <4>1
      <4>. QED  BY <3>2, <4>1, <4>2
    <3>. HIDE DEF S
    <3>3. e \in Nat
      OBVIOUS
    <3>4. e \in S
      BY <3>1, <3>2, <3>3, UpTo
    <3>. QED  BY <3>4 DEF S
  <2>11. total = prefix
    <3>1. total = [k \in 0 .. n - 1 |-> total[k]]
      BY <2>2, <2>8
    <3>. QED  BY <2>2, <2>10, <3>1
  <2>. QED  BY <2>7, <2>11 DEF PrefixIsSum
<1>. QED  BY <1>1, Invariance, PTL
=============================================================================
