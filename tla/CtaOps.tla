------------------------------- MODULE CtaOps -------------------------------
(***************************************************************************)
(* The operations on shared memory, on the asynchronous copy engine, on    *)
(* the barriers and on counters in global memory that the program of a     *)
(* warp is made of (CtaMachine runs them), and the helpers the programs of *)
(* the kernels share.                                                      *)
(*                                                                         *)
(* A place of shared memory is a pair <<name, index>>; it is filled in     *)
(* parts, one for each warp that writes it.  Data is a tuple of numbers:   *)
(* <<tile, K tile>> for an operand, with the numbers the kernel adds.      *)
(***************************************************************************)
EXTENDS Integers, Sequences, SequencesExt, FiniteSets, FiniteSetsExt, TLC

Load(p, d)    == [op |-> "load", at |-> {p}, data |-> d]   \* asynchronous copy
LoadAll(ps, d) == [op |-> "load", at |-> ps, data |-> d]
Fence         == [op |-> "fence"]                          \* cp_async_fence
Wait(n)       == [op |-> "wait", left |-> n]               \* cp_async_wait<n>
Bar(b, n)     == [op |-> "bar", id |-> b, count |-> n]     \* barrier_sync
Arrive(b, n)  == [op |-> "arrive", id |-> b, count |-> n]  \* barrier_arrive
Get(ps, ws, b) == [op |-> "get", at |-> ps, from |-> ws, block |-> b]
Mma(b)        == [op |-> "mma", block |-> b]
Put(p, d)     == [op |-> "put", at |-> p, data |-> d]
Take(p, ws, d) == [op |-> "take", at |-> p, from |-> ws, data |-> d]
Store(t)      == [op |-> "store", tile |-> t]
Signal(t, ws) == [op |-> "signal", tile |-> t, from |-> ws]
\* atomicAdd(c, n): the place gets the new value modulo m.
Count(c, n, m, p) == [op |-> "count", counter |-> c, by |-> n, modulo |-> m, at |-> p]
AwaitCount(c, n) == [op |-> "await", counter |-> c, value |-> n]  \* spin until it is n
Clear(cs)     == [op |-> "clear", counters |-> cs]
\* ops if the place, as w left it, holds 0.
OnlyIfZero(p, w, ops) == <<[op |-> "skip", at |-> p, from |-> {w}, ops |-> Len(ops)]>> \o ops

\* The concatenation of F(a), ..., F(b).
Unrolled(a, b, F(_)) ==
  LET upTo[i \in a - 1 .. b] == IF i < a THEN << >> ELSE upTo[i - 1] \o F(i)
  IN  IF b < a THEN << >> ELSE upTo[b]

\* The function with this value at each element of S, written out.
Table(S, F(_)) == FoldSet(LAMBDA x, f : (x :> F(x)) @@ f, << >>, S)

\* ops where the condition holds, nothing elsewhere.
If(condition, ops) == IF condition THEN ops ELSE << >>

\* The operands the accumulators of a tile must take: every block of every K tile
\* once and in order.
EachKTile(t, kTiles, blocks) ==
  [i \in 1 .. kTiles * blocks |-> <<t, 1 + (i - 1) \div blocks, (i - 1) % blocks>>]
=============================================================================
