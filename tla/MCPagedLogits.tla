---------------------------- MODULE MCPagedLogits ----------------------------
(* Small batches for PagedLogits: lengths in KV tiles. *)
EXTENDS PagedLogits, TLC

Batches(n, lengths) == [0 .. n - 1 -> lengths]
Fresh(batches) == {[planned |-> b, actual |-> b] : b \in batches}
Replayed(planned, actual) == {[planned |-> p, actual |-> a] : p \in planned, a \in actual}

\* Freshly planned batches of one to three requests, and batches of three replayed
\* with a schedule planned for other lengths or for two requests only.
Calls ==
  Fresh(Batches(1, 0 .. 3)) \cup Fresh(Batches(2, 0 .. 3)) \cup Fresh(Batches(3, {0, 1, 3}))
  \cup Replayed(Batches(2, {1, 3}), Batches(3, {0, 3}))
  \cup Replayed(Batches(3, {0, 4}), Batches(3, {0, 1, 3}))

Configs ==
  {[groups |-> 1, stageQ |-> 1, turns |-> FALSE], [groups |-> 2, stageQ |-> 2, turns |-> FALSE],
   [groups |-> 2, stageQ |-> 2, turns |-> TRUE]}

\* Four requests, scanned by two warps; the first is the longest.
WideCalls == Fresh({(0 :> 4 @@ 1 :> 1 @@ 2 :> 1 @@ 3 :> 1)})
=============================================================================
