------------------------------ MODULE MCJitCache ------------------------------
(* Launches for JitCache: one tile width, with and without a partial tile. *)
EXTENDS JitCache, TLC

MCArgs == {[n |-> 4, blockN |-> 2], [n |-> 3, blockN |-> 2]}

\* Processes are only compared, also by the invariants.
MCSymmetry == Permutations(Processes)
=============================================================================
