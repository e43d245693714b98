------------------------------- MODULE GridSync -------------------------------
(***************************************************************************)
(* comm::grid_sync (deep_gemm/include/deep_gemm/comm/barrier.cuh): the     *)
(* synchronisation of all CTAs of one kernel on one 32-bit counter.        *)
(*                                                                         *)
(* Block 0 adds kFinishTag - (num_blocks - 1), every other block adds 1,   *)
(* so a complete round adds kFinishTag exactly: the tag bit of the word    *)
(* flips and its low bits are back where they were.  A block remembers the *)
(* word it saw before its own addition and spins until the tag bit differs.*)
(* The word is never reset: launches, and the two synchronisations of one  *)
(* launch, reuse it.                                                       *)
(***************************************************************************)
EXTENDS Integers, FiniteSets

CONSTANTS N,           \* num_blocks, the size of the grid
          FinishTag,   \* kFinishTag: half of the range of the counter
          MaxSyncs     \* bound: synchronisations a block performs

ASSUME GridAssumption ==
  /\ N \in Nat \ {0}
  /\ FinishTag \in Nat
  /\ N <= FinishTag
  /\ MaxSyncs \in Nat

Blocks == 0 .. N - 1

VARIABLES counter,   \* workspace.grid_counter
          pc,        \* "run" outside grid_sync, "spin" in its do/while loop
          old,       \* old_value of the block's last atomic addition
          syncs      \* grid_syncs the block has completed: its program position

vars == <<counter, pc, old, syncs>>

Words == 0 .. 2 * FinishTag - 1

\* Mutant: the counter does not wrap.
WrapNever(x) == x

\* Addition of two words: the hardware counter wraps at twice its top bit.
Wrap(x) == IF x < 2 * FinishTag THEN x ELSE x - 2 * FinishTag

\* word & kFinishTag
Tagged(word) == word >= FinishTag

\* Mutant: block 0 does not make up for the increments of the others.
IncrementWhole(b) == IF b = 0 THEN FinishTag ELSE 1

\* The word added by the leader of a block.
Increment(b) == IF b = 0 THEN FinishTag - (N - 1) ELSE 1

Init ==
  /\ counter = 0
  /\ pc = [b \in Blocks |-> "run"]
  /\ old = [b \in Blocks |-> 0]
  /\ syncs = [b \in Blocks |-> 0]

\* atomic_add_rel: the addition and the old value are one atomic step.
Arrive(b) ==
  /\ pc[b] = "run"
  /\ syncs[b] < MaxSyncs
  /\ old' = [old EXCEPT ![b] = counter]
  /\ counter' = Wrap(counter + Increment(b))
  /\ pc' = [pc EXCEPT ![b] = "spin"]
  /\ UNCHANGED syncs

\* The load that ends the loop; a load that finds the tag unchanged stutters.
Pass(b) ==
  /\ pc[b] = "spin"
  /\ Tagged(counter) # Tagged(old[b])
  /\ pc' = [pc EXCEPT ![b] = "run"]
  /\ syncs' = [syncs EXCEPT ![b] = @ + 1]
  /\ UNCHANGED <<counter, old>>

\* Every block has performed its last synchronisation.
Finished ==
  /\ \A b \in Blocks : pc[b] = "run" /\ syncs[b] = MaxSyncs
  /\ UNCHANGED vars

Next == \E b \in Blocks : Arrive(b) \/ Pass(b)

\* CTAs of these kernels are co-resident, so each one keeps executing.
Fairness == \A b \in Blocks : WF_vars(Arrive(b)) /\ WF_vars(Pass(b))

Spec == Init /\ [][Next \/ Finished]_vars
FairSpec == Spec /\ Fairness
-----------------------------------------------------------------------------
\* Types; the counter is a word.
TypeOK ==
  /\ counter \in Words
  /\ pc \in [Blocks -> {"run", "spin"}]
  /\ old \in [Blocks -> Words]
  /\ syncs \in [Blocks -> 0 .. MaxSyncs]

Arrived == [b \in Blocks |-> IF pc[b] = "spin" THEN syncs[b] + 1 ELSE syncs[b]]

\* No block is let through a synchronisation that some block has not reached,
\* even when the same word is reused at once for the next synchronisation.
Together == \A b, c \in Blocks : syncs[b] <= Arrived[c]

\* While no block is inside grid_sync the low bits of the word are zero, so the
\* next synchronisation, in this launch or a later one, starts afresh whatever
\* the tag bit is.
CounterReturns ==
  (\A b \in Blocks : pc[b] = "run" /\ syncs[b] = syncs[0])
    => counter \in {0, FinishTag}

\* Every block gets through every synchronisation: the flip of the tag bit is
\* not missed by a slow poller, because it cannot flip twice without it.
AllPass == \A b \in Blocks : <>(syncs[b] = MaxSyncs)

\* grid_sync implements the abstract barrier.
Abstract == INSTANCE Barrier WITH arrived <- Arrived, left <- syncs
ImplementsBarrier == Abstract!Spec
=============================================================================
