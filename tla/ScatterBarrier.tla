---------------------------- MODULE ScatterBarrier ----------------------------
(***************************************************************************)
(* The cross-rank handoff that ends GEMM2 of a MegaMoE round:              *)
(* comm::fp4_scatter_release / fp4_scatter_acquire (comm/barrier.cuh) and  *)
(* the kernel around them, sm89_fp4_fp4_mega_moe_l2.                       *)
(*                                                                         *)
(* Each CTA of each rank scatters its output tiles into every peer's       *)
(* scatter storage and releases them; block 0 then adds a notification to  *)
(* one signal word of every peer, and a CTA reduces its tokens once the    *)
(* word says that all ranks have notified.  A word packs, for the ranks of *)
(* its bank, a count in bits 0..3 and from bit 4 one mode bit per rank.    *)
(* There are two words (phases) per bank; successive uses of a word count  *)
(* up to the number of writers and back down to zero, so it is never reset.*)
(*                                                                         *)
(* The grid synchronisations are those of module Barrier (GridSync         *)
(* implements it).  The dispatch that opens a round appears only as        *)
(* launch: GEMM1, which runs before this kernel in the same stream, waits  *)
(* for the dispatch arrival of every rank (MegaDispatch).                  *)
(***************************************************************************)
EXTENDS Integers, FiniteSets

CONSTANTS R,             \* kWorldSize
          NumBlocks,     \* CTAs of the grid
          Setups,        \* the deployments considered
          Live           \* bound: those whose progress is checked

\* A deployment: kScatterRanksPerBank; whether all CTAs are joined after the peer
\* acquire (kWorldSize != 8); and, as a bound, how many MegaMoE rounds are played.
ASSUME ScatterAssumption ==
  /\ \E e \in 0 .. 6 : R = 2 ^ e
  /\ NumBlocks \in Nat \ {0}
  /\ Setups \subseteq [ranksPerBank : {1, 2, 4, 8}, secondSync : BOOLEAN, rounds : Nat]
  /\ Live \subseteq Setups

Ranks == 0 .. R - 1
Blocks == 0 .. NumBlocks - 1

VARIABLES
  setup,           \* the deployment at hand
  launch,          \* launch[r]: the round rank r has dispatched
  mode,            \* mode[r][k % 2]: bulk_writer of the kernel of round k
  pc,              \* pc[r][b]: where the CTA is in the kernel
  snapshot,        \* snapshot[r][b]: reduce_phase of the CTA
  status,          \* status[r]: the status block 0 releases under
  posted,          \* posted[r]: the peers block 0 has notified this round
  phaseCounter,    \* phase_counter, whose two low bits are all that is read
  writerPrevious,  \* writer_previous[phase]
  signal,          \* signal[r][phase][bank]: phase_signal of rank r
  seen,            \* seen[r][b]: the banks fp4_scatter_acquire is done with
  mask,            \* mask[r][b]: the ranks writer_mask holds a set bit for
  storage          \* storage[r][q][b]: round whose tiles of rank q's CTA b are
                   \* in r's scatter storage, or InFlight

vars == <<setup, launch, mode, pc, snapshot, status, posted, phaseCounter, writerPrevious,
          signal, seen, mask, storage>>

RanksPerBank == setup.ranksPerBank
SecondSync == setup.secondSync
MaxRounds == setup.rounds

InFlight == -1
Banks == 0 .. (R + RanksPerBank - 1) \div RanksPerBank - 1
Writers == IF R < RanksPerBank THEN R ELSE RanksPerBank
BankOf(r) == r \div RanksPerBank
ModeBit(r) == 2 ^ ((r % RanksPerBank) + 4)
BulkOf(r, k) == mode[r][k % 2]

Phase(st) == st % 2
Negative(st) == st \div 2 = 1

\* Mutant: the mode bit of the previous use of the phase is not taken back.
NotificationForgets(r, st) ==
  (IF Negative(st) THEN -1 ELSE 1) + (IF BulkOf(r, launch[r]) THEN ModeBit(r) ELSE 0)

\* What rank r adds to the word of its bank at every peer.
Notification(r, st) ==
  LET bit(bulk) == IF bulk THEN ModeBit(r) ELSE 0
  IN  (IF Negative(st) THEN -1 ELSE 1)
        + bit(BulkOf(r, launch[r])) - bit(writerPrevious[r][Phase(st)])

\* Mutant: every use of a phase is awaited as if it counted up.
CompleteUp(word, st) == word % 16 = Writers

\* The count a complete bank shows.
Complete(word, st) == word % 16 = (IF Negative(st) THEN 0 ELSE Writers)

\* The ranks of a bank whose mode bit is clear in an observed word.
Disabled(word, bank) ==
  {q \in Ranks : BankOf(q) = bank /\ (word \div ModeBit(q)) % 2 = 0}

\* Program points by which a CTA has entered the first and the second grid sync.
Working == {"ready", "gemm", "scattered"}
Releasing == Working \cup {"sync", "notify", "retire", "acquire"}

Init ==
  /\ setup \in Setups
  /\ launch = [r \in Ranks |-> 0]
  /\ mode = [r \in Ranks |-> [i \in 0 .. 1 |-> FALSE]]
  /\ pc = [r \in Ranks |-> [b \in Blocks |-> "done"]]
  /\ snapshot = [r \in Ranks |-> [b \in Blocks |-> 0]]
  /\ status = [r \in Ranks |-> 0]
  /\ posted = [r \in Ranks |-> {}]
  /\ phaseCounter = [r \in Ranks |-> 0]
  /\ writerPrevious = [r \in Ranks |-> [f \in 0 .. 1 |-> FALSE]]
  /\ signal = [r \in Ranks |-> [f \in 0 .. 1 |-> [k \in Banks |-> 0]]]
  /\ seen = [r \in Ranks |-> [b \in Blocks |-> {}]]
  /\ mask = [r \in Ranks |-> [b \in Blocks |-> {}]]
  /\ storage = [r \in Ranks |-> [q \in Ranks |-> [b \in Blocks |-> 0]]]

Goto(r, b, label) == pc' = [pc EXCEPT ![r][b] = label]

\* The stream starts the next round of r when every CTA of the last has ended.
\* A round may run a kernel of either writer mode.
Dispatch(r) ==
  /\ \A b \in Blocks : pc[r][b] = "done"
  /\ launch[r] < MaxRounds
  /\ launch' = [launch EXCEPT ![r] = @ + 1]
  /\ \E bulk \in BOOLEAN : mode' = [mode EXCEPT ![r][(launch[r] + 1) % 2] = bulk]
  /\ pc' = [pc EXCEPT ![r] = [b \in Blocks |-> "ready"]]
  /\ UNCHANGED <<snapshot, status, posted, phaseCounter, writerPrevious, signal, seen, mask, storage>>

\* Kernel entry, after GEMM1 has seen the arrivals of this round.
Start(r, b) ==
  /\ pc[r][b] = "ready"
  /\ \A q \in Ranks : launch[q] >= launch[r]
  /\ snapshot' = [snapshot EXCEPT ![r][b] = phaseCounter[r] % 4]
  /\ Goto(r, b, "gemm")
  /\ UNCHANGED <<launch, mode, status, posted, phaseCounter, writerPrevious, signal, seen, mask, storage>>

\* The epilogue issues P2P stores to every peer; none is known to have landed.
Scatter(r, b) ==
  /\ pc[r][b] = "gemm"
  /\ storage' = [p \in Ranks |-> [storage[p] EXCEPT ![r][b] = InFlight]]
  /\ Goto(r, b, "scattered")
  /\ UNCHANGED <<launch, mode, snapshot, status, posted, phaseCounter, writerPrevious, signal, seen, mask>>

\* fp4_scatter_release: every warp drains its stores, then the CTA enters grid_sync.
Release(r, b) ==
  /\ pc[r][b] = "scattered"
  /\ storage' = [p \in Ranks |-> [storage[p] EXCEPT ![r][b] = launch[r]]]
  /\ Goto(r, b, "sync")
  /\ UNCHANGED <<launch, mode, snapshot, status, posted, phaseCounter, writerPrevious, signal, seen, mask>>

AfterRelease == IF SecondSync THEN "sync2" ELSE "reacquire"

\* Mutant: block 0 notifies without the first grid_sync.
LeaveSyncAlone(r, b) ==
  /\ pc[r][b] = "sync"
  /\ IF b = 0
     THEN /\ Goto(r, b, "notify")
          /\ status' = [status EXCEPT ![r] = phaseCounter[r] % 4]
          /\ posted' = [posted EXCEPT ![r] = {}]
     ELSE /\ Goto(r, b, AfterRelease)
          /\ UNCHANGED <<status, posted>>
  /\ UNCHANGED <<launch, mode, snapshot, phaseCounter, writerPrevious, signal, seen, mask, storage>>

\* The first grid_sync lets a CTA through; block 0 reads phase_counter again.
LeaveSync(r, b) ==
  /\ pc[r][b] = "sync"
  /\ \A c \in Blocks : pc[r][c] \notin Working
  /\ IF b = 0
     THEN /\ Goto(r, b, "notify")
          /\ status' = [status EXCEPT ![r] = phaseCounter[r] % 4]
          /\ posted' = [posted EXCEPT ![r] = {}]
     ELSE /\ Goto(r, b, AfterRelease)
          /\ UNCHANGED <<status, posted>>
  /\ UNCHANGED <<launch, mode, snapshot, phaseCounter, writerPrevious, signal, seen, mask, storage>>

\* One thread of block 0 per peer: red_add_rel_sys.
Notify(r, p) ==
  /\ pc[r][0] = "notify" /\ p \notin posted[r]
  /\ signal' = [signal EXCEPT ![p][Phase(status[r])][BankOf(r)] =
                  @ + Notification(r, status[r])]
  /\ posted' = [posted EXCEPT ![r] = @ \cup {p}]
  /\ UNCHANGED <<launch, mode, pc, snapshot, status, phaseCounter, writerPrevious, seen, mask, storage>>

\* After __syncthreads thread 0 remembers the mode and advances the phase.
Retire(r) ==
  /\ pc[r][0] = "notify" /\ posted[r] = Ranks
  /\ writerPrevious' =
       [writerPrevious EXCEPT ![r][Phase(status[r])] = BulkOf(r, launch[r])]
  /\ phaseCounter' = [phaseCounter EXCEPT ![r] = (@ + 1) % 4]
  /\ seen' = [seen EXCEPT ![r][0] = {}]
  /\ mask' = [mask EXCEPT ![r][0] = Ranks]
  /\ Goto(r, 0, "acquire")
  /\ UNCHANGED <<launch, mode, snapshot, status, posted, signal, storage>>

\* fp4_scatter_acquire: the banks one after the other, each until it is complete.
AcquireBank(r, b, k) ==
  /\ pc[r][b] \in {"acquire", "reading"}
  /\ k = Cardinality(seen[r][b]) /\ k \in Banks
  /\ LET st == IF pc[r][b] = "acquire" THEN status[r] ELSE snapshot[r][b]
         word == signal[r][Phase(st)][k]
     IN  /\ Complete(word, st)
         /\ mask' = [mask EXCEPT ![r][b] = @ \ Disabled(word, k)]
  /\ seen' = [seen EXCEPT ![r][b] = @ \cup {k}]
  /\ UNCHANGED <<launch, mode, pc, snapshot, status, posted, phaseCounter, writerPrevious, signal, storage>>

\* The end of block 0's own acquire, whose mask is discarded.
EndRelease(r) ==
  /\ pc[r][0] = "acquire" /\ seen[r][0] = Banks
  /\ Goto(r, 0, AfterRelease)
  /\ UNCHANGED <<launch, mode, snapshot, status, posted, phaseCounter, writerPrevious, signal, seen, mask, storage>>

\* The second grid_sync of worlds other than eight.
LeaveSecondSync(r, b) ==
  /\ pc[r][b] = "sync2"
  /\ \A c \in Blocks : pc[r][c] \notin Releasing
  /\ Goto(r, b, "reacquire")
  /\ UNCHANGED <<launch, mode, snapshot, status, posted, phaseCounter, writerPrevious, signal, seen, mask, storage>>

\* Mutant: the kernel reads phase_counter where it needs it, not at entry.
ReacquireRereads(r, b) ==
  /\ pc[r][b] = "reacquire"
  /\ snapshot' = [snapshot EXCEPT ![r][b] = phaseCounter[r]]
  /\ seen' = [seen EXCEPT ![r][b] = {}]
  /\ mask' = [mask EXCEPT ![r][b] = Ranks]
  /\ Goto(r, b, "reading")
  /\ UNCHANGED <<launch, mode, status, posted, phaseCounter, writerPrevious, signal, storage>>

\* Back in the kernel, thread 0 of every CTA acquires with its reduce_phase.
Reacquire(r, b) ==
  /\ pc[r][b] = "reacquire"
  /\ seen' = [seen EXCEPT ![r][b] = {}]
  /\ mask' = [mask EXCEPT ![r][b] = Ranks]
  /\ Goto(r, b, "reading")
  /\ UNCHANGED <<launch, mode, snapshot, status, posted, phaseCounter, writerPrevious, signal, storage>>

Reduce(r, b) ==
  /\ pc[r][b] = "reading" /\ seen[r][b] = Banks
  /\ Goto(r, b, "reduce")
  /\ UNCHANGED <<launch, mode, snapshot, status, posted, phaseCounter, writerPrevious, signal, seen, mask, storage>>

Exit(r, b) ==
  /\ pc[r][b] = "reduce"
  /\ Goto(r, b, "done")
  /\ UNCHANGED <<launch, mode, snapshot, status, posted, phaseCounter, writerPrevious, signal, seen, mask, storage>>

Finished ==
  /\ \A r \in Ranks, b \in Blocks : launch[r] = MaxRounds /\ pc[r][b] = "done"
  /\ UNCHANGED vars

CtaStep(r, b) ==
  \/ Start(r, b) \/ Scatter(r, b) \/ Release(r, b) \/ LeaveSync(r, b)
  \/ \E k \in Banks : AcquireBank(r, b, k)
  \/ LeaveSecondSync(r, b) \/ Reacquire(r, b) \/ Reduce(r, b) \/ Exit(r, b)

LeaderStep(r) == (\E p \in Ranks : Notify(r, p)) \/ Retire(r) \/ EndRelease(r)

RankStep(r) == Dispatch(r) \/ LeaderStep(r) \/ \E b \in Blocks : CtaStep(r, b)

Next == (\E r \in Ranks : RankStep(r)) /\ UNCHANGED setup

\* On every rank the host keeps launching rounds, or some resident CTA executes.
Fairness == \A r \in Ranks : WF_vars(setup \in Live /\ RankStep(r) /\ UNCHANGED setup)

Spec == Init /\ [][Next \/ Finished]_vars
FairSpec == Spec /\ Fairness
-----------------------------------------------------------------------------
\* A CTA that reduces finds in its rank's storage the tiles of this round from
\* every CTA of every rank, all of them landed and none overwritten yet by a rank
\* that is a round ahead.
ReduceReadsRound == \A r \in Ranks, b \in Blocks :
  pc[r][b] = "reduce" =>
    \A q \in Ranks, c \in Blocks : storage[r][q][c] = launch[r]

\* The mask a reducing CTA acquired tells the mode in which each rank wrote this
\* very round, not the one before or, from a rank already ahead, the one after.
MaskNamesWriters == \A r \in Ranks, b \in Blocks :
  pc[r][b] = "reduce" => mask[r][b] = {q \in Ranks : BulkOf(q, launch[r])}

\* All CTAs of a rank use the phase of the round they run, although block 0
\* advances phase_counter while others may still be polling with their snapshot.
PhaseAgrees == \A r \in Ranks, b \in Blocks :
  pc[r][b] \notin {"ready", "done"} => snapshot[r][b] = (launch[r] - 1) % 4

\* How many rounds rank q has notified to rank p.
Notified(q, p) ==
  IF pc[q][0] \in Working \cup {"sync"} \/ (pc[q][0] = "notify" /\ p \notin posted[q])
  THEN launch[q] - 1 ELSE launch[q]

\* Uses of phase f among the first n rounds.
UsesOfPhase(n, f) == (n + 1 - f) \div 2

\* The mode q last notified to p in phase f.
ShownBulk(q, p, f) ==
  IF Notified(q, p) = launch[q] /\ launch[q] > 0 /\ (launch[q] - 1) % 2 = f
  THEN BulkOf(q, launch[q]) ELSE writerPrevious[q][f]

\* What the word of phase f at rank p holds of rank q: one for an odd number of uses
\* of the phase, and the mode bit if the mode last notified is bulk.
Share(p, f, q) ==
  (UsesOfPhase(Notified(q, p), f) % 2) + (IF ShownBulk(q, p, f) THEN ModeBit(q) ELSE 0)

\* The share of the j-th rank of bank k, if there is one; a bank has at most eight.
SlotShare(p, f, k, j) ==
  LET q == k * RanksPerBank + j
  IN  IF j < RanksPerBank /\ q \in Ranks THEN Share(p, f, q) ELSE 0

BankShare(p, f, k) ==
  SlotShare(p, f, k, 0) + SlotShare(p, f, k, 1) + SlotShare(p, f, k, 2) + SlotShare(p, f, k, 3)
    + SlotShare(p, f, k, 4) + SlotShare(p, f, k, 5) + SlotShare(p, f, k, 6) + SlotShare(p, f, k, 7)

\* A signal word never carries or borrows between its count and its mode bits: it
\* is exactly one count per writer whose uses of the phase are odd, plus the bits
\* of the modes last notified, in every order the notifications arrive in.
SignalAccounts == \A p \in Ranks, f \in 0 .. 1, k \in Banks :
  signal[p][f][k] = BankShare(p, f, k)

\* Every rank completes every round: no notification is missed or double counted
\* when a word is reused.
AllRoundsEnd == setup \in Live =>
  <>(\A r \in Ranks, b \in Blocks : launch[r] = MaxRounds /\ pc[r][b] = "done")
=============================================================================
