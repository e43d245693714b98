-------------------------- MODULE ScatterBarrierProofs --------------------------
(***************************************************************************)
(* Proofs about ScatterBarrier for every number of ranks (a power of two   *)
(* up to 64), every grid size, every bank width and any number of rounds.  *)
(*                                                                         *)
(* The inductive invariant says how far apart ranks and CTAs can be: the   *)
(* launches of two ranks differ by one at most, a CTA that has started its *)
(* round knows that every rank has dispatched it, and a CTA past the grid  *)
(* sync knows its whole grid has released.  From that, what each memory    *)
(* cell and each signal word holds is a function of where the ranks are.   *)
(***************************************************************************)
EXTENDS ScatterBarrier, TLAPS

Labels == Releasing \cup {"sync2", "reacquire", "reading", "reduce", "done"}

\* Block 0 has not yet advanced the phase of its rank.
Unretired == Working \cup {"sync", "notify"}

TypeOK ==
  /\ setup \in [ranksPerBank : {1, 2, 4, 8}, secondSync : BOOLEAN, rounds : Nat]
  /\ launch \in [Ranks -> Nat]
  /\ mode \in [Ranks -> [0 .. 1 -> BOOLEAN]]
  /\ pc \in [Ranks -> [Blocks -> Labels]]
  /\ snapshot \in [Ranks -> [Blocks -> 0 .. 3]]
  /\ status \in [Ranks -> 0 .. 3]
  /\ posted \in [Ranks -> SUBSET Ranks]
  /\ phaseCounter \in [Ranks -> 0 .. 3]
  /\ writerPrevious \in [Ranks -> [0 .. 1 -> BOOLEAN]]
  /\ signal \in [Ranks -> [0 .. 1 -> [Banks -> Int]]]
  /\ seen \in [Ranks -> [Blocks -> SUBSET Banks]]
  /\ mask \in [Ranks -> [Blocks -> SUBSET Ranks]]
  /\ storage \in [Ranks -> [Ranks -> [Blocks -> Int]]]

\* Nobody passes the grid sync of a round while a CTA of the rank is before it.
Joined == \A r \in Ranks, b, c \in Blocks :
  pc[r][c] \in Working => pc[r][b] \in Working \cup {"sync"}

\* Only a rank that has launched a round has CTAs at work.
Launched == \A r \in Ranks, b \in Blocks : pc[r][b] # "done" => launch[r] >= 1

\* A started CTA has seen every rank dispatch its round, and none is two rounds ahead.
Abreast == \A r \in Ranks, b \in Blocks :
  pc[r][b] # "ready" => \A q \in Ranks : launch[q] >= launch[r]
Close == \A p, q \in Ranks : launch[q] <= launch[p] + 1

\* The rounds of r whose phase block 0 has retired.
Retired(r) == IF pc[r][0] \in Unretired THEN launch[r] - 1 ELSE launch[r]

\* The phase counter counts them, and block 0 releases under the next.
PhaseCounts == \A r \in Ranks :
  /\ phaseCounter[r] = Retired(r) % 4
  /\ pc[r][0] \in {"notify", "acquire"} => status[r] = (launch[r] - 1) % 4

\* writer_previous remembers the mode of the last retired round.
ModeRemembered == \A r \in Ranks :
  Retired(r) >= 1 => writerPrevious[r][(Retired(r) - 1) % 2] = BulkOf(r, Retired(r))

\* What a rank finds of CTA c of rank q depends only on where that CTA is.
Stored == \A p, q \in Ranks, c \in Blocks :
  storage[p][q][c] = CASE pc[q][c] \in {"ready", "gemm"} -> launch[q] - 1
                       [] pc[q][c] = "scattered" -> InFlight
                       [] OTHER -> launch[q]

\* The banks a CTA has found complete for its round.
Heard(r, b) == CASE pc[r][b] = "reading" -> seen[r][b]
                 [] pc[r][b] \in {"reduce", "done"} -> Banks
                 [] OTHER -> {}

\* Every rank of such a bank has notified the round, and the mask says its mode.
Acquired == \A r, q \in Ranks, b \in Blocks :
  BankOf(q) \in Heard(r, b) => Notified(q, r) >= launch[r]
Masked == \A r \in Ranks, b \in Blocks :
  pc[r][b] \in {"reading", "reduce"} =>
    mask[r][b] = {q \in Ranks : BankOf(q) \in Heard(r, b) => BulkOf(q, launch[r])}

IInv == /\ TypeOK /\ Joined /\ Launched /\ Abreast /\ Close /\ PhaseCounts /\ PhaseAgrees
        /\ ModeRemembered /\ Stored /\ Acquired /\ Masked /\ SignalAccounts
-----------------------------------------------------------------------------
(* Arithmetic of banks and words. *)

\* A world has 1, 2, 4, ..., 64 ranks.
LEMMA WorldSizes == R \in {1, 2, 4, 8, 16, 32, 64}
<1>1. PICK e \in 0 .. 6 : R = 2 ^ e
  BY ScatterAssumption
<1>2. e = 0 \/ e = 1 \/ e = 2 \/ e = 3 \/ e = 4 \/ e = 5 \/ e = 6
  OBVIOUS
<1>3. 2 ^ 0 = 1 /\ 2 ^ 1 = 2 /\ 2 ^ 2 = 4 /\ 2 ^ 3 = 8 /\ 2 ^ 4 = 16 /\ 2 ^ 5 = 32 /\ 2 ^ 6 = 64
  OBVIOUS
<1>. QED  BY <1>1, <1>2, <1>3

\* Bank and slot of a rank.
LEMMA SlotOfRank ==
  ASSUME RanksPerBank \in {1, 2, 4, 8}, NEW q \in Ranks
  PROVE  /\ BankOf(q) \in Banks
         /\ q % RanksPerBank \in 0 .. 7 /\ q % RanksPerBank < RanksPerBank
         /\ q = BankOf(q) * RanksPerBank + (q % RanksPerBank)
<1>. DEFINE n == RanksPerBank
<1>. HIDE DEF n
<1>1. n \in {1, 2, 4, 8}
  BY DEF n
<1>2. q \in Nat /\ q < R
  BY WorldSizes DEF Ranks
<1>3. q % n \in 0 .. 7 /\ q % n < n /\ q = (q \div n) * n + (q % n) /\ q \div n \in Nat
  <2>1. CASE n = 1  BY <1>2, <2>1
  <2>2. CASE n = 2  BY <1>2, <2>2
  <2>3. CASE n = 4  BY <1>2, <2>3
  <2>4. CASE n = 8  BY <1>2, <2>4
  <2>. QED  BY <1>1, <2>1, <2>2, <2>3, <2>4
<1>4. q \div n <= (R + n - 1) \div n - 1
  <2>1. CASE n = 1  BY <1>2, <2>1, WorldSizes
  <2>2. CASE n = 2  BY <1>2, <2>2, WorldSizes
  <2>3. CASE n = 4  BY <1>2, <2>3, WorldSizes
  <2>4. CASE n = 8  BY <1>2, <2>4, WorldSizes
  <2>. QED  BY <1>1, <2>1, <2>2, <2>3, <2>4
<1>5. (R + n - 1) \div n - 1 \in Int
  BY <1>1, WorldSizes
<1>7. q \div n \in 0 .. (R + n - 1) \div n - 1
  BY <1>3, <1>4, <1>5
<1>. QED  BY <1>3, <1>7 DEF n, BankOf, Banks

\* The slots of a bank that belong to a rank are the first Writers ones.
LEMMA RankOfSlot ==
  ASSUME RanksPerBank \in {1, 2, 4, 8}, NEW k \in Banks, NEW j \in 0 .. 7
  PROVE  /\ (j < RanksPerBank /\ k * RanksPerBank + j \in Ranks) <=> j < Writers
         /\ j < Writers => /\ k * RanksPerBank + j \in Ranks
                           /\ BankOf(k * RanksPerBank + j) = k
                           /\ (k * RanksPerBank + j) % RanksPerBank = j
<1>. DEFINE n == RanksPerBank
<1>. HIDE DEF n
<1>1. n \in {1, 2, 4, 8} /\ k \in 0 .. (R + n - 1) \div n - 1
  BY DEF n, Banks
<1>2. LET w == IF R < n THEN R ELSE n
      IN  /\ (j < n /\ k * n + j \in Ranks) <=> j < w
          /\ j < w => /\ k * n + j \in Ranks
                      /\ (k * n + j) \div n = k
                      /\ (k * n + j) % n = j
  <2>1. CASE n = 1  BY <1>1, <2>1, WorldSizes DEF Ranks
  <2>2. CASE n = 2  BY <1>1, <2>2, WorldSizes DEF Ranks
  <2>3. CASE n = 4  BY <1>1, <2>3, WorldSizes DEF Ranks
  <2>4. CASE n = 8  BY <1>1, <2>4, WorldSizes DEF Ranks
  <2>. QED  BY <1>1, <2>1, <2>2, <2>3, <2>4
<1>. QED  BY <1>2 DEF n, BankOf, Writers

\* The mode bits of the eight slots.
LEMMA Bits ==
  /\ 2 ^ (0 + 4) = 16 /\ 2 ^ (1 + 4) = 32 /\ 2 ^ (2 + 4) = 64 /\ 2 ^ (3 + 4) = 128
  /\ 2 ^ (4 + 4) = 256 /\ 2 ^ (5 + 4) = 512 /\ 2 ^ (6 + 4) = 1024 /\ 2 ^ (7 + 4) = 2048
OBVIOUS

\* A mode bit is one of them, chosen by the slot.
LEMMA ModeBitOfSlot ==
  ASSUME RanksPerBank \in {1, 2, 4, 8}, NEW q \in Ranks
  PROVE  \/ q % RanksPerBank = 0 /\ ModeBit(q) = 16
         \/ q % RanksPerBank = 1 /\ ModeBit(q) = 32
         \/ q % RanksPerBank = 2 /\ ModeBit(q) = 64
         \/ q % RanksPerBank = 3 /\ ModeBit(q) = 128
         \/ q % RanksPerBank = 4 /\ ModeBit(q) = 256
         \/ q % RanksPerBank = 5 /\ ModeBit(q) = 512
         \/ q % RanksPerBank = 6 /\ ModeBit(q) = 1024
         \/ q % RanksPerBank = 7 /\ ModeBit(q) = 2048
<1>1. q % RanksPerBank \in 0 .. 7
  BY SlotOfRank
<1>3. CASE q % RanksPerBank = 0
  <2>1. ModeBit(q) = 2 ^ (0 + 4)
    BY <1>3 DEF ModeBit
  <2>. QED  BY <1>3, <2>1, Bits
<1>4. CASE q % RanksPerBank = 1
  <2>1. ModeBit(q) = 2 ^ (1 + 4)
    BY <1>4 DEF ModeBit
  <2>. QED  BY <1>4, <2>1, Bits
<1>5. CASE q % RanksPerBank = 2
  <2>1. ModeBit(q) = 2 ^ (2 + 4)
    BY <1>5 DEF ModeBit
  <2>. QED  BY <1>5, <2>1, Bits
<1>6. CASE q % RanksPerBank = 3
  <2>1. ModeBit(q) = 2 ^ (3 + 4)
    BY <1>6 DEF ModeBit
  <2>. QED  BY <1>6, <2>1, Bits
<1>7. CASE q % RanksPerBank = 4
  <2>1. ModeBit(q) = 2 ^ (4 + 4)
    BY <1>7 DEF ModeBit
  <2>. QED  BY <1>7, <2>1, Bits
<1>8. CASE q % RanksPerBank = 5
  <2>1. ModeBit(q) = 2 ^ (5 + 4)
    BY <1>8 DEF ModeBit
  <2>. QED  BY <1>8, <2>1, Bits
<1>9. CASE q % RanksPerBank = 6
  <2>1. ModeBit(q) = 2 ^ (6 + 4)
    BY <1>9 DEF ModeBit
  <2>. QED  BY <1>9, <2>1, Bits
<1>10. CASE q % RanksPerBank = 7
  <2>1. ModeBit(q) = 2 ^ (7 + 4)
    BY <1>10 DEF ModeBit
  <2>. QED  BY <1>10, <2>1, Bits
<1>. QED  BY <1>1, <1>3, <1>4, <1>5, <1>6, <1>7, <1>8, <1>9, <1>10

\* A word that adds at most one and at most one mode bit per slot can be read back:
\* its low four bits are the count, and each mode bit is the one added.
LEMMA WordOfParts ==
  ASSUME NEW c \in [0 .. 7 -> 0 .. 1], NEW b \in [0 .. 7 -> 0 .. 1], NEW word,
         word = (c[0] + 16 * b[0]) + (c[1] + 32 * b[1]) + (c[2] + 64 * b[2]) + (c[3] + 128 * b[3])
                  + (c[4] + 256 * b[4]) + (c[5] + 512 * b[5]) + (c[6] + 1024 * b[6]) + (c[7] + 2048 * b[7])
  PROVE  /\ word % 16 = c[0] + c[1] + c[2] + c[3] + c[4] + c[5] + c[6] + c[7]
         /\ (word \div 16) % 2 = b[0] /\ (word \div 32) % 2 = b[1]
         /\ (word \div 64) % 2 = b[2] /\ (word \div 128) % 2 = b[3]
         /\ (word \div 256) % 2 = b[4] /\ (word \div 512) % 2 = b[5]
         /\ (word \div 1024) % 2 = b[6] /\ (word \div 2048) % 2 = b[7]
<1>c0. PICK c0 \in 0 .. 1 : c[0] = c0  OBVIOUS
<1>c1. PICK c1 \in 0 .. 1 : c[1] = c1  OBVIOUS
<1>c2. PICK c2 \in 0 .. 1 : c[2] = c2  OBVIOUS
<1>c3. PICK c3 \in 0 .. 1 : c[3] = c3  OBVIOUS
<1>c4. PICK c4 \in 0 .. 1 : c[4] = c4  OBVIOUS
<1>c5. PICK c5 \in 0 .. 1 : c[5] = c5  OBVIOUS
<1>c6. PICK c6 \in 0 .. 1 : c[6] = c6  OBVIOUS
<1>c7. PICK c7 \in 0 .. 1 : c[7] = c7  OBVIOUS
<1>b0. PICK b0 \in 0 .. 1 : b[0] = b0  OBVIOUS
<1>b1. PICK b1 \in 0 .. 1 : b[1] = b1  OBVIOUS
<1>b2. PICK b2 \in 0 .. 1 : b[2] = b2  OBVIOUS
<1>b3. PICK b3 \in 0 .. 1 : b[3] = b3  OBVIOUS
<1>b4. PICK b4 \in 0 .. 1 : b[4] = b4  OBVIOUS
<1>b5. PICK b5 \in 0 .. 1 : b[5] = b5  OBVIOUS
<1>b6. PICK b6 \in 0 .. 1 : b[6] = b6  OBVIOUS
<1>b7. PICK b7 \in 0 .. 1 : b[7] = b7  OBVIOUS
<1>. DEFINE sum == c0 + c1 + c2 + c3 + c4 + c5 + c6 + c7
            w == (c0 + 16 * b0) + (c1 + 32 * b1) + (c2 + 64 * b2) + (c3 + 128 * b3)
                   + (c4 + 256 * b4) + (c5 + 512 * b5) + (c6 + 1024 * b6) + (c7 + 2048 * b7)
<1>1. sum \in 0 .. 8
  OBVIOUS
<1>2. w = sum + 16 * (b0 + 2 * b1 + 4 * b2 + 8 * b3 + 16 * b4 + 32 * b5 + 64 * b6 + 128 * b7)
  OBVIOUS
<1>. HIDE DEF sum, w
<1>3. w % 16 = sum
  BY <1>1, <1>2
<1>4. (w \div 16) % 2 = b0
  BY <1>1, <1>2
<1>5. (w \div 32) % 2 = b1
  BY <1>1, <1>2
<1>6. (w \div 64) % 2 = b2
  BY <1>1, <1>2
<1>7. (w \div 128) % 2 = b3
  BY <1>1, <1>2
<1>8. (w \div 256) % 2 = b4
  BY <1>1, <1>2
<1>9. (w \div 512) % 2 = b5
  BY <1>1, <1>2
<1>10. (w \div 1024) % 2 = b6
  BY <1>1, <1>2
<1>11. (w \div 2048) % 2 = b7
  BY <1>1, <1>2
<1>12. word = w
  BY <1>c0, <1>c1, <1>c2, <1>c3, <1>c4, <1>c5, <1>c6, <1>c7, <1>b0, <1>b1, <1>b2, <1>b3, <1>b4, <1>b5, <1>b6, <1>b7 DEF w
<1>13. sum = c[0] + c[1] + c[2] + c[3] + c[4] + c[5] + c[6] + c[7]
  BY <1>c0, <1>c1, <1>c2, <1>c3, <1>c4, <1>c5, <1>c6, <1>c7 DEF sum
<1>. QED
  BY <1>3, <1>4, <1>5, <1>6, <1>7, <1>8, <1>9, <1>10, <1>11, <1>12, <1>13, <1>c0, <1>c1, <1>c2, <1>c3, <1>c4, <1>c5, <1>c6, <1>c7, <1>b0, <1>b1, <1>b2, <1>b3, <1>b4, <1>b5, <1>b6, <1>b7

\* Which uses of a phase the n-th round makes, and what that does to its parity.
LEMMA UseOfPhase ==
  ASSUME NEW n \in Nat, n >= 1, NEW f \in 0 .. 1
  PROVE  /\ UsesOfPhase(n, f) \in Nat /\ UsesOfPhase(n - 1, f) \in Nat
         /\ Phase((n - 1) % 4) = (n - 1) % 2
         /\ f # (n - 1) % 2 => UsesOfPhase(n, f) = UsesOfPhase(n - 1, f)
         /\ f = (n - 1) % 2 =>
              /\ UsesOfPhase(n - 1, f) % 2 = (IF Negative((n - 1) % 4) THEN 1 ELSE 0)
              /\ UsesOfPhase(n, f) % 2 = (IF Negative((n - 1) % 4) THEN 0 ELSE 1)
BY DEF UsesOfPhase, Phase, Negative
-----------------------------------------------------------------------------
(* What a word says. *)

\* What rank q has added to the count of a word, and whether its bit is set.
CountOf(p, f, q) == UsesOfPhase(Notified(q, p), f) % 2
BitOf(p, f, q) == IF ShownBulk(q, p, f) THEN 1 ELSE 0

\* A rank has notified its own round or the one before, never one the peer has not
\* dispatched.
LEMMA NotifiedRange ==
  ASSUME TypeOK, Launched, NEW p \in Ranks, NEW q \in Ranks
  PROVE  /\ Notified(q, p) \in Nat
         /\ Notified(q, p) = launch[q] \/ Notified(q, p) = launch[q] - 1
         /\ Abreast /\ Close => Notified(q, p) <= launch[p]
<1>1. 0 \in Blocks
  BY ScatterAssumption DEF Blocks
<1>2. launch[q] \in Nat /\ launch[p] \in Nat /\ pc[q][0] \in Labels
  BY <1>1 DEF TypeOK
<1>3. /\ Notified(q, p) \in Nat
      /\ Notified(q, p) = launch[q] \/ Notified(q, p) = launch[q] - 1
  BY <1>1, <1>2 DEF Launched, Notified, Working
<1>4. ASSUME Abreast, Close  PROVE Notified(q, p) <= launch[p]
  <2>1. CASE pc[q][0] = "ready"
    <3>1. Notified(q, p) = launch[q] - 1
      BY <2>1 DEF Notified, Working
    <3>. QED  BY <1>2, <1>4, <3>1 DEF Close
  <2>2. CASE pc[q][0] # "ready"
    <3>1. launch[p] >= launch[q]
      BY <1>1, <1>4, <2>2 DEF Abreast
    <3>. QED  BY <1>2, <1>3, <3>1
  <2>. QED  BY <2>1, <2>2
<1>. QED  BY <1>3, <1>4

\* A share is a count of at most one and at most the mode bit.
LEMMA ShareParts ==
  ASSUME TypeOK, Launched, NEW p \in Ranks, NEW q \in Ranks, NEW f \in 0 .. 1
  PROVE  /\ CountOf(p, f, q) \in 0 .. 1 /\ BitOf(p, f, q) \in 0 .. 1
         /\ Share(p, f, q) = CountOf(p, f, q) + (IF ShownBulk(q, p, f) THEN ModeBit(q) ELSE 0)
         /\ Share(p, f, q) \in Int
<1>1. Notified(q, p) \in Nat
  BY NotifiedRange
<1>2. UsesOfPhase(Notified(q, p), f) \in Int
  BY <1>1 DEF UsesOfPhase
<1>3. CountOf(p, f, q) \in 0 .. 1
  BY <1>2 DEF CountOf
<1>4. RanksPerBank \in {1, 2, 4, 8}
  BY DEF TypeOK, RanksPerBank
<1>5. ModeBit(q) \in Int
  BY <1>4, ModeBitOfSlot
<1>. QED  BY <1>3, <1>5 DEF Share, BitOf, CountOf

\* The share of each slot of a bank, as a count and a bit.
LEMMA SlotParts ==
  ASSUME TypeOK, Launched, NEW p \in Ranks, NEW f \in 0 .. 1, NEW k \in Banks,
         NEW j \in 0 .. 7, NEW m, 2 ^ (j + 4) = m, m \in Int
  PROVE  LET q == k * RanksPerBank + j
             c == IF j < Writers THEN CountOf(p, f, q) ELSE 0
             b == IF j < Writers THEN BitOf(p, f, q) ELSE 0
         IN  c \in 0 .. 1 /\ b \in 0 .. 1 /\ SlotShare(p, f, k, j) = c + m * b
<1>. DEFINE q == k * RanksPerBank + j
<1>1. RanksPerBank \in {1, 2, 4, 8}
  BY DEF TypeOK, RanksPerBank
<1>2. CASE j < Writers
  <2>1. q \in Ranks /\ q % RanksPerBank = j /\ j < RanksPerBank
    BY <1>1, <1>2, RankOfSlot
  <2>2. ModeBit(q) = m
    BY <2>1 DEF ModeBit
  <2>. HIDE DEF q
  <2>3. /\ CountOf(p, f, q) \in 0 .. 1 /\ BitOf(p, f, q) \in 0 .. 1
        /\ Share(p, f, q) = CountOf(p, f, q) + (IF ShownBulk(q, p, f) THEN ModeBit(q) ELSE 0)
    BY <2>1, ShareParts
  <2>4. SlotShare(p, f, k, j) = Share(p, f, q)
    BY <2>1 DEF SlotShare, q
  <2>5. Share(p, f, q) = CountOf(p, f, q) + m * BitOf(p, f, q)
    BY <2>2, <2>3 DEF BitOf
  <2>. QED  BY <1>2, <2>3, <2>4, <2>5 DEF q
<1>3. CASE ~(j < Writers)
  <2>1. SlotShare(p, f, k, j) = 0
    BY <1>1, <1>3, RankOfSlot DEF SlotShare
  <2>. QED  BY <1>3, <2>1
<1>. QED  BY <1>2, <1>3

\* A word shows for each rank of its bank the mode last notified, and a count that is
\* Writers or zero only when every rank of the bank, or none, has an odd number of uses.
LEMMA WordReads ==
  ASSUME TypeOK, Launched, SignalAccounts,
         NEW p \in Ranks, NEW f \in 0 .. 1, NEW q \in Ranks
  PROVE  LET w == signal[p][f][BankOf(q)]
         IN  /\ (w \div ModeBit(q)) % 2 = BitOf(p, f, q)
             /\ w % 16 = Writers => CountOf(p, f, q) = 1
             /\ w % 16 = 0 => CountOf(p, f, q) = 0
<1>. DEFINE k == BankOf(q)
            n == RanksPerBank
            x == q % n
            w == signal[p][f][k]
            c == [j \in 0 .. 7 |-> IF j < Writers THEN CountOf(p, f, k * n + j) ELSE 0]
            b == [j \in 0 .. 7 |-> IF j < Writers THEN BitOf(p, f, k * n + j) ELSE 0]
<1>1. RanksPerBank \in {1, 2, 4, 8}
  BY DEF TypeOK, RanksPerBank
<1>2. k \in Banks /\ x \in 0 .. 7 /\ x < n /\ q = k * n + x
  BY <1>1, SlotOfRank
<1>3. x < Writers
  BY <1>1, <1>2, RankOfSlot
<1>4. Writers \in 1 .. 8
  BY <1>1, WorldSizes DEF Writers
<1>5. c[x] = CountOf(p, f, q) /\ b[x] = BitOf(p, f, q)
  BY <1>2, <1>3
<1>. HIDE DEF k, n, x, w
<1>6. c \in [0 .. 7 -> 0 .. 1] /\ b \in [0 .. 7 -> 0 .. 1]
  BY <1>2, Bits, SlotParts DEF n
<1>60. SlotShare(p, f, k, 0) = c[0] + 16 * b[0]
  BY <1>2, Bits, SlotParts DEF n
<1>61. SlotShare(p, f, k, 1) = c[1] + 32 * b[1]
  BY <1>2, Bits, SlotParts DEF n
<1>62. SlotShare(p, f, k, 2) = c[2] + 64 * b[2]
  BY <1>2, Bits, SlotParts DEF n
<1>63. SlotShare(p, f, k, 3) = c[3] + 128 * b[3]
  BY <1>2, Bits, SlotParts DEF n
<1>64. SlotShare(p, f, k, 4) = c[4] + 256 * b[4]
  BY <1>2, Bits, SlotParts DEF n
<1>65. SlotShare(p, f, k, 5) = c[5] + 512 * b[5]
  BY <1>2, Bits, SlotParts DEF n
<1>66. SlotShare(p, f, k, 6) = c[6] + 1024 * b[6]
  BY <1>2, Bits, SlotParts DEF n
<1>67. SlotShare(p, f, k, 7) = c[7] + 2048 * b[7]
  BY <1>2, Bits, SlotParts DEF n
<1>7. w = BankShare(p, f, k)
  BY <1>2 DEF SignalAccounts, w
<1>. HIDE DEF c, b
<1>8. w = (c[0] + 16 * b[0]) + (c[1] + 32 * b[1]) + (c[2] + 64 * b[2]) + (c[3] + 128 * b[3])
            + (c[4] + 256 * b[4]) + (c[5] + 512 * b[5]) + (c[6] + 1024 * b[6]) + (c[7] + 2048 * b[7])
  BY <1>60, <1>61, <1>62, <1>63, <1>64, <1>65, <1>66, <1>67, <1>7 DEF BankShare
<1>9. /\ w % 16 = c[0] + c[1] + c[2] + c[3] + c[4] + c[5] + c[6] + c[7]
      /\ (w \div 16) % 2 = b[0] /\ (w \div 32) % 2 = b[1]
      /\ (w \div 64) % 2 = b[2] /\ (w \div 128) % 2 = b[3]
      /\ (w \div 256) % 2 = b[4] /\ (w \div 512) % 2 = b[5]
      /\ (w \div 1024) % 2 = b[6] /\ (w \div 2048) % 2 = b[7]
  BY <1>6, <1>8, WordOfParts
<1>10. (w \div ModeBit(q)) % 2 = b[x]
  BY <1>1, <1>9, ModeBitOfSlot DEF x, n
<1>11. \A j \in 0 .. 7 : j >= Writers => c[j] = 0
  BY <1>4 DEF c
<1>12. w % 16 = 0 => c[x] = 0
  BY <1>2, <1>6, <1>9
<1>13. w % 16 = Writers => c[x] = 1
  BY <1>2, <1>3, <1>4, <1>6, <1>9, <1>11
<1>. QED  BY <1>5, <1>10, <1>12, <1>13 DEF w, k
-----------------------------------------------------------------------------
(* What a polling CTA may conclude. *)

\* A started CTA sees every peer in its own round or, not yet started, in the next.
LEMMA PeerRounds ==
  ASSUME IInv, NEW r \in Ranks, NEW b \in Blocks, pc[r][b] # "ready", NEW q \in Ranks
  PROVE  /\ launch[r] \in Nat /\ launch[q] \in Nat
         /\ \/ launch[q] = launch[r]
            \/ launch[q] = launch[r] + 1 /\ \A c \in Blocks : pc[q][c] = "ready"
         /\ Notified(q, r) \in Nat
         /\ Notified(q, r) = launch[r] - 1 \/ Notified(q, r) = launch[r]
<1>1. launch[r] \in Nat /\ launch[q] \in Nat
  BY DEF IInv, TypeOK
<1>2. launch[q] >= launch[r] /\ launch[q] <= launch[r] + 1
  BY DEF IInv, Abreast, Close
<1>3. launch[q] > launch[r] => \A c \in Blocks : pc[q][c] = "ready"
  BY <1>1 DEF IInv, Abreast
<1>4. Notified(q, r) \in Nat /\ Notified(q, r) <= launch[r]
       /\ (Notified(q, r) = launch[q] \/ Notified(q, r) = launch[q] - 1)
  BY NotifiedRange DEF IInv
<1>. QED  BY <1>1, <1>2, <1>3, <1>4

\* The mode shown for a notified round is the mode of that round, even when the peer
\* has since dispatched the next.
LEMMA NotifiedMode ==
  ASSUME IInv, NEW r \in Ranks, NEW q \in Ranks, Notified(q, r) >= 1
  PROVE  ShownBulk(q, r, (Notified(q, r) - 1) % 2) = BulkOf(q, Notified(q, r))
<1>. DEFINE m == Notified(q, r)
<1>1. launch[q] \in Nat /\ m \in Nat /\ (m = launch[q] \/ m = launch[q] - 1)
  BY NotifiedRange DEF IInv, TypeOK
<1>2. CASE m = launch[q]
  BY <1>1, <1>2 DEF ShownBulk
<1>3. CASE m = launch[q] - 1
  <2>1. pc[q][0] \in Unretired
    BY <1>1, <1>3 DEF Notified, Unretired
  <2>2. Retired(q) = m
    BY <1>3, <2>1 DEF Retired
  <2>3. writerPrevious[q][(m - 1) % 2] = BulkOf(q, m)
    BY <2>2 DEF IInv, ModeRemembered
  <2>. QED  BY <1>1, <1>3, <2>3 DEF ShownBulk
<1>. QED  BY <1>1, <1>2, <1>3

\* A complete bank: every rank of it has notified this round, and its mode bit is the
\* mode it wrote this round in.
LEMMA AcquireReads ==
  ASSUME IInv, NEW r \in Ranks, NEW b \in Blocks, pc[r][b] = "reading",
         NEW q \in Ranks,
         Complete(signal[r][Phase(snapshot[r][b])][BankOf(q)], snapshot[r][b])
  PROVE  /\ Notified(q, r) = launch[r]
         /\ (signal[r][Phase(snapshot[r][b])][BankOf(q)] \div ModeBit(q)) % 2
              = IF BulkOf(q, launch[r]) THEN 1 ELSE 0
<1>. DEFINE n == launch[r]
            f == (n - 1) % 2
            w == signal[r][f][BankOf(q)]
<1>1. n \in Nat /\ n >= 1 /\ snapshot[r][b] = (n - 1) % 4
  BY DEF IInv, TypeOK, Launched, PhaseAgrees
<1>2. f \in 0 .. 1 /\ Phase(snapshot[r][b]) = f
  BY <1>1, UseOfPhase
<1>3. /\ (w \div ModeBit(q)) % 2 = BitOf(r, f, q)
      /\ w % 16 = Writers => CountOf(r, f, q) = 1
      /\ w % 16 = 0 => CountOf(r, f, q) = 0
  BY <1>2, WordReads DEF IInv
<1>4. Notified(q, r) = n - 1 \/ Notified(q, r) = n
  BY PeerRounds
<1>. HIDE DEF n, f
<1>5. CountOf(r, f, q) = (IF Negative((n - 1) % 4) THEN 0 ELSE 1)
  BY <1>1, <1>2, <1>3 DEF Complete
<1>6. Notified(q, r) # n - 1
  <2>1. UsesOfPhase(n - 1, f) % 2 = (IF Negative((n - 1) % 4) THEN 1 ELSE 0)
    BY <1>1, <1>2, UseOfPhase DEF f
  <2>. QED  BY <1>5, <2>1 DEF CountOf
<1>7. Notified(q, r) = n
  BY <1>4, <1>6
<1>8. ShownBulk(q, r, f) = BulkOf(q, n)
  BY <1>1, <1>7, NotifiedMode DEF f
<1>. QED  BY <1>2, <1>3, <1>7, <1>8 DEF BitOf, n

-----------------------------------------------------------------------------
(* The invariant implies what is promised. *)

\* Every rank that has notified the round has released its whole grid before.
LEMMA InvReads == IInv => ReduceReadsRound
<1> SUFFICES ASSUME IInv, NEW r \in Ranks, NEW b \in Blocks, pc[r][b] = "reduce",
                    NEW q \in Ranks, NEW c \in Blocks
             PROVE  storage[r][q][c] = launch[r]
  BY DEF ReduceReadsRound
<1>1. 0 \in Blocks
  BY ScatterAssumption DEF Blocks
<1>2. Notified(q, r) >= launch[r]
  <2>1. BankOf(q) \in Banks
    BY SlotOfRank DEF IInv, TypeOK, RanksPerBank
  <2>. QED  BY <2>1 DEF IInv, Acquired, Heard
<1>3. /\ launch[r] \in Nat
      /\ \/ launch[q] = launch[r]
         \/ launch[q] = launch[r] + 1 /\ \A d \in Blocks : pc[q][d] = "ready"
  BY PeerRounds
<1>4. CASE launch[q] = launch[r]
  <2>1. pc[q][0] \notin Working \cup {"sync"}
    BY <1>2, <1>3, <1>4 DEF Notified
  <2>2. pc[q][c] \notin Working
    BY <1>1, <2>1 DEF IInv, Joined
  <2>. QED  BY <1>4, <2>2 DEF IInv, Stored, Working
<1>5. CASE launch[q] = launch[r] + 1 /\ \A d \in Blocks : pc[q][d] = "ready"
  <2>1. storage[r][q][c] = launch[q] - 1
    BY <1>5 DEF IInv, Stored
  <2>. QED  BY <1>3, <1>5, <2>1
<1>. QED  BY <1>3, <1>4, <1>5

LEMMA InvMask == IInv => MaskNamesWriters
<1> SUFFICES ASSUME IInv, NEW r \in Ranks, NEW b \in Blocks, pc[r][b] = "reduce"
             PROVE  mask[r][b] = {q \in Ranks : BulkOf(q, launch[r])}
  BY DEF MaskNamesWriters
<1>1. \A q \in Ranks : BankOf(q) \in Heard(r, b)
  BY SlotOfRank DEF IInv, TypeOK, RanksPerBank, Heard
<1>2. mask[r][b] = {q \in Ranks : BankOf(q) \in Heard(r, b) => BulkOf(q, launch[r])}
  BY DEF IInv, Masked
<1>. QED  BY <1>1, <1>2
-----------------------------------------------------------------------------
(* Steps that move one CTA past the grid sync without touching shared state. *)

\* The label block 0 is at says all that is needed to know what it has notified.
SameSide(x, y) == (x \in Working \cup {"sync"} <=> y \in Working \cup {"sync"})
                   /\ (x = "notify" <=> y = "notify")

\* While no word is written, they stay accounted for if no share changes.
LEMMA SameShares ==
  ASSUME UNCHANGED setup,
         \A p, q \in Ranks, f \in 0 .. 1 : Share(p, f, q)' = Share(p, f, q)
  PROVE  UNCHANGED signal /\ SignalAccounts => SignalAccounts'
<1>1. \A p \in Ranks, f \in 0 .. 1, k \in Banks, j \in 0 .. 7 :
        SlotShare(p, f, k, j)' = SlotShare(p, f, k, j)
  BY DEF SlotShare, RanksPerBank
<1>2. \A p \in Ranks, f \in 0 .. 1, k \in Banks : BankShare(p, f, k)' = BankShare(p, f, k)
  BY <1>1 DEF BankShare
<1>3. Banks' = Banks
  BY DEF Banks, RanksPerBank
<1>. QED  BY <1>2, <1>3 DEF SignalAccounts

\* When rounds, modes and block 0's side of the notification stay, so do the shares.
LEMMA SharesKept ==
  ASSUME UNCHANGED <<setup, launch, mode, posted, writerPrevious>>,
         \A q \in Ranks : SameSide(pc[q][0], pc'[q][0])
  PROVE  /\ \A p, q \in Ranks : Notified(q, p)' = Notified(q, p)
         /\ UNCHANGED signal /\ SignalAccounts => SignalAccounts'
<1>1. \A p, q \in Ranks : Notified(q, p)' = Notified(q, p)
  BY DEF Notified, SameSide
<1>2. \A p, q \in Ranks, f \in 0 .. 1 : ShownBulk(q, p, f)' = ShownBulk(q, p, f)
  BY <1>1 DEF ShownBulk, BulkOf
<1>3. \A p, q \in Ranks, f \in 0 .. 1 : Share(p, f, q)' = Share(p, f, q)
  BY <1>1, <1>2 DEF Share, ModeBit, RanksPerBank
<1>. QED  BY <1>1, <1>3, SameShares

Late == {"sync2", "reacquire", "reading", "reduce", "done"}

\* Such a move keeps everything but what is known of the CTA's own polling.
LEMMA LateMove ==
  ASSUME IInv, NEW r \in Ranks, NEW b \in Blocks, NEW y \in Late,
         \/ pc[r][b] \in Late \ {"done"}
         \/ pc[r][b] = "acquire" /\ b = 0
         \/ pc[r][b] = "sync" /\ b # 0 /\ \A c \in Blocks : pc[r][c] \notin Working,
         pc' = [pc EXCEPT ![r][b] = y],
         UNCHANGED <<setup, launch, mode, snapshot, status, posted, phaseCounter,
                     writerPrevious, signal, storage>>,
         seen' \in [Ranks -> [Blocks -> SUBSET Banks]],
         mask' \in [Ranks -> [Blocks -> SUBSET Ranks]]
  PROVE  /\ TypeOK' /\ Joined' /\ Launched' /\ Abreast' /\ Close' /\ PhaseCounts'
         /\ PhaseAgrees' /\ ModeRemembered' /\ Stored' /\ SignalAccounts'
         /\ \A p, q \in Ranks : Notified(q, p)' = Notified(q, p)
<1>. USE DEF IInv
<1>1. /\ pc \in [Ranks -> [Blocks -> Labels]]
      /\ pc[r][b] \in {"sync", "acquire", "sync2", "reacquire", "reading", "reduce"}
      /\ pc[r][b] = "sync" => b # 0
  BY DEF TypeOK, Late
<1>2. /\ \A q \in Ranks, c \in Blocks : pc'[q][c] = IF q = r /\ c = b THEN y ELSE pc[q][c]
      /\ y \notin Working \cup {"sync", "notify", "acquire"}
  BY <1>1 DEF Late, Working
<1>3. 0 \in Blocks
  BY ScatterAssumption DEF Blocks
<1>4. TypeOK'
  <2>1. y \in Labels
    BY DEF Late, Labels
  <2>2. pc' \in [Ranks -> [Blocks -> Labels]]
    BY <1>1, <2>1
  <2>3. Banks' = Banks
    BY DEF Banks, RanksPerBank
  <2>. QED  BY <2>2, <2>3 DEF TypeOK
<1>5. \A c \in Blocks : pc[r][c] \notin Working
  BY <1>1 DEF Joined, Late, Working
<1>6. Joined'
  BY <1>2, <1>5 DEF Joined
<1>7. Launched' /\ Abreast' /\ Close'
  BY <1>1, <1>2 DEF Launched, Abreast, Close, Late
<1>8. \A q \in Ranks : SameSide(pc[q][0], pc'[q][0])
  BY <1>1, <1>2, <1>3 DEF SameSide, Working, Late
<1>9. SignalAccounts' /\ \A p, q \in Ranks : Notified(q, p)' = Notified(q, p)
  BY <1>8, SharesKept
<1>10. \A q \in Ranks : Retired(q)' = Retired(q)
  BY <1>1, <1>2, <1>3 DEF Retired, Unretired, Working
<1>11. PhaseCounts'
  BY <1>2, <1>3, <1>10 DEF PhaseCounts
<1>12. ModeRemembered'
  BY <1>10 DEF ModeRemembered, BulkOf
<1>13. PhaseAgrees'
  BY <1>1, <1>2 DEF PhaseAgrees
<1>14. Stored'
  BY <1>1, <1>2, <1>5 DEF Stored, Working, Late
<1>. QED  BY <1>4, <1>6, <1>7, <1>9, <1>11, <1>12, <1>13, <1>14

\* When nobody's notifications, rounds or modes change, what other CTAs have heard and
\* what their masks say stays true; it remains to look at the CTA that moves.
LEMMA OthersHeard ==
  ASSUME IInv, NEW r \in Ranks, NEW b \in Blocks,
         UNCHANGED <<setup, launch, mode>>,
         \A p, q \in Ranks : Notified(q, p)' \in Nat /\ Notified(q, p)' >= Notified(q, p),
         \A q \in Ranks, c \in Blocks : q # r \/ c # b =>
           pc'[q][c] = pc[q][c] /\ seen'[q][c] = seen[q][c] /\ mask'[q][c] = mask[q][c],
         \A q \in Ranks : BankOf(q)' \in Heard(r, b)' => Notified(q, r)' >= launch[r],
         pc'[r][b] \in {"reading", "reduce"} =>
           mask'[r][b] = {q \in Ranks : BankOf(q)' \in Heard(r, b)' => BulkOf(q, launch[r])}
  PROVE  Acquired' /\ Masked'
<1>1. \A q \in Ranks : BankOf(q)' = BankOf(q) /\ BulkOf(q, launch[r])' = BulkOf(q, launch[r])
  BY DEF BankOf, RanksPerBank, BulkOf
<1>2. \A p \in Ranks, c \in Blocks : p # r \/ c # b => Heard(p, c)' = Heard(p, c)
  BY DEF Heard, Banks, RanksPerBank
<1>3. ASSUME NEW p \in Ranks, NEW q \in Ranks, NEW c \in Blocks, BankOf(q)' \in Heard(p, c)'
      PROVE  Notified(q, p)' >= launch'[p]
  <2>1. CASE p = r /\ c = b
    BY <1>3, <2>1
  <2>2. CASE p # r \/ c # b
    <3>1. Notified(q, p) >= launch[p]
      BY <1>1, <1>2, <1>3, <2>2 DEF IInv, Acquired
    <3>2. launch[p] \in Nat /\ Notified(q, p) \in Nat
      BY NotifiedRange DEF IInv, TypeOK
    <3>3. Notified(q, p)' \in Nat /\ Notified(q, p)' >= Notified(q, p)
      OBVIOUS
    <3>. QED  BY <3>1, <3>2, <3>3
  <2>. QED  BY <2>1, <2>2
<1>4. ASSUME NEW p \in Ranks, NEW c \in Blocks, pc'[p][c] \in {"reading", "reduce"}
      PROVE  mask'[p][c] = {q \in Ranks : BankOf(q)' \in Heard(p, c)' => BulkOf(q, launch[p])'}
  <2>1. CASE p = r /\ c = b
    BY <1>1, <1>4, <2>1
  <2>2. CASE p # r \/ c # b
    <3>1. mask[p][c] = {q \in Ranks : BankOf(q) \in Heard(p, c) => BulkOf(q, launch[p])}
      BY <1>4, <2>2 DEF IInv, Masked
    <3>2. \A q \in Ranks : BulkOf(q, launch[p])' = BulkOf(q, launch[p])
      BY DEF BulkOf
    <3>. QED  BY <1>1, <1>2, <2>2, <3>1, <3>2
  <2>. QED  BY <2>1, <2>2
<1>. QED  BY <1>3, <1>4 DEF Acquired, Masked

\* A poll of one more bank: the heart of the protocol.
LEMMA AcquireBankStep ==
  ASSUME IInv, setup' = setup, NEW r \in Ranks, NEW b \in Blocks, NEW k \in Banks,
         AcquireBank(r, b, k)
  PROVE  IInv'
<1>1. /\ seen \in [Ranks -> [Blocks -> SUBSET Banks]]
      /\ mask \in [Ranks -> [Blocks -> SUBSET Ranks]]
      /\ pc[r][b] \in {"acquire", "reading"}
  BY DEF IInv, TypeOK, AcquireBank
<1>2. UNCHANGED <<setup, launch, mode, pc, snapshot, status, posted, phaseCounter,
                  writerPrevious, signal, storage>>
  BY DEF AcquireBank
<1>3. seen' \in [Ranks -> [Blocks -> SUBSET Banks]] /\ seen'[r][b] = seen[r][b] \cup {k}
  BY <1>1 DEF AcquireBank
<1>4. mask' \in [Ranks -> [Blocks -> SUBSET Ranks]]
  <2>1. PICK disabled : mask' = [mask EXCEPT ![r][b] = @ \ disabled]
    BY DEF AcquireBank
  <2>. QED  BY <1>1, <2>1
<1>5. /\ TypeOK' /\ Joined' /\ Launched' /\ Abreast' /\ Close' /\ PhaseCounts'
      /\ PhaseAgrees' /\ ModeRemembered' /\ Stored'
  <2>1. Banks' = Banks
    BY DEF Banks, RanksPerBank
  <2>2. TypeOK'
    BY <1>2, <1>3, <1>4, <2>1 DEF IInv, TypeOK
  <2>3. Joined' /\ Launched' /\ Abreast' /\ Close'
    BY <1>2 DEF IInv, Joined, Launched, Abreast, Close
  <2>4. PhaseCounts' /\ PhaseAgrees'
    BY <1>2 DEF IInv, PhaseCounts, PhaseAgrees, Retired
  <2>5. ModeRemembered'
    BY <1>2 DEF IInv, ModeRemembered, Retired, BulkOf
  <2>6. Stored'
    BY <1>2 DEF IInv, Stored
  <2>. QED  BY <2>2, <2>3, <2>4, <2>5, <2>6
<1>6. /\ SignalAccounts'
      /\ \A p, q \in Ranks : /\ Notified(q, p)' = Notified(q, p)
                            /\ Notified(q, p)' \in Nat /\ Notified(q, p)' >= Notified(q, p)
  <2>1. SignalAccounts' /\ \A p, q \in Ranks : Notified(q, p)' = Notified(q, p)
    BY <1>2, SharesKept DEF SameSide, IInv
  <2>. QED  BY <2>1, NotifiedRange DEF IInv
<1>7. \A q \in Ranks, c \in Blocks : q # r \/ c # b =>
        pc'[q][c] = pc[q][c] /\ seen'[q][c] = seen[q][c] /\ mask'[q][c] = mask[q][c]
  BY <1>1, <1>2 DEF AcquireBank
<1>8. \A q \in Ranks : BankOf(q)' = BankOf(q)
  BY DEF BankOf, RanksPerBank
<1>9. CASE pc[r][b] = "acquire"
  <2>1. Heard(r, b)' = {}
    BY <1>2, <1>9 DEF Heard
  <2>2. Acquired' /\ Masked'
    BY <1>2, <1>6, <1>7, <1>9, <2>1, OthersHeard
  <2>. QED  BY <1>5, <1>6, <2>2 DEF IInv
<1>10. CASE pc[r][b] = "reading"
  <2>. DEFINE st == snapshot[r][b]
              word == signal[r][Phase(st)][k]
  <2>1. Complete(word, st) /\ mask'[r][b] = mask[r][b] \ Disabled(word, k)
    BY <1>1, <1>10 DEF AcquireBank
  <2>2. ASSUME NEW q \in Ranks, BankOf(q) = k
        PROVE  Notified(q, r) = launch[r]
                 /\ (word \div ModeBit(q)) % 2 = IF BulkOf(q, launch[r]) THEN 1 ELSE 0
    BY <1>10, <2>1, <2>2, AcquireReads
  <2>3. Heard(r, b) = seen[r][b] /\ Heard(r, b)' = seen[r][b] \cup {k}
    BY <1>2, <1>3, <1>10 DEF Heard
  <2>4. \A q \in Ranks : BankOf(q)' \in Heard(r, b)' => Notified(q, r)' >= launch[r]
    BY <1>6, <1>8, <2>2, <2>3, NotifiedRange DEF IInv, Acquired, TypeOK
  <2>. HIDE DEF st, word
  <2>5. Disabled(word, k) = {q \in Ranks : BankOf(q) = k /\ ~BulkOf(q, launch[r])}
    BY <2>2 DEF Disabled
  <2>6. mask[r][b] = {q \in Ranks : BankOf(q) \in seen[r][b] => BulkOf(q, launch[r])}
    BY <1>10, <2>3 DEF IInv, Masked
  <2>7. mask'[r][b] = {q \in Ranks : BankOf(q)' \in Heard(r, b)' => BulkOf(q, launch[r])}
    BY <1>8, <2>1, <2>3, <2>5, <2>6
  <2>8. Acquired' /\ Masked'
    BY <1>2, <1>6, <1>7, <1>8, <2>4, <2>7, OthersHeard
  <2>. QED  BY <1>5, <1>6, <2>8 DEF IInv
<1>. QED  BY <1>1, <1>9, <1>10

\* A CTA that leaves the grid sync, the acquire of block 0 or the second grid sync has
\* heard nothing yet.
LEMMA SilentMove ==
  ASSUME IInv, NEW r \in Ranks, NEW b \in Blocks, NEW y \in {"sync2", "reacquire"},
         \/ pc[r][b] \in Late \ {"done"}
         \/ pc[r][b] = "acquire" /\ b = 0
         \/ pc[r][b] = "sync" /\ b # 0 /\ \A c \in Blocks : pc[r][c] \notin Working,
         pc' = [pc EXCEPT ![r][b] = y],
         UNCHANGED <<setup, launch, mode, snapshot, status, posted, phaseCounter,
                     writerPrevious, signal, seen, mask, storage>>
  PROVE  IInv'
<1>1. y \in Late
  BY DEF Late
<1>2. seen' \in [Ranks -> [Blocks -> SUBSET Banks]] /\ mask' \in [Ranks -> [Blocks -> SUBSET Ranks]]
  BY DEF IInv, TypeOK
<1>3. /\ TypeOK' /\ Joined' /\ Launched' /\ Abreast' /\ Close' /\ PhaseCounts'
      /\ PhaseAgrees' /\ ModeRemembered' /\ Stored' /\ SignalAccounts'
      /\ \A p, q \in Ranks : Notified(q, p)' = Notified(q, p)
  BY <1>1, <1>2, LateMove
<1>4. \A p, q \in Ranks : Notified(q, p)' \in Nat /\ Notified(q, p)' >= Notified(q, p)
  BY <1>3, NotifiedRange DEF IInv
<1>5. \A q \in Ranks, c \in Blocks : q # r \/ c # b =>
        pc'[q][c] = pc[q][c] /\ seen'[q][c] = seen[q][c] /\ mask'[q][c] = mask[q][c]
  BY DEF IInv, TypeOK
<1>6. pc'[r][b] = y /\ Heard(r, b)' = {}
  BY DEF IInv, TypeOK, Heard
<1>7. Acquired' /\ Masked'
  BY <1>4, <1>5, <1>6, OthersHeard
<1>. QED  BY <1>3, <1>7 DEF IInv

LEMMA EndReleaseStep ==
  ASSUME IInv, setup' = setup, NEW r \in Ranks, EndRelease(r)
  PROVE  IInv'
<1>1. 0 \in Blocks
  BY ScatterAssumption DEF Blocks
<1>2. AfterRelease \in {"sync2", "reacquire"}
  BY DEF AfterRelease
<1>3. /\ pc[r][0] = "acquire" /\ pc' = [pc EXCEPT ![r][0] = AfterRelease]
      /\ UNCHANGED <<launch, mode, snapshot, status, posted, phaseCounter, writerPrevious,
                     signal, seen, mask, storage>>
  BY DEF EndRelease, Goto
<1>. QED  BY <1>1, <1>2, <1>3, SilentMove

LEMMA LeaveSecondSyncStep ==
  ASSUME IInv, setup' = setup, NEW r \in Ranks, NEW b \in Blocks, LeaveSecondSync(r, b)
  PROVE  IInv'
<1>1. pc[r][b] \in Late \ {"done"}
  BY DEF LeaveSecondSync, Late
<1>. QED  BY <1>1, SilentMove DEF LeaveSecondSync, Goto

\* The poll starts with nothing heard and a full mask.
LEMMA ReacquireStep ==
  ASSUME IInv, setup' = setup, NEW r \in Ranks, NEW b \in Blocks, Reacquire(r, b)
  PROVE  IInv'
<1>1. pc[r][b] \in Late \ {"done"} /\ pc' = [pc EXCEPT ![r][b] = "reading"] /\ "reading" \in Late
  BY DEF Reacquire, Late, Goto
<1>2. /\ seen' \in [Ranks -> [Blocks -> SUBSET Banks]] /\ seen'[r][b] = {}
      /\ mask' \in [Ranks -> [Blocks -> SUBSET Ranks]] /\ mask'[r][b] = Ranks
  BY DEF IInv, TypeOK, Reacquire
<1>3. /\ TypeOK' /\ Joined' /\ Launched' /\ Abreast' /\ Close' /\ PhaseCounts'
      /\ PhaseAgrees' /\ ModeRemembered' /\ Stored' /\ SignalAccounts'
      /\ \A p, q \in Ranks : Notified(q, p)' = Notified(q, p)
  BY <1>1, <1>2, LateMove DEF Reacquire
<1>4. \A p, q \in Ranks : Notified(q, p)' \in Nat /\ Notified(q, p)' >= Notified(q, p)
  BY <1>3, NotifiedRange DEF IInv
<1>5. \A q \in Ranks, c \in Blocks : q # r \/ c # b =>
        pc'[q][c] = pc[q][c] /\ seen'[q][c] = seen[q][c] /\ mask'[q][c] = mask[q][c]
  BY <1>1 DEF IInv, TypeOK, Reacquire
<1>6. pc'[r][b] = "reading"
  BY <1>1 DEF IInv, TypeOK
<1>7. Heard(r, b)' = {}
  BY <1>2, <1>6 DEF Heard
<1>8. Acquired' /\ Masked'
  BY <1>2, <1>4, <1>5, <1>7, OthersHeard DEF Reacquire
<1>. QED  BY <1>3, <1>8 DEF IInv

\* With all banks heard the CTA goes on to reduce, and then ends.
LEMMA ReduceStep ==
  ASSUME IInv, setup' = setup, NEW r \in Ranks, NEW b \in Blocks,
         Reduce(r, b) \/ Exit(r, b)
  PROVE  IInv'
<1>. DEFINE y == IF pc[r][b] = "reading" THEN "reduce" ELSE "done"
<1>1. /\ pc[r][b] \in {"reading", "reduce"} /\ pc' = [pc EXCEPT ![r][b] = y]
      /\ pc[r][b] = "reading" => seen[r][b] = Banks
      /\ UNCHANGED <<launch, mode, snapshot, status, posted, phaseCounter, writerPrevious,
                     signal, seen, mask, storage>>
  BY DEF Reduce, Exit, Goto
<1>2. y \in Late /\ pc[r][b] \in Late \ {"done"}
  BY <1>1 DEF Late
<1>3. seen' \in [Ranks -> [Blocks -> SUBSET Banks]] /\ mask' \in [Ranks -> [Blocks -> SUBSET Ranks]]
  BY <1>1 DEF IInv, TypeOK
<1>4. pc'[r][b] = y /\ y \in {"reduce", "done"}
  BY <1>1 DEF IInv, TypeOK
<1>5. \A q \in Ranks, c \in Blocks : q # r \/ c # b =>
        pc'[q][c] = pc[q][c] /\ seen'[q][c] = seen[q][c] /\ mask'[q][c] = mask[q][c]
  BY <1>1 DEF IInv, TypeOK
<1>6. Heard(r, b) = Banks /\ Heard(r, b)' = Banks
  BY <1>1, <1>4 DEF Heard, Banks, RanksPerBank
<1>. HIDE DEF y
<1>7. /\ TypeOK' /\ Joined' /\ Launched' /\ Abreast' /\ Close' /\ PhaseCounts'
      /\ PhaseAgrees' /\ ModeRemembered' /\ Stored' /\ SignalAccounts'
      /\ \A p, q \in Ranks : Notified(q, p)' = Notified(q, p)
  BY <1>1, <1>2, <1>3, LateMove
<1>8. \A p, q \in Ranks : Notified(q, p)' \in Nat /\ Notified(q, p)' >= Notified(q, p)
  BY <1>7, NotifiedRange DEF IInv
<1>9. \A q \in Ranks : BankOf(q)' = BankOf(q)
  BY DEF BankOf, RanksPerBank
<1>10. \A q \in Ranks : BankOf(q)' \in Heard(r, b)' => Notified(q, r)' >= launch[r]
  BY <1>6, <1>7, <1>9 DEF IInv, Acquired
<1>11. pc'[r][b] \in {"reading", "reduce"} =>
         mask'[r][b] = {q \in Ranks : BankOf(q)' \in Heard(r, b)' => BulkOf(q, launch[r])}
  BY <1>1, <1>6, <1>9 DEF IInv, Masked
<1>12. Acquired' /\ Masked'
  BY <1>1, <1>5, <1>8, <1>10, <1>11, OthersHeard
<1>. QED  BY <1>7, <1>12 DEF IInv
-----------------------------------------------------------------------------
(* Steps of a CTA before the grid sync. *)

\* A CTA that starts, scatters or releases: its storage cells follow it.
LEMMA EarlyMove ==
  ASSUME IInv, NEW r \in Ranks, NEW b \in Blocks, NEW y \in {"gemm", "scattered", "sync"},
         pc[r][b] = (CASE y = "gemm" -> "ready" [] y = "scattered" -> "gemm"
                       [] y = "sync" -> "scattered"),
         pc' = [pc EXCEPT ![r][b] = y],
         y = "gemm" => \A q \in Ranks : launch[q] >= launch[r],
         snapshot' = IF y = "gemm" THEN [snapshot EXCEPT ![r][b] = phaseCounter[r] % 4]
                     ELSE snapshot,
         storage' = IF y = "gemm" THEN storage
                    ELSE [p \in Ranks |-> [storage[p] EXCEPT ![r][b] =
                            IF y = "scattered" THEN InFlight ELSE launch[r]]],
         UNCHANGED <<setup, launch, mode, status, posted, phaseCounter, writerPrevious,
                     signal, seen, mask>>
  PROVE  IInv'
<1>1. pc[r][b] \in Working
  BY DEF Working
<1>2. /\ \A q \in Ranks, c \in Blocks : pc'[q][c] = IF q = r /\ c = b THEN y ELSE pc[q][c]
      /\ \A q \in Ranks : pc'[q] \in [Blocks -> Labels]
  BY DEF IInv, TypeOK, Labels, Releasing, Working
<1>3. 0 \in Blocks
  BY ScatterAssumption DEF Blocks
<1>4. \A c \in Blocks : pc[r][c] \in Working \cup {"sync"}
  BY <1>1 DEF IInv, Joined
<1>5. TypeOK'
  <2>1. pc' \in [Ranks -> [Blocks -> Labels]]
    <3>1. y \in Labels
      BY DEF Labels, Releasing, Working
    <3>. QED  BY <3>1 DEF IInv, TypeOK
  <2>2. snapshot' \in [Ranks -> [Blocks -> 0 .. 3]]
    <3>0. phaseCounter[r] \in 0 .. 3 /\ snapshot \in [Ranks -> [Blocks -> 0 .. 3]]
      BY DEF IInv, TypeOK
    <3>1. phaseCounter[r] % 4 \in 0 .. 3
      BY <3>0
    <3>2. CASE y = "gemm"
      BY <3>0, <3>1, <3>2
    <3>3. CASE y # "gemm"
      BY <3>0, <3>3
    <3>. QED  BY <3>2, <3>3
  <2>3. storage' \in [Ranks -> [Ranks -> [Blocks -> Int]]]
    BY DEF IInv, TypeOK, InFlight
  <2>4. Banks' = Banks
    BY DEF Banks, RanksPerBank
  <2>. QED  BY <2>1, <2>2, <2>3, <2>4 DEF IInv, TypeOK
<1>6. Joined'
  BY <1>2, <1>4 DEF IInv, Joined, Working
<1>7. Launched' /\ Abreast' /\ Close'
  BY <1>1, <1>2 DEF IInv, Launched, Abreast, Close, Working
<1>8. \A q \in Ranks : SameSide(pc[q][0], pc'[q][0])
  BY <1>1, <1>2, <1>3 DEF SameSide, Working
<1>9. /\ SignalAccounts'
      /\ \A p, q \in Ranks : /\ Notified(q, p)' = Notified(q, p)
                            /\ Notified(q, p)' \in Nat /\ Notified(q, p)' >= Notified(q, p)
  <2>1. SignalAccounts' /\ \A p, q \in Ranks : Notified(q, p)' = Notified(q, p)
    BY <1>8, SharesKept DEF IInv
  <2>. QED  BY <2>1, NotifiedRange DEF IInv
<1>10. \A q \in Ranks : Retired(q)' = Retired(q)
  BY <1>1, <1>2, <1>3 DEF Retired, Unretired, Working
<1>11. PhaseCounts'
  BY <1>2, <1>3, <1>10 DEF IInv, PhaseCounts
<1>12. ModeRemembered'
  BY <1>10 DEF IInv, ModeRemembered, BulkOf
<1>13. PhaseAgrees'
  <2>1. phaseCounter[r] % 4 = (launch[r] - 1) % 4
    <3>1. Retired(r) = launch[r] - 1
      BY <1>3, <1>4 DEF Retired, Unretired
    <3>2. phaseCounter[r] = (launch[r] - 1) % 4 /\ launch[r] \in Nat
      BY <3>1 DEF IInv, PhaseCounts, TypeOK
    <3>. QED  BY <3>2
  <2>2. \A q \in Ranks, c \in Blocks :
          snapshot'[q][c] = IF y = "gemm" /\ q = r /\ c = b THEN phaseCounter[r] % 4
                            ELSE snapshot[q][c]
    BY DEF IInv, TypeOK
  <2>. QED  BY <1>2, <2>1, <2>2 DEF IInv, PhaseAgrees
<1>14. Stored'
  <2>1. \A p, q \in Ranks, c \in Blocks :
          storage'[p][q][c] = IF y # "gemm" /\ q = r /\ c = b
                              THEN (IF y = "scattered" THEN InFlight ELSE launch[r])
                              ELSE storage[p][q][c]
    BY DEF IInv, TypeOK
  <2>. QED  BY <1>2, <2>1 DEF IInv, Stored
<1>15. Acquired' /\ Masked'
  <2>1. \A q \in Ranks, c \in Blocks : q # r \/ c # b =>
          pc'[q][c] = pc[q][c] /\ seen'[q][c] = seen[q][c] /\ mask'[q][c] = mask[q][c]
    BY <1>2
  <2>2. Heard(r, b)' = {} /\ pc'[r][b] = y
    BY <1>2 DEF Heard
  <2>. QED  BY <1>9, <2>1, <2>2, OthersHeard
<1>. QED
  BY <1>5, <1>6, <1>7, <1>9, <1>11, <1>12, <1>13, <1>14, <1>15 DEF IInv

LEMMA StartStep ==
  ASSUME IInv, setup' = setup, NEW r \in Ranks, NEW b \in Blocks, Start(r, b)
  PROVE  IInv'
<1>. DEFINE y == "gemm"
<1>. QED  BY EarlyMove DEF Start, Goto

LEMMA ScatterStep ==
  ASSUME IInv, setup' = setup, NEW r \in Ranks, NEW b \in Blocks, Scatter(r, b)
  PROVE  IInv'
BY EarlyMove DEF Scatter, Goto

LEMMA ReleaseStep ==
  ASSUME IInv, setup' = setup, NEW r \in Ranks, NEW b \in Blocks, Release(r, b)
  PROVE  IInv'
BY EarlyMove DEF Release, Goto

\* The grid sync lets a CTA through: block 0 goes on to notify, under the phase of this
\* round, and none of its notifications counts yet.
LEMMA LeaveSyncStep ==
  ASSUME IInv, setup' = setup, NEW r \in Ranks, NEW b \in Blocks, LeaveSync(r, b)
  PROVE  IInv'
<1>1. /\ pc[r][b] = "sync" /\ \A c \in Blocks : pc[r][c] \notin Working
      /\ UNCHANGED <<setup, launch, mode, snapshot, phaseCounter, writerPrevious,
                     signal, seen, mask, storage>>
  BY DEF LeaveSync
<1>2. CASE b # 0
  <2>1. AfterRelease \in {"sync2", "reacquire"}
    BY DEF AfterRelease
  <2>2. pc' = [pc EXCEPT ![r][b] = AfterRelease] /\ UNCHANGED <<status, posted>>
    BY <1>2 DEF LeaveSync, Goto
  <2>. QED  BY <1>1, <1>2, <2>1, <2>2, SilentMove
<1>3. CASE b = 0
  <2>1. /\ pc' = [pc EXCEPT ![r][0] = "notify"]
        /\ status' = [status EXCEPT ![r] = phaseCounter[r] % 4]
        /\ posted' = [posted EXCEPT ![r] = {}]
    BY <1>3 DEF LeaveSync, Goto
  <2>2. /\ \A q \in Ranks, c \in Blocks :
              pc'[q][c] = IF q = r /\ c = 0 THEN "notify" ELSE pc[q][c]
        /\ \A q \in Ranks : status'[q] = IF q = r THEN phaseCounter[r] % 4 ELSE status[q]
        /\ \A q \in Ranks : posted'[q] = IF q = r THEN {} ELSE posted[q]
    BY <2>1 DEF IInv, TypeOK
  <2>3. phaseCounter[r] \in 0 .. 3 /\ launch[r] \in Nat
    BY DEF IInv, TypeOK
  <2>4. phaseCounter[r] % 4 = phaseCounter[r] /\ phaseCounter[r] = (launch[r] - 1) % 4
    <3>1. Retired(r) = launch[r] - 1
      BY <1>1, <1>3 DEF Retired, Unretired
    <3>2. phaseCounter[r] = (launch[r] - 1) % 4
      BY <3>1 DEF IInv, PhaseCounts
    <3>. QED  BY <2>3, <3>2
  <2>5. TypeOK'
    <3>1. "notify" \in Labels
      BY DEF Labels, Releasing
    <3>2. pc' \in [Ranks -> [Blocks -> Labels]]
      BY <2>1, <3>1 DEF IInv, TypeOK
    <3>3. status' \in [Ranks -> 0 .. 3] /\ posted' \in [Ranks -> SUBSET Ranks]
      BY <2>1, <2>3, <2>4 DEF IInv, TypeOK
    <3>4. Banks' = Banks
      BY DEF Banks, RanksPerBank
    <3>. QED  BY <1>1, <3>2, <3>3, <3>4 DEF IInv, TypeOK
  <2>6. Joined'
    BY <1>1, <2>2 DEF IInv, Joined, Working
  <2>7. Launched' /\ Abreast' /\ Close'
    BY <1>1, <1>3, <2>2 DEF IInv, Launched, Abreast, Close
  <2>8. \A q \in Ranks : Retired(q)' = Retired(q)
    BY <1>1, <1>3, <2>2 DEF Retired, Unretired, Working
  <2>9. PhaseCounts'
    BY <1>1, <1>3, <2>2, <2>4, <2>8 DEF IInv, PhaseCounts
  <2>10. PhaseAgrees' /\ ModeRemembered'
    BY <1>1, <1>3, <2>2, <2>8 DEF IInv, PhaseAgrees, ModeRemembered, BulkOf
  <2>11. Stored'
    BY <1>1, <1>3, <2>2 DEF IInv, Stored
  <2>12. \A p, q \in Ranks : Notified(q, p)' = Notified(q, p)
    BY <1>1, <1>3, <2>2 DEF Notified, Working
  <2>13. \A p, q \in Ranks : Notified(q, p)' \in Nat /\ Notified(q, p)' >= Notified(q, p)
    BY <2>12, NotifiedRange DEF IInv
  <2>14. SignalAccounts'
    <3>1. \A p, q \in Ranks, f \in 0 .. 1 : Share(p, f, q)' = Share(p, f, q)
      BY <1>1, <2>12 DEF Share, ShownBulk, BulkOf, ModeBit, RanksPerBank
    <3>. QED  BY <1>1, <3>1, SameShares DEF IInv
  <2>15. Acquired' /\ Masked'
    <3>1. \A q \in Ranks, c \in Blocks : q # r \/ c # b =>
            pc'[q][c] = pc[q][c] /\ seen'[q][c] = seen[q][c] /\ mask'[q][c] = mask[q][c]
      BY <1>1, <1>3, <2>2
    <3>2. pc'[r][b] = "notify" /\ Heard(r, b)' = {}
      BY <1>3, <2>2 DEF Heard
    <3>. QED  BY <1>1, <2>13, <3>1, <3>2, OthersHeard
  <2>. QED  BY <2>5, <2>6, <2>7, <2>9, <2>10, <2>11, <2>14, <2>15 DEF IInv
<1>. QED  BY <1>2, <1>3
-----------------------------------------------------------------------------
(* Steps of the CTA that notifies. *)

\* When one rank's share of one phase at one peer grows by d, so does one word's sum.
LEMMA BankShareGrows ==
  ASSUME TypeOK, Launched, UNCHANGED setup, NEW r \in Ranks, NEW p \in Ranks,
         NEW f \in 0 .. 1, NEW d \in Int,
         Share(p, f, r)' = Share(p, f, r) + d,
         \A x, q \in Ranks, g \in 0 .. 1 :
           ~(x = p /\ g = f /\ q = r) => Share(x, g, q)' = Share(x, g, q)
  PROVE  /\ BankShare(p, f, BankOf(r))' = BankShare(p, f, BankOf(r)) + d
         /\ \A x \in Ranks, g \in 0 .. 1, k \in Banks :
              ~(x = p /\ g = f /\ k = BankOf(r)) => BankShare(x, g, k)' = BankShare(x, g, k)
<1>1. RanksPerBank \in {1, 2, 4, 8} /\ RanksPerBank' = RanksPerBank
  BY DEF TypeOK, RanksPerBank
<1>. DEFINE s == r % RanksPerBank
<1>2. s \in 0 .. 7 /\ s < RanksPerBank /\ BankOf(r) \in Banks /\ r = BankOf(r) * RanksPerBank + s
  BY <1>1, SlotOfRank
<1>3. ASSUME NEW x \in Ranks, NEW g \in 0 .. 1, NEW k \in Banks, NEW j \in 0 .. 7
      PROVE  /\ SlotShare(x, g, k, j) \in Int
             /\ SlotShare(x, g, k, j)' = SlotShare(x, g, k, j)
                  + (IF x = p /\ g = f /\ k = BankOf(r) /\ j = s THEN d ELSE 0)
  <2>. DEFINE q == k * RanksPerBank + j
  <2>1. j < RanksPerBank /\ q \in Ranks => BankOf(q) = k /\ q % RanksPerBank = j
    BY <1>1, RankOfSlot
  <2>2. j < RanksPerBank /\ q \in Ranks => (q = r <=> k = BankOf(r) /\ j = s)
    BY <1>2, <2>1
  <2>3. k = BankOf(r) /\ j = s => j < RanksPerBank /\ q \in Ranks
    BY <1>2
  <2>. HIDE DEF s
  <2>4. CASE j < RanksPerBank /\ q \in Ranks
    <3>0. PICK v \in Ranks : v = q
      BY <2>4
    <3>1. Share(x, g, v) \in Int
      BY ShareParts
    <3>2. Share(x, g, v)' = Share(x, g, v) + (IF x = p /\ g = f /\ v = r THEN d ELSE 0)
      BY <3>1
    <3>3. SlotShare(x, g, k, j) = Share(x, g, v) /\ SlotShare(x, g, k, j)' = Share(x, g, v)'
      BY <1>1, <2>4, <3>0 DEF SlotShare
    <3>4. v = r <=> k = BankOf(r) /\ j = s
      BY <2>2, <2>4, <3>0
    <3>. QED  BY <3>1, <3>2, <3>3, <3>4
  <2>5. CASE ~(j < RanksPerBank /\ q \in Ranks)
    <3>1. SlotShare(x, g, k, j) = 0 /\ SlotShare(x, g, k, j)' = 0
      BY <1>1, <2>5 DEF SlotShare
    <3>. QED  BY <2>3, <2>5, <3>1
  <2>. QED  BY <2>4, <2>5
<1>. HIDE DEF s
<1>4. PICK k \in Banks : k = BankOf(r)
  BY <1>2
<1>5. \A j \in 0 .. 7 : /\ SlotShare(p, f, k, j) \in Int
                        /\ SlotShare(p, f, k, j)' =
                             SlotShare(p, f, k, j) + (IF j = s THEN d ELSE 0)
  BY <1>3, <1>4
<1>6. BankShare(p, f, k)' = BankShare(p, f, k) + d
  <2>. HIDE <1>3
  <2>. QED  BY <1>2, <1>5 DEF BankShare
<1>7. ASSUME NEW x \in Ranks, NEW g \in 0 .. 1, NEW h \in Banks,
             ~(x = p /\ g = f /\ h = BankOf(r))
      PROVE  BankShare(x, g, h)' = BankShare(x, g, h)
  <2>1. \A j \in 0 .. 7 : SlotShare(x, g, h, j)' = SlotShare(x, g, h, j)
    BY <1>3, <1>7
  <2>. QED  BY <2>1 DEF BankShare
<1>8. BankOf(r)' = BankOf(r)
  BY <1>1 DEF BankOf
<1>. QED  BY <1>4, <1>6, <1>7, <1>8

\* A notification moves one share of one word at one peer from what the rank last
\* showed there to its current round and mode.
LEMMA NotifyStep ==
  ASSUME IInv, setup' = setup, NEW r \in Ranks, NEW p \in Ranks, Notify(r, p)
  PROVE  IInv'
<1>1. /\ pc[r][0] = "notify" /\ p \notin posted[r]
      /\ UNCHANGED <<setup, launch, mode, pc, snapshot, status, phaseCounter,
                     writerPrevious, seen, mask, storage>>
      /\ posted' = [posted EXCEPT ![r] = @ \cup {p}]
  BY DEF Notify
<1>2. 0 \in Blocks
  BY ScatterAssumption DEF Blocks
<1>3. PICK n \in Nat : n = launch[r] /\ n >= 1 /\ status[r] = (n - 1) % 4
  BY <1>1, <1>2 DEF IInv, TypeOK, Launched, PhaseCounts
<1>4. PICK f \in 0 .. 1 : f = (n - 1) % 2 /\ Phase(status[r]) = f
  <2>1. (n - 1) % 2 \in 0 .. 1
    BY <1>3
  <2>. QED  BY <1>3, <2>1, UseOfPhase
<1>5. RanksPerBank \in {1, 2, 4, 8} /\ BankOf(r) \in Banks
  BY SlotOfRank DEF IInv, TypeOK, RanksPerBank
<1>6. ModeBit(r) \in Int
  BY <1>5, ModeBitOfSlot
<1>7. PICK d \in Int : d = Notification(r, status[r])
  BY <1>6 DEF Notification
<1>8. \A x \in Ranks, g \in 0 .. 1, k \in Banks : signal'[x][g][k] =
        IF x = p /\ g = f /\ k = BankOf(r) THEN signal[x][g][k] + d ELSE signal[x][g][k]
  BY <1>4, <1>5, <1>7 DEF Notify, IInv, TypeOK
<1>9. \A q \in Ranks : posted'[q] = IF q = r THEN posted[r] \cup {p} ELSE posted[q]
  BY <1>1 DEF IInv, TypeOK
<1>10. TypeOK'
  <2>1. signal' \in [Ranks -> [0 .. 1 -> [Banks -> Int]]]
    <3>1. signal[p][f][BankOf(r)] + d \in Int
      BY <1>4, <1>5, <1>7 DEF IInv, TypeOK
    <3>2. PICK v \in Int : v = signal[p][f][BankOf(r)] + d
      BY <3>1
    <3>3. /\ signal \in [Ranks -> [0 .. 1 -> [Banks -> Int]]]
          /\ signal[p] \in [0 .. 1 -> [Banks -> Int]] /\ signal[p][f] \in [Banks -> Int]
      BY DEF IInv, TypeOK
    <3>4. signal' = [signal EXCEPT ![p][f][BankOf(r)] = v]
      BY <1>4, <1>7, <3>2 DEF Notify
    <3>. DEFINE row == [signal[p][f] EXCEPT ![BankOf(r)] = v]
                cells == [signal[p] EXCEPT ![f] = row]
    <3>5. signal' = [signal EXCEPT ![p] = cells]
      BY <3>3, <3>4
    <3>6. row \in [Banks -> Int]
      BY <3>3
    <3>. HIDE DEF row
    <3>7. cells \in [0 .. 1 -> [Banks -> Int]]
      BY <3>3, <3>6
    <3>. HIDE DEF cells
    <3>. QED  BY <3>3, <3>5, <3>7
  <2>2. posted' \in [Ranks -> SUBSET Ranks]
    BY <1>1 DEF IInv, TypeOK
  <2>3. Banks' = Banks
    BY DEF Banks, RanksPerBank
  <2>. QED  BY <1>1, <2>1, <2>2, <2>3 DEF IInv, TypeOK
<1>11. Joined' /\ Launched' /\ Abreast' /\ Close' /\ PhaseAgrees' /\ Stored'
  BY <1>1 DEF IInv, Joined, Launched, Abreast, Close, PhaseAgrees, Stored
<1>12. PhaseCounts' /\ ModeRemembered'
  BY <1>1 DEF IInv, PhaseCounts, ModeRemembered, Retired, BulkOf
<1>13. Notified(r, p) = n - 1 /\ Notified(r, p)' = n
  BY <1>1, <1>3, <1>9 DEF Notified, Working
<1>14. \A x, q \in Ranks : ~(x = p /\ q = r) => Notified(q, x)' = Notified(q, x)
  BY <1>1, <1>9 DEF Notified
<1>15. \A x, q \in Ranks : Notified(q, x)' \in Nat /\ Notified(q, x)' >= Notified(q, x)
  <2>1. \A x, q \in Ranks : Notified(q, x) \in Nat
    BY NotifiedRange DEF IInv
  <2>. QED  BY <1>3, <1>13, <1>14, <2>1
<1>16. SignalAccounts'
  <2>1. \A x, q \in Ranks, g \in 0 .. 1 : ~(x = p /\ q = r) => Share(x, g, q)' = Share(x, g, q)
    BY <1>1, <1>14 DEF Share, ShownBulk, BulkOf, ModeBit, RanksPerBank
  <2>2. ASSUME NEW g \in 0 .. 1
        PROVE  /\ ShownBulk(r, p, g) = writerPrevious[r][g]
               /\ ShownBulk(r, p, g)' = IF g = f THEN BulkOf(r, n) ELSE writerPrevious[r][g]
    BY <1>1, <1>3, <1>4, <1>13 DEF ShownBulk, BulkOf
  <2>3. ModeBit(r)' = ModeBit(r)
    BY DEF ModeBit, RanksPerBank
  <2>4. ASSUME NEW g \in 0 .. 1, g # f
        PROVE  Share(p, g, r)' = Share(p, g, r)
    <3>1. UsesOfPhase(n, g) = UsesOfPhase(n - 1, g)
      BY <1>3, <1>4, <2>4, UseOfPhase
    <3>. QED  BY <1>13, <2>2, <2>3, <2>4, <3>1 DEF Share
  <2>5. Share(p, f, r)' = Share(p, f, r) + d
    <3>1. /\ UsesOfPhase(n - 1, f) % 2 = (IF Negative(status[r]) THEN 1 ELSE 0)
          /\ UsesOfPhase(n, f) % 2 = (IF Negative(status[r]) THEN 0 ELSE 1)
      BY <1>3, <1>4, UseOfPhase
    <3>2. Share(p, f, r) = (IF Negative(status[r]) THEN 1 ELSE 0)
                             + (IF writerPrevious[r][f] THEN ModeBit(r) ELSE 0)
      BY <1>4, <1>13, <2>2, <3>1 DEF Share
    <3>3. Share(p, f, r)' = (IF Negative(status[r]) THEN 0 ELSE 1)
                              + (IF BulkOf(r, n) THEN ModeBit(r) ELSE 0)
      <4>1. ShownBulk(r, p, f)' = BulkOf(r, n)
        BY <1>4, <2>2
      <4>. QED  BY <1>13, <2>3, <3>1, <4>1 DEF Share
    <3>4. d = (IF Negative(status[r]) THEN -1 ELSE 1)
                + (IF BulkOf(r, n) THEN ModeBit(r) ELSE 0)
                - (IF writerPrevious[r][f] THEN ModeBit(r) ELSE 0)
      BY <1>3, <1>4, <1>7 DEF Notification
    <3>. QED  BY <1>6, <3>2, <3>3, <3>4
  <2>6. \A x, q \in Ranks, g \in 0 .. 1 : Share(x, g, q) \in Int
    BY ShareParts DEF IInv
  <2>7. \A x, q \in Ranks, g \in 0 .. 1 :
          ~(x = p /\ g = f /\ q = r) => Share(x, g, q)' = Share(x, g, q)
    BY <2>1, <2>4
  <2>8. /\ BankShare(p, f, BankOf(r))' = BankShare(p, f, BankOf(r)) + d
        /\ \A x \in Ranks, g \in 0 .. 1, k \in Banks :
             ~(x = p /\ g = f /\ k = BankOf(r)) => BankShare(x, g, k)' = BankShare(x, g, k)
    BY <1>1, <2>5, <2>7, BankShareGrows DEF IInv
  <2>9. \A x \in Ranks, g \in 0 .. 1, k \in Banks : signal[x][g][k] = BankShare(x, g, k)
    BY DEF IInv, SignalAccounts
  <2>10. Banks' = Banks /\ BankOf(r)' = BankOf(r)
    BY DEF Banks, BankOf, RanksPerBank
  <2>11. ASSUME NEW x \in Ranks, NEW g \in 0 .. 1, NEW k \in Banks
         PROVE  signal'[x][g][k] = BankShare(x, g, k)'
    <3>1. CASE x = p /\ g = f /\ k = BankOf(r)
      <4>1. PICK h \in Banks : h = BankOf(r)
        BY <1>5
      <4>2. BankShare(p, f, h)' = BankShare(p, f, h) + d
        BY <2>8, <2>10, <4>1
      <4>. QED  BY <1>8, <2>9, <3>1, <4>1, <4>2
    <3>2. CASE ~(x = p /\ g = f /\ k = BankOf(r))
      BY <1>8, <2>8, <2>9, <3>2
    <3>. QED  BY <3>1, <3>2
  <2>. QED  BY <2>10, <2>11 DEF SignalAccounts
<1>17. Acquired' /\ Masked'
  <2>1. /\ Heard(r, 0)' = {} /\ pc'[r][0] = "notify"
        /\ \A q \in Ranks, c \in Blocks :
              pc'[q][c] = pc[q][c] /\ seen'[q][c] = seen[q][c] /\ mask'[q][c] = mask[q][c]
    BY <1>1 DEF Heard
  <2>. QED  BY <1>1, <1>2, <1>15, <2>1, OthersHeard
<1>. QED  BY <1>10, <1>11, <1>12, <1>16, <1>17 DEF IInv

\* Thread 0 remembers the mode and advances the phase: what the peers are shown, the
\* notification of this round, does not change.
LEMMA RetireStep ==
  ASSUME IInv, setup' = setup, NEW r \in Ranks, Retire(r)
  PROVE  IInv'
<1>1. 0 \in Blocks
  BY ScatterAssumption DEF Blocks
<1>2. /\ pc[r][0] = "notify" /\ posted[r] = Ranks
      /\ UNCHANGED <<setup, launch, mode, snapshot, status, posted, signal, storage>>
      /\ writerPrevious' =
           [writerPrevious EXCEPT ![r][Phase(status[r])] = BulkOf(r, launch[r])]
      /\ phaseCounter' = [phaseCounter EXCEPT ![r] = (phaseCounter[r] + 1) % 4]
      /\ seen' = [seen EXCEPT ![r][0] = {}] /\ mask' = [mask EXCEPT ![r][0] = Ranks]
      /\ pc' = [pc EXCEPT ![r][0] = "acquire"]
  BY DEF Retire, Goto
<1>3. PICK n \in Nat : n = launch[r] /\ n >= 1 /\ status[r] = (n - 1) % 4
  BY <1>1, <1>2 DEF IInv, TypeOK, Launched, PhaseCounts
<1>4. PICK f \in 0 .. 1 : f = (n - 1) % 2 /\ Phase(status[r]) = f
  <2>1. (n - 1) % 2 \in 0 .. 1
    BY <1>3
  <2>. QED  BY <1>3, <2>1, UseOfPhase
<1>5. BulkOf(r, n) \in BOOLEAN
  <2>1. n % 2 \in 0 .. 1
    BY <1>3
  <2>. QED  BY <2>1 DEF IInv, TypeOK, BulkOf
<1>6. /\ \A q \in Ranks, c \in Blocks :
           /\ pc'[q][c] = IF q = r /\ c = 0 THEN "acquire" ELSE pc[q][c]
           /\ q # r \/ c # 0 => seen'[q][c] = seen[q][c] /\ mask'[q][c] = mask[q][c]
      /\ \A q \in Ranks : phaseCounter'[q] =
           IF q = r THEN (phaseCounter[r] + 1) % 4 ELSE phaseCounter[q]
  BY <1>1, <1>2 DEF IInv, TypeOK
<1>7. \A q \in Ranks, g \in 0 .. 1 : writerPrevious'[q][g] =
        IF q = r /\ g = f THEN BulkOf(r, n) ELSE writerPrevious[q][g]
  BY <1>2, <1>3, <1>4 DEF IInv, TypeOK
<1>8. Retired(r) = n - 1 /\ Retired(r)' = n
  BY <1>1, <1>2, <1>3, <1>6 DEF Retired, Unretired, Working
<1>9. \A q \in Ranks : q # r => Retired(q)' = Retired(q)
  BY <1>1, <1>2, <1>6 DEF Retired
<1>10. phaseCounter[r] = (n - 1) % 4 /\ (phaseCounter[r] + 1) % 4 = n % 4
  <2>1. phaseCounter[r] = (n - 1) % 4
    BY <1>8 DEF IInv, PhaseCounts
  <2>. QED  BY <1>3, <2>1
<1>11. TypeOK'
  <2>1. "acquire" \in Labels
    BY DEF Labels, Releasing
  <2>2. pc' \in [Ranks -> [Blocks -> Labels]]
    BY <1>1, <1>2, <2>1 DEF IInv, TypeOK
  <2>3. (phaseCounter[r] + 1) % 4 \in 0 .. 3
    BY <1>3, <1>10
  <2>4. phaseCounter' \in [Ranks -> 0 .. 3]
    BY <1>2, <2>3 DEF IInv, TypeOK
  <2>5. writerPrevious' \in [Ranks -> [0 .. 1 -> BOOLEAN]]
    <3>1. writerPrevious \in [Ranks -> [0 .. 1 -> BOOLEAN]]
      BY DEF IInv, TypeOK
    <3>2. writerPrevious' = [writerPrevious EXCEPT ![r][f] = BulkOf(r, n)]
      BY <1>2, <1>3, <1>4
    <3>. HIDE DEF BulkOf
    <3>. QED  BY <1>5, <3>1, <3>2
  <2>6. /\ seen' \in [Ranks -> [Blocks -> SUBSET Banks]]
        /\ mask' \in [Ranks -> [Blocks -> SUBSET Ranks]]
    BY <1>1, <1>2 DEF IInv, TypeOK
  <2>7. Banks' = Banks
    BY DEF Banks, RanksPerBank
  <2>. QED  BY <1>2, <2>2, <2>4, <2>5, <2>6, <2>7 DEF IInv, TypeOK
<1>12. Joined'
  <2>1. \A c \in Blocks : pc[r][c] \notin Working
    BY <1>1, <1>2 DEF IInv, Joined, Working
  <2>. QED  BY <1>6, <2>1 DEF IInv, Joined, Working
<1>13. Launched' /\ Abreast' /\ Close'
  BY <1>1, <1>2, <1>6 DEF IInv, Launched, Abreast, Close
<1>14. PhaseCounts'
  BY <1>1, <1>2, <1>3, <1>6, <1>8, <1>9, <1>10 DEF IInv, PhaseCounts
<1>15. PhaseAgrees'
  BY <1>1, <1>2, <1>6 DEF IInv, PhaseAgrees
<1>16. ModeRemembered'
  <2>1. writerPrevious'[r][(n - 1) % 2] = BulkOf(r, n)
    BY <1>4, <1>7
  <2>2. \A q \in Ranks, k \in Nat : BulkOf(q, k)' = BulkOf(q, k)
    BY <1>2 DEF BulkOf
  <2>3. \A q \in Ranks : q # r => \A g \in 0 .. 1 : writerPrevious'[q][g] = writerPrevious[q][g]
    BY <1>7
  <2>4. ASSUME NEW q \in Ranks, q # r, Retired(q)' >= 1
        PROVE  writerPrevious'[q][(Retired(q)' - 1) % 2] = BulkOf(q, Retired(q))'
    <3>1. PICK m \in Nat : m = Retired(q) /\ m >= 1 /\ Retired(q)' = m
      <4>1. Retired(q)' = Retired(q)
        BY <1>9, <2>4
      <4>2. Retired(q) >= 1 /\ Retired(q) \in Int
        BY <2>4, <4>1 DEF Retired, IInv, TypeOK
      <4>. QED  BY <4>1, <4>2
    <3>2. writerPrevious[q][(m - 1) % 2] = BulkOf(q, m) /\ (m - 1) % 2 \in 0 .. 1
      BY <3>1 DEF IInv, ModeRemembered
    <3>. QED  BY <2>2, <2>3, <2>4, <3>1, <3>2
  <2>5. writerPrevious'[r][(Retired(r)' - 1) % 2] = BulkOf(r, Retired(r))'
    BY <1>3, <1>8, <2>1, <2>2
  <2>. QED  BY <2>4, <2>5 DEF ModeRemembered
<1>17. Stored'
  BY <1>1, <1>2, <1>6 DEF IInv, Stored
<1>18. \A p, q \in Ranks : Notified(q, p)' = Notified(q, p)
  BY <1>1, <1>2, <1>6 DEF Notified, Working
<1>19. \A p, q \in Ranks : Notified(q, p)' \in Nat /\ Notified(q, p)' >= Notified(q, p)
  BY <1>18, NotifiedRange DEF IInv
<1>20. SignalAccounts'
  <2>1. \A p \in Ranks : Notified(r, p) = n
    BY <1>2, <1>3 DEF Notified, Working
  <2>2. \A p \in Ranks, g \in 0 .. 1 : ShownBulk(r, p, g)' = ShownBulk(r, p, g)
    BY <1>2, <1>3, <1>4, <1>7, <1>18, <2>1 DEF ShownBulk, BulkOf
  <2>3. \A p, q \in Ranks, g \in 0 .. 1 : q # r => ShownBulk(q, p, g)' = ShownBulk(q, p, g)
    BY <1>2, <1>7, <1>18 DEF ShownBulk, BulkOf
  <2>4. \A p, q \in Ranks, g \in 0 .. 1 : Share(p, g, q)' = Share(p, g, q)
    BY <1>2, <1>18, <2>2, <2>3 DEF Share, ModeBit, RanksPerBank
  <2>. QED  BY <1>2, <2>4, SameShares DEF IInv
<1>21. Acquired' /\ Masked'
  <2>1. Heard(r, 0)' = {} /\ pc'[r][0] = "acquire"
    BY <1>1, <1>6 DEF Heard
  <2>2. \A q \in Ranks, c \in Blocks : q # r \/ c # 0 =>
          pc'[q][c] = pc[q][c] /\ seen'[q][c] = seen[q][c] /\ mask'[q][c] = mask[q][c]
    BY <1>6
  <2>. QED  BY <1>1, <1>2, <1>19, <2>1, <2>2, OthersHeard
<1>. QED
  BY <1>11, <1>12, <1>13, <1>14, <1>15, <1>16, <1>17, <1>20, <1>21 DEF IInv
-----------------------------------------------------------------------------
(* The next round of a rank. *)

\* A rank that dispatches its next round overwrites the older of the two modes kept for
\* it; no peer still polls for the round that mode was of.
LEMMA DispatchStep ==
  ASSUME IInv, setup' = setup, NEW r \in Ranks, Dispatch(r)
  PROVE  IInv'
<1>1. 0 \in Blocks
  BY ScatterAssumption DEF Blocks
<1>2. /\ \A b \in Blocks : pc[r][b] = "done"
      /\ launch' = [launch EXCEPT ![r] = @ + 1]
      /\ pc' = [pc EXCEPT ![r] = [b \in Blocks |-> "ready"]]
      /\ UNCHANGED <<setup, snapshot, status, posted, phaseCounter, writerPrevious,
                     signal, seen, mask, storage>>
  BY DEF Dispatch
<1>3. PICK n \in Nat : n = launch[r]
  BY DEF IInv, TypeOK
<1>4. PICK bulk \in BOOLEAN : mode' = [mode EXCEPT ![r][(n + 1) % 2] = bulk]
  BY <1>3 DEF Dispatch
<1>5. /\ \A q \in Ranks : launch'[q] = IF q = r THEN n + 1 ELSE launch[q]
      /\ \A q \in Ranks, c \in Blocks : pc'[q][c] = IF q = r THEN "ready" ELSE pc[q][c]
  BY <1>2, <1>3 DEF IInv, TypeOK
<1>6. \A q \in Ranks, g \in 0 .. 1 : q # r \/ g # (n + 1) % 2 => mode'[q][g] = mode[q][g]
  BY <1>4 DEF IInv, TypeOK
<1>7. BulkOf(r, n)' = BulkOf(r, n)
  <2>1. n % 2 \in 0 .. 1 /\ n % 2 # (n + 1) % 2
    BY <1>3
  <2>. QED  BY <1>6, <2>1 DEF BulkOf
<1>8. \A q \in Ranks, k \in Nat : q # r => BulkOf(q, k)' = BulkOf(q, k)
  <2>1. \A k \in Nat : k % 2 \in 0 .. 1
    OBVIOUS
  <2>. QED  BY <1>6, <2>1 DEF BulkOf
<1>9. Retired(r) = n /\ Retired(r)' = n
  BY <1>1, <1>2, <1>3, <1>5 DEF Retired, Unretired, Working
<1>10. \A q \in Ranks : Retired(q)' = Retired(q)
  BY <1>1, <1>5, <1>9 DEF Retired
<1>11. TypeOK'
  <2>1. launch' \in [Ranks -> Nat]
    BY <1>2, <1>3 DEF IInv, TypeOK
  <2>2. pc' \in [Ranks -> [Blocks -> Labels]]
    <3>1. [b \in Blocks |-> "ready"] \in [Blocks -> Labels]
      BY DEF Labels, Releasing, Working
    <3>. QED  BY <1>2, <3>1 DEF IInv, TypeOK
  <2>3. mode' \in [Ranks -> [0 .. 1 -> BOOLEAN]]
    <3>1. (n + 1) % 2 \in 0 .. 1
      BY <1>3
    <3>. QED  BY <1>4, <3>1 DEF IInv, TypeOK
  <2>4. Banks' = Banks
    BY DEF Banks, RanksPerBank
  <2>. QED  BY <1>2, <2>1, <2>2, <2>3, <2>4 DEF IInv, TypeOK
<1>12. Joined'
  BY <1>5 DEF IInv, Joined, Working
<1>13. Launched'
  BY <1>3, <1>5 DEF IInv, Launched
<1>14. \A p \in Ranks : launch[p] \in Nat /\ launch[p] >= n
  BY <1>1, <1>2, <1>3 DEF IInv, Abreast, TypeOK
<1>15. \A p \in Ranks, c \in Blocks : pc[p][c] # "ready" => launch[p] = n
  <2>1. \A p \in Ranks, c \in Blocks : pc[p][c] # "ready" => n >= launch[p]
    BY <1>3 DEF IInv, Abreast
  <2>. QED  BY <1>3, <1>14, <2>1
<1>16. Abreast'
  BY <1>3, <1>5, <1>14, <1>15 DEF IInv, Abreast
<1>17. Close'
  <2>1. \A p, q \in Ranks : launch[q] <= launch[p] + 1
    BY DEF IInv, Close
  <2>2. ASSUME NEW p \in Ranks, NEW q \in Ranks  PROVE launch'[q] <= launch'[p] + 1
    <3>1. launch[q] <= launch[p] + 1 /\ launch[q] <= n + 1 /\ launch[p] >= n
      BY <1>3, <1>14, <2>1
    <3>2. launch[p] \in Nat /\ launch[q] \in Nat
      BY <1>14
    <3>. QED  BY <1>3, <1>5, <3>1, <3>2
  <2>. QED  BY <2>2 DEF Close
<1>18. PhaseCounts'
  BY <1>2, <1>1, <1>5, <1>10 DEF IInv, PhaseCounts
<1>19. PhaseAgrees'
  BY <1>2, <1>5 DEF IInv, PhaseAgrees
<1>20. ModeRemembered'
  <2>1. ASSUME NEW q \in Ranks, Retired(q)' >= 1
        PROVE  writerPrevious'[q][(Retired(q)' - 1) % 2] = BulkOf(q, Retired(q))'
    <3>1. PICK m \in Nat : m = Retired(q) /\ m >= 1 /\ Retired(q)' = m
      <4>1. Retired(q)' = Retired(q)
        BY <1>10
      <4>2. Retired(q) >= 1 /\ Retired(q) \in Int
        BY <2>1, <4>1 DEF Retired, IInv, TypeOK
      <4>. QED  BY <4>1, <4>2
    <3>2. writerPrevious[q][(m - 1) % 2] = BulkOf(q, m)
      BY <3>1 DEF IInv, ModeRemembered
    <3>3. BulkOf(q, m)' = BulkOf(q, m)
      <4>1. CASE q = r
        BY <1>7, <1>9, <3>1, <4>1
      <4>2. CASE q # r
        BY <1>8, <4>2
      <4>. QED  BY <4>1, <4>2
    <3>4. writerPrevious' = writerPrevious
      BY <1>2
    <3>. QED  BY <3>1, <3>2, <3>3, <3>4
  <2>. QED  BY <2>1 DEF ModeRemembered
<1>21. Stored'
  BY <1>2, <1>3, <1>5 DEF IInv, Stored
<1>22. \A p, q \in Ranks : Notified(q, p)' = Notified(q, p)
  <2>1. \A p \in Ranks : Notified(r, p) = n /\ Notified(r, p)' = n
    BY <1>1, <1>2, <1>3, <1>5 DEF Notified, Working
  <2>2. \A p, q \in Ranks : q # r => Notified(q, p)' = Notified(q, p)
    BY <1>1, <1>2, <1>5 DEF Notified
  <2>. QED  BY <2>1, <2>2
<1>23. SignalAccounts'
  <2>1. ASSUME NEW p \in Ranks, NEW g \in 0 .. 1
        PROVE  ShownBulk(r, p, g)' = ShownBulk(r, p, g)
    <3>1. Notified(r, p) = n
      BY <1>1, <1>2, <1>3 DEF Notified, Working
    <3>2. n >= 1 => writerPrevious[r][(n - 1) % 2] = BulkOf(r, n)
      BY <1>9 DEF IInv, ModeRemembered
    <3>3. ShownBulk(r, p, g) = writerPrevious[r][g]
      BY <1>3, <3>1, <3>2 DEF ShownBulk
    <3>4. Notified(r, p)' = n /\ launch'[r] = n + 1
      BY <1>5, <1>22, <3>1
    <3>5. ShownBulk(r, p, g)' = writerPrevious'[r][g]
      BY <1>3, <3>4 DEF ShownBulk
    <3>. QED  BY <1>2, <3>3, <3>5
  <2>2. ASSUME NEW p \in Ranks, NEW q \in Ranks, NEW g \in 0 .. 1, q # r
        PROVE  ShownBulk(q, p, g)' = ShownBulk(q, p, g)
    <3>1. launch'[q] = launch[q] /\ launch[q] \in Nat /\ Notified(q, p)' = Notified(q, p)
      BY <1>5, <1>14, <1>22, <2>2
    <3>2. BulkOf(q, launch[q])' = BulkOf(q, launch[q])
      BY <1>8, <2>2, <3>1 DEF BulkOf
    <3>. QED  BY <1>2, <3>1, <3>2 DEF ShownBulk
  <2>3. \A p, q \in Ranks, g \in 0 .. 1 : Share(p, g, q)' = Share(p, g, q)
    BY <1>2, <1>22, <2>1, <2>2 DEF Share, ModeBit, RanksPerBank
  <2>. QED  BY <1>2, <2>3, SameShares DEF IInv
<1>24. \A p \in Ranks, c \in Blocks :
         Heard(p, c)' = IF p = r THEN {} ELSE Heard(p, c)
  BY <1>2, <1>5 DEF Heard, Banks, RanksPerBank
<1>25. \A q \in Ranks : BankOf(q)' = BankOf(q)
  BY <1>2 DEF BankOf, RanksPerBank
<1>26. Acquired'
  BY <1>5, <1>22, <1>24, <1>25 DEF IInv, Acquired
<1>27. Masked'
  <2>1. ASSUME NEW p \in Ranks, NEW c \in Blocks, pc'[p][c] \in {"reading", "reduce"}
        PROVE  mask'[p][c] = {q \in Ranks : BankOf(q)' \in Heard(p, c)' => BulkOf(q, launch[p])'}
    <3>1. p # r /\ pc[p][c] \in {"reading", "reduce"}
      BY <1>5, <2>1
    <3>2. launch[p] = n /\ launch'[p] = n
      BY <1>5, <1>15, <3>1
    <3>3. \A q \in Ranks : BulkOf(q, n)' = BulkOf(q, n)
      BY <1>7, <1>8
    <3>4. mask[p][c] = {q \in Ranks : BankOf(q) \in Heard(p, c) => BulkOf(q, n)}
      BY <3>1, <3>2 DEF IInv, Masked
    <3>5. \A q \in Ranks : BulkOf(q, launch[p])' = BulkOf(q, n)'
      BY <3>2 DEF BulkOf
    <3>. QED  BY <1>2, <1>24, <1>25, <3>1, <3>3, <3>4, <3>5
  <2>. QED  BY <2>1 DEF Masked
<1>. QED
  BY <1>11, <1>12, <1>13, <1>16, <1>17, <1>18, <1>19, <1>20, <1>21, <1>23, <1>26, <1>27 DEF IInv
-----------------------------------------------------------------------------
(* The invariant holds throughout. *)

LEMMA InitIInv == Init => IInv
<1> SUFFICES ASSUME Init  PROVE IInv
  OBVIOUS
<1>1. setup \in Setups /\ Setups \subseteq [ranksPerBank : {1, 2, 4, 8}, secondSync : BOOLEAN, rounds : Nat]
  BY ScatterAssumption DEF Init
<1>2. 0 \in Blocks
  BY ScatterAssumption DEF Blocks
<1>3. TypeOK
  BY <1>1 DEF Init, TypeOK, Labels
<1>4. Joined /\ Launched /\ Abreast /\ Close
  BY DEF Init, Joined, Launched, Abreast, Close, Working
<1>5. \A r \in Ranks : Retired(r) = 0
  BY <1>2 DEF Init, Retired, Unretired, Working
<1>6. PhaseCounts /\ PhaseAgrees /\ ModeRemembered
  <2>1. \A r \in Ranks, b \in Blocks : pc[r][b] = "done" /\ phaseCounter[r] = 0
    BY DEF Init
  <2>2. PhaseCounts
    BY <1>2, <1>5, <2>1 DEF PhaseCounts
  <2>3. PhaseAgrees
    BY <2>1 DEF PhaseAgrees
  <2>4. ModeRemembered
    BY <1>5 DEF ModeRemembered
  <2>. QED  BY <2>2, <2>3, <2>4
<1>7. Stored
  BY DEF Init, Stored
<1>8. \A p, q \in Ranks : Notified(q, p) = 0
  BY <1>2 DEF Init, Notified, Working
<1>9. Acquired /\ Masked
  BY <1>8 DEF Init, Acquired, Masked
<1>10. SignalAccounts
  <2>1. \A p, q \in Ranks, f \in 0 .. 1 : ~ShownBulk(q, p, f)
    BY DEF Init, ShownBulk
  <2>2. \A f \in 0 .. 1 : UsesOfPhase(0, f) % 2 = 0
    BY DEF UsesOfPhase
  <2>3. \A p, q \in Ranks, f \in 0 .. 1 : Share(p, f, q) = 0
    BY <1>8, <2>1, <2>2 DEF Share
  <2>4. \A p \in Ranks, f \in 0 .. 1, k \in Banks, j \in 0 .. 7 : SlotShare(p, f, k, j) = 0
    BY <2>3 DEF SlotShare
  <2>5. \A p \in Ranks, f \in 0 .. 1, k \in Banks : BankShare(p, f, k) = 0
    BY <2>4 DEF BankShare
  <2>. QED  BY <2>5 DEF Init, SignalAccounts
<1>. QED  BY <1>3, <1>4, <1>6, <1>7, <1>9, <1>10 DEF IInv

LEMMA StutterStep == IInv /\ UNCHANGED vars => IInv'
<1> SUFFICES ASSUME IInv, UNCHANGED vars  PROVE IInv'
  OBVIOUS
<1>. USE DEF vars
<1>1. Banks' = Banks /\ \A q \in Ranks : BankOf(q)' = BankOf(q)
  BY DEF Banks, BankOf, RanksPerBank
<1>2. TypeOK' /\ Joined' /\ Launched' /\ Abreast' /\ Close' /\ PhaseAgrees' /\ Stored'
  BY <1>1 DEF IInv, TypeOK, Joined, Launched, Abreast, Close, PhaseAgrees, Stored
<1>3. PhaseCounts' /\ ModeRemembered'
  BY DEF IInv, PhaseCounts, ModeRemembered, Retired, BulkOf
<1>4. SignalAccounts' /\ \A p, q \in Ranks : Notified(q, p)' = Notified(q, p)
  BY SharesKept DEF SameSide, IInv
<1>5. Acquired' /\ Masked'
  BY <1>1, <1>4 DEF IInv, Acquired, Masked, Heard, BulkOf
<1>. QED  BY <1>2, <1>3, <1>4, <1>5 DEF IInv

LEMMA NextIInv == IInv /\ [Next \/ Finished]_vars => IInv'
<1> SUFFICES ASSUME IInv, [Next \/ Finished]_vars  PROVE IInv'
  OBVIOUS
<1>1. ASSUME setup' = setup, NEW r \in Ranks, RankStep(r)  PROVE IInv'
  <2>1. CASE Dispatch(r)
    BY <1>1, <2>1, DispatchStep
  <2>2. ASSUME NEW p \in Ranks, Notify(r, p)  PROVE IInv'
    BY <1>1, <2>2, NotifyStep
  <2>3. CASE Retire(r)
    BY <1>1, <2>3, RetireStep
  <2>4. CASE EndRelease(r)
    BY <1>1, <2>4, EndReleaseStep
  <2>5. ASSUME NEW b \in Blocks, CtaStep(r, b)  PROVE IInv'
    <3>1. CASE Start(r, b)
      BY <1>1, <3>1, StartStep
    <3>2. CASE Scatter(r, b)
      BY <1>1, <3>2, ScatterStep
    <3>3. CASE Release(r, b)
      BY <1>1, <3>3, ReleaseStep
    <3>4. CASE LeaveSync(r, b)
      BY <1>1, <3>4, LeaveSyncStep
    <3>5. ASSUME NEW k \in Banks, AcquireBank(r, b, k)  PROVE IInv'
      BY <1>1, <3>5, AcquireBankStep
    <3>6. CASE LeaveSecondSync(r, b)
      BY <1>1, <3>6, LeaveSecondSyncStep
    <3>7. CASE Reacquire(r, b)
      BY <1>1, <3>7, ReacquireStep
    <3>8. CASE Reduce(r, b) \/ Exit(r, b)
      BY <1>1, <3>8, ReduceStep
    <3>. QED  BY <2>5, <3>1, <3>2, <3>3, <3>4, <3>5, <3>6, <3>7, <3>8 DEF CtaStep
  <2>. QED  BY <1>1, <2>1, <2>2, <2>3, <2>4, <2>5 DEF RankStep, LeaderStep
<1>2. CASE Next
  BY <1>1, <1>2 DEF Next
<1>3. CASE UNCHANGED vars \/ Finished
  BY <1>3, StutterStep DEF Finished
<1>. QED  BY <1>2, <1>3

\* How ranks and CTAs can be apart, and what every cell, word and mask then holds.
THEOREM Invariance == Spec => []IInv
<1>1. Init => IInv
  BY InitIInv
<1>2. IInv /\ [Next \/ Finished]_vars => IInv'
  BY NextIInv
<1>. QED  BY <1>1, <1>2, PTL DEF Spec

\* A CTA that reduces its tokens reads the tiles of its own round from every CTA of every
\* rank, whatever the world size, the bank width and the interleaving.
THEOREM AlwaysReduceReadsRound == Spec => []ReduceReadsRound
<1>1. IInv => ReduceReadsRound
  BY InvReads
<1>. QED  BY <1>1, Invariance, PTL

\* The mask fp4_scatter_acquire returns is the mode each rank wrote this round in.
THEOREM AlwaysMaskNamesWriters == Spec => []MaskNamesWriters
<1>1. IInv => MaskNamesWriters
  BY InvMask
<1>. QED  BY <1>1, Invariance, PTL

\* The phase a CTA read at kernel entry is the phase of the round it runs, although
\* block 0 advances phase_counter under it.
THEOREM AlwaysPhaseAgrees == Spec => []PhaseAgrees
<1>1. IInv => PhaseAgrees
  BY DEF IInv
<1>. QED  BY <1>1, Invariance, PTL

\* phase_signal is at all times the sum of its ranks' counts and mode bits: adding and
\* taking back never carries from the count into the bits.
THEOREM AlwaysSignalAccounts == Spec => []SignalAccounts
<1>1. IInv => SignalAccounts
  BY DEF IInv
<1>. QED  BY <1>1, Invariance, PTL
=============================================================================
