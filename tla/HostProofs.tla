------------------------------ MODULE HostProofs ------------------------------
(***************************************************************************)
(* Proofs about three parts of the host that have no state in common: the  *)
(* MegaMoE buffer (MegaLayout), streamed calls (StreamedGemm) and the      *)
(* products of the 810E (Dense810e).                                       *)
(*                                                                         *)
(* MegaLayout, for every number of ranks (a power of two up to 64), all    *)
(* shapes and any number of views of one allocation: the offsets of a list *)
(* of regions grow (PlaceFacts), whatever the list; what the first regions *)
(* of two lists have in common fixes their offsets (OffsetsAgree).  The    *)
(* invariant then only says of which shapes there are views, and that each *)
(* fits the staging of the owner.                                          *)
(*                                                                         *)
(* StreamedGemm, for any number of host threads, calls and parts of each:  *)
(* a kernel has the number n on its stream if n - 1 were queued there      *)
(* before it.  The invariant says for the kernels that may still run which *)
(* of them waits for which (Covers), so that a kernel that starts finds    *)
(* gone what would disturb it, and what a core reads is there once its     *)
(* decoder is gone.                                                        *)
(*                                                                         *)
(* Dense810e, for every call: the check of interleaved outputs is exact    *)
(* (AddressesDiffer, SharedAddress), launches cover the product            *)
(* (LaunchesCover) and every K tile is in one split (TakenOnce), so the    *)
(* invariant only says that what the CTAs have stored so far is right.     *)
(***************************************************************************)
EXTENDS MegaLayout, StreamedGemm, Dense810e, NatFacts, FiniteSetTheorems, TLAPS

-----------------------------------------------------------------------------
(* Rounding. *)

Alignments == {4, 16, 128, 256}

LEMMA AlignFacts ==
  ASSUME NEW x \in Nat, NEW a \in Alignments
  PROVE  Align(x, a) \in Nat /\ Align(x, a) >= x /\ Align(x, a) <= x + a - 1
<1>1. CASE a = 4
  BY <1>1 DEF Align, DivCeil, Alignments
<1>2. CASE a = 16
  BY <1>2 DEF Align, DivCeil, Alignments
<1>3. CASE a = 128
  BY <1>3 DEF Align, DivCeil, Alignments
<1>4. CASE a = 256
  BY <1>4 DEF Align, DivCeil, Alignments
<1>. QED  BY <1>1, <1>2, <1>3, <1>4 DEF Alignments

-----------------------------------------------------------------------------
(* Lists of regions. *)

\* A list of n regions with names of their own.
IsList(regions, n) ==
  /\ Len(regions) = n /\ n \in Nat \ {0}
  /\ \A i \in 1 .. n : regions[i][2] \in Nat /\ regions[i][3] \in Alignments
  /\ \A i, j \in 1 .. n : regions[i][1] = regions[j][1] => i = j

\* The alignment of the i-th region.
AlignmentOf(regions, i) == IF i = Len(Signals) + 1 THEN 256 ELSE regions[i][3]

\* The offsets of a list.
Offsets(offset, regions, n) ==
  /\ offset \in [1 .. n -> Nat] /\ offset[1] = 0
  /\ \A i \in 2 .. n :
       offset[i] = Align(offset[i - 1] + regions[i - 1][2], AlignmentOf(regions, i))

\* Where Place puts a list.
Placed(layout, offset, regions, n) ==
  /\ DOMAIN layout = {regions[i][1] : i \in 1 .. n}
  /\ \A i \in 1 .. n :
       layout[regions[i][1]] = [offset |-> offset[i], bytes |-> regions[i][2]]

LEMMA OffsetsExist ==
  ASSUME NEW regions, NEW n, IsList(regions, n)
  PROVE  \E offset : Offsets(offset, regions, n)
<1>1. PICK F : F = [k \in 1 .. n - 1 |-> [v \in Nat |->
                      Align(v + regions[k][2], AlignmentOf(regions, k + 1))]]
  OBVIOUS
<1>2. ASSUME NEW k \in 1 .. n - 1, NEW v \in Nat
      PROVE  Align(v + regions[k][2], AlignmentOf(regions, k + 1)) \in Nat
  <2>0. k + 1 \in 1 .. n /\ k \in 1 .. n
    BY DEF IsList
  <2>1. AlignmentOf(regions, k + 1) \in Alignments
    <3>1. regions[k + 1][3] \in Alignments
      BY <2>0 DEF IsList
    <3>. QED  BY <3>1 DEF AlignmentOf, Alignments
  <2>2. PICK x \in Nat : x = v + regions[k][2]
    BY <2>0 DEF IsList
  <2>3. PICK a \in Alignments : a = AlignmentOf(regions, k + 1)
    BY <2>1
  <2>4. Align(x, a) \in Nat
    BY AlignFacts
  <2>. QED  BY <2>2, <2>3, <2>4
<1>3. F \in [1 .. n - 1 -> [Nat -> Nat]]
  BY <1>1, <1>2
<1>4. PICK s : Follows(s, n - 1, Nat, 0, F)
  <2>1. n - 1 \in Nat /\ 0 \in Nat
    BY DEF IsList
  <2>. QED  BY <1>3, <2>1, Recursion
<1>5. PICK t : t = [i \in 1 .. n |-> s[i - 1]]
  OBVIOUS
<1>6. t \in [1 .. n -> Nat] /\ t[1] = 0
  BY <1>4, <1>5 DEF Follows, IsList
<1>7. ASSUME NEW i \in 2 .. n
      PROVE  t[i] = Align(t[i - 1] + regions[i - 1][2], AlignmentOf(regions, i))
  <2>1. n \in Nat
    BY DEF IsList
  <2>2. s[i - 1] = F[i - 1][s[i - 2]] /\ s[i - 2] \in Nat
    BY <1>4, <2>1 DEF Follows
  <2>3. t[i] = s[i - 1] /\ t[i - 1] = s[i - 2]
    BY <1>5, <2>1
  <2>4. F[i - 1][s[i - 2]] = Align(s[i - 2] + regions[i - 1][2], AlignmentOf(regions, i))
    BY <1>1, <2>1, <2>2
  <2>. QED  BY <2>2, <2>3, <2>4
<1>. QED  BY <1>6, <1>7 DEF Offsets

LEMMA PlaceFacts ==
  ASSUME NEW regions, NEW n, IsList(regions, n)
  PROVE  \E offset : Offsets(offset, regions, n) /\ Placed(Place(regions), offset, regions, n)
<1>. DEFINE Rec(s) == s = [i \in 1 .. Len(regions) |->
                IF i = 1 THEN 0
                ELSE Align(s[i - 1] + regions[i - 1][2],
                           IF i = Len(Signals) + 1 THEN 256 ELSE regions[i][3])]
<1>1. PICK s : Offsets(s, regions, n)
  BY OffsetsExist
<1>2. Rec(s)
  <2>1. Len(regions) = n /\ n \in Nat \ {0}
    BY DEF IsList
  <2>2. \A i \in 1 .. n : i # 1 => i \in 2 .. n
    BY <2>1
  <2>3. s = [i \in 1 .. n |-> s[i]]
    BY <1>1 DEF Offsets
  <2>4. ASSUME NEW i \in 1 .. n
        PROVE  s[i] = IF i = 1 THEN 0
                      ELSE Align(s[i - 1] + regions[i - 1][2],
                                 IF i = Len(Signals) + 1 THEN 256 ELSE regions[i][3])
    <3>1. CASE i = 1
      BY <1>1, <3>1 DEF Offsets
    <3>2. CASE i # 1
      BY <1>1, <2>2, <3>2 DEF Offsets, AlignmentOf
    <3>. QED  BY <3>1, <3>2
  <2>5. PICK t : t = [i \in 1 .. n |-> IF i = 1 THEN 0
                      ELSE Align(s[i - 1] + regions[i - 1][2],
                                 IF i = Len(Signals) + 1 THEN 256 ELSE regions[i][3])]
    OBVIOUS
  <2>6. \A i \in 1 .. n : s[i] = t[i]
    BY <2>4, <2>5
  <2>7. s = t
    <3>1. s \in [1 .. n -> Nat] /\ DOMAIN t = 1 .. n
      BY <1>1, <2>5 DEF Offsets
    <3>2. t \in [1 .. n -> Nat]
      <4>1. \A i \in 1 .. n : t[i] \in Nat
        BY <2>6, <3>1
      <4>2. t = [i \in 1 .. n |-> t[i]]
        BY <2>5
      <4>. QED  BY <4>1, <4>2
    <3>3. s = [i \in 1 .. n |-> s[i]] /\ t = [i \in 1 .. n |-> t[i]]
      BY <3>1, <3>2
    <3>. QED  BY <2>6, <3>3, Zenon
  <2>. QED  BY <2>1, <2>5, <2>7
<1>3. PICK r : r = CHOOSE x : Rec(x)
  OBVIOUS
<1>4. Rec(r)
  BY <1>2, <1>3
<1>5. r = s
  <2>0. Len(regions) = n /\ n \in Nat \ {0}
    BY DEF IsList
  <2>. DEFINE S == {k \in 0 .. n - 1 : r[k + 1] = s[k + 1]}
  <2>1. 0 \in S
    BY <1>2, <1>4, <2>0
  <2>2. ASSUME NEW k \in 0 .. n - 2, k \in S  PROVE k + 1 \in S
    <3>1. k + 2 \in 1 .. n /\ k + 2 # 1 /\ k + 2 - 1 = k + 1 /\ k + 1 \in 0 .. n - 1
      BY <2>0
    <3>2. PICK j : j = k + 2
      OBVIOUS
    <3>3. r[j] = s[j]
      <4>1. r[j - 1] = s[j - 1]
        BY <2>2, <3>1, <3>2
      <4>2. j \in 1 .. Len(regions) /\ j # 1
        BY <2>0, <3>1, <3>2
      <4>3. s[j] = Align(s[j - 1] + regions[j - 1][2],
                         IF j = Len(Signals) + 1 THEN 256 ELSE regions[j][3])
        BY <1>2, <4>2
      <4>4. r[j] = Align(r[j - 1] + regions[j - 1][2],
                         IF j = Len(Signals) + 1 THEN 256 ELSE regions[j][3])
        BY <1>4, <4>2
      <4>. QED  BY <4>1, <4>3, <4>4
    <3>. QED  BY <3>1, <3>2, <3>3
  <2>. HIDE DEF S
  <2>3. ASSUME NEW k \in 0 .. n - 1  PROVE k \in S
    <3>1. k \in Nat /\ \A i \in 0 .. k - 1 : i \in S => i + 1 \in S
      BY <2>0, <2>2
    <3>. QED  BY <2>1, <3>1, UpTo
  <2>4. ASSUME NEW i \in 1 .. n  PROVE r[i] = s[i]
    <3>1. i - 1 \in S
      BY <2>0, <2>3
    <3>. QED  BY <3>1 DEF S
  <2>. QED  BY <1>2, <1>4, <2>0, <2>4
<1>6. Placed(Place(regions), s, regions, n)
  <2>0. Len(regions) = n /\ n \in Nat \ {0}
    BY DEF IsList
  <2>1. PICK names : names = {regions[i][1] : i \in 1 .. n}
    OBVIOUS
  <2>2. Place(regions) =
          [name \in names |->
             [offset |-> s[CHOOSE i \in 1 .. n : regions[i][1] = name],
              bytes |-> regions[CHOOSE i \in 1 .. n : regions[i][1] = name][2]]]
    BY <1>3, <1>5, <2>0, <2>1 DEF Place
  <2>3. ASSUME NEW i \in 1 .. n
        PROVE  (CHOOSE j \in 1 .. n : regions[j][1] = regions[i][1]) = i
    BY DEF IsList
  <2>4. DOMAIN Place(regions) = names
    BY <2>2
  <2>5. ASSUME NEW i \in 1 .. n
        PROVE  Place(regions)[regions[i][1]] = [offset |-> s[i], bytes |-> regions[i][2]]
    <3>1. regions[i][1] \in names
      BY <2>1
    <3>2. PICK j : j = CHOOSE k \in 1 .. n : regions[k][1] = regions[i][1]
      OBVIOUS
    <3>3. Place(regions)[regions[i][1]] = [offset |-> s[j], bytes |-> regions[j][2]]
      BY <2>2, <3>1, <3>2
    <3>4. j = i
      BY <2>3, <3>2
    <3>. QED  BY <3>3, <3>4
  <2>. QED  BY <2>1, <2>4, <2>5 DEF Placed
<1>. QED  BY <1>1, <1>6

\* A region ends before the next ones begin.
LEMMA OffsetsGrow ==
  ASSUME NEW regions, NEW n, IsList(regions, n), NEW offset, Offsets(offset, regions, n),
         NEW i \in 1 .. n, NEW j \in 1 .. n, i < j
  PROVE  offset[i] + regions[i][2] <= offset[j]
<1>0. n \in Nat
  BY DEF IsList
<1>1. ASSUME NEW k \in 2 .. n
      PROVE  offset[k - 1] + regions[k - 1][2] <= offset[k]
  <2>1. k - 1 \in 1 .. n /\ k \in 1 .. n
    BY <1>0
  <2>2. PICK x \in Nat : x = offset[k - 1] + regions[k - 1][2]
    <3>1. offset[k - 1] \in Nat /\ regions[k - 1][2] \in Nat
      BY <2>1 DEF Offsets, IsList
    <3>. QED  BY <3>1
  <2>3. PICK a \in Alignments : a = AlignmentOf(regions, k)
    BY <2>1, SMTT(30) DEF IsList, AlignmentOf, Alignments
  <2>4. Align(x, a) >= x
    BY AlignFacts
  <2>5. offset[k] = Align(x, a)
    BY <2>2, <2>3 DEF Offsets
  <2>. QED  BY <2>2, <2>4, <2>5
<1>2. PICK S : S = {d \in 0 .. j - i - 1 : offset[i] + regions[i][2] <= offset[i + 1 + d]}
  OBVIOUS
<1>3. 0 \in S
  <2>1. i + 1 \in 2 .. n /\ i + 1 - 1 = i /\ i + 1 + 0 = i + 1 /\ 0 \in 0 .. j - i - 1
    BY <1>0
  <2>2. offset[i] + regions[i][2] <= offset[i + 1]
    <3>1. PICK k \in 2 .. n : k = i + 1 /\ k - 1 = i
      BY <2>1
    <3>. QED  BY <1>1, <3>1
  <2>. QED  BY <1>2, <2>1, <2>2
<1>4. ASSUME NEW d \in 0 .. j - i - 2, d \in S  PROVE d + 1 \in S
  <2>1. PICK k \in 2 .. n : k = i + 1 + (d + 1) /\ k - 1 = i + 1 + d
    BY <1>0
  <2>2. offset[i] + regions[i][2] <= offset[k - 1]
    BY <1>2, <1>4, <2>1
  <2>3. offset[k - 1] + regions[k - 1][2] <= offset[k]
    BY <1>1
  <2>4. k \in 1 .. n /\ k - 1 \in 1 .. n
    BY <1>0
  <2>5. /\ offset[k - 1] \in Nat /\ offset[k] \in Nat /\ regions[k - 1][2] \in Nat
        /\ offset[i] \in Nat /\ regions[i][2] \in Nat
    BY <2>4 DEF Offsets, IsList
  <2>6. offset[i] + regions[i][2] <= offset[k]
    BY <2>2, <2>3, <2>5
  <2>. QED  BY <1>2, <2>1, <2>6
<1>5. j - i - 1 \in S
  <2>1. PICK m \in Nat : m = j - i - 1 /\ m - 1 = j - i - 2
    BY <1>0
  <2>. QED  BY <1>3, <1>4, <2>1, UpTo
<1>6. i + 1 + (j - i - 1) = j
  BY <1>0
<1>. QED  BY <1>2, <1>5, <1>6

\* Two lists that begin alike have the same offsets there.
LEMMA OffsetsAgree ==
  ASSUME NEW regions, NEW other, NEW n, IsList(regions, n), IsList(other, n),
         NEW offset, Offsets(offset, regions, n),
         NEW offset2, Offsets(offset2, other, n),
         NEW m \in 1 .. n, \A i \in 1 .. m : regions[i] = other[i]
  PROVE  \A i \in 1 .. m : offset[i] = offset2[i]
<1>0. n \in Nat
  BY DEF IsList
<1>1. PICK S : S = {d \in 0 .. m - 1 : offset[d + 1] = offset2[d + 1]}
  OBVIOUS
<1>2. 0 \in S
  BY <1>0, <1>1 DEF Offsets
<1>3. ASSUME NEW d \in 0 .. m - 2, d \in S  PROVE d + 1 \in S
  <2>1. PICK k \in 2 .. m : k = d + 2 /\ k - 1 = d + 1
    BY <1>0
  <2>2. k \in 2 .. n /\ k \in 1 .. m /\ k - 1 \in 1 .. m
    BY <1>0
  <2>3. offset[k] = Align(offset[k - 1] + regions[k - 1][2], AlignmentOf(regions, k))
    BY <2>2 DEF Offsets
  <2>4. offset2[k] = Align(offset2[k - 1] + other[k - 1][2], AlignmentOf(other, k))
    BY <2>2 DEF Offsets
  <2>5. regions[k] = other[k] /\ regions[k - 1] = other[k - 1]
    BY <2>2
  <2>6. AlignmentOf(regions, k) = AlignmentOf(other, k)
    BY <2>5 DEF AlignmentOf
  <2>7. offset[k - 1] = offset2[k - 1]
    BY <1>1, <1>3, <2>1
  <2>8. offset[k] = offset2[k]
    BY <2>3, <2>4, <2>5, <2>6, <2>7
  <2>9. d + 1 \in 0 .. m - 1 /\ k = d + 1 + 1
    BY <1>0, <2>1
  <2>. QED  BY <1>1, <2>8, <2>9
<1>4. ASSUME NEW i \in 1 .. m  PROVE offset[i] = offset2[i]
  <2>1. PICK d \in 0 .. m - 1 : i = d + 1
    BY <1>0
  <2>2. d \in Nat /\ \A e \in 0 .. d - 1 : e \in S => e + 1 \in S
    BY <1>0, <1>3
  <2>3. d \in S
    BY <1>2, <2>2, UpTo
  <2>. QED  BY <1>1, <2>1, <2>3
<1>. QED  BY <1>4

-----------------------------------------------------------------------------
(* The regions of a view. *)

\* Sizes a shape can have.
Sized(s) == {s.experts, s.capacity, s.topk, s.hidden, s.intermediate} \subseteq Nat
Staged(staging) == {staging.scales, staging.counts, staging.tokens} \subseteq Nat

Names ==
  <<"scatter", "dispatch_retire", "dispatch_arrivals", "dispatch_counts", "preprocess_ready",
    "copy_ready", "staging_scales0", "staging_scales1", "staging_counts0", "staging_counts1",
    "staging_tokens0", "staging_tokens1", "dispatch_fp4", "expert_base", "expert_rank_prefix",
    "grouped_layout", "local_fp4", "local_sfa", "scatter_storage", "src_info", "l2_acts",
    "l2_acts_sf", "topk_idx", "topk_weights">>

LEMMA SignalsAre == Len(Signals) = 5
BY DEF Signals, Region

\* Product and rounding of natural numbers.
LEMMA Times ==
  ASSUME NEW a \in Nat, NEW b \in Nat
  PROVE  a * b \in Nat
OBVIOUS

LEMMA RegionNames ==
  ASSUME NEW s, NEW staging
  PROVE  /\ Len(Regions(s, staging)) = 24
         /\ \A i \in 1 .. 24 : Regions(s, staging)[i][1] = Names[i]
         /\ \A i \in 1 .. 24 : Regions(s, staging)[i][3] \in Alignments
<1>. PICK r : r = Regions(s, staging)
  OBVIOUS
<1>1. Len(r) = 24
  BY DEF Regions, Signals, Region
<1>2. \A i \in 1 .. 24 : r[i][1] = Names[i]
  BY DEF Regions, Signals, Region, Names
<1>3. \A i \in 1 .. 24 : r[i][3] \in Alignments
  BY DEF Regions, Signals, Region, Alignments
<1>. QED  BY <1>1, <1>2, <1>3

LEMMA NamesDiffer ==
  \A i, j \in 1 .. 24 : Names[i] = Names[j] => i = j
BY DEF Names

LEMMA WorldSizes == R \in {1, 2, 4, 8, 16, 32, 64}
<1>1. PICK e \in 0 .. 6 : R = 2 ^ e
  BY LayoutAssumption
<1>2. e = 0 \/ e = 1 \/ e = 2 \/ e = 3 \/ e = 4 \/ e = 5 \/ e = 6
  OBVIOUS
<1>3. 2 ^ 0 = 1 /\ 2 ^ 1 = 2 /\ 2 ^ 2 = 4 /\ 2 ^ 3 = 8 /\ 2 ^ 4 = 16 /\ 2 ^ 5 = 32 /\ 2 ^ 6 = 64
  OBVIOUS
<1>. QED  BY <1>1, <1>2, <1>3

\* The parts that sizes are computed from.
LEMMA Parts ==
  ASSUME NEW s, Sized(s)
  PROVE  /\ {Groups(s), Compact(s), PoolBlocks(s)} \subseteq Nat
         /\ s.hidden \div 2 \in Nat /\ s.hidden \div 64 \in Nat
         /\ s.intermediate \div 2 \in Nat /\ s.intermediate \div 64 \in Nat
         /\ R * s.capacity \in Nat
<1>0. R \in Nat /\ R > 0
  BY WorldSizes
<1>1. {s.experts, s.capacity, s.topk, s.hidden, s.intermediate} \subseteq Nat
  BY DEF Sized
<1>2. Groups(s) \in Nat
  BY <1>0, <1>1 DEF Groups
<1>3. PICK k \in Nat : k = R * s.capacity
  BY <1>0, <1>1, Times
<1>4. Compact(s) \in Nat
  <2>1. PICK t \in Nat : t = IF s.topk < Groups(s) THEN s.topk ELSE Groups(s)
    BY <1>1, <1>2
  <2>2. k * t \in Nat
    OBVIOUS
  <2>. QED  BY <1>3, <2>1, <2>2 DEF Compact
<1>5. PoolBlocks(s) \in Nat
  <2>1. DivCeil(k, 16) \in Nat
    BY DEF DivCeil
  <2>. QED  BY <1>2, <1>3, <2>1, Times DEF PoolBlocks
<1>6. /\ s.hidden \div 2 \in Nat /\ s.hidden \div 64 \in Nat
      /\ s.intermediate \div 2 \in Nat /\ s.intermediate \div 64 \in Nat
  BY <1>1
<1>. QED  BY <1>2, <1>3, <1>4, <1>5, <1>6

LEMMA RowOffsetFacts ==
  ASSUME NEW height \in Nat, NEW experts \in Nat
  PROVE  RowOffset(height, experts) \in Nat /\ RowOffset(height, experts) >= height + 4 * experts
<1>1. Align(height, 4) \in Nat /\ Align(height, 4) >= height
  BY AlignFacts DEF Alignments
<1>. QED  BY <1>1 DEF RowOffset, KRowAlignment

LEMMA RegionBytes ==
  ASSUME NEW s, Sized(s), NEW staging, Staged(staging)
  PROVE  \A i \in 1 .. 24 : Regions(s, staging)[i][2] \in Nat
<1>0. R \in Nat
  BY WorldSizes
<1>1. {s.experts, s.capacity, s.topk, s.hidden, s.intermediate} \subseteq Nat
  BY DEF Sized
<1>2. {staging.scales, staging.counts, staging.tokens} \subseteq Nat
  BY DEF Staged
<1>3. /\ {Groups(s), Compact(s), PoolBlocks(s)} \subseteq Nat
      /\ s.hidden \div 2 \in Nat /\ s.hidden \div 64 \in Nat
      /\ s.intermediate \div 2 \in Nat /\ s.intermediate \div 64 \in Nat
  BY Parts
<1>4. CopyReady(s, staging) \in Nat
  BY <1>2 DEF CopyReady
<1>5. RowOffset(Compact(s), Groups(s)) \in Nat
  BY <1>3, RowOffsetFacts
<1>6. /\ s.capacity * (s.hidden \div 2) \in Nat /\ Compact(s) * (s.hidden \div 2) \in Nat
      /\ s.topk * s.capacity * s.hidden * 2 \in Nat
      /\ s.capacity * s.topk * 8 \in Nat /\ s.capacity * s.topk * 4 \in Nat
  BY <1>1, <1>3, Times
<1>7. /\ (Groups(s) + 1) * 4 \in Nat /\ Groups(s) * R * 4 \in Nat
      /\ ((1 + PoolBlocks(s)) * 4 + Groups(s)) * 4 \in Nat
      /\ Compact(s) * 12 \in Nat
  BY <1>0, <1>3, Times
<1>8. /\ RowOffset(Compact(s), Groups(s)) * (s.hidden \div 64) * 2 \in Nat
      /\ Compact(s) * (s.intermediate \div 2) \in Nat
      /\ (s.intermediate \div 64) * Compact(s) * 2 \in Nat
  BY <1>3, <1>5, Times
<1>. QED  BY <1>2, <1>4, <1>6, <1>7, <1>8 DEF Regions, Signals, Region, KNumMaxRanks,
             KNumMaxExperts, KNumPartitions

\* The list of the regions of a view.
LEMMA RegionsList ==
  ASSUME NEW s, Sized(s), NEW staging, Staged(staging)
  PROVE  IsList(Regions(s, staging), 24)
<1>1. PICK r : r = Regions(s, staging)
  OBVIOUS
<1>2. /\ Len(r) = 24
      /\ \A i \in 1 .. 24 : r[i][1] = Names[i] /\ r[i][3] \in Alignments /\ r[i][2] \in Nat
  BY <1>1, RegionNames, RegionBytes
<1>3. \A i, j \in 1 .. 24 : r[i][1] = r[j][1] => i = j
  BY <1>2, NamesDiffer
<1>4. \A i \in 1 .. 24 : r[i][2] \in Nat /\ r[i][3] \in Alignments
  BY <1>2
<1>5. Len(r) = 24 /\ 24 \in Nat \ {0}
  BY <1>2
<1>6. IsList(r, 24)
  BY <1>3, <1>4, <1>5, Zenon DEF IsList
<1>. QED  BY <1>1, <1>6

\* The size of a layout is the end of its last region, rounded up.
LEMMA LayoutSpans ==
  ASSUME NEW s, Sized(s), NEW staging, Staged(staging)
  PROVE  \E offset : LET r == Regions(s, staging)
                         layout == Layout(s, staging)
                     IN  /\ IsList(r, 24) /\ Offsets(offset, r, 24)
                         /\ Placed(layout, offset, r, 24)
                         /\ Bytes(layout) \in Nat /\ offset[24] + r[24][2] <= Bytes(layout)
<1>1. PICK r : r = Regions(s, staging)
  OBVIOUS
<1>0. PICK layout : layout = Layout(s, staging)
  OBVIOUS
<1>2. IsList(r, 24) /\ layout = Place(r)
  BY <1>0, <1>1, RegionsList DEF Layout
<1>3. PICK offset : Offsets(offset, r, 24) /\ Placed(layout, offset, r, 24)
  BY <1>2, PlaceFacts
<1>4. r[24][1] = "topk_weights"
  BY <1>1, RegionNames DEF Names
<1>5. PICK x \in Nat : x = offset[24] + r[24][2]
  <2>1. offset \in [1 .. 24 -> Nat] /\ \A i \in 1 .. 24 : r[i][2] \in Nat
    BY <1>2, <1>3 DEF Offsets, IsList
  <2>2. 24 \in 1 .. 24
    OBVIOUS
  <2>3. offset[24] \in Nat /\ r[24][2] \in Nat
    BY <2>1, <2>2
  <2>. QED  BY <2>3
<1>6. layout["topk_weights"] = [offset |-> offset[24], bytes |-> r[24][2]]
  <2>1. \A k \in 1 .. 24 : layout[r[k][1]] = [offset |-> offset[k], bytes |-> r[k][2]]
    BY <1>3 DEF Placed
  <2>2. PICK k \in 1 .. 24 : k = 24
    OBVIOUS
  <2>3. layout[r[k][1]] = [offset |-> offset[k], bytes |-> r[k][2]]
    BY <2>1
  <2>. QED  BY <1>4, <2>2, <2>3
<1>7. Bytes(layout) = Align(x, 256)
  BY <1>5, <1>6 DEF Bytes
<1>8. Align(x, 256) \in Nat /\ Align(x, 256) >= x
  BY AlignFacts DEF Alignments
<1>. QED  BY <1>0, <1>1, <1>2, <1>3, <1>5, <1>7, <1>8

LEMMA BytesAre ==
  ASSUME NEW s, Sized(s), NEW staging, Staged(staging)
  PROVE  Bytes(Layout(s, staging)) \in Nat
BY LayoutSpans

\* In a layout regions follow one another and end within its size.
LEMMA LayoutApart ==
  ASSUME NEW s, Sized(s), NEW staging, Staged(staging),
         NEW layout, layout = Layout(s, staging)
  PROVE  \A i \in DOMAIN layout :
           /\ layout[i].offset \in Nat /\ layout[i].bytes \in Nat
           /\ layout[i].offset + layout[i].bytes <= Bytes(layout)
           /\ \A j \in DOMAIN layout \ {i} : Apart(layout[i], layout[j])
<1>1. PICK r : r = Regions(s, staging)
  OBVIOUS
<1>2. PICK offset : /\ IsList(r, 24) /\ Offsets(offset, r, 24) /\ Placed(layout, offset, r, 24)
                    /\ Bytes(layout) \in Nat /\ offset[24] + r[24][2] <= Bytes(layout)
  BY <1>1, LayoutSpans
<1>3. Offsets(offset, r, 24) /\ Placed(layout, offset, r, 24)
  BY <1>2
<1>4. \A i \in DOMAIN layout : \E k \in 1 .. 24 : i = r[k][1]
  BY <1>3 DEF Placed
<1>7. ASSUME NEW k \in 1 .. 24
      PROVE  offset[k] \in Nat /\ r[k][2] \in Nat
  BY <1>2, <1>3 DEF IsList, Offsets
<1>10. ASSUME NEW k \in 1 .. 24
       PROVE  layout[r[k][1]].offset = offset[k] /\ layout[r[k][1]].bytes = r[k][2]
  <2>1. layout[r[k][1]] = [offset |-> offset[k], bytes |-> r[k][2]]
    BY <1>3 DEF Placed
  <2>. QED  BY <2>1
<1>5. offset[24] + r[24][2] <= Bytes(layout) /\ Bytes(layout) \in Int
  BY <1>2
<1>6. ASSUME NEW k \in 1 .. 24, NEW l \in 1 .. 24, k < l
      PROVE  offset[k] + r[k][2] <= offset[l]
  BY <1>2, <1>3, <1>6, OffsetsGrow
<1>8. ASSUME NEW k \in 1 .. 24
      PROVE  offset[k] + r[k][2] <= Bytes(layout)
  <2>1. CASE k = 24
    BY <1>5, <2>1
  <2>2. CASE k < 24
    <3>1. offset[k] + r[k][2] <= offset[24]
      BY <1>6, <2>2
    <3>2. offset[k] \in Nat /\ r[k][2] \in Nat
      BY <1>7
    <3>3. offset[24] \in Nat /\ r[24][2] \in Nat
      BY <1>7
    <3>. QED  BY <1>5, <3>1, <3>2, <3>3
  <2>. QED  BY <2>1, <2>2
<1>9. ASSUME NEW i \in DOMAIN layout
      PROVE  /\ layout[i].offset \in Nat /\ layout[i].bytes \in Nat
             /\ layout[i].offset + layout[i].bytes <= Bytes(layout)
             /\ \A j \in DOMAIN layout \ {i} : Apart(layout[i], layout[j])
  <2>1. PICK k \in 1 .. 24 : i = r[k][1]
    BY <1>4
  <2>2. layout[i].offset = offset[k] /\ layout[i].bytes = r[k][2]
    BY <1>10, <2>1
  <2>3. ASSUME NEW j \in DOMAIN layout \ {i}  PROVE Apart(layout[i], layout[j])
    <3>1. PICK l \in 1 .. 24 : j = r[l][1]
      BY <1>4
    <3>2. layout[j].offset = offset[l] /\ layout[j].bytes = r[l][2]
      BY <1>10, <3>1
    <3>3. k < l \/ l < k
      BY <2>1, <3>1
    <3>. QED  BY <1>6, <2>2, <3>2, <3>3 DEF Apart
  <2>. QED  BY <1>7, <1>8, <2>2, <2>3
<1>. QED  BY <1>9

-----------------------------------------------------------------------------
(* The invariant. *)

\* Every view is a layout of its shape over the owner's staging.
IsView(s) ==
  /\ Sized(s) /\ Valid(s) /\ FitsStaging(s)
  /\ views[s] = Layout(s, ForShape(owner)) /\ Bytes(views[s]) <= allocated

LayoutInv == Sized(owner) /\ allocated \in Nat /\ \A s \in DOMAIN views : IsView(s)

LEMMA StagingSized ==
  ASSUME NEW s, Sized(s)
  PROVE  Staged(ForShape(s))
<1>1. /\ {s.experts, s.capacity, s.hidden} \subseteq Nat
      /\ R * s.capacity \in Nat /\ s.hidden \div 64 \in Nat
  BY Parts DEF Sized
<1>2. PICK a \in Nat, b \in Nat, c \in Nat :
        /\ a = R * s.capacity * (s.hidden \div 64) * 2
        /\ b = s.experts * 4
        /\ c = s.experts * s.capacity * 4
  BY <1>1, Times
<1>3. Align(a, 256) \in Nat /\ Align(b, 256) \in Nat /\ Align(c, 256) \in Nat
  BY AlignFacts DEF Alignments
<1>. QED  BY <1>2, <1>3 DEF Staged, ForShape

LEMMA AskedSized ==
  ASSUME NEW asked \in Shapes,
         NEW s, s = [asked EXCEPT !.capacity = Align(asked.capacity, KTokenAlignment)]
  PROVE  Sized(s)
<1>1. asked \in [experts : Nat, capacity : Nat, topk : Nat, hidden : Nat, intermediate : Nat]
  BY LayoutAssumption
<1>2. PICK c \in Nat : c = Align(asked.capacity, KTokenAlignment)
  <2>1. Align(asked.capacity, 16) \in Nat
    BY <1>1, AlignFacts DEF Alignments
  <2>. QED  BY <2>1 DEF KTokenAlignment
<1>3. s = [asked EXCEPT !.capacity = c]
  BY <1>2
<1>. QED  BY <1>1, <1>3 DEF Sized

\* What there are views of, and that they are all of one allocation.
THEOREM Invariance == LayoutSpec => []LayoutInv
<1>1. LayoutInit => LayoutInv
  <2>1. ASSUME LayoutInit  PROVE Sized(owner) /\ allocated \in Nat
    BY <2>1 DEF LayoutInit, None, Sized
  <2>2. ASSUME LayoutInit  PROVE DOMAIN views = {}
    BY <2>2 DEF LayoutInit
  <2>. QED  BY <2>1, <2>2 DEF LayoutInv
<1>2. LayoutInv /\ [LayoutNext]_layoutVars => LayoutInv'
  <2>0. SUFFICES ASSUME LayoutInv, [LayoutNext]_layoutVars  PROVE LayoutInv'
    OBVIOUS
  <2>1. CASE UNCHANGED layoutVars
    BY <2>0, <2>1 DEF layoutVars, LayoutInv, IsView, Sized, FitsStaging
  <2>2. ASSUME NEW asked \in Shapes, NEW s, Allocate(s), Sized(s)  PROVE LayoutInv'
    <3>1. /\ Valid(s) /\ owner' = s /\ allocated' = Bytes(views'[s])
          /\ views' = [v \in {s} |-> Layout(s, ForShape(s))]
      BY <2>2 DEF Allocate
    <3>2. DOMAIN views' = {s} /\ views'[s] = Layout(s, ForShape(owner'))
      BY <3>1
    <3>3. FitsStaging(s)'
      <4>1. Staged(ForShape(s))
        BY <2>2, StagingSized
      <4>. QED  BY <3>1, <4>1 DEF FitsStaging, Staged
    <3>4. allocated' \in Nat /\ Bytes(views'[s]) <= allocated'
      <4>1. allocated' = Bytes(views'[s])
        BY <3>1
      <4>2. Bytes(views'[s]) \in Nat
        BY <2>2, <3>2, <3>1, StagingSized, BytesAre
      <4>. QED  BY <4>1, <4>2
    <3>. QED  BY <2>2, <3>1, <3>2, <3>3, <3>4 DEF LayoutInv, IsView
  <2>3. ASSUME NEW s, Share(s), Sized(s)  PROVE LayoutInv'
    <3>1. /\ Valid(s) /\ FitsStaging(s) /\ s \notin DOMAIN views
          /\ owner' = owner /\ allocated' = allocated
          /\ AddView(s, Layout(s, ForShape(owner)))
      BY <2>3 DEF Share, Staging
    <3>2. PICK layout : layout = Layout(s, ForShape(owner))
      OBVIOUS
    <3>3. /\ Bytes(layout) <= allocated
          /\ DOMAIN views' = DOMAIN views \cup {s}
          /\ views'[s] = layout
          /\ \A v \in DOMAIN views : views'[v] = views[v]
      BY <3>1, <3>2 DEF AddView
    <3>4. FitsStaging(s)'
      BY <3>1 DEF FitsStaging
    <3>5. IsView(s)'
      BY <2>3, <3>1, <3>2, <3>3, <3>4 DEF IsView
    <3>6. ASSUME NEW v \in DOMAIN views  PROVE IsView(v)'
      <4>1. IsView(v)
        BY <2>0 DEF LayoutInv
      <4>2. FitsStaging(v)'
        BY <3>1, <4>1 DEF FitsStaging, IsView
      <4>. QED  BY <3>1, <3>3, <4>1, <4>2 DEF IsView
    <3>7. Sized(owner') /\ allocated' \in Nat
      BY <2>0, <3>1 DEF LayoutInv
    <3>. QED  BY <3>3, <3>5, <3>6, <3>7 DEF LayoutInv
  <2>4. CASE LayoutNext
    <3>1. CASE Settled
      BY <2>1, <3>1 DEF Settled
    <3>2. ASSUME NEW asked \in Shapes, Construct(asked)  PROVE LayoutInv'
      <4>1. PICK s : /\ s = [asked EXCEPT !.capacity = Align(asked.capacity, KTokenAlignment)]
                     /\ Allocate(s) \/ Share(s)
        BY <3>2 DEF Construct
      <4>2. Sized(s)
        BY <4>1, AskedSized
      <4>. QED  BY <2>2, <2>3, <4>1, <4>2
    <3>. QED  BY <2>4, <3>1, <3>2 DEF LayoutNext
  <2>. QED  BY <2>0, <2>1, <2>4
<1>. QED  BY <1>1, <1>2, PTL DEF LayoutSpec

\* The regions of every view lie apart and within the allocation.
THEOREM AlwaysRegionsDisjoint == LayoutSpec => []RegionsDisjoint
<1>1. LayoutInv => RegionsDisjoint
  <2>0. SUFFICES ASSUME LayoutInv, NEW s \in DOMAIN views, NEW i \in DOMAIN views[s]
        PROVE  /\ views[s][i].offset + views[s][i].bytes <= allocated
               /\ \A j \in DOMAIN views[s] \ {i} : Apart(views[s][i], views[s][j])
    BY DEF RegionsDisjoint
  <2>1. IsView(s) /\ Staged(ForShape(owner))
    BY <2>0, StagingSized DEF LayoutInv
  <2>2. PICK layout : layout = Layout(s, ForShape(owner))
    OBVIOUS
  <2>3. views[s] = layout /\ Bytes(layout) <= allocated /\ Sized(s)
    BY <2>1, <2>2 DEF IsView
  <2>4. /\ layout[i].offset \in Nat /\ layout[i].bytes \in Nat
        /\ layout[i].offset + layout[i].bytes <= Bytes(layout)
        /\ \A j \in DOMAIN layout \ {i} : Apart(layout[i], layout[j])
    BY <2>0, <2>1, <2>2, <2>3, LayoutApart
  <2>5. Bytes(layout) \in Nat /\ allocated \in Nat
    BY <2>0, <2>1, <2>2, <2>3, BytesAre DEF LayoutInv
  <2>. QED  BY <2>3, <2>4, <2>5
<1>. QED  BY <1>1, Invariance, PTL

\* The regions that views share come first, and only the staging determines them.
LEMMA SharedAre ==
  ASSUME NEW s, NEW staging, NEW r, r = Regions(s, staging)
  PROVE  /\ r[1] = Signals[1] /\ r[2] = Signals[2] /\ r[3] = Signals[3] /\ r[4] = Signals[4]
         /\ r[5] = Signals[5] /\ r[6] = Region("copy_ready", (staging.tokens \div 64) * 4, 256)
         /\ r[7] = Region("staging_scales0", staging.scales, 256)
         /\ r[8] = Region("staging_scales1", staging.scales, 256)
         /\ r[9] = Region("staging_counts0", staging.counts, 256)
         /\ r[10] = Region("staging_counts1", staging.counts, 256)
         /\ r[11] = Region("staging_tokens0", staging.tokens, 256)
         /\ r[12] = Region("staging_tokens1", staging.tokens, 256)
BY DEF Regions, Signals, Region, CopyReady

LEMMA SharedRegions ==
  ASSUME NEW s, NEW v, NEW staging
  PROVE  \A i \in 1 .. 12 : Regions(s, staging)[i] = Regions(v, staging)[i]
<1>1. PICK r, q : r = Regions(s, staging) /\ q = Regions(v, staging)
  OBVIOUS
<1>2. /\ r[1] = q[1] /\ r[2] = q[2] /\ r[3] = q[3] /\ r[4] = q[4] /\ r[5] = q[5] /\ r[6] = q[6]
      /\ r[7] = q[7] /\ r[8] = q[8] /\ r[9] = q[9] /\ r[10] = q[10] /\ r[11] = q[11]
      /\ r[12] = q[12]
  BY <1>1, SharedAre
<1>3. ASSUME NEW i \in 1 .. 12  PROVE r[i] = q[i]
  <2>1. \/ i = 1 \/ i = 2 \/ i = 3 \/ i = 4 \/ i = 5 \/ i = 6 \/ i = 7 \/ i = 8
        \/ i = 9 \/ i = 10 \/ i = 11 \/ i = 12
    OBVIOUS
  <2>. QED  BY <1>2, <2>1
<1>. QED  BY <1>1, <1>3

LEMMA SharedNames ==
  \A name \in Shared : \E i \in 1 .. 12 : Names[i] = name
BY DEF Shared, Names

\* Views have the protocol words and the staging at the same place and size.
THEOREM AlwaysViewsAgree == LayoutSpec => []ViewsAgree
<1>1. LayoutInv => ViewsAgree
  <2>0. SUFFICES ASSUME LayoutInv, NEW s \in DOMAIN views, NEW v \in DOMAIN views, NEW name \in Shared
        PROVE  views[s][name] = views[v][name]
    BY DEF ViewsAgree
  <2>1. PICK staging : staging = ForShape(owner) /\ Staged(staging)
    BY <2>0, StagingSized DEF LayoutInv
  <2>2. /\ views[s] = Layout(s, staging) /\ Sized(s)
        /\ views[v] = Layout(v, staging) /\ Sized(v)
    BY <2>0, <2>1 DEF LayoutInv, IsView
  <2>3. PICK r, q : r = Regions(s, staging) /\ q = Regions(v, staging)
    OBVIOUS
  <2>4. PICK a : IsList(r, 24) /\ Offsets(a, r, 24) /\ Placed(views[s], a, r, 24)
    BY <2>1, <2>2, <2>3, LayoutSpans
  <2>5. PICK b : IsList(q, 24) /\ Offsets(b, q, 24) /\ Placed(views[v], b, q, 24)
    BY <2>1, <2>2, <2>3, LayoutSpans
  <2>6. \A i \in 1 .. 12 : r[i] = q[i]
    BY <2>3, SharedRegions
  <2>7. \A i \in 1 .. 12 : a[i] = b[i]
    <3>1. PICK m \in 1 .. 24 : m = 12
      OBVIOUS
    <3>2. \A i \in 1 .. m : r[i] = q[i]
      BY <2>6, <3>1
    <3>3. \A i \in 1 .. m : a[i] = b[i]
      BY <2>4, <2>5, <3>2, OffsetsAgree
    <3>. QED  BY <3>1, <3>3
  <2>8. PICK i \in 1 .. 12 : Names[i] = name
    BY SharedNames
  <2>9. i \in 1 .. 24 /\ r[i][1] = name /\ q[i][1] = name
    BY <2>3, <2>8, RegionNames
  <2>10. views[s][name] = [offset |-> a[i], bytes |-> r[i][2]]
    BY <2>4, <2>9 DEF Placed
  <2>11. views[v][name] = [offset |-> b[i], bytes |-> q[i][2]]
    BY <2>5, <2>9 DEF Placed
  <2>. QED  BY <2>6, <2>7, <2>10, <2>11
<1>. QED  BY <1>1, Invariance, PTL

-----------------------------------------------------------------------------
(* The indices that kernels form. *)

LEMMA StagingBytes ==
  ASSUME NEW s, Sized(s), NEW staging, Staged(staging),
         NEW layout, layout = Layout(s, staging)
  PROVE  /\ layout["staging_scales0"].bytes = staging.scales
         /\ layout["staging_counts0"].bytes = staging.counts
         /\ layout["staging_tokens0"].bytes = staging.tokens
         /\ layout["copy_ready"].bytes = CopyReady(s, staging)
         /\ layout["local_sfa"].bytes = RowOffset(Compact(s), Groups(s)) * (s.hidden \div 64) * 2
<1>1. PICK r : r = Regions(s, staging)
  OBVIOUS
<1>2. PICK a : IsList(r, 24) /\ Placed(layout, a, r, 24)
  BY <1>1, LayoutSpans
<1>3. ASSUME NEW i \in 1 .. 24  PROVE layout[r[i][1]].bytes = r[i][2]
  <2>1. layout[r[i][1]] = [offset |-> a[i], bytes |-> r[i][2]]
    BY <1>2 DEF Placed
  <2>. QED  BY <2>1
<1>4. /\ r[7] = Region("staging_scales0", staging.scales, 256)
      /\ r[9] = Region("staging_counts0", staging.counts, 256)
      /\ r[11] = Region("staging_tokens0", staging.tokens, 256)
      /\ r[6] = Region("copy_ready", CopyReady(s, staging), 256)
      /\ r[18] = Region("local_sfa", RowOffset(Compact(s), Groups(s)) * (s.hidden \div 64) * 2, 256)
  BY <1>1 DEF Regions, Signals, Region
<1>5. /\ r[7][1] = "staging_scales0" /\ r[7][2] = staging.scales
      /\ r[9][1] = "staging_counts0" /\ r[9][2] = staging.counts
      /\ r[11][1] = "staging_tokens0" /\ r[11][2] = staging.tokens
      /\ r[6][1] = "copy_ready" /\ r[6][2] = CopyReady(s, staging)
      /\ r[18][1] = "local_sfa"
      /\ r[18][2] = RowOffset(Compact(s), Groups(s)) * (s.hidden \div 64) * 2
  BY <1>4 DEF Region
<1>6. 6 \in 1 .. 24 /\ 7 \in 1 .. 24 /\ 9 \in 1 .. 24 /\ 11 \in 1 .. 24 /\ 18 \in 1 .. 24
  OBVIOUS
<1>7. /\ layout[r[7][1]].bytes = r[7][2] /\ layout[r[9][1]].bytes = r[9][2]
      /\ layout[r[11][1]].bytes = r[11][2] /\ layout[r[6][1]].bytes = r[6][2]
      /\ layout[r[18][1]].bytes = r[18][2]
  BY <1>3, <1>6
<1>. QED  BY <1>5, <1>7

\* Rounding up two numbers costs at most one alignment more than rounding up the sum.
LEMMA AlignSum ==
  ASSUME NEW p \in Nat, NEW m \in Nat
  PROVE  Align(p, 4) + Align(m, 4) <= Align(p + m, 4) + 4
BY DEF Align, DivCeil

LEMMA AlignMonotone ==
  ASSUME NEW p \in Nat, NEW q \in Nat, p <= q
  PROVE  Align(p, 4) <= Align(q, 4)
BY DEF Align, DivCeil

\* Whole experts for every rank.
LEMMA WholeGroups ==
  ASSUME NEW s, Sized(s), Valid(s)
  PROVE  /\ Groups(s) \in Nat \ {0} /\ Groups(s) * R = s.experts
<1>1. R \in {1, 2, 4, 8, 16, 32, 64} /\ s.experts \in Nat /\ s.experts > 0 /\ s.experts % R = 0
  BY WorldSizes DEF Sized, Valid
<1>2. CASE R = 1
  BY <1>1, <1>2 DEF Groups
<1>3. CASE R = 2
  BY <1>1, <1>3 DEF Groups
<1>4. CASE R = 4
  BY <1>1, <1>4 DEF Groups
<1>5. CASE R = 8
  BY <1>1, <1>5 DEF Groups
<1>6. CASE R = 16
  BY <1>1, <1>6 DEF Groups
<1>7. CASE R = 32
  BY <1>1, <1>7 DEF Groups
<1>8. CASE R = 64
  BY <1>1, <1>8 DEF Groups
<1>. QED  BY <1>1, <1>2, <1>3, <1>4, <1>5, <1>6, <1>7, <1>8

\* The scale rows of the experts of a view.
LEMMA RowsApart ==
  ASSUME NEW s, Sized(s), Valid(s), NEW limit, limit = RowOffset(Compact(s), Groups(s))
  PROVE  ScaleRowsApart(s, limit)
<1>. DEFINE sumOf(m) == LET prefix[e \in 0 .. Groups(s)] ==
                              IF e = 0 THEN 0 ELSE prefix[e - 1] + m[e - 1]
                        IN  prefix
<1>0. Groups(s) \in Nat \ {0} /\ Compact(s) \in Nat /\ Counts \subseteq Nat
  BY WholeGroups, Parts, LayoutAssumption
<1>1. ASSUME NEW m \in [0 .. Groups(s) - 1 -> Counts], NEW prefix, prefix = sumOf(m),
             prefix[Groups(s)] <= Compact(s), NEW e \in 0 .. Groups(s) - 1
      PROVE  RowOffset(prefix[e], e) + Align(m[e], KRowAlignment) <=
               IF e + 1 \in 0 .. Groups(s) - 1 THEN RowOffset(prefix[e + 1], e + 1) ELSE limit
  <2>1. m \in [0 .. Groups(s) - 1 -> Nat]
    BY <1>0
  <2>2. /\ prefix \in [0 .. Groups(s) -> Nat] /\ prefix[0] = 0
        /\ \A d \in 0 .. Groups(s) - 1 : prefix[d + 1] = prefix[d] + m[d]
    <3>1. /\ sumOf(m) \in [0 .. Groups(s) -> Nat] /\ sumOf(m)[0] = 0
          /\ \A d \in 0 .. Groups(s) - 1 : sumOf(m)[d + 1] = sumOf(m)[d] + m[d]
      BY <1>0, <2>1, PrefixSums
    <3>. HIDE DEF sumOf
    <3>. QED  BY <1>1, <3>1
  <2>3. PICK p \in Nat, n \in Nat, q \in Nat :
          p = prefix[e] /\ n = m[e] /\ q = prefix[e + 1] /\ q = p + n
    <3>1. e \in 0 .. Groups(s) /\ e + 1 \in 0 .. Groups(s)
      BY <1>0
    <3>. QED  BY <2>1, <2>2, <3>1
  <2>4. /\ Align(p, 4) \in Nat /\ Align(n, 4) \in Nat /\ Align(q, 4) \in Nat
        /\ Align(Compact(s), 4) \in Nat
    <3>1. 4 \in Alignments
      BY DEF Alignments
    <3>. QED  BY <1>0, <3>1, AlignFacts
  <2>5. Align(p, 4) + Align(n, 4) <= Align(q, 4) + 4
    BY <2>3, AlignSum
  <2>6. RowOffset(p, e) + Align(n, KRowAlignment) <= RowOffset(q, e + 1)
    <3>1. e \in Nat /\ (e + 1) * 4 = e * 4 + 4
      BY <1>0
    <3>. QED  BY <2>4, <2>5, <3>1 DEF RowOffset, KRowAlignment
  <2>7. CASE e + 1 \in 0 .. Groups(s) - 1
    BY <2>3, <2>6, <2>7
  <2>8. CASE e + 1 \notin 0 .. Groups(s) - 1
    <3>1. e + 1 = Groups(s)
      BY <1>0, <2>8
    <3>2. q <= Compact(s)
      BY <1>1, <2>3, <3>1
    <3>3. Align(q, 4) <= Align(Compact(s), 4)
      BY <1>0, <3>2, AlignMonotone
    <3>4. RowOffset(q, e + 1) <= limit
      <4>1. limit = RowOffset(Compact(s), e + 1) /\ (e + 1) * 4 \in Nat
        BY <1>0, <3>1
      <4>. QED  BY <2>4, <3>3, <4>1 DEF RowOffset, KRowAlignment
    <3>5. RowOffset(q, e + 1) \in Nat /\ RowOffset(p, e) + Align(n, KRowAlignment) \in Nat /\ limit \in Nat
      <4>1. e \in Nat /\ e + 1 \in Nat
        BY <1>0
      <4>2. RowOffset(q, e + 1) \in Nat /\ RowOffset(p, e) \in Nat
        BY <4>1, RowOffsetFacts
      <4>3. Align(n, KRowAlignment) \in Nat
        BY <2>4 DEF KRowAlignment
      <4>4. limit \in Nat
        BY <1>0, RowOffsetFacts
      <4>. QED  BY <4>2, <4>3, <4>4
    <3>6. RowOffset(p, e) + Align(n, KRowAlignment) <= limit
      BY <2>6, <3>4, <3>5
    <3>. QED  BY <2>3, <2>8, <3>6, SMTT(30)
  <2>. QED  BY <2>7, <2>8
<1>. QED  BY <1>1 DEF ScaleRowsApart

\* Flags and tokens of a view, counted in M blocks of 16 rows.
LEMMA PoolFits ==
  ASSUME NEW s, Sized(s), Valid(s), NEW tokens \in Nat, s.experts * s.capacity * 4 <= tokens
  PROVE  PoolBlocks(s) <= tokens \div 64
<1>0. /\ R \in Nat /\ s.capacity \in Nat /\ s.capacity % 16 = 0 /\ s.experts \in Nat
      /\ Groups(s) \in Nat /\ Groups(s) * R = s.experts
  BY WorldSizes, WholeGroups DEF Sized, Valid, KTokenAlignment
<1>1. PICK c \in Nat : s.capacity = 16 * c
  <2>1. s.capacity = 16 * (s.capacity \div 16) /\ s.capacity \div 16 \in Nat
    BY <1>0
  <2>. QED  BY <2>1
<1>2. PICK k \in Nat : k = R * c /\ R * s.capacity = 16 * k
  <2>1. R * c \in Nat /\ R * (16 * c) = 16 * (R * c)
    BY <1>0
  <2>. QED  BY <1>1, <2>1
<1>3. DivCeil(R * s.capacity, 16) = k
  BY <1>2 DEF DivCeil
<1>4. PICK x \in Nat : x = s.experts * c /\ Groups(s) * k = x /\ s.experts * s.capacity * 4 = 64 * x
  <2>1. s.experts * c \in Nat
    BY <1>0
  <2>2. Groups(s) * (R * c) = (Groups(s) * R) * c
    BY <1>0
  <2>3. s.experts * (16 * c) * 4 = 64 * (s.experts * c)
    BY <1>0
  <2>. QED  BY <1>0, <1>1, <1>2, <2>1, <2>2, <2>3
<1>5. PoolBlocks(s) = x
  BY <1>3, <1>4 DEF PoolBlocks
<1>6. 64 * x <= tokens
  BY <1>4
<1>. QED  BY <1>5, <1>6

\* The rows that fit local_sfa.
LEMMA LimitOf ==
  ASSUME NEW s, Sized(s), Valid(s)
  PROVE  (RowOffset(Compact(s), Groups(s)) * (s.hidden \div 64) * 2) \div ((s.hidden \div 64) * 2)
           = RowOffset(Compact(s), Groups(s))
<1>1. PICK x \in Nat : x = RowOffset(Compact(s), Groups(s))
  BY Parts, RowOffsetFacts
<1>2. PICK y \in Nat : y = s.hidden \div 64 /\ y > 0
  BY DEF Sized, Valid
<1>3. PICK n \in Nat : n = y * 2 /\ n > 0
  BY <1>2
<1>4. x * y * 2 = x * n + 0
  BY <1>3
<1>5. (x * n + 0) \div n = x
  BY <1>3, Remainder
<1>. QED  BY <1>1, <1>2, <1>3, <1>4, <1>5

\* The kernels' highest indices are within their regions.
THEOREM AlwaysIndicesFit == LayoutSpec => []IndicesFit
<1>1. LayoutInv => IndicesFit
  <2>0. SUFFICES ASSUME LayoutInv, NEW s \in DOMAIN views
        PROVE  /\ R * s.capacity * (s.hidden \div 64) * 2 <= views[s]["staging_scales0"].bytes
               /\ Groups(s) * R * 4 <= views[s]["staging_counts0"].bytes
               /\ Groups(s) * R * s.capacity * 4 <= views[s]["staging_tokens0"].bytes
               /\ PoolBlocks(s) * 4 <= views[s]["copy_ready"].bytes
               /\ ScaleRowsApart(s, views[s]["local_sfa"].bytes \div ((s.hidden \div 64) * 2))
    BY DEF IndicesFit
  <2>1. PICK owned : owned = ForShape(owner) /\ Staged(owned)
    BY <2>0, StagingSized DEF LayoutInv
  <2>2. /\ views[s] = Layout(s, owned) /\ Sized(s) /\ Valid(s)
        /\ ForShape(s).scales <= owned.scales /\ ForShape(s).counts <= owned.counts
        /\ ForShape(s).tokens <= owned.tokens
    BY <2>0, <2>1 DEF LayoutInv, IsView, FitsStaging
  <2>3. /\ views[s]["staging_scales0"].bytes = owned.scales
        /\ views[s]["staging_counts0"].bytes = owned.counts
        /\ views[s]["staging_tokens0"].bytes = owned.tokens
        /\ views[s]["copy_ready"].bytes = CopyReady(s, owned)
        /\ views[s]["local_sfa"].bytes = RowOffset(Compact(s), Groups(s)) * (s.hidden \div 64) * 2
    BY <2>1, <2>2, StagingBytes
  <2>4. PICK a \in Nat, b \in Nat, c \in Nat :
          /\ a = R * s.capacity * (s.hidden \div 64) * 2
          /\ b = s.experts * 4
          /\ c = s.experts * s.capacity * 4
    <3>1. /\ {s.experts, s.capacity, s.hidden} \subseteq Nat
          /\ R * s.capacity \in Nat /\ s.hidden \div 64 \in Nat
      BY <2>2, Parts DEF Sized
    <3>. QED  BY <3>1, Times
  <2>5. /\ owned.scales \in Nat /\ owned.counts \in Nat /\ owned.tokens \in Nat
    BY <2>1 DEF Staged
  <2>6. a <= owned.scales /\ b <= owned.counts /\ c <= owned.tokens
    <3>1. /\ Align(a, 256) \in Nat /\ Align(a, 256) >= a /\ Align(b, 256) \in Nat
          /\ Align(b, 256) >= b /\ Align(c, 256) \in Nat /\ Align(c, 256) >= c
      BY AlignFacts DEF Alignments
    <3>2. /\ ForShape(s).scales = Align(a, 256) /\ ForShape(s).counts = Align(b, 256)
          /\ ForShape(s).tokens = Align(c, 256)
      BY <2>4 DEF ForShape
    <3>. QED  BY <2>2, <2>5, <3>1, <3>2
  <2>7. Groups(s) * R = s.experts
    BY <2>2, WholeGroups
  <2>8. PoolBlocks(s) * 4 <= CopyReady(s, owned)
    <3>1. PoolBlocks(s) <= owned.tokens \div 64
      BY <2>2, <2>4, <2>5, <2>6, PoolFits
    <3>2. PoolBlocks(s) \in Nat
      BY <2>2, Parts
    <3>. QED  BY <2>5, <3>1, <3>2 DEF CopyReady
  <2>9. ScaleRowsApart(s, views[s]["local_sfa"].bytes \div ((s.hidden \div 64) * 2))
    <3>1. views[s]["local_sfa"].bytes \div ((s.hidden \div 64) * 2) = RowOffset(Compact(s), Groups(s))
      BY <2>2, <2>3, LimitOf
    <3>. QED  BY <2>2, <3>1, RowsApart
  <2>. QED  BY <2>3, <2>4, <2>6, <2>7, <2>8, <2>9
<1>. QED  BY <1>1, Invariance, PTL

-----------------------------------------------------------------------------
(* Kernels that have not finished, and what they wait for. *)

\* The numbers of the kernels of a stream, the next of it, and what each one is.
Slots(s) == finished[s] + 1 .. finished[s] + Len(queue[s])
Free(s) == finished[s] + Len(queue[s]) + 1
Item(s, n) == queue[s][n - finished[s]]

\* What is to be waited for before kernel n of s, which may be the next one.
Waits(s, n) == IF n = Free(s) THEN pendingOn[s] ELSE Item(s, n).after

\* Kernel n of s cannot start before kernel m of u has finished: it or a kernel
\* before it waits for that.
Covers(s, n, u, m) ==
  \E k \in Slots(s) \cup {Free(s)} : k <= n /\ \E w \in Waits(s, k) : w[1] = u /\ w[2] >= m

\* A decoder may wait for a core by way of the caller stream.
Reaches(n, m) ==
  \/ Covers("decode", n, "compute", m)
  \/ \E k \in Slots("caller") : Covers("decode", n, "caller", k) /\ Covers("caller", k, "compute", m)

Caller(n) == Item("caller", n)
Core(m) == Item("compute", m)
Decoder(d) == Item("decode", d)

\* Parts in the order of their calls.
Of(c, i) == [of |-> c, part |-> i]
Same(x, y) == x.of = y.of /\ x.part = y.part
Before(x, y) == x.of < y.of \/ (x.of = y.of /\ x.part < y.part)

\* Kernels of the caller stream that write to tiles or rows.
Disturbers == {n \in Slots("caller") : Caller(n).reuses \/ Caller(n).do = "gather"}
Gathers(n, c) == Caller(n).do = "gather" /\ Caller(n).of = c

Decoding(x) == \E d \in Slots("decode") : Same(Decoder(d), x)

-----------------------------------------------------------------------------
(* The invariant. *)

\* How far the submission is, and the part that comes next in it.
Phase == IF submitter = Nobody THEN "free" ELSE stage[submitter]
Coming == IF submitter = Nobody THEN 0 ELSE part[submitter]
Forked == Phase \in {"multiplies", "joins"} \/ (Phase = "decodes" /\ Coming > 0)
Unforked == Phase \in {"free", "prepares", "unwinds", "returns"} \/ (Phase = "decodes" /\ Coming = 0)
Submits == {"prepares", "decodes", "multiplies", "joins", "returns", "drains", "unwinds"}

Marks == SUBSET (Streams \X Nat)
Kernels == [do : {"gather", "decode", "core", "use"}, of : Nat, part : Nat, reuses : BOOLEAN, after : Marks]

TypeOK ==
  /\ made \in 0 .. MaxStreamed
  /\ plan \in [1 .. MaxStreamed -> [parts : Nat, gather : {"none", "chunk", "full"}]]
  /\ number \in [HostThreads -> 0 .. made] /\ part \in [HostThreads -> Nat]
  /\ stage \in [HostThreads -> Submits \cup {"idle", "returned", "threw"}]
  /\ queue \in [Streams -> Seq(Kernels)] /\ finished \in [Streams -> Nat]
  /\ running \subseteq Streams
  /\ pendingOn \in [Streams -> Marks] /\ consumed \in [DOMAIN consumed -> Marks]
  /\ tile \in [{0, 1} -> Nat \X Nat]
  /\ output \in [1 .. MaxStreamed -> SUBSET Nat]
  /\ \A c \in 1 .. MaxStreamed :
       IF c <= made THEN plan[c].parts > 0 /\ output[c] \subseteq 0 .. plan[c].parts - 1 ELSE output[c] = {}

\* One thread submits, the last call.
Submitter ==
  /\ \A t \in HostThreads : stage[t] \in Submits => t = submitter
  /\ \A t \in HostThreads : stage[t] = "returned" => number[t] > 0
  /\ submitter # Nobody =>
       /\ submitter \in HostThreads /\ stage[submitter] \in Submits
       /\ number[submitter] = made /\ made > 0
       /\ Coming <= plan[made].parts
       /\ Phase \in {"prepares", "unwinds"} => Coming = 0
       /\ Phase \in {"decodes", "multiplies"} => Coming < plan[made].parts
       /\ Phase \in {"joins", "returns"} => Coming = plan[made].parts

\* What may be on a stream.
OfCall(x) == x.of \in 1 .. made /\ x.part \in 0 .. plan[x.of].parts - 1 /\ ~x.reuses
Kinds ==
  /\ \A d \in Slots("decode") : Decoder(d).do = "decode" /\ OfCall(Decoder(d))
  /\ \A m \in Slots("compute") : Core(m).do = "core" /\ OfCall(Core(m))
  /\ \A n \in Slots("caller") :
       /\ Caller(n).do \in {"gather", "use"} /\ Caller(n).of \in 0 .. made
       /\ Caller(n).do = "gather" => Caller(n).of > 0 /\ plan[Caller(n).of].gather = "full"

\* What runs need not wait.
Ready(s, h) == h = finished[s] + 1 /\ h \in Slots(s) /\ \A w \in Item(s, h).after : finished[w[1]] >= w[2]
HeadsReady == \A s \in running : \E h \in Slots(s) : Ready(s, h)

\* Internal streams hold parts in order, of the last call only those submitted.
InOrder == \A s \in {"decode", "compute"} : \A n, l \in Slots(s) : n < l => Before(Item(s, n), Item(s, l))
UpToComing ==
  Phase # "free" =>
    /\ \A m \in Slots("compute") : Core(m).of = made => Core(m).part < Coming
    /\ \A d \in Slots("decode") :
         Decoder(d).of = made =>
           Decoder(d).part < Coming \/ (Decoder(d).part = Coming /\ Phase \in {"multiplies", "drains"})

\* A core waits for its decoder and those before; a decoder for the cores of other
\* calls, and for the one before the last of its own.
CoreWaits ==
  \A m \in Slots("compute"), d \in Slots("decode") :
    ~Before(Core(m), Decoder(d)) => Covers("compute", m, "decode", d)
DecoderWaits ==
  \A d \in Slots("decode"), m \in Slots("compute") :
    /\ Core(m).of < Decoder(d).of => Reaches(d, m)
    /\ Core(m).of = Decoder(d).of /\ Core(m).part + 2 <= Decoder(d).part => Covers("decode", d, "compute", m)
\* So will the next ones.
NextWaits ==
  /\ Phase = "multiplies" => \A d \in Slots("decode") : Covers("compute", Free("compute"), "decode", d)
  /\ Forked => \A m \in Slots("compute") : Core(m).of < made => Reaches(Free("decode"), m)
\* What the events of a call stand for.
Recorded ==
  Phase # "free" =>
    \A j \in 0 .. Coming - 1 :
      /\ j \in DOMAIN consumed
      /\ \A m \in Slots("compute") :
           Core(m).of < made \/ Core(m).part <= j => \E w \in consumed[j] : w[1] = "compute" /\ w[2] >= m
\* Before a fork and after a join the caller stream waits for all cores.
Joined == Unforked => \A m \in Slots("compute") : Covers("caller", Free("caller"), "compute", m)

\* Every decoder queued has its core behind it, but for the last of a submission.
HasCore(d) == \E m \in Slots("compute") : Same(Core(m), Decoder(d))
Followed ==
  \A d \in Slots("decode") :
    HasCore(d) \/ (Phase \in {"multiplies", "drains"} /\ Same(Decoder(d), Of(made, Coming)))

\* A disturber comes after the core that needs tile and rows, or before its decoder.
CoreCovered(n, d) == \E m \in Slots("compute") : Same(Core(m), Decoder(d)) /\ Covers("caller", n, "compute", m)
DecoderWaitsFor(x, n) == \E d \in Slots("decode") : Same(Decoder(d), x) /\ Covers("decode", d, "caller", n)
GatheredLater(c, n) == plan[c].gather = "full" => \E g \in Slots("caller") : g >= n /\ Gathers(g, c)
DecodersApart ==
  \A n \in Disturbers, d \in Slots("decode") :
    /\ Covers("decode", d, "caller", n) \/ CoreCovered(n, d)
    /\ Caller(n).do = "gather" /\ Decoder(d).of < Caller(n).of => CoreCovered(n, d)
CoresApart ==
  \A n \in Disturbers, m \in Slots("compute") :
    \/ Covers("caller", n, "compute", m) /\ ~Gathers(n, Core(m).of)
    \/ /\ Covers("compute", m, "caller", n)
       /\ DecoderWaitsFor(Core(m), n) /\ GatheredLater(Core(m).of, n)
\* Disturbers come before what will still be submitted.
NextApart ==
  /\ Forked => \A n \in Disturbers :
       Covers("compute", Free("compute"), "caller", n) /\ Covers("decode", Free("decode"), "caller", n)
  /\ Phase = "multiplies" => \A n \in Disturbers : DecoderWaitsFor(Of(made, Coming), n)

\* Once its decoder is gone the tile is what a core needs, and so are the rows.
TileHolds(x) ==
  Decoding(x) \/ (tile[x.part % 2] = <<x.of, x.part>> /\ \A d \in Slots("decode") : Before(x, Decoder(d)))
ChunkHolds(x) ==
  plan[x.of].gather = "chunk" => Decoding(x) \/ (rows[1] = x.of /\ x.part \in rows[2])
FullHolds(c) ==
  plan[c].gather = "full" =>
    \/ \E g \in Slots("caller") : Gathers(g, c)
    \/ rows = <<c, 0 .. plan[c].parts - 1>> /\ \A d \in Slots("decode") : Decoder(d).of >= c
CoresHold == \A m \in Slots("compute") : TileHolds(Core(m)) /\ ChunkHolds(Core(m)) /\ FullHolds(Core(m).of)
NextHolds == Phase = "multiplies" => TileHolds(Of(made, Coming)) /\ ChunkHolds(Of(made, Coming))
\* The rows of a submission: gathered, or to be gathered by the last disturber.
RowsComing ==
  Phase \in {"decodes", "multiplies"} /\ plan[made].gather = "full" =>
    \/ \E g \in Slots("caller") : Gathers(g, made) /\ \A n \in Disturbers : n <= g
    \/ /\ rows = <<made, 0 .. plan[made].parts - 1>> /\ Disturbers = {}
       /\ \A d \in Slots("decode") : Decoder(d).of = made

\* What of a call is not yet stored will be when the caller's kernel n starts.
StoredBy(c, n) ==
  \A i \in 0 .. plan[c].parts - 1 :
    i \in output[c] \/ \E m \in Slots("compute") : Same(Core(m), Of(c, i)) /\ Covers("caller", n, "compute", m)
UsesStored == \A n \in Slots("caller") : Caller(n).do = "use" /\ Caller(n).of > 0 => StoredBy(Caller(n).of, n)
CallsStored == \A t \in HostThreads : stage[t] \in {"returns", "returned"} => StoredBy(number[t], Free("caller"))
PartsStored ==
  Phase # "free" => \A i \in 0 .. Coming - 1 :
    i \in output[made] \/ \E m \in Slots("compute") : Same(Core(m), Of(made, i))

OnStreams ==
  /\ Kinds /\ HeadsReady /\ InOrder /\ CoreWaits /\ DecoderWaits /\ DecodersApart /\ CoresApart
  /\ CoresHold /\ UsesStored
OfSubmission ==
  /\ Submitter /\ UpToComing /\ NextWaits /\ Recorded /\ Joined /\ Followed /\ NextApart
  /\ NextHolds /\ RowsComing /\ CallsStored /\ PartsStored
StreamsInv == TypeOK /\ OnStreams /\ OfSubmission

-----------------------------------------------------------------------------
(* What a step does to the numbers of kernels and to their waits. *)

\* The waits of what is still to run are kept.
Keeps ==
  /\ \A s \in Streams : \A n \in Slots(s) : n \in Slots(s)' => Item(s, n)' = Item(s, n)
  /\ \A s \in Streams, u \in Streams : \A n \in Slots(s) : \A m \in Slots(u) :
       n \in Slots(s)' /\ m \in Slots(u)' /\ Covers(s, n, u, m) => Covers(s, n, u, m)'
  /\ \A s \in Streams, u \in Streams : \A m \in Slots(u) :
       m \in Slots(u)' /\ Covers(s, Free(s), u, m) => Covers(s, Free(s), u, m)'

LEMMA StreamNames ==
  /\ "caller" \in Streams /\ "compute" \in Streams /\ "decode" \in Streams
  /\ "caller" # "compute" /\ "caller" # "decode" /\ "compute" # "decode"
BY DEF Streams

LEMMA MadeType == TypeOK => made \in Nat /\ made <= MaxStreamed /\ MaxStreamed \in Nat
BY StreamedAssumption DEF TypeOK

LEMMA QueueType ==
  ASSUME TypeOK, NEW s \in Streams
  PROVE  finished[s] \in Nat /\ queue[s] \in Seq(Kernels) /\ Len(queue[s]) \in Nat
<1>1. queue \in [Streams -> Seq(Kernels)] /\ finished \in [Streams -> Nat]
  BY DEF TypeOK
<1>2. finished[s] \in Nat /\ queue[s] \in Seq(Kernels)
  BY <1>1
<1>. QED  BY <1>2

LEMMA SlotsFree ==
  ASSUME TypeOK, NEW s \in Streams
  PROVE  /\ Free(s) \in Nat \ {0} /\ Free(s) \notin Slots(s) /\ Slots(s) \subseteq Nat \ {0}
         /\ \A n \in Slots(s) : n < Free(s) /\ Item(s, n) \in Kernels
<1>1. PICK f \in Nat, l \in Nat, q \in Seq(Kernels) : f = finished[s] /\ q = queue[s] /\ l = Len(q)
  BY QueueType
<1>2. ASSUME NEW n \in f + 1 .. f + l  PROVE q[n - f] \in Kernels
  <2>1. n - f \in 1 .. Len(q)
    BY <1>1
  <2>. QED  BY <1>1, <2>1
<1>. QED  BY <1>1, <1>2 DEF Slots, Free, Item

\* A kernel is queued that waits for all that its stream waits for.
LEMMA LaunchFrame ==
  ASSUME TypeOK, NEW s \in Streams, NEW x \in Kernels, Enqueue(s, x), finished' = finished,
         pendingOn' \in [Streams -> Marks], pendingOn[s] \subseteq x.after,
         \A u \in Streams \ {s} : pendingOn[u] \subseteq pendingOn'[u],
         NEW f, f = Free(s)
  PROVE  /\ Keeps
         /\ Slots(s)' = Slots(s) \cup {f} /\ Item(s, f)' = x /\ f \notin Slots(s)
         /\ \A n \in Slots(s) : n < f
         /\ \A u \in Streams \ {s} : Slots(u)' = Slots(u)
         /\ \A u \in Streams : \A m \in Slots(u) : Covers(s, f, u, m) => Covers(s, f, u, m)'
         /\ \A w \in x.after, m \in Nat : w[2] >= m => Covers(s, f, w[1], m)'
         /\ \A u \in Streams \ {s} : \A w \in pendingOn'[u], m \in Nat : w[2] >= m => Covers(u, Free(u), w[1], m)'
         /\ \A u, m : Covers(s, f, u, m)' => Covers(s, Free(s), u, m)'
<1>1. PICK a \in Nat, l \in Nat, q \in Seq(Kernels) : a = finished[s] /\ q = queue[s] /\ l = Len(q)
  BY QueueType
<1>2. /\ queue'[s] = Append(q, x) /\ \A u \in Streams \ {s} : queue'[u] = queue[u]
      /\ Len(Append(q, x)) = l + 1 /\ \A i \in 1 .. l : Append(q, x)[i] = q[i]
      /\ Append(q, x)[l + 1] = x
  BY <1>1 DEF Enqueue, TypeOK
<1>3. f = a + l + 1 /\ f \in Nat /\ f - a = l + 1
  BY <1>1 DEF Free
<1>4. Slots(s) = a + 1 .. a + l /\ Slots(s)' = a + 1 .. a + l + 1 /\ Free(s)' = a + l + 2
  <2>1. finished'[s] = a /\ Len(queue'[s]) = l + 1 /\ finished[s] = a /\ Len(queue[s]) = l
    BY <1>1, <1>2
  <2>2. Slots(s) = a + 1 .. a + l
    BY <2>1 DEF Slots
  <2>3. Slots(s)' = a + 1 .. a + (l + 1) /\ a + (l + 1) = a + l + 1
    BY <2>1 DEF Slots
  <2>4. Free(s)' = a + (l + 1) + 1 /\ a + (l + 1) + 1 = a + l + 2
    BY <2>1 DEF Free
  <2>. QED  BY <2>2, <2>3, <2>4
<1>5. Item(s, f)' = x
  BY <1>1, <1>2, <1>3 DEF Item
<1>6. \A n \in Slots(s) : Item(s, n)' = Item(s, n)
  <2>1. ASSUME NEW n \in a + 1 .. a + l  PROVE Append(q, x)[n - a] = q[n - a]
    <3>1. n - a \in 1 .. l
      OBVIOUS
    <3>. QED  BY <1>2, <3>1
  <2>. QED  BY <1>1, <1>2, <1>4, <2>1 DEF Item
<1>7. \A u \in Streams \ {s} : /\ Slots(u)' = Slots(u) /\ Free(u)' = Free(u)
                               /\ \A n \in Slots(u) : Item(u, n)' = Item(u, n)
  BY <1>2 DEF Slots, Free, Item
<1>8. Slots(s)' = Slots(s) \cup {f} /\ f \notin Slots(s) /\ \A n \in Slots(s) : n < f
  BY <1>3, <1>4
<1>9. \A u \in Streams : \A n \in Slots(u) : n \in Slots(u)' /\ Item(u, n)' = Item(u, n)
  BY <1>6, <1>7, <1>8
<1>10. ASSUME NEW u \in Streams, NEW n \in Slots(u)
       PROVE  Waits(u, n)' = Waits(u, n)
  <2>1. n # Free(u) /\ n # Free(u)'
    <3>1. CASE u = s
      BY <1>3, <1>4, <3>1 DEF Free
    <3>2. CASE u # s
      BY <1>7, <3>2, SlotsFree
    <3>. QED  BY <3>1, <3>2
  <2>. QED  BY <1>9, <2>1 DEF Waits
<1>11. Waits(s, f)' = x.after /\ Waits(s, f) = pendingOn[s]
  <2>1. f # Free(s)'
    BY <1>3, <1>4
  <2>. QED  BY <1>5, <2>1 DEF Waits
<1>12. \A u \in Streams \ {s} : Waits(u, Free(u))' = pendingOn'[u] /\ Waits(u, Free(u)) = pendingOn[u]
  BY DEF Waits
\* A slot that covers still does.
<1>13. ASSUME NEW u \in Streams, NEW k \in Slots(u) \cup {Free(u)}
       PROVE  k \in (Slots(u) \cup {Free(u)})' /\ Waits(u, k) \subseteq Waits(u, k)'
  <2>1. CASE k \in Slots(u)
    BY <1>9, <1>10, <2>1
  <2>2. CASE k = Free(u) /\ u = s
    BY <1>8, <1>11, <2>2
  <2>3. CASE k = Free(u) /\ u # s
    BY <1>7, <1>12, <2>3
  <2>. QED  BY <2>1, <2>2, <2>3
<1>14. ASSUME NEW u \in Streams, NEW v \in Streams, NEW n \in Int, NEW r \in Int, n <= r, NEW m, Covers(u, n, v, m)
       PROVE  Covers(u, r, v, m)'
  <2>1. PICK k \in Slots(u) \cup {Free(u)} : k <= n /\ \E w \in Waits(u, k) : w[1] = v /\ w[2] >= m
    BY <1>14 DEF Covers
  <2>2. k \in Int
    BY SlotsFree
  <2>3. k <= r
    BY <1>14, <2>1, <2>2
  <2>4. k \in (Slots(u) \cup {Free(u)})' /\ \E w \in Waits(u, k)' : w[1] = v /\ w[2] >= m
    BY <1>13, <2>1
  <2>. QED  BY <2>3, <2>4 DEF Covers
<1>15. \A u \in Streams : Free(u)' \in Int /\ Free(u) <= Free(u)' /\ Free(u) \in Int
  <2>1. ASSUME NEW u \in Streams  PROVE Free(u) \in Int
    BY SlotsFree
  <2>2. ASSUME NEW u \in Streams  PROVE Free(u)' \in Int /\ Free(u) <= Free(u)'
    <3>1. CASE u = s
      <4>1. Free(s)' \in Int /\ Free(s) <= Free(s)'
        BY <1>3, <1>4
      <4>. QED  BY <3>1, <4>1
    <3>2. CASE u # s
      BY <1>7, <2>1, <3>2
    <3>. QED  BY <3>1, <3>2
  <2>. QED  BY <2>1, <2>2
<1>16. Keeps
  <2>1. \A u \in Streams : \A n \in Slots(u) : n \in Int /\ n <= n
    BY SlotsFree
  <2>. QED  BY <1>9, <1>14, <1>15, <2>1 DEF Keeps
<1>17. \A u \in Streams : \A m \in Slots(u) : Covers(s, f, u, m) => Covers(s, f, u, m)'
  BY <1>3, <1>14
<1>18. ASSUME NEW w \in x.after, NEW m \in Nat, w[2] >= m
       PROVE  Covers(s, f, w[1], m)'
  <2>1. f \in Slots(s)' /\ f <= f
    BY <1>3, <1>8
  <2>. QED  BY <1>11, <1>18, <2>1 DEF Covers
<1>19. ASSUME NEW u \in Streams \ {s}, NEW w \in pendingOn'[u], NEW m \in Nat, w[2] >= m
       PROVE  Covers(u, Free(u), w[1], m)'
  <2>1. Free(u)' <= Free(u)'
    BY <1>15
  <2>. QED  BY <1>12, <1>19, <2>1 DEF Covers
<1>20. ASSUME NEW u, NEW m, Covers(s, f, u, m)'
       PROVE  Covers(s, Free(s), u, m)'
  <2>1. PICK k \in (Slots(s) \cup {Free(s)})' : k <= f /\ \E w \in Waits(s, k)' : w[1] = u /\ w[2] >= m
    BY <1>20 DEF Covers
  <2>2. k <= Free(s)'
    BY <1>3, <1>4, <2>1
  <2>. QED  BY <2>1, <2>2 DEF Covers
<1>. QED  BY <1>5, <1>7, <1>8, <1>16, <1>17, <1>18, <1>19, <1>20

\* A kernel that may start covers nothing that has not finished.
LEMMA HeadCovers ==
  ASSUME TypeOK, NEW s \in Streams, NEW h, Ready(s, h),
         NEW u \in Streams, NEW m \in Slots(u)
  PROVE  ~Covers(s, h, u, m)
<1>. USE DEF Ready
<1>1. SUFFICES ASSUME Covers(s, h, u, m)  PROVE FALSE
  OBVIOUS
<1>2. PICK k \in Slots(s) \cup {Free(s)} : \E w \in Waits(s, k) : k <= h /\ w[1] = u /\ w[2] >= m
  BY <1>1 DEF Covers
<1>9. PICK w \in Waits(s, k) : k <= h /\ w[1] = u /\ w[2] >= m
  BY <1>2
<1>3. finished[s] \in Nat /\ Len(queue[s]) \in Nat /\ finished[u] \in Nat /\ Len(queue[u]) \in Nat
  BY QueueType
<1>4. k = h
  BY <1>9, <1>3 DEF Slots, Free
<1>5. w \in Item(s, h).after
  BY <1>9, <1>4, SlotsFree DEF Waits
<1>6. w \in Streams \X Nat
  <2>1. Item(s, h).after \in Marks
    BY SlotsFree DEF Kernels
  <2>. QED  BY <1>5, <2>1 DEF Marks
<1>7. finished[u] >= w[2] /\ w[2] \in Nat
  BY <1>5, <1>6, <1>9
<1>8. m \in Int /\ m > finished[u]
  BY <1>3 DEF Slots
<1>. QED  BY <1>3, <1>7, <1>8, <1>9

\* The first kernel of a stream finishes.
LEMMA PopFrame ==
  ASSUME TypeOK, NEW s \in Streams, NEW h, Ready(s, h),
         queue' = [queue EXCEPT ![s] = Tail(@)], finished' = [finished EXCEPT ![s] = @ + 1],
         pendingOn' = pendingOn
  PROVE  /\ Keeps
         /\ Slots(s)' = Slots(s) \ {h} /\ \A n \in Slots(s) : h <= n
         /\ \A u \in Streams \ {s} : Slots(u)' = Slots(u)
<1>. USE DEF Ready
<1>1. PICK a \in Nat, l \in Nat, q \in Seq(Kernels) : a = finished[s] /\ q = queue[s] /\ l = Len(q)
  BY QueueType
<1>2. l > 0 /\ h = a + 1
  BY <1>1 DEF Slots
<1>3. /\ queue'[s] = Tail(q) /\ finished'[s] = a + 1 /\ Len(Tail(q)) = l - 1
      /\ \A u \in Streams \ {s} : queue'[u] = queue[u] /\ finished'[u] = finished[u]
      /\ \A i \in 1 .. l - 1 : Tail(q)[i] = q[i + 1]
  <2>1. queue'[s] = Tail(q) /\ finished'[s] = a + 1
    BY <1>1 DEF TypeOK
  <2>2. \A u \in Streams \ {s} : queue'[u] = queue[u] /\ finished'[u] = finished[u]
    BY DEF TypeOK
  <2>3. q # << >>
    BY <1>1, <1>2
  <2>4. Len(Tail(q)) = l - 1 /\ \A i \in 1 .. l - 1 : Tail(q)[i] = q[i + 1]
    BY <1>1, <2>3
  <2>. QED  BY <2>1, <2>2, <2>4
<1>4. /\ Slots(s) = a + 1 .. a + l /\ Slots(s)' = a + 2 .. a + l
      /\ Free(s) = a + l + 1 /\ Free(s)' = a + l + 1
  <2>1. Slots(s) = a + 1 .. a + l /\ Free(s) = a + l + 1
    BY <1>1 DEF Slots, Free
  <2>2. Slots(s)' = (a + 1) + 1 .. (a + 1) + (l - 1) /\ Free(s)' = (a + 1) + (l - 1) + 1
    BY <1>3 DEF Slots, Free
  <2>. QED  BY <2>1, <2>2
<1>5. ASSUME NEW n \in a + 2 .. a + l  PROVE Item(s, n)' = Item(s, n)
  <2>1. n - (a + 1) \in 1 .. l - 1 /\ (n - (a + 1)) + 1 = n - a
    OBVIOUS
  <2>2. Tail(q)[n - (a + 1)] = q[n - a]
    BY <1>3, <2>1
  <2>. QED  BY <1>1, <1>3, <2>2 DEF Item
<1>6. \A u \in Streams \ {s} : /\ Slots(u)' = Slots(u) /\ Free(u)' = Free(u)
                               /\ \A n \in Slots(u) : Item(u, n)' = Item(u, n)
  BY <1>3 DEF Slots, Free, Item
<1>7. \A u \in Streams : \A n \in Slots(u) : n \in Slots(u)' => Item(u, n)' = Item(u, n)
  BY <1>4, <1>5, <1>6
<1>8. Slots(s)' = Slots(s) \ {h} /\ \A n \in Slots(s) : h <= n
  BY <1>2, <1>4
<1>9. \A u \in Streams : Free(u)' = Free(u) /\ Free(u) \notin Slots(u)' /\ Slots(u)' \subseteq Slots(u)
  <2>1. Free(s)' = Free(s) /\ Free(s) \notin Slots(s)' /\ Slots(s)' \subseteq Slots(s)
    BY <1>4, <1>8
  <2>2. ASSUME NEW u \in Streams \ {s}
        PROVE  Free(u)' = Free(u) /\ Free(u) \notin Slots(u)' /\ Slots(u)' \subseteq Slots(u)
    BY <1>6, SlotsFree
  <2>. QED  BY <2>1, <2>2
<1>10. ASSUME NEW u \in Streams, NEW k \in Slots(u) \cup {Free(u)}, k # h \/ u # s
       PROVE  k \in (Slots(u) \cup {Free(u)})' /\ Waits(u, k)' = Waits(u, k)
  <2>1. k \in Slots(u)' \cup {Free(u)}
    BY <1>6, <1>8, <1>10
  <2>2. CASE k = Free(u)
    BY <1>9, <2>2 DEF Waits
  <2>3. CASE k \in Slots(u)'
    BY <1>7, <1>9, <2>3 DEF Waits
  <2>. QED  BY <1>9, <2>1, <2>2, <2>3
<1>11. ASSUME NEW u \in Streams, NEW v \in Streams, NEW n, NEW m \in Slots(v), Covers(u, n, v, m)
       PROVE  Covers(u, n, v, m)'
  <2>1. PICK k \in Slots(u) \cup {Free(u)} : k <= n /\ \E w \in Waits(u, k) : w[1] = v /\ w[2] >= m
    BY <1>11 DEF Covers
  <2>2. k # h \/ u # s
    <3>1. SUFFICES ASSUME k = h, u = s  PROVE FALSE
      OBVIOUS
    <3>2. k <= h
      BY <1>2, <3>1
    <3>3. Covers(s, h, v, m)
      BY <2>1, <3>1, <3>2 DEF Covers
    <3>. QED  BY <3>3, HeadCovers
  <2>3. k \in (Slots(u) \cup {Free(u)})' /\ Waits(u, k)' = Waits(u, k)
    BY <1>10, <2>2
  <2>. QED  BY <2>1, <2>3 DEF Covers
<1>12. Keeps
  BY <1>7, <1>9, <1>11 DEF Keeps
<1>. QED  BY <1>6, <1>8, <1>12

\* No kernel is queued or finishes, and streams wait for no less.
LEMMA IdleFrame ==
  ASSUME TypeOK, queue' = queue, finished' = finished, \A s \in Streams : pendingOn[s] \subseteq pendingOn'[s]
  PROVE  /\ Keeps
         /\ \A s \in Streams : Slots(s)' = Slots(s)
         /\ \A s \in Streams : \A w \in pendingOn'[s] : \A m \in Nat : w[2] >= m => Covers(s, Free(s), w[1], m)'
<1>1. ASSUME NEW s \in Streams
      PROVE  /\ Slots(s)' = Slots(s) /\ Free(s)' = Free(s) /\ \A n : Item(s, n)' = Item(s, n)
             /\ \A n : Waits(s, n) \subseteq Waits(s, n)'
  <2>1. Slots(s)' = Slots(s) /\ Free(s)' = Free(s) /\ \A n : Item(s, n)' = Item(s, n)
    BY DEF Slots, Free, Item
  <2>. QED  BY <2>1 DEF Waits
<1>2. ASSUME NEW s \in Streams, NEW u \in Streams, NEW n, NEW m, Covers(s, n, u, m)
      PROVE  Covers(s, n, u, m)'
  BY <1>1, <1>2 DEF Covers
<1>3. ASSUME NEW s \in Streams, NEW w \in pendingOn'[s], NEW m \in Nat, w[2] >= m
      PROVE  Covers(s, Free(s), w[1], m)'
  <2>1. Free(s)' \in Slots(s)' \cup {Free(s)'} /\ Waits(s, Free(s))' = pendingOn'[s] /\ Free(s)' <= Free(s)'
    BY <1>1, SlotsFree DEF Waits
  <2>. QED  BY <1>3, <2>1 DEF Covers
<1>. QED  BY <1>1, <1>2, <1>3 DEF Keeps

-----------------------------------------------------------------------------
(* Steps that leave the kernels alone. *)

LEMMA IdleFacts ==
  ASSUME TypeOK, queue' = queue, finished' = finished,
         \A s \in Streams : pendingOn[s] \subseteq pendingOn'[s]
  PROVE  /\ \A s \in Streams : Slots(s)' = Slots(s) /\ \A n \in Slots(s) : Item(s, n)' = Item(s, n)
         /\ \A s, u \in Streams : \A n \in Slots(s) : \A m \in Slots(u) : Covers(s, n, u, m) => Covers(s, n, u, m)'
         /\ \A s, u \in Streams : \A m \in Slots(u) : Covers(s, Free(s), u, m) => Covers(s, Free(s), u, m)'
         /\ Slots("decode")' = Slots("decode") /\ \A d \in Slots("decode") : Decoder(d)' = Decoder(d)
         /\ Slots("compute")' = Slots("compute") /\ \A m \in Slots("compute") : Core(m)' = Core(m)
         /\ Slots("caller")' = Slots("caller") /\ \A n \in Slots("caller") : Caller(n)' = Caller(n)
         /\ Disturbers' = Disturbers
         /\ \A n \in Slots("caller") : \A c : Gathers(n, c)' <=> Gathers(n, c)
         /\ \A x : Decoding(x)' <=> Decoding(x)
         /\ \A d \in Slots("decode") : HasCore(d)' <=> HasCore(d)
<1>1. /\ \A s \in Streams : Slots(s)' = Slots(s) /\ \A n \in Slots(s) : Item(s, n)' = Item(s, n)
      /\ \A s, u \in Streams : \A n \in Slots(s) : \A m \in Slots(u) : Covers(s, n, u, m) => Covers(s, n, u, m)'
      /\ \A s, u \in Streams : \A m \in Slots(u) : Covers(s, Free(s), u, m) => Covers(s, Free(s), u, m)'
  BY IdleFrame DEF Keeps
<1>2. /\ Slots("decode")' = Slots("decode") /\ \A d \in Slots("decode") : Decoder(d)' = Decoder(d)
      /\ Slots("compute")' = Slots("compute") /\ \A m \in Slots("compute") : Core(m)' = Core(m)
      /\ Slots("caller")' = Slots("caller") /\ \A n \in Slots("caller") : Caller(n)' = Caller(n)
  BY <1>1, StreamNames DEF Decoder, Core, Caller
<1>3. /\ Disturbers' = Disturbers
      /\ \A n \in Slots("caller") : \A c : Gathers(n, c)' <=> Gathers(n, c)
      /\ \A x : Decoding(x)' <=> Decoding(x)
  BY <1>2 DEF Disturbers, Gathers, Decoding
<1>4. \A d \in Slots("decode") : HasCore(d)' <=> HasCore(d)
  BY <1>2 DEF HasCore
<1>. QED  BY <1>1, <1>2, <1>3, <1>4

LEMMA IdleStreams ==
  ASSUME TypeOK, OnStreams, UNCHANGED <<queue, running, finished, tile, rows, output>>,
         \A s \in Streams : pendingOn[s] \subseteq pendingOn'[s],
         made' \in Nat, made <= made', \A c \in 1 .. made : plan'[c] = plan[c]
  PROVE  OnStreams'
<1>. /\ "caller" \in Streams /\ "compute" \in Streams /\ "decode" \in Streams
     /\ "caller" # "compute" /\ "caller" # "decode" /\ "compute" # "decode"
  BY StreamNames
<1>1. /\ \A s \in Streams : Slots(s)' = Slots(s) /\ \A n \in Slots(s) : Item(s, n)' = Item(s, n)
      /\ \A s, u \in Streams : \A n \in Slots(s) : \A m \in Slots(u) : Covers(s, n, u, m) => Covers(s, n, u, m)'
  BY IdleFacts
<1>2. /\ Slots("decode")' = Slots("decode") /\ \A d \in Slots("decode") : Decoder(d)' = Decoder(d)
      /\ Slots("compute")' = Slots("compute") /\ \A m \in Slots("compute") : Core(m)' = Core(m)
      /\ Slots("caller")' = Slots("caller") /\ \A n \in Slots("caller") : Caller(n)' = Caller(n)
  BY IdleFacts
<1>3. /\ Disturbers' = Disturbers
      /\ \A n \in Slots("caller") : \A c : Gathers(n, c)' <=> Gathers(n, c)
      /\ \A x : Decoding(x)' <=> Decoding(x)
  BY IdleFacts
<1>4. /\ \A d \in Slots("decode") : OfCall(Decoder(d))' /\ Decoder(d).of \in 1 .. made
      /\ \A m \in Slots("compute") : OfCall(Core(m))' /\ Core(m).of \in 1 .. made
  <2>1. ASSUME NEW x, OfCall(x)  PROVE x.of \in 1 .. made' /\ x.part \in 0 .. plan'[x.of].parts - 1 /\ ~x.reuses
    <3>1. x.of \in 1 .. made /\ x.part \in 0 .. plan[x.of].parts - 1 /\ ~x.reuses
      BY <2>1 DEF OfCall
    <3>2. x.of \in 1 .. made' /\ plan'[x.of] = plan[x.of]
      BY <3>1, MadeType
    <3>. QED  BY <3>1, <3>2
  <2>2. ASSUME NEW d \in Slots("decode")  PROVE OfCall(Decoder(d))' /\ Decoder(d).of \in 1 .. made
    BY <1>2, <2>1 DEF OnStreams, Kinds, OfCall
  <2>3. ASSUME NEW m \in Slots("compute")  PROVE OfCall(Core(m))' /\ Core(m).of \in 1 .. made
    BY <1>2, <2>1 DEF OnStreams, Kinds, OfCall
  <2>. QED  BY <2>2, <2>3
<1>5. Kinds'
  <2>1. ASSUME NEW n \in Slots("caller")
        PROVE  /\ Caller(n).do \in {"gather", "use"} /\ Caller(n).of \in 0 .. made'
               /\ Caller(n).do = "gather" => Caller(n).of > 0 /\ plan'[Caller(n).of].gather = "full"
    <3>1. made \in Nat
      BY StreamedAssumption DEF TypeOK
    <3>2. /\ Caller(n).do \in {"gather", "use"} /\ Caller(n).of \in 0 .. made
          /\ Caller(n).do = "gather" => Caller(n).of > 0 /\ plan[Caller(n).of].gather = "full"
      BY DEF OnStreams, Kinds
    <3>. QED  BY <3>1, <3>2
  <2>. QED  BY <1>2, <1>4, <2>1 DEF OnStreams, Kinds
<1>6. HeadsReady' /\ InOrder'
  <2>1. ASSUME NEW s \in running  PROVE \E h \in Slots(s)' : Ready(s, h)'
    <3>1. s \in Streams
      BY DEF TypeOK
    <3>2. PICK h \in Slots(s) : Ready(s, h)
      BY DEF OnStreams, HeadsReady
    <3>. QED  BY <1>1, <3>1, <3>2 DEF Ready
  <2>2. HeadsReady'
    BY <2>1 DEF HeadsReady
  <2>3. InOrder'
    BY <1>1 DEF OnStreams, InOrder
  <2>. QED  BY <2>2, <2>3
<1>7. CoreWaits' /\ DecoderWaits'
  BY <1>1, <1>2 DEF OnStreams, CoreWaits, DecoderWaits, Reaches
<1>8. DecodersApart'
  BY <1>1, <1>2, <1>3 DEF OnStreams, DecodersApart, CoreCovered, Disturbers
<1>9. CoresApart'
  BY <1>1, <1>2, <1>3, <1>4 DEF OnStreams, CoresApart, DecoderWaitsFor, GatheredLater, Disturbers
<1>10. CoresHold'
  <2>1. ASSUME NEW m \in Slots("compute")
        PROVE  TileHolds(Core(m))' /\ ChunkHolds(Core(m))' /\ FullHolds(Core(m).of)'
    <3>1. TileHolds(Core(m)) /\ ChunkHolds(Core(m)) /\ FullHolds(Core(m).of) /\ plan'[Core(m).of] = plan[Core(m).of]
      BY <1>4 DEF OnStreams, CoresHold
    <3>2. TileHolds(Core(m))'
      BY <1>2, <1>3, <3>1 DEF TileHolds
    <3>3. ChunkHolds(Core(m))'
      BY <1>2, <1>3, <3>1 DEF ChunkHolds
    <3>4. FullHolds(Core(m).of)'
      BY <1>2, <1>3, <3>1 DEF FullHolds
    <3>. QED  BY <3>2, <3>3, <3>4
  <2>. QED  BY <1>2, <2>1 DEF CoresHold
<1>11. UsesStored'
  BY <1>1, <1>2, <1>4 DEF OnStreams, UsesStored, StoredBy, Kinds
<1>. QED  BY <1>5, <1>6, <1>7, <1>8, <1>9, <1>10, <1>11 DEF OnStreams

\* The call of a thread that submits.
LEMMA SubmitterFacts ==
  ASSUME TypeOK, Submitter, NEW t \in HostThreads, stage[t] \in Submits
  PROVE  /\ submitter = t /\ submitter # Nobody /\ Phase = stage[t] /\ Coming = part[t]
         /\ number[t] = made /\ made \in 1 .. MaxStreamed /\ made \in Nat /\ Coming \in Nat
         /\ plan[made].parts \in Nat \ {0}
<1>1. submitter = t /\ t # Nobody
  BY StreamedAssumption DEF Submitter
<1>2. number[t] = made /\ made > 0 /\ made \in 0 .. MaxStreamed /\ MaxStreamed \in Nat
  BY <1>1, StreamedAssumption DEF Submitter, TypeOK
<1>3. part[t] \in Nat /\ plan[made].parts \in Nat /\ plan[made].parts > 0
  BY <1>2 DEF TypeOK
<1>. QED  BY <1>1, <1>2, <1>3 DEF Phase, Coming

\* What the caller waits for is kept, and so is which calls will be stored.
LEMMA StoredIdle ==
  ASSUME TypeOK, queue' = queue, finished' = finished, output' = output,
         \A s \in Streams : pendingOn[s] \subseteq pendingOn'[s],
         NEW c, plan'[c] = plan[c], StoredBy(c, Free("caller"))
  PROVE  StoredBy(c, Free("caller"))'
BY IdleFacts, StreamNames DEF StoredBy

LEMMA EnterStep ==
  ASSUME StreamsInv, NEW t \in HostThreads, Enter(t)
  PROVE  StreamsInv'
<1>. USE DEF StreamsInv, OfSubmission
<1>1. /\ submitter = Nobody /\ submitter' = t /\ t # Nobody /\ made' = made + 1 /\ made < MaxStreamed
      /\ stage' = [stage EXCEPT ![t] = "prepares"] /\ number' = [number EXCEPT ![t] = made + 1]
      /\ part' = [part EXCEPT ![t] = 0]
      /\ UNCHANGED <<queue, running, finished, pendingOn, consumed, tile, rows, output>>
  BY StreamedAssumption DEF Enter
<1>2. PICK p \in Plans : plan' = [plan EXCEPT ![made + 1] = p]
  BY DEF Enter
<1>3. made \in Nat /\ made + 1 \in 1 .. MaxStreamed /\ p.parts \in Nat \ {0} /\ p.gather \in {"none", "chunk", "full"}
  BY <1>1, MadeType, StreamedAssumption
<1>4. /\ \A c \in 1 .. MaxStreamed : c # made + 1 => plan'[c] = plan[c]
      /\ plan'[made + 1] = p
  BY <1>2, <1>3 DEF TypeOK
<1>5. TypeOK'
  <2>1. made' \in 0 .. MaxStreamed
    BY <1>1, <1>3
  <2>2. plan' \in [1 .. MaxStreamed -> [parts : Nat, gather : {"none", "chunk", "full"}]]
    <3>1. p \in [parts : Nat, gather : {"none", "chunk", "full"}]
      BY StreamedAssumption
    <3>. QED  BY <1>2, <3>1 DEF TypeOK
  <2>3. number' \in [HostThreads -> 0 .. made'] /\ part' \in [HostThreads -> Nat]
    <3>1. \A u \in HostThreads : number[u] \in 0 .. made + 1
      BY <1>3 DEF TypeOK
    <3>. QED  BY <1>1, <1>3, <3>1 DEF TypeOK
  <2>4. stage' \in [HostThreads -> Submits \cup {"idle", "returned", "threw"}]
    BY <1>1 DEF TypeOK, Submits
  <2>5. ASSUME NEW c \in 1 .. MaxStreamed
        PROVE  IF c <= made' THEN plan'[c].parts > 0 /\ output'[c] \subseteq 0 .. plan'[c].parts - 1
               ELSE output'[c] = {}
    <3>1. IF c <= made THEN plan[c].parts > 0 /\ output[c] \subseteq 0 .. plan[c].parts - 1 ELSE output[c] = {}
      BY DEF TypeOK
    <3>2. CASE c = made + 1
      BY <1>1, <1>3, <1>4, <3>1, <3>2
    <3>3. CASE c # made + 1
      BY <1>1, <1>3, <1>4, <3>1, <3>3
    <3>. QED  BY <3>2, <3>3
  <2>. QED  BY <1>1, <2>1, <2>2, <2>3, <2>4, <2>5 DEF TypeOK
<1>6. Phase' = "prepares" /\ Coming' = 0 /\ Phase = "free"
  BY <1>1 DEF Phase, Coming, TypeOK
<1>7. OnStreams'
  <2>1. \A c \in 1 .. made : plan'[c] = plan[c]
    BY <1>1, <1>3, <1>4, MadeType
  <2>. QED  BY <1>1, <1>3, <2>1, IdleStreams
<1>8. Submitter'
  <2>1. \A u \in HostThreads : stage[u] \notin Submits
    BY <1>1, StreamedAssumption DEF Submitter
  <2>. QED  BY <1>1, <1>3, <1>4, <1>6, <2>1 DEF Submitter, TypeOK, Submits
<1>9. UpToComing'
  <2>1. \A m \in Slots("compute")' : Core(m)'.of # made + 1
    BY <1>1, <1>3, IdleFacts DEF OnStreams, Kinds, OfCall
  <2>2. \A d \in Slots("decode")' : Decoder(d)'.of # made + 1
    BY <1>1, <1>3, IdleFacts DEF OnStreams, Kinds, OfCall
  <2>. QED  BY <1>1, <2>1, <2>2 DEF UpToComing
<1>10. NextWaits' /\ NextApart' /\ NextHolds' /\ RowsComing'
  BY <1>6 DEF NextWaits, NextApart, NextHolds, RowsComing, Forked
<1>11. Recorded' /\ PartsStored'
  BY <1>6 DEF Recorded, PartsStored
<1>12. Joined'
  BY <1>1, <1>6, IdleFacts, StreamNames DEF Joined, Unforked
<1>13. Followed'
  BY <1>1, <1>6, IdleFacts DEF Followed
<1>14. CallsStored'
  <2>1. ASSUME NEW u \in HostThreads, stage'[u] \in {"returns", "returned"}
        PROVE  StoredBy(number[u], Free("caller"))' /\ number'[u] = number[u]
    <3>1. u # t /\ stage[u] \in {"returns", "returned"} /\ number'[u] = number[u] /\ number[u] \in 0 .. made
      BY <1>1, <2>1 DEF TypeOK
    <3>2. number[u] > 0
      BY <3>1, <1>1, StreamedAssumption DEF Submitter, Submits
    <3>3. plan'[number[u]] = plan[number[u]] /\ StoredBy(number[u], Free("caller"))
      BY <1>3, <1>4, <3>1, <3>2, MadeType DEF CallsStored
    <3>. QED  BY <1>1, <3>1, <3>3, StoredIdle
  <2>. QED  BY <2>1 DEF CallsStored
<1>. QED  BY <1>5, <1>7, <1>8, <1>9, <1>10, <1>11, <1>12, <1>13, <1>14

\* Submission steps that queue no kernel.
LEMMA HostIdle ==
  ASSUME StreamsInv, NEW t \in HostThreads, NEW next \in Submits,
         stage' = [stage EXCEPT ![t] = next],
         UNCHANGED <<submitter, made, plan, number, part, queue, running, finished, consumed, tile, rows, output>>,
         pendingOn' \in [Streams -> Marks], \A s \in Streams : pendingOn[s] \subseteq pendingOn'[s],
         \/ stage[t] = "prepares" /\ next = "decodes" /\ plan[made].gather # "full"
         \/ stage[t] = "prepares" /\ next = "unwinds"
         \/ stage[t] \in {"decodes", "multiplies", "joins"} /\ next = "drains"
         \/ /\ stage[t] = "joins" /\ next = "returns"
            /\ \A m \in Slots("compute") : Covers("caller", Free("caller"), "compute", m)'
  PROVE  StreamsInv'
<1>. USE DEF StreamsInv, OfSubmission
<1>1. /\ submitter = t /\ submitter # Nobody /\ Phase = stage[t] /\ Coming = part[t]
      /\ number[t] = made /\ made \in 1 .. MaxStreamed /\ made \in Nat /\ Coming \in Nat
      /\ plan[made].parts \in Nat \ {0}
  <2>1. stage[t] \in Submits
    BY DEF Submits
  <2>. QED  BY <2>1, SubmitterFacts
<1>2. Phase' = next /\ Coming' = Coming /\ stage'[t] = next /\ next # "free"
  BY <1>1 DEF Phase, Coming, TypeOK, Submits
<1>3. TypeOK'
  BY DEF TypeOK
<1>4. OnStreams'
  BY <1>1, IdleStreams
<1>5. /\ Slots("decode")' = Slots("decode") /\ \A d \in Slots("decode") : Decoder(d)' = Decoder(d)
      /\ Slots("compute")' = Slots("compute") /\ \A m \in Slots("compute") : Core(m)' = Core(m)
      /\ \A d \in Slots("decode") : HasCore(d)' <=> HasCore(d)
  BY IdleFacts
<1>6. Submitter'
  <2>1. \A u \in HostThreads : u # t => stage'[u] = stage[u]
    BY DEF TypeOK
  <2>2. /\ Coming <= plan[made].parts
        /\ next = "decodes" => Coming = 0
        /\ next = "unwinds" => Coming = 0
        /\ next = "returns" => Coming = plan[made].parts
    BY <1>1 DEF Submitter
  <2>. QED  BY <1>1, <1>2, <2>1, <2>2 DEF Submitter, Submits
<1>7. UpToComing'
  BY <1>1, <1>2, <1>5 DEF UpToComing
<1>8. NextWaits' /\ NextApart' /\ NextHolds' /\ RowsComing'
  <2>1. next \notin {"multiplies", "joins"} /\ (next = "decodes" => Coming = 0 /\ plan[made].gather # "full")
    BY <1>1 DEF Submitter
  <2>2. ~Forked' /\ Phase' # "multiplies"
    BY <1>2, <2>1 DEF Forked
  <2>. QED  BY <1>2, <2>1, <2>2 DEF NextWaits, NextApart, NextHolds, RowsComing
<1>9. Recorded' /\ PartsStored'
  <2>1. Phase # "free"
    BY <1>1
  <2>. QED  BY <1>2, <1>5, <2>1 DEF Recorded, PartsStored
<1>10. Joined'
  <2>1. CASE next = "returns"
    BY <1>5, <2>1 DEF Joined
  <2>2. CASE next \in {"decodes", "unwinds"}
    <3>1. Unforked
      BY <1>1, <2>2 DEF Unforked
    <3>. QED  BY <1>5, <3>1, IdleFacts, StreamNames DEF Joined
  <2>3. CASE next = "drains"
    BY <1>2, <2>3 DEF Joined, Unforked
  <2>. QED  BY <2>1, <2>2, <2>3
<1>11. Followed'
  BY <1>1, <1>2, <1>5 DEF Followed
<1>12. CallsStored'
  <2>1. ASSUME NEW u \in HostThreads, stage'[u] \in {"returns", "returned"}
        PROVE  StoredBy(number[u], Free("caller"))'
    <3>1. CASE u # t
      <4>1. StoredBy(number[u], Free("caller"))
        BY <2>1, <3>1 DEF CallsStored, TypeOK
      <4>. QED  BY <4>1, StoredIdle
    <3>2. CASE u = t
      <4>1. stage[t] = "joins" /\ \A m \in Slots("compute") : Covers("caller", Free("caller"), "compute", m)'
        BY <1>2, <2>1, <3>2
      <4>2. Coming = plan[made].parts
        BY <1>1, <4>1 DEF Submitter
      <4>3. \A i \in 0 .. plan[made].parts - 1 :
              i \in output[made] \/ \E m \in Slots("compute") : Same(Core(m), Of(made, i))
        BY <1>1, <4>1, <4>2 DEF PartsStored
      <4>4. \A i \in 0 .. plan[made].parts - 1 :
              \/ i \in output'[made]
              \/ \E m \in Slots("compute")' :
                   Same(Core(m)', Of(made, i)) /\ Covers("caller", Free("caller"), "compute", m)'
        BY <1>5, <4>1, <4>3
      <4>. QED  BY <1>1, <3>2, <4>4 DEF StoredBy
    <3>. QED  BY <3>1, <3>2
  <2>. QED  BY <2>1 DEF CallsStored
<1>. QED  BY <1>3, <1>4, <1>6, <1>7, <1>8, <1>9, <1>10, <1>11, <1>12

LEMMA JoinStep ==
  ASSUME StreamsInv, NEW t \in HostThreads, Join(t)
  PROVE  StreamsInv'
<1>. USE DEF StreamsInv, OfSubmission
<1>1. /\ Phase = "joins" /\ Coming = part[t] /\ made \in Nat /\ Coming \in Nat /\ plan[made].parts \in Nat \ {0}
      /\ submitter # Nobody
  BY SubmitterFacts DEF Join, Submits
<1>2. Coming = plan[made].parts
  BY <1>1 DEF Submitter
<1>3. /\ Coming - 1 \in DOMAIN consumed /\ consumed[Coming - 1] \in Marks
      /\ \A m \in Slots("compute") : \E w \in consumed[Coming - 1] : w[1] = "compute" /\ w[2] >= m
  <2>1. Coming - 1 \in 0 .. Coming - 1
    BY <1>1, <1>2
  <2>2. /\ Coming - 1 \in DOMAIN consumed
        /\ \A m \in Slots("compute") : Core(m).of < made \/ Core(m).part <= Coming - 1 =>
              \E w \in consumed[Coming - 1] : w[1] = "compute" /\ w[2] >= m
    BY <1>1, <2>1 DEF Recorded
  <2>3. \A m \in Slots("compute") : Core(m).of < made \/ Core(m).part <= Coming - 1
    BY <1>1, <1>2 DEF OnStreams, Kinds, OfCall
  <2>. QED  BY <2>2, <2>3 DEF TypeOK
<1>4. /\ pendingOn' = [pendingOn EXCEPT !["caller"] = @ \cup consumed[Coming - 1]]
      /\ pendingOn' \in [Streams -> Marks] /\ \A s \in Streams : pendingOn[s] \subseteq pendingOn'[s]
      /\ consumed[Coming - 1] \subseteq pendingOn'["caller"]
  <2>1. pendingOn' = [pendingOn EXCEPT !["caller"] = @ \cup consumed[Coming - 1]]
    BY <1>1 DEF Join
  <2>2. pendingOn \in [Streams -> Marks]
    BY DEF TypeOK
  <2>3. pendingOn["caller"] \cup consumed[Coming - 1] \in Marks
    BY <1>3, <2>2, StreamNames DEF Marks
  <2>. QED  BY <2>1, <2>2, <2>3, StreamNames
<1>5. ASSUME NEW m \in Slots("compute")  PROVE Covers("caller", Free("caller"), "compute", m)'
  <2>1. PICK w \in pendingOn'["caller"] : w[1] = "compute" /\ w[2] >= m
    BY <1>3, <1>4
  <2>2. m \in Nat
    BY SlotsFree, StreamNames
  <2>. QED  BY <1>4, <2>1, <2>2, IdleFrame, StreamNames DEF Join
<1>. QED  BY <1>4, <1>5, HostIdle DEF Join, Submits

LEMMA FailStep ==
  ASSUME StreamsInv, NEW t \in HostThreads, Fail(t)
  PROVE  StreamsInv'
<1>1. /\ pendingOn' \in [Streams -> Marks] /\ \A s \in Streams : pendingOn[s] \subseteq pendingOn'[s]
  BY DEF Fail, StreamsInv, TypeOK
<1>. QED  BY <1>1, HostIdle DEF Fail, Submits

LEMMA PrepareIdle ==
  ASSUME StreamsInv, NEW t \in HostThreads, Prepare(t), plan[number[t]].gather # "full"
  PROVE  StreamsInv'
<1>1. number[t] = made
  BY SubmitterFacts DEF Prepare, StreamsInv, OfSubmission, Submits
<1>2. /\ pendingOn' \in [Streams -> Marks] /\ \A s \in Streams : pendingOn[s] \subseteq pendingOn'[s]
  BY DEF Prepare, StreamsInv, TypeOK
<1>. QED  BY <1>1, <1>2, HostIdle DEF Prepare, Submits

\* The lock goes: a call returns, with its last core waited for, or fails with the
\* internal streams empty.
LEMMA ReleaseStep ==
  ASSUME StreamsInv, NEW t \in HostThreads, Returns(t) \/ Throws(t)
  PROVE  StreamsInv'
<1>. USE DEF StreamsInv, OfSubmission
<1>1. PICK next \in {"returned", "threw"} :
        /\ next = "returned" => stage[t] = "returns"
        /\ next = "threw" => stage[t] = "unwinds" \/ (stage[t] = "drains" /\ StreamsDrained)
        /\ stage' = [stage EXCEPT ![t] = next] /\ submitter' = Nobody
        /\ UNCHANGED <<made, plan, number, part, queue, running, finished, pendingOn, consumed, tile, rows, output>>
  BY DEF Returns, Throws, Release
<1>2. /\ submitter = t /\ Phase = stage[t] /\ number[t] = made /\ made \in 1 .. MaxStreamed /\ made \in Nat
  BY <1>1, SubmitterFacts DEF Submits
<1>3. TypeOK'
  BY <1>1 DEF TypeOK
<1>4. OnStreams'
  BY <1>1, <1>2, IdleStreams
<1>5. /\ Slots("decode")' = Slots("decode") /\ \A d \in Slots("decode") : Decoder(d)' = Decoder(d)
      /\ Slots("compute")' = Slots("compute") /\ \A m \in Slots("compute") : Core(m)' = Core(m)
      /\ \A d \in Slots("decode") : HasCore(d)' <=> HasCore(d)
  BY <1>1, IdleFacts
<1>6. Phase' = "free" /\ ~Forked'
  BY <1>1 DEF Phase, Forked
<1>7. \/ Slots("compute") = {} /\ Slots("decode") = {}
      \/ Phase \in {"returns", "unwinds"}
  <2>1. ASSUME StreamsDrained  PROVE Slots("compute") = {} /\ Slots("decode") = {}
    BY <2>1, QueueType, StreamNames DEF StreamsDrained, Slots
  <2>. QED  BY <1>1, <1>2, <2>1
<1>8. Submitter'
  <2>1. \A u \in HostThreads : u # t => stage'[u] = stage[u] /\ stage[u] \notin Submits
    BY <1>1, <1>2 DEF TypeOK, Submitter
  <2>2. stage'[t] = next
    BY <1>1 DEF TypeOK
  <2>. QED  BY <1>1, <1>2, <2>1, <2>2 DEF Submitter, Submits
<1>9. UpToComing' /\ NextWaits' /\ Recorded' /\ NextApart' /\ NextHolds' /\ RowsComing' /\ PartsStored'
  BY <1>6 DEF UpToComing, NextWaits, Recorded, NextApart, NextHolds, RowsComing, PartsStored
<1>10. Joined'
  BY <1>1, <1>5, <1>7, IdleFacts, StreamNames DEF Joined, Unforked
<1>11. Followed'
  BY <1>5, <1>7 DEF Followed
<1>12. CallsStored'
  <2>1. ASSUME NEW u \in HostThreads, stage'[u] \in {"returns", "returned"}
        PROVE  StoredBy(number[u], Free("caller"))'
    <3>1. stage[u] \in {"returns", "returned"}
      BY <1>1, <2>1 DEF TypeOK
    <3>. QED  BY <1>1, <3>1, StoredIdle DEF CallsStored
  <2>. QED  BY <1>1, <2>1 DEF CallsStored
<1>. QED  BY <1>3, <1>4, <1>8, <1>9, <1>10, <1>11, <1>12

-----------------------------------------------------------------------------
(* Kernels of the caller stream are queued. *)

LEMMA CallerFacts ==
  ASSUME TypeOK, NEW x \in Kernels, Enqueue("caller", x), finished' = finished,
         x.after = pendingOn["caller"], pendingOn' = [pendingOn EXCEPT !["caller"] = {}],
         NEW f, f = Free("caller")
  PROVE  /\ \A s \in Streams : Slots(s) \subseteq Slots(s)' /\ \A n \in Slots(s) : Item(s, n)' = Item(s, n)
         /\ \A s, u \in Streams : \A n \in Slots(s) : \A m \in Slots(u) : Covers(s, n, u, m) => Covers(s, n, u, m)'
         /\ \A s, u \in Streams : \A m \in Slots(u) : Covers(s, Free(s), u, m) => Covers(s, Free(s), u, m)'
         /\ \A u \in Streams : \A m \in Slots(u) : Covers("caller", f, u, m) => Covers("caller", f, u, m)'
         /\ Slots("decode")' = Slots("decode") /\ \A d \in Slots("decode") : Decoder(d)' = Decoder(d)
         /\ Slots("compute")' = Slots("compute") /\ \A m \in Slots("compute") : Core(m)' = Core(m)
         /\ Slots("caller")' = Slots("caller") \cup {f} /\ Caller(f)' = x
         /\ \A n \in Slots("caller") : n < f /\ Caller(n)' = Caller(n)
         /\ Disturbers' = Disturbers \cup (IF x.reuses \/ x.do = "gather" THEN {f} ELSE {})
         /\ \A n \in Slots("caller") : \A c : Gathers(n, c)' <=> Gathers(n, c)
         /\ \A y : Decoding(y)' <=> Decoding(y)
         /\ \A d \in Slots("decode") : HasCore(d)' <=> HasCore(d)
<1>. /\ "caller" \in Streams /\ "compute" \in Streams /\ "decode" \in Streams
     /\ "caller" # "compute" /\ "caller" # "decode" /\ "compute" # "decode"
  BY StreamNames
<1>1. /\ pendingOn' \in [Streams -> Marks] /\ \A u \in Streams \ {"caller"} : pendingOn[u] \subseteq pendingOn'[u]
  BY DEF TypeOK, Marks
<1>2. /\ Keeps
      /\ Slots("caller")' = Slots("caller") \cup {f} /\ Item("caller", f)' = x /\ f \notin Slots("caller")
      /\ \A n \in Slots("caller") : n < f
      /\ \A u \in Streams \ {"caller"} : Slots(u)' = Slots(u)
      /\ \A u \in Streams : \A m \in Slots(u) : Covers("caller", f, u, m) => Covers("caller", f, u, m)'
  <2>1. pendingOn["caller"] \subseteq x.after
    OBVIOUS
  <2>. QED  BY <1>1, <2>1, LaunchFrame
<1>3. \A s \in Streams : Slots(s) \subseteq Slots(s)'
  BY <1>2
<1>4. /\ \A s \in Streams : \A n \in Slots(s) : Item(s, n)' = Item(s, n)
      /\ \A s, u \in Streams : \A n \in Slots(s) : \A m \in Slots(u) : Covers(s, n, u, m) => Covers(s, n, u, m)'
      /\ \A s, u \in Streams : \A m \in Slots(u) : Covers(s, Free(s), u, m) => Covers(s, Free(s), u, m)'
  BY <1>2, <1>3 DEF Keeps
<1>5. /\ Slots("decode")' = Slots("decode") /\ \A d \in Slots("decode") : Decoder(d)' = Decoder(d)
      /\ Slots("compute")' = Slots("compute") /\ \A m \in Slots("compute") : Core(m)' = Core(m)
      /\ Caller(f)' = x /\ \A n \in Slots("caller") : n < f /\ Caller(n)' = Caller(n)
  BY <1>2, <1>4 DEF Decoder, Core, Caller
<1>6. Disturbers' = Disturbers \cup (IF x.reuses \/ x.do = "gather" THEN {f} ELSE {})
  <2>1. Disturbers' = {n \in Slots("caller") \cup {f} : Caller(n)'.reuses \/ Caller(n)'.do = "gather"}
    BY <1>2 DEF Disturbers
  <2>. QED  BY <1>5, <2>1 DEF Disturbers
<1>7. /\ \A n \in Slots("caller") : \A c : Gathers(n, c)' <=> Gathers(n, c)
      /\ \A y : Decoding(y)' <=> Decoding(y)
      /\ \A d \in Slots("decode") : HasCore(d)' <=> HasCore(d)
  BY <1>5 DEF Gathers, Decoding, HasCore
<1>. QED  BY <1>2, <1>3, <1>4, <1>5, <1>6, <1>7

\* What disturbs comes behind every core, and every decoder has its core.
LEMMA CallerLaunch ==
  ASSUME TypeOK, OnStreams, NEW x \in Kernels, Enqueue("caller", x), finished' = finished,
         x.after = pendingOn["caller"], pendingOn' = [pendingOn EXCEPT !["caller"] = {}],
         UNCHANGED <<made, plan, running, tile, rows, output>>,
         x.do \in {"gather", "use"}, x.of \in 0 .. made,
         x.do = "gather" => x.of > 0 /\ plan[x.of].gather = "full",
         x.do = "use" /\ x.of > 0 => StoredBy(x.of, Free("caller")),
         x.reuses \/ x.do = "gather" =>
           /\ \A d \in Slots("decode") : HasCore(d)
           /\ \A m \in Slots("compute") :
                Covers("caller", Free("caller"), "compute", m) /\ ~(x.do = "gather" /\ x.of = Core(m).of)
  PROVE  OnStreams'
<1>. /\ "caller" \in Streams /\ "compute" \in Streams /\ "decode" \in Streams
     /\ "caller" # "compute" /\ "caller" # "decode" /\ "compute" # "decode"
  BY StreamNames
<1>1. /\ \A s \in Streams : Slots(s) \subseteq Slots(s)' /\ \A n \in Slots(s) : Item(s, n)' = Item(s, n)
      /\ \A s, u \in Streams : \A n \in Slots(s) : \A m \in Slots(u) : Covers(s, n, u, m) => Covers(s, n, u, m)'
  BY CallerFacts
<1>2. PICK e : e = Free("caller")
  OBVIOUS
<1>3. /\ \A u \in Streams : \A m \in Slots(u) : Covers("caller", e, u, m) => Covers("caller", e, u, m)'
      /\ Slots("decode")' = Slots("decode") /\ \A d \in Slots("decode") : Decoder(d)' = Decoder(d)
      /\ Slots("compute")' = Slots("compute") /\ \A m \in Slots("compute") : Core(m)' = Core(m)
      /\ Slots("caller")' = Slots("caller") \cup {e} /\ Caller(e)' = x
      /\ \A n \in Slots("caller") : n < e /\ Caller(n)' = Caller(n)
      /\ Disturbers' = Disturbers \cup (IF x.reuses \/ x.do = "gather" THEN {e} ELSE {})
      /\ \A n \in Slots("caller") : \A c : Gathers(n, c)' <=> Gathers(n, c)
      /\ \A y : Decoding(y)' <=> Decoding(y)
  BY <1>2, CallerFacts
<1>4. Kinds'
  BY <1>3 DEF OnStreams, Kinds, OfCall
<1>5. HeadsReady' /\ InOrder'
  <2>1. ASSUME NEW s \in running  PROVE \E h \in Slots(s)' : Ready(s, h)'
    <3>1. s \in Streams
      BY DEF TypeOK
    <3>2. PICK h \in Slots(s) : Ready(s, h)
      BY DEF OnStreams, HeadsReady
    <3>. QED  BY <1>1, <3>1, <3>2 DEF Ready
  <2>2. HeadsReady'
    BY <2>1 DEF HeadsReady
  <2>3. InOrder'
    BY <1>1, <1>3 DEF OnStreams, InOrder
  <2>. QED  BY <2>2, <2>3
<1>6. CoreWaits' /\ DecoderWaits'
  <2>1. CoreWaits'
    BY <1>1, <1>3 DEF OnStreams, CoreWaits
  <2>2. \A d \in Slots("decode"), m \in Slots("compute") : Reaches(d, m) => Reaches(d, m)'
    BY <1>1, <1>3 DEF Reaches
  <2>. QED  BY <1>1, <1>3, <2>1, <2>2 DEF OnStreams, DecoderWaits
\* The new kernel, if it disturbs.
<1>7. ASSUME x.reuses \/ x.do = "gather"
      PROVE  /\ \A m \in Slots("compute") : Covers("caller", e, "compute", m)' /\ ~Gathers(e, Core(m).of)'
             /\ \A d \in Slots("decode") : CoreCovered(e, d)'
  <2>1. \A m \in Slots("compute") : Covers("caller", e, "compute", m)'
    BY <1>2, <1>3, <1>7
  <2>2. \A m \in Slots("compute") : ~Gathers(e, Core(m).of)'
    BY <1>3, <1>7 DEF Gathers
  <2>. QED  BY <1>3, <1>7, <2>1, <2>2 DEF CoreCovered, HasCore
<1>8. DecodersApart'
  <2>1. ASSUME NEW n \in Disturbers, NEW d \in Slots("decode")
        PROVE  /\ Covers("decode", d, "caller", n)' \/ CoreCovered(n, d)'
               /\ Caller(n)'.do = "gather" /\ Decoder(d)'.of < Caller(n)'.of => CoreCovered(n, d)'
    <3>1. n \in Slots("caller")
      BY DEF Disturbers
    <3>2. CoreCovered(n, d) => CoreCovered(n, d)'
      BY <1>1, <1>3, <3>1 DEF CoreCovered
    <3>. QED  BY <1>1, <1>3, <3>1, <3>2 DEF OnStreams, DecodersApart
  <2>. QED  BY <1>3, <1>7, <2>1 DEF DecodersApart
<1>9. CoresApart'
  <2>1. ASSUME NEW n \in Disturbers, NEW m \in Slots("compute")
        PROVE  \/ Covers("caller", n, "compute", m)' /\ ~Gathers(n, Core(m).of)'
               \/ /\ Covers("compute", m, "caller", n)'
                  /\ DecoderWaitsFor(Core(m), n)' /\ GatheredLater(Core(m).of, n)'
    <3>1. n \in Slots("caller")
      BY DEF Disturbers
    <3>2. DecoderWaitsFor(Core(m), n) => DecoderWaitsFor(Core(m), n)'
      BY <1>1, <1>3, <3>1 DEF DecoderWaitsFor
    <3>3. GatheredLater(Core(m).of, n) => GatheredLater(Core(m).of, n)'
      BY <1>3 DEF GatheredLater
    <3>. QED  BY <1>1, <1>3, <3>1, <3>2, <3>3 DEF OnStreams, CoresApart
  <2>. QED  BY <1>3, <1>7, <2>1 DEF CoresApart
<1>10. CoresHold'
  <2>1. ASSUME NEW m \in Slots("compute")
        PROVE  TileHolds(Core(m))' /\ ChunkHolds(Core(m))' /\ FullHolds(Core(m).of)'
    <3>1. TileHolds(Core(m)) /\ ChunkHolds(Core(m)) /\ FullHolds(Core(m).of)
      BY DEF OnStreams, CoresHold
    <3>2. TileHolds(Core(m))'
      BY <1>3, <3>1 DEF TileHolds
    <3>3. ChunkHolds(Core(m))'
      BY <1>3, <3>1 DEF ChunkHolds
    <3>4. FullHolds(Core(m).of)'
      BY <1>3, <3>1 DEF FullHolds
    <3>. QED  BY <3>2, <3>3, <3>4
  <2>. QED  BY <1>3, <2>1 DEF CoresHold
<1>11. UsesStored'
  <2>1. ASSUME NEW n \in Slots("caller") \cup {e}, NEW c,
               \A m \in Slots("compute") : Covers("caller", n, "compute", m) => Covers("caller", n, "compute", m)',
               StoredBy(c, n)
        PROVE  StoredBy(c, n)'
    BY <1>3, <2>1 DEF StoredBy
  <2>2. ASSUME NEW n \in Slots("caller"), Caller(n).do = "use", Caller(n).of > 0
        PROVE  StoredBy(Caller(n).of, n)'
    <3>1. \A m \in Slots("compute") : Covers("caller", n, "compute", m) => Covers("caller", n, "compute", m)'
      BY <1>1
    <3>2. StoredBy(Caller(n).of, n)
      BY <2>2 DEF OnStreams, UsesStored
    <3>. QED  BY <1>3, <3>1, <3>2 DEF StoredBy
  <2>3. ASSUME x.do = "use", x.of > 0  PROVE StoredBy(x.of, e)'
    BY <1>2, <1>3, <2>1, <2>3
  <2>. QED  BY <1>3, <2>2, <2>3 DEF UsesStored
<1>. QED  BY <1>4, <1>5, <1>6, <1>8, <1>9, <1>10, <1>11 DEF OnStreams

LEMMA PrepareGather ==
  ASSUME StreamsInv, NEW t \in HostThreads, Prepare(t), plan[number[t]].gather = "full"
  PROVE  StreamsInv'
<1>. USE DEF StreamsInv, OfSubmission
<1>. /\ "caller" \in Streams /\ "compute" \in Streams /\ "decode" \in Streams
     /\ "caller" # "compute" /\ "caller" # "decode" /\ "compute" # "decode"
  BY StreamNames
<1>. DEFINE x == Kernel("gather", t, pendingOn["caller"])
<1>1. /\ submitter = t /\ submitter # Nobody /\ Phase = "prepares" /\ Coming = 0 /\ part[t] = 0
      /\ number[t] = made /\ made \in 1 .. MaxStreamed /\ made \in Nat /\ plan[made].gather = "full"
      /\ plan[made].parts \in Nat \ {0}
  <2>1. /\ submitter = t /\ submitter # Nobody /\ Phase = "prepares" /\ Coming = part[t]
        /\ number[t] = made /\ made \in 1 .. MaxStreamed /\ made \in Nat
        /\ plan[made].parts \in Nat \ {0}
    BY SubmitterFacts DEF Prepare, Submits
  <2>2. Coming = 0
    BY <2>1 DEF Submitter
  <2>. QED  BY <2>1, <2>2
<1>2. /\ Enqueue("caller", x) /\ pendingOn' = [pendingOn EXCEPT !["caller"] = {}]
      /\ stage' = [stage EXCEPT ![t] = "decodes"]
      /\ UNCHANGED <<submitter, made, plan, number, part, running, finished, consumed, tile, rows, output>>
  BY DEF Prepare
<1>3. /\ x \in Kernels /\ x.after = pendingOn["caller"] /\ x.do = "gather" /\ x.of = made /\ ~x.reuses
  <2>1. pendingOn["caller"] \in Marks
    BY DEF TypeOK
  <2>. QED  BY <1>1, <2>1 DEF Kernel, Kernels
<1>. HIDE DEF x
<1>4. PICK e : e = Free("caller")
  OBVIOUS
<1>5. /\ \A s, u \in Streams : \A m \in Slots(u) : Covers(s, Free(s), u, m) => Covers(s, Free(s), u, m)'
      /\ Slots("decode")' = Slots("decode") /\ \A d \in Slots("decode") : Decoder(d)' = Decoder(d)
      /\ Slots("compute")' = Slots("compute") /\ \A m \in Slots("compute") : Core(m)' = Core(m)
      /\ Slots("caller")' = Slots("caller") \cup {e} /\ Caller(e)' = x
      /\ \A n \in Slots("caller") : n < e /\ Caller(n)' = Caller(n)
      /\ Disturbers' = Disturbers \cup {e}
      /\ \A d \in Slots("decode") : HasCore(d)' <=> HasCore(d)
      /\ e \in Nat
  BY <1>2, <1>3, <1>4, CallerFacts, SlotsFree
<1>6. TypeOK'
  <2>1. queue' \in [Streams -> Seq(Kernels)]
    BY <1>2, <1>3 DEF TypeOK, Enqueue
  <2>2. pendingOn' \in [Streams -> Marks]
    BY <1>2 DEF TypeOK, Marks
  <2>3. stage' \in [HostThreads -> Submits \cup {"idle", "returned", "threw"}]
    BY <1>2 DEF TypeOK, Submits
  <2>. QED  BY <1>2, <2>1, <2>2, <2>3 DEF TypeOK
<1>7. \A m \in Slots("compute") : Covers("caller", Free("caller"), "compute", m)
  BY <1>1 DEF Joined, Unforked
<1>8. OnStreams'
  <2>1. \A d \in Slots("decode") : HasCore(d)
    BY <1>1 DEF Followed
  <2>2. \A m \in Slots("compute") : Core(m).of # made
    BY <1>1 DEF UpToComing, OnStreams, Kinds, OfCall
  <2>3. x.of \in 0 .. made
    BY <1>1, <1>3
  <2>. QED  BY <1>1, <1>2, <1>3, <1>7, <2>1, <2>2, <2>3, CallerLaunch
<1>9. Phase' = "decodes" /\ Coming' = 0 /\ ~Forked'
  BY <1>1, <1>2 DEF Phase, Coming, TypeOK, Forked
<1>10. Submitter'
  <2>1. \A u \in HostThreads : u # t => stage'[u] = stage[u]
    BY <1>2 DEF TypeOK
  <2>2. stage'[t] = "decodes"
    BY <1>2 DEF TypeOK
  <2>. QED  BY <1>1, <1>2, <1>9, <2>1, <2>2 DEF Submitter, Submits
<1>11. UpToComing'
  BY <1>1, <1>2, <1>5, <1>9 DEF UpToComing
<1>12. NextWaits' /\ NextApart' /\ NextHolds'
  BY <1>9 DEF NextWaits, NextApart, NextHolds
<1>13. RowsComing'
  <2>1. Gathers(e, made)'
    BY <1>2, <1>3, <1>5 DEF Gathers
  <2>2. \A n \in Disturbers \cup {e} : n <= e
    BY <1>5, SlotsFree DEF Disturbers
  <2>. QED  BY <1>2, <1>5, <2>1, <2>2 DEF RowsComing
<1>14. Recorded' /\ PartsStored'
  BY <1>9 DEF Recorded, PartsStored
<1>15. Joined'
  BY <1>5, <1>7 DEF Joined
<1>16. Followed'
  BY <1>1, <1>5, <1>9 DEF Followed
<1>17. CallsStored'
  <2>1. ASSUME NEW u \in HostThreads, stage'[u] \in {"returns", "returned"}
        PROVE  StoredBy(number[u], Free("caller"))'
    <3>1. stage[u] \in {"returns", "returned"}
      BY <1>2, <2>1 DEF TypeOK
    <3>. QED  BY <1>2, <1>5, <3>1 DEF CallsStored, StoredBy
  <2>. QED  BY <1>2, <2>1 DEF CallsStored
<1>. QED  BY <1>6, <1>8, <1>10, <1>11, <1>12, <1>13, <1>14, <1>15, <1>16, <1>17

LEMMA UseStep ==
  ASSUME StreamsInv, NEW t \in HostThreads, Use(t)
  PROVE  StreamsInv'
<1>. USE DEF StreamsInv, OfSubmission
<1>. /\ "caller" \in Streams /\ "compute" \in Streams /\ "decode" \in Streams
     /\ "caller" # "compute" /\ "caller" # "decode" /\ "compute" # "decode"
  BY StreamNames
<1>1. PICK x : /\ x.do = "use" /\ x.after = pendingOn["caller"] /\ (x.reuses <=> submitter = Nobody)
               /\ x.of = IF stage[t] = "returned" THEN number[t] ELSE Nobody
               /\ x \in Kernels /\ Enqueue("caller", x)
  <2>. DEFINE y == [do |-> "use", of |-> IF stage[t] = "returned" THEN number[t] ELSE Nobody, part |-> 0,
                    reuses |-> submitter = Nobody, after |-> pendingOn["caller"]]
  <2>1. Enqueue("caller", y)
    BY DEF Use
  <2>2. y \in Kernels
    <3>1. pendingOn["caller"] \in Marks /\ number[t] \in Nat /\ Nobody \in Nat
      BY MadeType DEF TypeOK, Nobody
    <3>. QED  BY <3>1 DEF Kernels
  <2>. QED  BY <2>1, <2>2
<1>2. /\ pendingOn' = [pendingOn EXCEPT !["caller"] = {}]
      /\ stage' = [stage EXCEPT ![t] = "idle"] /\ stage[t] \in {"returned", "threw"}
      /\ UNCHANGED <<submitter, made, plan, number, part, running, finished, consumed, tile, rows, output>>
  BY DEF Use
<1>3. PICK e : e = Free("caller")
  OBVIOUS
<1>4. /\ \A s, u \in Streams : \A n \in Slots(s) : \A m \in Slots(u) : Covers(s, n, u, m) => Covers(s, n, u, m)'
      /\ \A s, u \in Streams : \A m \in Slots(u) : Covers(s, Free(s), u, m) => Covers(s, Free(s), u, m)'
      /\ Slots("decode")' = Slots("decode") /\ \A d \in Slots("decode") : Decoder(d)' = Decoder(d)
      /\ Slots("compute")' = Slots("compute") /\ \A m \in Slots("compute") : Core(m)' = Core(m)
      /\ Slots("caller")' = Slots("caller") \cup {e}
      /\ \A n \in Slots("caller") : n < e /\ Caller(n)' = Caller(n)
      /\ Disturbers' = Disturbers \cup (IF x.reuses \/ x.do = "gather" THEN {e} ELSE {})
      /\ \A n \in Slots("caller") : \A c : Gathers(n, c)' <=> Gathers(n, c)
      /\ \A y : Decoding(y)' <=> Decoding(y)
      /\ \A d \in Slots("decode") : HasCore(d)' <=> HasCore(d)
  BY <1>1, <1>2, <1>3, CallerFacts
<1>5. TypeOK'
  <2>1. queue' \in [Streams -> Seq(Kernels)]
    BY <1>1 DEF TypeOK, Enqueue
  <2>2. pendingOn' \in [Streams -> Marks]
    BY <1>2 DEF TypeOK, Marks
  <2>3. stage' \in [HostThreads -> Submits \cup {"idle", "returned", "threw"}]
    BY <1>2 DEF TypeOK
  <2>. QED  BY <1>2, <2>1, <2>2, <2>3 DEF TypeOK
<1>6. Phase' = Phase /\ Coming' = Coming
  <2>1. submitter # Nobody => submitter # t
    BY <1>2 DEF Submitter, Submits
  <2>. QED  BY <1>2, <2>1 DEF Phase, Coming, TypeOK, Submitter
<1>7. OnStreams'
  <2>1. ASSUME x.reuses
        PROVE  /\ \A d \in Slots("decode") : HasCore(d)
               /\ \A m \in Slots("compute") : Covers("caller", Free("caller"), "compute", m)
    <3>1. Phase = "free"
      BY <1>1, <2>1 DEF Phase
    <3>. QED  BY <3>1 DEF Followed, Joined, Unforked
  <2>2. x.of > 0 => StoredBy(x.of, Free("caller"))
    BY <1>1, <1>2 DEF CallsStored, Nobody
  <2>3. x.of \in 0 .. made
    BY <1>1, MadeType DEF TypeOK, Nobody
  <2>. QED  BY <1>1, <1>2, <2>1, <2>2, <2>3, CallerLaunch
<1>8. Submitter'
  <2>1. \A u \in HostThreads : u # t => stage'[u] = stage[u]
    BY <1>2 DEF TypeOK
  <2>2. stage'[t] = "idle" /\ stage[t] \notin Submits
    BY <1>2 DEF TypeOK, Submits
  <2>. QED  BY <1>2, <1>6, <2>1, <2>2 DEF Submitter, Submits
<1>9. UpToComing' /\ Followed'
  BY <1>2, <1>4, <1>6 DEF UpToComing, Followed
\* Within a submission nothing is reused.
<1>10. Phase # "free" => Disturbers' = Disturbers /\ \A n \in Disturbers : n \in Slots("caller")
  BY <1>1, <1>4 DEF Phase, Disturbers
<1>11. NextWaits'
  <2>1. ASSUME NEW m \in Slots("compute"), Reaches(Free("decode"), m)  PROVE Reaches(Free("decode"), m)'
    BY <1>4, <2>1 DEF Reaches
  <2>. QED  BY <1>2, <1>4, <1>6, <2>1 DEF NextWaits, Forked
<1>12. NextApart'
  <2>1. ASSUME NEW n \in Slots("caller"), NEW y, DecoderWaitsFor(y, n)  PROVE DecoderWaitsFor(y, n)'
    BY <1>4, <2>1 DEF DecoderWaitsFor
  <2>. QED  BY <1>2, <1>4, <1>6, <1>10, <2>1 DEF NextApart, Forked
<1>13. NextHolds'
  BY <1>2, <1>4, <1>6 DEF NextHolds, TileHolds, ChunkHolds, Of
<1>14. RowsComing'
  BY <1>2, <1>4, <1>6, <1>10 DEF RowsComing
<1>15. Recorded' /\ PartsStored'
  BY <1>2, <1>4, <1>6 DEF Recorded, PartsStored
<1>16. Joined'
  BY <1>4, <1>6 DEF Joined, Unforked
<1>17. CallsStored'
  <2>1. ASSUME NEW u \in HostThreads, stage'[u] \in {"returns", "returned"}
        PROVE  StoredBy(number[u], Free("caller"))'
    <3>1. stage[u] \in {"returns", "returned"}
      BY <1>2, <2>1 DEF TypeOK
    <3>. QED  BY <1>2, <1>4, <3>1 DEF CallsStored, StoredBy
  <2>. QED  BY <1>2, <2>1 DEF CallsStored
<1>. QED  BY <1>5, <1>7, <1>8, <1>9, <1>11, <1>12, <1>13, <1>14, <1>15, <1>16, <1>17

-----------------------------------------------------------------------------
(* A decoder is queued. *)

LEMMA DecodeFacts ==
  ASSUME StreamsInv, NEW t \in HostThreads, Decode(t), NEW f, f = Free("decode")
  PROVE  /\ \A s \in Streams : Slots(s) \subseteq Slots(s)' /\ \A n \in Slots(s) : Item(s, n)' = Item(s, n)
         /\ \A s, u \in Streams : \A n \in Slots(s) : \A m \in Slots(u) : Covers(s, n, u, m) => Covers(s, n, u, m)'
         /\ \A s, u \in Streams : \A m \in Slots(u) : Covers(s, Free(s), u, m) => Covers(s, Free(s), u, m)'
         /\ \A u \in Streams : \A m \in Slots(u) : Covers("decode", f, u, m) => Covers("decode", f, u, m)'
         /\ \A u, m : Covers("decode", f, u, m)' => Covers("decode", Free("decode"), u, m)'
         /\ Slots("decode")' = Slots("decode") \cup {f}
         /\ \A d \in Slots("decode") : d < f /\ Decoder(d)' = Decoder(d)
         /\ Slots("compute")' = Slots("compute") /\ \A m \in Slots("compute") : Core(m)' = Core(m)
         /\ Slots("caller")' = Slots("caller") /\ \A n \in Slots("caller") : Caller(n)' = Caller(n)
         /\ Disturbers' = Disturbers /\ Disturbers \subseteq Slots("caller")
         /\ \A n \in Slots("caller") : \A c : Gathers(n, c)' <=> Gathers(n, c)
         /\ \A d \in Slots("decode") : HasCore(d)' <=> HasCore(d)
         /\ submitter = t /\ submitter # Nobody /\ Phase = "decodes" /\ Coming = part[t] /\ number[t] = made
         /\ made \in 1 .. MaxStreamed /\ made \in Nat /\ Coming \in 0 .. plan[made].parts - 1
         /\ plan[made].parts \in Nat \ {0}
         /\ Phase' = "multiplies" /\ Coming' = Coming
         /\ Decoder(f)'.do = "decode" /\ Decoder(f)'.of = made /\ Decoder(f)'.part = Coming /\ ~Decoder(f)'.reuses
         /\ TypeOK'
\* What the new decoder and the next core wait for.
         /\ Coming = 0 => \A n \in Slots("caller") :
              Covers("decode", f, "caller", n)' /\ Covers("compute", Free("compute"), "caller", n)'
         /\ Coming = 0 => \A w \in pendingOn["caller"], m \in Slots("compute") :
              w[1] = "compute" /\ w[2] >= m => Covers("decode", f, "compute", m)'
         /\ Coming >= 2 => \A m \in Slots("compute") :
              Core(m).of < made \/ Core(m).part <= Coming - 2 => Covers("decode", f, "compute", m)'
         /\ \A d \in Slots("decode")' : Covers("compute", Free("compute"), "decode", d)'
<1>. USE DEF StreamsInv, OfSubmission
<1>. /\ "caller" \in Streams /\ "compute" \in Streams /\ "decode" \in Streams
     /\ "caller" # "compute" /\ "caller" # "decode" /\ "compute" # "decode"
  BY StreamNames
<1>. DEFINE after == pendingOn["decode"] \cup ForkAll(Coming) \cup FreesTile(Coming)
            x == Kernel("decode", t, after)
<1>1. /\ submitter = t /\ submitter # Nobody /\ Phase = "decodes" /\ Coming = part[t] /\ number[t] = made
      /\ made \in 1 .. MaxStreamed /\ made \in Nat /\ Coming \in Nat /\ Coming < plan[made].parts
      /\ plan[made].parts \in Nat \ {0}
  <2>1. /\ submitter = t /\ submitter # Nobody /\ Phase = "decodes" /\ Coming = part[t] /\ number[t] = made
        /\ made \in 1 .. MaxStreamed /\ made \in Nat /\ Coming \in Nat /\ plan[made].parts \in Nat \ {0}
    BY SubmitterFacts DEF Decode, Submits
  <2>. QED  BY <2>1 DEF Submitter
<1>2. /\ Enqueue("decode", x) /\ stage' = [stage EXCEPT ![t] = "multiplies"]
      /\ pendingOn' = [pendingOn EXCEPT !["decode"] = {},
                                         !["compute"] = @ \cup ForkAll(Coming) \cup {Launched("decode")}]
      /\ UNCHANGED <<submitter, made, plan, number, part, running, finished, consumed, tile, rows, output>>
  BY <1>1 DEF Decode
<1>3. /\ finished["caller"] \in Nat /\ Len(queue["caller"]) \in Nat /\ f \in Nat
      /\ Slots("caller") = finished["caller"] + 1 .. finished["caller"] + Len(queue["caller"])
      /\ Launched("decode") = <<"decode", f>>
  BY QueueType, SlotsFree DEF Launched, Free, Slots
<1>4. ForkAll(Coming) \in Marks
  <2>1. Issued("caller") \in Streams \X Nat
    BY <1>3 DEF Issued
  <2>2. pendingOn["caller"] \in Marks
    BY DEF TypeOK
  <2>. QED  BY <2>1, <2>2 DEF ForkAll, Marks
<1>5. Coming >= 2 =>
        /\ FreesTile(Coming) = consumed[Coming - 2] /\ consumed[Coming - 2] \in Marks
        /\ \A m \in Slots("compute") :
             Core(m).of < made \/ Core(m).part <= Coming - 2 =>
               \E w \in consumed[Coming - 2] : w[1] = "compute" /\ w[2] >= m
  <2>1. Coming >= 2 => Coming - 2 \in 0 .. Coming - 1
    BY <1>1
  <2>2. Coming >= 2 => Coming - 2 \in DOMAIN consumed
    BY <1>1, <2>1 DEF Recorded
  <2>. QED  BY <1>1, <2>1, <2>2 DEF FreesTile, Recorded, TypeOK
<1>6. after \in Marks
  <2>1. FreesTile(Coming) \in Marks
    BY <1>5, <1>1 DEF FreesTile, Marks
  <2>2. pendingOn["decode"] \in Marks
    BY DEF TypeOK
  <2>. QED  BY <1>4, <2>1, <2>2 DEF Marks
<1>7. x \in Kernels /\ x.after = after /\ x.do = "decode" /\ x.of = made /\ x.part = Coming /\ ~x.reuses
  BY <1>1, <1>6 DEF Kernel, Kernels
<1>. HIDE DEF x
<1>8. /\ pendingOn' \in [Streams -> Marks] /\ pendingOn["decode"] \subseteq x.after
      /\ \A u \in Streams \ {"decode"} : pendingOn[u] \subseteq pendingOn'[u]
      /\ ForkAll(Coming) \cup {<<"decode", f>>} \subseteq pendingOn'["compute"]
  <2>1. pendingOn \in [Streams -> Marks]
    BY DEF TypeOK
  <2>2. pendingOn["compute"] \cup ForkAll(Coming) \cup {Launched("decode")} \in Marks
    BY <1>3, <1>4, <2>1 DEF Marks
  <2>3. {} \in Marks
    BY DEF Marks
  <2>. QED  BY <1>2, <1>3, <1>7, <2>1, <2>2, <2>3
<1>9. /\ Keeps
      /\ Slots("decode")' = Slots("decode") \cup {f} /\ Item("decode", f)' = x /\ f \notin Slots("decode")
      /\ \A n \in Slots("decode") : n < f
      /\ \A u \in Streams \ {"decode"} : Slots(u)' = Slots(u)
      /\ \A u \in Streams : \A m \in Slots(u) : Covers("decode", f, u, m) => Covers("decode", f, u, m)'
      /\ \A w \in x.after, m \in Nat : w[2] >= m => Covers("decode", f, w[1], m)'
      /\ \A u \in Streams \ {"decode"} : \A w \in pendingOn'[u], m \in Nat : w[2] >= m => Covers(u, Free(u), w[1], m)'
      /\ \A u, m : Covers("decode", f, u, m)' => Covers("decode", Free("decode"), u, m)'
  BY <1>2, <1>7, <1>8, LaunchFrame
<1>10. \A s \in Streams : Slots(s) \subseteq Slots(s)'
  BY <1>9
<1>11. /\ \A s \in Streams : \A n \in Slots(s) : Item(s, n)' = Item(s, n)
       /\ \A s, u \in Streams : \A n \in Slots(s) : \A m \in Slots(u) : Covers(s, n, u, m) => Covers(s, n, u, m)'
       /\ \A s, u \in Streams : \A m \in Slots(u) : Covers(s, Free(s), u, m) => Covers(s, Free(s), u, m)'
  BY <1>9, <1>10 DEF Keeps
<1>12. /\ \A d \in Slots("decode") : d < f /\ Decoder(d)' = Decoder(d)
       /\ Slots("compute")' = Slots("compute") /\ \A m \in Slots("compute") : Core(m)' = Core(m)
       /\ Slots("caller")' = Slots("caller") /\ \A n \in Slots("caller") : Caller(n)' = Caller(n)
       /\ Decoder(f)' = x
  BY <1>9, <1>11 DEF Decoder, Core, Caller
<1>13. /\ Disturbers' = Disturbers /\ Disturbers \subseteq Slots("caller")
       /\ \A n \in Slots("caller") : \A c : Gathers(n, c)' <=> Gathers(n, c)
       /\ \A d \in Slots("decode") : HasCore(d)' <=> HasCore(d)
  BY <1>12 DEF Disturbers, Gathers, HasCore
<1>14. Phase' = "multiplies" /\ Coming' = Coming
  BY <1>1, <1>2 DEF Phase, Coming, TypeOK
<1>15. TypeOK'
  <2>1. queue' \in [Streams -> Seq(Kernels)]
    BY <1>2, <1>7 DEF TypeOK, Enqueue
  <2>2. stage' \in [HostThreads -> Submits \cup {"idle", "returned", "threw"}]
    BY <1>2 DEF TypeOK, Submits
  <2>. QED  BY <1>2, <1>8, <2>1, <2>2 DEF TypeOK
<1>16. \A u \in Streams : \A m \in Slots(u) : m \in Nat
  BY SlotsFree
<1>17. ASSUME Coming = 0, NEW n \in Slots("caller")
       PROVE  Covers("decode", f, "caller", n)' /\ Covers("compute", Free("compute"), "caller", n)'
  <2>1. Issued("caller") \in after /\ Issued("caller") \in pendingOn'["compute"]
    BY <1>8, <1>17 DEF ForkAll
  <2>2. Issued("caller")[1] = "caller" /\ Issued("caller")[2] >= n
    BY <1>3 DEF Issued
  <2>. QED  BY <1>7, <1>9, <1>16, <2>1, <2>2
<1>18. ASSUME Coming = 0, NEW w \in pendingOn["caller"], NEW m \in Slots("compute"), w[1] = "compute", w[2] >= m
       PROVE  Covers("decode", f, "compute", m)'
  <2>1. w \in after
    BY <1>18 DEF ForkAll
  <2>. QED  BY <1>7, <1>9, <1>16, <1>18, <2>1
<1>19. ASSUME Coming >= 2, NEW m \in Slots("compute"), Core(m).of < made \/ Core(m).part <= Coming - 2
       PROVE  Covers("decode", f, "compute", m)'
  <2>1. PICK w \in consumed[Coming - 2] : w[1] = "compute" /\ w[2] >= m
    BY <1>5, <1>19
  <2>2. w \in after
    BY <1>5, <1>19, <2>1
  <2>. QED  BY <1>7, <1>9, <1>16, <2>1, <2>2
<1>20. ASSUME NEW d \in Slots("decode") \cup {f}
       PROVE  Covers("compute", Free("compute"), "decode", d)'
  <2>1. d <= f /\ d \in Nat
    BY <1>3, <1>12, <1>16
  <2>2. <<"decode", f>> \in pendingOn'["compute"] /\ <<"decode", f>>[2] >= d
    BY <1>8, <2>1, <1>3
  <2>. QED  BY <1>9, <2>1, <2>2
<1>. HIDE DEF after
<1>. QED  BY <1>1, <1>7, <1>9, <1>10, <1>11, <1>12, <1>13, <1>14, <1>15, <1>17, <1>18, <1>19, <1>20

LEMMA DecodeStep ==
  ASSUME StreamsInv, NEW t \in HostThreads, Decode(t)
  PROVE  StreamsInv'
<1>. USE DEF StreamsInv, OfSubmission
<1>. /\ "caller" \in Streams /\ "compute" \in Streams /\ "decode" \in Streams
     /\ "caller" # "compute" /\ "caller" # "decode" /\ "compute" # "decode"
  BY StreamNames
<1>1. PICK f : f = Free("decode")
  OBVIOUS
<1>2. /\ \A s \in Streams : Slots(s) \subseteq Slots(s)' /\ \A n \in Slots(s) : Item(s, n)' = Item(s, n)
      /\ \A s, u \in Streams : \A n \in Slots(s) : \A m \in Slots(u) : Covers(s, n, u, m) => Covers(s, n, u, m)'
      /\ \A s, u \in Streams : \A m \in Slots(u) : Covers(s, Free(s), u, m) => Covers(s, Free(s), u, m)'
      /\ \A u \in Streams : \A m \in Slots(u) : Covers("decode", f, u, m) => Covers("decode", f, u, m)'
      /\ \A u, m : Covers("decode", f, u, m)' => Covers("decode", Free("decode"), u, m)'
  BY <1>1, DecodeFacts
<1>3. /\ Slots("decode")' = Slots("decode") \cup {f}
      /\ \A d \in Slots("decode") : d < f /\ Decoder(d)' = Decoder(d)
      /\ Slots("compute")' = Slots("compute") /\ \A m \in Slots("compute") : Core(m)' = Core(m)
      /\ Slots("caller")' = Slots("caller") /\ \A n \in Slots("caller") : Caller(n)' = Caller(n)
      /\ Disturbers' = Disturbers /\ Disturbers \subseteq Slots("caller")
      /\ \A n \in Slots("caller") : \A c : Gathers(n, c)' <=> Gathers(n, c)
      /\ \A d \in Slots("decode") : HasCore(d)' <=> HasCore(d)
  BY <1>1, DecodeFacts
<1>4. /\ submitter = t /\ submitter # Nobody /\ Phase = "decodes" /\ Coming = part[t] /\ number[t] = made
      /\ made \in 1 .. MaxStreamed /\ made \in Nat /\ Coming \in 0 .. plan[made].parts - 1
      /\ plan[made].parts \in Nat \ {0} /\ Coming \in Nat
      /\ Phase' = "multiplies" /\ Coming' = Coming
      /\ Decoder(f)'.do = "decode" /\ Decoder(f)'.of = made /\ Decoder(f)'.part = Coming /\ ~Decoder(f)'.reuses
      /\ TypeOK'
  BY <1>1, DecodeFacts
<1>5. /\ Coming = 0 => \A n \in Slots("caller") :
           Covers("decode", f, "caller", n)' /\ Covers("compute", Free("compute"), "caller", n)'
      /\ Coming = 0 => \A w \in pendingOn["caller"], m \in Slots("compute") :
           w[1] = "compute" /\ w[2] >= m => Covers("decode", f, "compute", m)'
      /\ Coming >= 2 => \A m \in Slots("compute") :
           Core(m).of < made \/ Core(m).part <= Coming - 2 => Covers("decode", f, "compute", m)'
      /\ \A d \in Slots("decode")' : Covers("compute", Free("compute"), "decode", d)'
  BY <1>1, DecodeFacts
<1>6. /\ stage' = [stage EXCEPT ![t] = "multiplies"]
      /\ UNCHANGED <<submitter, made, plan, number, part, running, finished, consumed, tile, rows, output>>
  BY DEF Decode
\* The decoder comes behind all that is queued.
<1>7. /\ \A d \in Slots("decode") : OfCall(Decoder(d)) /\ Decoder(d).of \in 1 .. made /\ Before(Decoder(d), Decoder(f)')
      /\ \A m \in Slots("compute") : OfCall(Core(m)) /\ Core(m).of \in 1 .. made /\ Before(Core(m), Decoder(f)')
  <2>1. ASSUME NEW d \in Slots("decode")
        PROVE OfCall(Decoder(d)) /\ Decoder(d).of \in 1 .. made /\ Before(Decoder(d), Decoder(f)')
    <3>1. OfCall(Decoder(d)) /\ Decoder(d).of \in 1 .. made
      BY DEF OnStreams, Kinds, OfCall
    <3>2. Decoder(d).of = made => Decoder(d).part < Coming
      BY <1>4 DEF UpToComing
    <3>. QED  BY <1>4, <3>1, <3>2 DEF Before
  <2>2. ASSUME NEW m \in Slots("compute")
        PROVE OfCall(Core(m)) /\ Core(m).of \in 1 .. made /\ Before(Core(m), Decoder(f)')
    <3>1. OfCall(Core(m)) /\ Core(m).of \in 1 .. made
      BY DEF OnStreams, Kinds, OfCall
    <3>2. Core(m).of = made => Core(m).part < Coming
      BY <1>4 DEF UpToComing
    <3>. QED  BY <1>4, <3>1, <3>2 DEF Before
  <2>. QED  BY <2>1, <2>2
<1>8. Kinds'
  <2>1. OfCall(Decoder(f))'
    BY <1>4, <1>6 DEF OfCall
  <2>2. /\ \A d \in Slots("decode") : Decoder(d)'.do = "decode" /\ OfCall(Decoder(d))'
        /\ \A m \in Slots("compute") : Core(m)'.do = "core" /\ OfCall(Core(m))'
    BY <1>3, <1>6 DEF OnStreams, Kinds, OfCall
  <2>. QED  BY <1>3, <1>4, <1>6, <2>1, <2>2 DEF OnStreams, Kinds
<1>9. HeadsReady'
  <2>1. ASSUME NEW s \in running  PROVE \E h \in Slots(s)' : Ready(s, h)'
    <3>1. s \in Streams
      BY DEF TypeOK
    <3>2. PICK h \in Slots(s) : Ready(s, h)
      BY DEF OnStreams, HeadsReady
    <3>. QED  BY <1>2, <1>6, <3>1, <3>2 DEF Ready
  <2>. QED  BY <1>6, <2>1 DEF HeadsReady
<1>10. InOrder'
  <2>1. \A n, l \in Slots("decode")' : n < l => Before(Decoder(n), Decoder(l))'
    <3>1. \A d \in Slots("decode") : d \in Nat /\ f \in Nat
      BY <1>1, SlotsFree
    <3>2. ASSUME NEW n \in Slots("decode"), NEW l \in Slots("decode"), n < l  PROVE Before(Decoder(n), Decoder(l))'
      <4>1. Before(Decoder(n), Decoder(l))
        BY <3>2 DEF OnStreams, InOrder, Decoder
      <4>. QED  BY <1>3, <4>1 DEF Before
    <3>3. ASSUME NEW n \in Slots("decode")  PROVE Before(Decoder(n), Decoder(f))' /\ ~(f < n)
      BY <1>3, <1>7, <3>1 DEF Before
    <3>4. ~(f < f)
      BY <1>1, SlotsFree
    <3>. QED  BY <1>3, <3>2, <3>3, <3>4
  <2>2. \A n, l \in Slots("compute")' : n < l => Before(Item("compute", n), Item("compute", l))'
    BY <1>2, <1>3 DEF OnStreams, InOrder, Before
  <2>. QED  BY <2>1, <2>2 DEF InOrder, Decoder
<1>11. CoreWaits'
  <2>1. ASSUME NEW m \in Slots("compute"), NEW d \in Slots("decode"), ~Before(Core(m), Decoder(d))'
        PROVE  Covers("compute", m, "decode", d)'
    <3>1. ~Before(Core(m), Decoder(d))
      BY <1>3, <2>1 DEF Before
    <3>. QED  BY <1>2, <3>1 DEF OnStreams, CoreWaits
  <2>2. ASSUME NEW m \in Slots("compute")  PROVE Before(Core(m), Decoder(f))'
    BY <1>3, <1>7 DEF Before
  <2>. QED  BY <1>3, <2>1, <2>2 DEF CoreWaits
<1>12. ASSUME NEW m \in Slots("compute"), Core(m).of < made
       PROVE  Reaches(f, m)' /\ Reaches(Free("decode"), m)'
  <2>1. Reaches(f, m)'
    <3>1. CASE Coming = 0
      <4>1. Covers("caller", Free("caller"), "compute", m)
        BY <1>4, <3>1 DEF Joined, Unforked
      <4>2. PICK k \in Slots("caller") \cup {Free("caller")} :
              k <= Free("caller") /\ \E w \in Waits("caller", k) : w[1] = "compute" /\ w[2] >= m
        BY <4>1 DEF Covers
      <4>3. CASE k = Free("caller")
        <5>1. Waits("caller", k) = pendingOn["caller"]
          BY <4>3 DEF Waits
        <5>. QED  BY <1>5, <3>1, <4>2, <5>1 DEF Reaches
      <4>4. CASE k \in Slots("caller")
        <5>1. k <= k
          BY <4>4, SlotsFree
        <5>2. Covers("caller", k, "compute", m)
          BY <4>2, <5>1 DEF Covers
        <5>. QED  BY <1>2, <1>3, <1>5, <3>1, <4>4, <5>2 DEF Reaches
      <4>. QED  BY <4>2, <4>3, <4>4
    <3>2. CASE Coming > 0
      <4>1. Reaches(f, m)
        BY <1>1, <1>4, <1>12, <3>2 DEF NextWaits, Forked
      <4>. QED  BY <1>2, <1>3, <4>1 DEF Reaches
    <3>. QED  BY <1>4, <3>1, <3>2
  <2>. QED  BY <1>2, <2>1 DEF Reaches
<1>13. DecoderWaits'
  <2>1. ASSUME NEW d \in Slots("decode"), NEW m \in Slots("compute")
        PROVE  /\ Core(m)'.of < Decoder(d)'.of => Reaches(d, m)'
               /\ Core(m)'.of = Decoder(d)'.of /\ Core(m)'.part + 2 <= Decoder(d)'.part =>
                    Covers("decode", d, "compute", m)'
    <3>1. Reaches(d, m) => Reaches(d, m)'
      BY <1>2, <1>3 DEF Reaches
    <3>. QED  BY <1>2, <1>3, <3>1 DEF OnStreams, DecoderWaits
  <2>2. ASSUME NEW m \in Slots("compute")
        PROVE  /\ Core(m)'.of < Decoder(f)'.of => Reaches(f, m)'
               /\ Core(m)'.of = Decoder(f)'.of /\ Core(m)'.part + 2 <= Decoder(f)'.part =>
                    Covers("decode", f, "compute", m)'
    <3>1. Core(m).part + 2 <= Coming => Coming >= 2 /\ Core(m).part <= Coming - 2
      BY <1>4, <1>7 DEF OfCall
    <3>. QED  BY <1>3, <1>4, <1>5, <1>12, <3>1
  <2>. QED  BY <1>3, <2>1, <2>2 DEF DecoderWaits
\* Disturbers come before the decoder and the next core.
<1>14. ASSUME NEW n \in Disturbers
       PROVE  Covers("decode", f, "caller", n)' /\ Covers("compute", Free("compute"), "caller", n)'
  <2>1. n \in Slots("caller")
    BY <1>3
  <2>2. CASE Coming = 0
    BY <1>5, <2>1, <2>2
  <2>3. CASE Coming > 0
    <3>1. Covers("compute", Free("compute"), "caller", n) /\ Covers("decode", f, "caller", n)
      BY <1>1, <1>4, <2>3 DEF NextApart, Forked
    <3>. QED  BY <1>2, <2>1, <3>1
  <2>. QED  BY <1>4, <2>2, <2>3
<1>15. DecodersApart'
  <2>1. ASSUME NEW n \in Disturbers, NEW d \in Slots("decode")
        PROVE  /\ Covers("decode", d, "caller", n)' \/ CoreCovered(n, d)'
               /\ Caller(n)'.do = "gather" /\ Decoder(d)'.of < Caller(n)'.of => CoreCovered(n, d)'
    <3>1. n \in Slots("caller")
      BY <1>3
    <3>2. CoreCovered(n, d) => CoreCovered(n, d)'
      BY <1>2, <1>3, <3>1 DEF CoreCovered
    <3>. QED  BY <1>2, <1>3, <3>1, <3>2 DEF OnStreams, DecodersApart
  <2>2. ASSUME NEW n \in Disturbers
        PROVE  Covers("decode", f, "caller", n)' /\ ~(Decoder(f)'.of < Caller(n)'.of)
    <3>1. Caller(n).of \in 0 .. made
      BY <1>3 DEF OnStreams, Kinds
    <3>. QED  BY <1>3, <1>4, <1>14, <3>1
  <2>. QED  BY <1>3, <2>1, <2>2 DEF DecodersApart
<1>16. CoresApart'
  <2>1. ASSUME NEW n \in Disturbers, NEW m \in Slots("compute")
        PROVE  \/ Covers("caller", n, "compute", m)' /\ ~Gathers(n, Core(m).of)'
               \/ /\ Covers("compute", m, "caller", n)'
                  /\ DecoderWaitsFor(Core(m), n)' /\ GatheredLater(Core(m).of, n)'
    <3>1. n \in Slots("caller")
      BY <1>3
    <3>2. DecoderWaitsFor(Core(m), n) => DecoderWaitsFor(Core(m), n)'
      BY <1>2, <1>3, <3>1 DEF DecoderWaitsFor
    <3>3. GatheredLater(Core(m).of, n) => GatheredLater(Core(m).of, n)'
      BY <1>3, <1>6 DEF GatheredLater
    <3>. QED  BY <1>2, <1>3, <3>1, <3>2, <3>3 DEF OnStreams, CoresApart
  <2>. QED  BY <1>3, <2>1 DEF CoresApart
<1>17. Decoding(Of(made, Coming))'
  BY <1>3, <1>4, <1>6 DEF Decoding, Same, Of
<1>18. CoresHold'
  <2>1. ASSUME NEW m \in Slots("compute")
        PROVE  TileHolds(Core(m))' /\ ChunkHolds(Core(m))' /\ FullHolds(Core(m).of)'
    <3>1. TileHolds(Core(m)) /\ ChunkHolds(Core(m)) /\ FullHolds(Core(m).of)
      BY DEF OnStreams, CoresHold
    <3>2. Decoding(Core(m)) => Decoding(Core(m))'
      BY <1>3 DEF Decoding
    <3>3. TileHolds(Core(m))'
      BY <1>3, <1>6, <1>7, <3>1, <3>2 DEF TileHolds, Before
    <3>4. ChunkHolds(Core(m))'
      BY <1>3, <1>6, <3>1, <3>2 DEF ChunkHolds
    <3>5. FullHolds(Core(m).of)'
      <4>1. Core(m).of <= made
        BY <1>4, <1>7
      <4>2. CASE \E g \in Slots("caller") : Gathers(g, Core(m).of)
        BY <1>3, <1>6, <4>2 DEF FullHolds
      <4>. QED  BY <1>3, <1>4, <1>6, <3>1, <4>1, <4>2 DEF FullHolds
    <3>. QED  BY <3>3, <3>4, <3>5
  <2>. QED  BY <1>3, <2>1 DEF CoresHold
<1>19. UsesStored'
  <2>1. ASSUME NEW n \in Slots("caller"), Caller(n).do = "use", Caller(n).of > 0
        PROVE  StoredBy(Caller(n).of, n)'
    <3>1. \A m \in Slots("compute") : Covers("caller", n, "compute", m) => Covers("caller", n, "compute", m)'
      BY <1>2
    <3>2. StoredBy(Caller(n).of, n)
      BY <2>1 DEF OnStreams, UsesStored
    <3>. QED  BY <1>3, <1>6, <3>1, <3>2 DEF StoredBy
  <2>. QED  BY <1>3, <2>1 DEF UsesStored
<1>20. Submitter'
  <2>1. \A u \in HostThreads : u # t => stage'[u] = stage[u]
    BY <1>6 DEF TypeOK
  <2>2. stage'[t] = "multiplies"
    BY <1>6 DEF TypeOK
  <2>. QED  BY <1>4, <1>6, <2>1, <2>2 DEF Submitter, Submits
<1>21. UpToComing'
  <2>1. \A d \in Slots("decode") : Decoder(d).of = made => Decoder(d).part < Coming
    BY <1>4 DEF UpToComing
  <2>2. \A m \in Slots("compute") : Core(m).of = made => Core(m).part < Coming
    BY <1>4 DEF UpToComing
  <2>. QED  BY <1>3, <1>4, <1>6, <2>1, <2>2 DEF UpToComing
<1>22. NextWaits'
  <2>1. \A m \in Slots("compute")' : Core(m)'.of < made' => Reaches(Free("decode"), m)'
    BY <1>3, <1>6, <1>12
  <2>. QED  BY <1>5, <2>1 DEF NextWaits
<1>23. NextApart'
  <2>1. \A n \in Disturbers' :
          Covers("compute", Free("compute"), "caller", n)' /\ Covers("decode", Free("decode"), "caller", n)'
    BY <1>2, <1>3, <1>14
  <2>2. \A n \in Disturbers' : DecoderWaitsFor(Of(made, Coming), n)'
    BY <1>3, <1>4, <1>6, <1>14 DEF DecoderWaitsFor, Same, Of
  <2>. QED  BY <2>1, <2>2 DEF NextApart
<1>24. NextHolds'
  BY <1>17 DEF NextHolds, TileHolds, ChunkHolds
<1>25. RowsComing'
  <2>1. Phase \in {"decodes", "multiplies"} /\ plan'[made'] = plan[made] /\ rows' = rows /\ made' = made
    BY <1>4, <1>6
  <2>. QED  BY <1>3, <1>4, <2>1 DEF RowsComing
<1>26. Recorded' /\ PartsStored'
  BY <1>3, <1>4, <1>6 DEF Recorded, PartsStored
<1>27. Joined'
  BY <1>4 DEF Joined, Unforked
<1>28. Followed'
  <2>1. \A d \in Slots("decode") : HasCore(d)
    BY <1>4 DEF Followed
  <2>. QED  BY <1>3, <1>4, <1>6, <2>1 DEF Followed, Same, Of
<1>29. CallsStored'
  <2>1. ASSUME NEW u \in HostThreads, stage'[u] \in {"returns", "returned"}
        PROVE  StoredBy(number[u], Free("caller"))'
    <3>1. stage[u] \in {"returns", "returned"}
      BY <1>6, <2>1 DEF TypeOK
    <3>. QED  BY <1>2, <1>3, <1>6, <3>1 DEF CallsStored, StoredBy
  <2>. QED  BY <1>6, <2>1 DEF CallsStored
<1>30. OnStreams'
  BY <1>8, <1>9, <1>10, <1>11, <1>13, <1>15, <1>16, <1>18, <1>19 DEF OnStreams
<1>. QED  BY <1>4, <1>20, <1>21, <1>22, <1>23, <1>24, <1>25, <1>26, <1>27, <1>28, <1>29, <1>30

-----------------------------------------------------------------------------
(* A core is queued. *)

LEMMA MultiplyFacts ==
  ASSUME StreamsInv, NEW t \in HostThreads, MultiplyPart(t), NEW f, f = Free("compute")
  PROVE  /\ \A s \in Streams : Slots(s) \subseteq Slots(s)' /\ \A n \in Slots(s) : Item(s, n)' = Item(s, n)
         /\ \A s, u \in Streams : \A n \in Slots(s) : \A m \in Slots(u) : Covers(s, n, u, m) => Covers(s, n, u, m)'
         /\ \A s, u \in Streams : \A m \in Slots(u) : Covers(s, Free(s), u, m) => Covers(s, Free(s), u, m)'
         /\ \A u \in Streams : \A m \in Slots(u) : Covers("compute", f, u, m) => Covers("compute", f, u, m)'
         /\ \A u, m : Covers("compute", f, u, m)' => Covers("compute", Free("compute"), u, m)'
         /\ Slots("compute")' = Slots("compute") \cup {f} /\ f \in Nat
         /\ \A m \in Slots("compute") : m < f /\ Core(m)' = Core(m)
         /\ Slots("decode")' = Slots("decode") /\ \A d \in Slots("decode") : Decoder(d)' = Decoder(d)
         /\ Slots("caller")' = Slots("caller") /\ \A n \in Slots("caller") : Caller(n)' = Caller(n)
         /\ Disturbers' = Disturbers /\ Disturbers \subseteq Slots("caller")
         /\ \A n \in Slots("caller") : \A c : Gathers(n, c)' <=> Gathers(n, c)
         /\ \A y : Decoding(y)' <=> Decoding(y)
         /\ submitter = t /\ submitter # Nobody /\ Phase = "multiplies" /\ Coming = part[t] /\ number[t] = made
         /\ made \in 1 .. MaxStreamed /\ made \in Nat /\ Coming \in 0 .. plan[made].parts - 1
         /\ plan[made].parts \in Nat \ {0} /\ Coming \in Nat
         /\ Phase' = (IF Coming + 1 < plan[made].parts THEN "decodes" ELSE "joins") /\ Coming' = Coming + 1
         /\ Core(f)'.do = "core" /\ Core(f)'.of = made /\ Core(f)'.part = Coming /\ ~Core(f)'.reuses
         /\ DOMAIN consumed' = DOMAIN consumed \cup {Coming}
         /\ \A j \in DOMAIN consumed : j # Coming => consumed'[j] = consumed[j]
         /\ consumed'[Coming] = {<<"compute", f>>}
         /\ TypeOK'
<1>. USE DEF StreamsInv, OfSubmission
<1>. /\ "caller" \in Streams /\ "compute" \in Streams /\ "decode" \in Streams
     /\ "caller" # "compute" /\ "caller" # "decode" /\ "compute" # "decode"
  BY StreamNames
<1>. DEFINE x == Kernel("core", t, pendingOn["compute"])
<1>1. /\ submitter = t /\ submitter # Nobody /\ Phase = "multiplies" /\ Coming = part[t] /\ number[t] = made
      /\ made \in 1 .. MaxStreamed /\ made \in Nat /\ Coming \in Nat /\ Coming < plan[made].parts
      /\ plan[made].parts \in Nat \ {0}
  <2>1. /\ submitter = t /\ submitter # Nobody /\ Phase = "multiplies" /\ Coming = part[t] /\ number[t] = made
        /\ made \in 1 .. MaxStreamed /\ made \in Nat /\ Coming \in Nat /\ plan[made].parts \in Nat \ {0}
    BY SubmitterFacts DEF MultiplyPart, Submits
  <2>. QED  BY <2>1 DEF Submitter
<1>2. /\ Enqueue("compute", x) /\ pendingOn' = [pendingOn EXCEPT !["compute"] = {}]
      /\ consumed' = [j \in DOMAIN consumed \cup {Coming} |-> IF j = Coming THEN {Launched("compute")} ELSE consumed[j]]
      /\ part' = [part EXCEPT ![t] = Coming + 1]
      /\ stage' = [stage EXCEPT ![t] = IF Coming + 1 < plan[made].parts THEN "decodes" ELSE "joins"]
      /\ UNCHANGED <<submitter, made, plan, number, running, finished, tile, rows, output>>
  BY <1>1 DEF MultiplyPart
<1>3. f \in Nat /\ Launched("compute") = <<"compute", f>>
  BY SlotsFree DEF Launched, Free
<1>4. x \in Kernels /\ x.after = pendingOn["compute"] /\ x.do = "core" /\ x.of = made /\ x.part = Coming /\ ~x.reuses
  <2>1. pendingOn["compute"] \in Marks
    BY DEF TypeOK
  <2>. QED  BY <1>1, <2>1 DEF Kernel, Kernels
<1>. HIDE DEF x
<1>5. /\ pendingOn' \in [Streams -> Marks]
      /\ \A u \in Streams \ {"compute"} : pendingOn[u] \subseteq pendingOn'[u]
      /\ pendingOn["compute"] \subseteq x.after
  BY <1>2, <1>4 DEF TypeOK, Marks
<1>6. /\ Keeps
      /\ Slots("compute")' = Slots("compute") \cup {f} /\ Item("compute", f)' = x /\ f \notin Slots("compute")
      /\ \A n \in Slots("compute") : n < f
      /\ \A u \in Streams \ {"compute"} : Slots(u)' = Slots(u)
      /\ \A u \in Streams : \A m \in Slots(u) : Covers("compute", f, u, m) => Covers("compute", f, u, m)'
      /\ \A u, m : Covers("compute", f, u, m)' => Covers("compute", Free("compute"), u, m)'
  BY <1>2, <1>4, <1>5, LaunchFrame
<1>7. \A s \in Streams : Slots(s) \subseteq Slots(s)'
  BY <1>6
<1>8. /\ \A s \in Streams : \A n \in Slots(s) : Item(s, n)' = Item(s, n)
      /\ \A s, u \in Streams : \A n \in Slots(s) : \A m \in Slots(u) : Covers(s, n, u, m) => Covers(s, n, u, m)'
      /\ \A s, u \in Streams : \A m \in Slots(u) : Covers(s, Free(s), u, m) => Covers(s, Free(s), u, m)'
  BY <1>6, <1>7 DEF Keeps
<1>9. /\ \A m \in Slots("compute") : m < f /\ Core(m)' = Core(m)
      /\ Slots("decode")' = Slots("decode") /\ \A d \in Slots("decode") : Decoder(d)' = Decoder(d)
      /\ Slots("caller")' = Slots("caller") /\ \A n \in Slots("caller") : Caller(n)' = Caller(n)
      /\ Core(f)' = x
  BY <1>6, <1>8 DEF Decoder, Core, Caller
<1>10. /\ Disturbers' = Disturbers /\ Disturbers \subseteq Slots("caller")
       /\ \A n \in Slots("caller") : \A c : Gathers(n, c)' <=> Gathers(n, c)
       /\ \A y : Decoding(y)' <=> Decoding(y)
  BY <1>9 DEF Disturbers, Gathers, Decoding
<1>11. Phase' = (IF Coming + 1 < plan[made].parts THEN "decodes" ELSE "joins") /\ Coming' = Coming + 1
  BY <1>1, <1>2 DEF Phase, Coming, TypeOK
<1>12. TypeOK'
  <2>1. queue' \in [Streams -> Seq(Kernels)]
    BY <1>2, <1>4 DEF TypeOK, Enqueue
  <2>2. stage' \in [HostThreads -> Submits \cup {"idle", "returned", "threw"}]
    BY <1>2 DEF TypeOK, Submits
  <2>3. part' \in [HostThreads -> Nat]
    <3>1. part \in [HostThreads -> Nat]
      BY DEF TypeOK
    <3>2. part' = [part EXCEPT ![t] = Coming + 1] /\ Coming + 1 \in Nat
      BY <1>1, <1>2
    <3>. QED  BY <3>1, <3>2
  <2>4. consumed' \in [DOMAIN consumed' -> Marks]
    <3>1. {<<"compute", f>>} \in Marks
      BY <1>3 DEF Marks
    <3>2. \A j \in DOMAIN consumed : consumed[j] \in Marks
      BY DEF TypeOK
    <3>. QED  BY <1>2, <1>3, <3>1, <3>2
  <2>. QED  BY <1>2, <1>5, <2>1, <2>2, <2>3, <2>4 DEF TypeOK
<1>13. /\ DOMAIN consumed' = DOMAIN consumed \cup {Coming}
       /\ \A j \in DOMAIN consumed : j # Coming => consumed'[j] = consumed[j]
       /\ consumed'[Coming] = {<<"compute", f>>}
  BY <1>2, <1>3
<1>. QED  BY <1>1, <1>3, <1>4, <1>6, <1>7, <1>8, <1>9, <1>10, <1>11, <1>12, <1>13

LEMMA MultiplyStep ==
  ASSUME StreamsInv, NEW t \in HostThreads, MultiplyPart(t)
  PROVE  StreamsInv'
<1>. USE DEF StreamsInv, OfSubmission
<1>. /\ "caller" \in Streams /\ "compute" \in Streams /\ "decode" \in Streams
     /\ "caller" # "compute" /\ "caller" # "decode" /\ "compute" # "decode"
  BY StreamNames
<1>1. PICK f : f = Free("compute")
  OBVIOUS
<1>2. /\ \A s \in Streams : Slots(s) \subseteq Slots(s)' /\ \A n \in Slots(s) : Item(s, n)' = Item(s, n)
      /\ \A s, u \in Streams : \A n \in Slots(s) : \A m \in Slots(u) : Covers(s, n, u, m) => Covers(s, n, u, m)'
      /\ \A s, u \in Streams : \A m \in Slots(u) : Covers(s, Free(s), u, m) => Covers(s, Free(s), u, m)'
      /\ \A u \in Streams : \A m \in Slots(u) : Covers("compute", f, u, m) => Covers("compute", f, u, m)'
      /\ \A u, m : Covers("compute", f, u, m)' => Covers("compute", Free("compute"), u, m)'
  BY <1>1, MultiplyFacts
<1>3. /\ Slots("compute")' = Slots("compute") \cup {f} /\ f \in Nat
      /\ \A m \in Slots("compute") : m < f /\ Core(m)' = Core(m)
      /\ Slots("decode")' = Slots("decode") /\ \A d \in Slots("decode") : Decoder(d)' = Decoder(d)
      /\ Slots("caller")' = Slots("caller") /\ \A n \in Slots("caller") : Caller(n)' = Caller(n)
      /\ Disturbers' = Disturbers /\ Disturbers \subseteq Slots("caller")
      /\ \A n \in Slots("caller") : \A c : Gathers(n, c)' <=> Gathers(n, c)
      /\ \A y : Decoding(y)' <=> Decoding(y)
  BY <1>1, MultiplyFacts
<1>4. /\ submitter = t /\ submitter # Nobody /\ Phase = "multiplies" /\ Coming = part[t] /\ number[t] = made
      /\ made \in 1 .. MaxStreamed /\ made \in Nat /\ Coming \in 0 .. plan[made].parts - 1
      /\ plan[made].parts \in Nat \ {0} /\ Coming \in Nat
      /\ Phase' = (IF Coming + 1 < plan[made].parts THEN "decodes" ELSE "joins") /\ Coming' = Coming + 1
      /\ Core(f)'.do = "core" /\ Core(f)'.of = made /\ Core(f)'.part = Coming /\ ~Core(f)'.reuses
      /\ TypeOK'
  BY <1>1, MultiplyFacts
<1>5. /\ DOMAIN consumed' = DOMAIN consumed \cup {Coming}
      /\ \A j \in DOMAIN consumed : j # Coming => consumed'[j] = consumed[j]
      /\ consumed'[Coming] = {<<"compute", f>>}
  BY <1>1, MultiplyFacts
<1>6. /\ stage' = [stage EXCEPT ![t] = IF Coming + 1 < plan[made].parts THEN "decodes" ELSE "joins"]
      /\ part' = [part EXCEPT ![t] = Coming + 1]
      /\ UNCHANGED <<submitter, made, plan, number, running, finished, tile, rows, output>>
  BY <1>4 DEF MultiplyPart
<1>7. /\ \A m \in Slots("compute") : OfCall(Core(m)) /\ Core(m).of \in 1 .. made
      /\ \A m \in Slots("compute") : Core(m).of = made => Core(m).part < Coming
      /\ \A d \in Slots("decode") : OfCall(Decoder(d)) /\ Decoder(d).of \in 1 .. made
      /\ \A d \in Slots("decode") : Decoder(d).of = made => Decoder(d).part <= Coming
      /\ \A m \in Slots("compute") : Before(Core(m), Core(f)')
  <2>1. /\ \A m \in Slots("compute") : OfCall(Core(m)) /\ Core(m).of \in 1 .. made
        /\ \A d \in Slots("decode") : OfCall(Decoder(d)) /\ Decoder(d).of \in 1 .. made
    BY DEF OnStreams, Kinds, OfCall
  <2>2. /\ \A m \in Slots("compute") : Core(m).of = made => Core(m).part < Coming
        /\ \A d \in Slots("decode") : Decoder(d).of = made => Decoder(d).part < Coming \/ Decoder(d).part = Coming
    BY <1>4 DEF UpToComing
  <2>3. \A d \in Slots("decode") : Decoder(d).part \in Int
    BY <2>1 DEF OfCall
  <2>4. \A d \in Slots("decode") : Decoder(d).of = made => Decoder(d).part <= Coming
    BY <1>4, <2>2, <2>3
  <2>. QED  BY <1>4, <2>1, <2>2, <2>4 DEF Before
<1>8. Kinds'
  <2>1. OfCall(Core(f))'
    BY <1>4, <1>6 DEF OfCall
  <2>2. /\ \A d \in Slots("decode") : Decoder(d)'.do = "decode" /\ OfCall(Decoder(d))'
        /\ \A m \in Slots("compute") : Core(m)'.do = "core" /\ OfCall(Core(m))'
    BY <1>3, <1>6 DEF OnStreams, Kinds, OfCall
  <2>. QED  BY <1>3, <1>4, <1>6, <2>1, <2>2 DEF OnStreams, Kinds
<1>9. HeadsReady'
  <2>1. ASSUME NEW s \in running  PROVE \E h \in Slots(s)' : Ready(s, h)'
    <3>1. s \in Streams
      BY DEF TypeOK
    <3>2. PICK h \in Slots(s) : Ready(s, h)
      BY DEF OnStreams, HeadsReady
    <3>. QED  BY <1>2, <1>6, <3>1, <3>2 DEF Ready
  <2>. QED  BY <1>6, <2>1 DEF HeadsReady
<1>10. InOrder'
  <2>1. \A n, l \in Slots("compute")' : n < l => Before(Core(n), Core(l))'
    <3>1. \A m \in Slots("compute") : m \in Nat
      BY SlotsFree
    <3>2. ASSUME NEW n \in Slots("compute"), NEW l \in Slots("compute"), n < l  PROVE Before(Core(n), Core(l))'
      <4>1. Before(Core(n), Core(l))
        BY <3>2 DEF OnStreams, InOrder, Core
      <4>. QED  BY <1>3, <4>1 DEF Before
    <3>3. ASSUME NEW n \in Slots("compute")  PROVE Before(Core(n), Core(f))' /\ ~(f < n)
      BY <1>3, <1>7, <3>1 DEF Before
    <3>4. ~(f < f)
      BY <1>3
    <3>. QED  BY <1>3, <3>2, <3>3, <3>4
  <2>2. \A n, l \in Slots("decode")' : n < l => Before(Item("decode", n), Item("decode", l))'
    BY <1>2, <1>3 DEF OnStreams, InOrder, Before
  <2>. QED  BY <2>1, <2>2 DEF InOrder, Core
<1>11. CoreWaits'
  <2>1. ASSUME NEW m \in Slots("compute"), NEW d \in Slots("decode"), ~Before(Core(m), Decoder(d))'
        PROVE  Covers("compute", m, "decode", d)'
    <3>1. ~Before(Core(m), Decoder(d))
      BY <1>3, <2>1 DEF Before
    <3>. QED  BY <1>2, <3>1 DEF OnStreams, CoreWaits
  <2>2. ASSUME NEW d \in Slots("decode")  PROVE Covers("compute", f, "decode", d)'
    BY <1>1, <1>2, <1>4 DEF NextWaits
  <2>. QED  BY <1>3, <2>1, <2>2 DEF CoreWaits
<1>12. DecoderWaits'
  <2>1. ASSUME NEW d \in Slots("decode"), NEW m \in Slots("compute")
        PROVE  /\ Core(m)'.of < Decoder(d)'.of => Reaches(d, m)'
               /\ Core(m)'.of = Decoder(d)'.of /\ Core(m)'.part + 2 <= Decoder(d)'.part =>
                    Covers("decode", d, "compute", m)'
    <3>1. Reaches(d, m) => Reaches(d, m)'
      BY <1>2, <1>3 DEF Reaches
    <3>. QED  BY <1>2, <1>3, <3>1 DEF OnStreams, DecoderWaits
  <2>2. ASSUME NEW d \in Slots("decode")
        PROVE  /\ ~(Core(f)'.of < Decoder(d)'.of)
               /\ ~(Core(f)'.of = Decoder(d)'.of /\ Core(f)'.part + 2 <= Decoder(d)'.part)
    BY <1>3, <1>4, <1>7 DEF OfCall
  <2>. QED  BY <1>3, <2>1, <2>2 DEF DecoderWaits
<1>14. DecodersApart'
  <2>1. ASSUME NEW n \in Disturbers, NEW d \in Slots("decode")
        PROVE  /\ Covers("decode", d, "caller", n)' \/ CoreCovered(n, d)'
               /\ Caller(n)'.do = "gather" /\ Decoder(d)'.of < Caller(n)'.of => CoreCovered(n, d)'
    <3>1. n \in Slots("caller")
      BY <1>3
    <3>2. CoreCovered(n, d) => CoreCovered(n, d)'
      BY <1>2, <1>3, <3>1 DEF CoreCovered
    <3>. QED  BY <1>2, <1>3, <3>1, <3>2 DEF OnStreams, DecodersApart
  <2>. QED  BY <1>3, <2>1 DEF DecodersApart
<1>15. CoresApart'
  <2>1. ASSUME NEW n \in Disturbers, NEW m \in Slots("compute")
        PROVE  \/ Covers("caller", n, "compute", m)' /\ ~Gathers(n, Core(m).of)'
               \/ /\ Covers("compute", m, "caller", n)'
                  /\ DecoderWaitsFor(Core(m), n)' /\ GatheredLater(Core(m).of, n)'
    <3>1. n \in Slots("caller")
      BY <1>3
    <3>2. DecoderWaitsFor(Core(m), n) => DecoderWaitsFor(Core(m), n)'
      BY <1>2, <1>3, <3>1 DEF DecoderWaitsFor
    <3>3. GatheredLater(Core(m).of, n) => GatheredLater(Core(m).of, n)'
      BY <1>3, <1>6 DEF GatheredLater
    <3>. QED  BY <1>2, <1>3, <3>1, <3>2, <3>3 DEF OnStreams, CoresApart
\* The new core has its decoder in front, and what disturbs comes before that.
  <2>2. ASSUME NEW n \in Disturbers
        PROVE  /\ Covers("compute", f, "caller", n)'
               /\ DecoderWaitsFor(Core(f), n)' /\ GatheredLater(Core(f).of, n)'
    <3>1. n \in Slots("caller")
      BY <1>3
    <3>2. Covers("compute", f, "caller", n) /\ DecoderWaitsFor(Of(made, Coming), n)
      BY <1>1, <1>4 DEF NextApart, Forked
    <3>3. DecoderWaitsFor(Core(f), n)'
      BY <1>2, <1>3, <1>4, <3>1, <3>2 DEF DecoderWaitsFor, Same, Of
    <3>4. plan[made].gather = "full" => \E g \in Slots("caller") : g >= n /\ Gathers(g, made)
      <4>1. n \in Nat /\ \A g \in Slots("caller") : g \in Nat
        BY <3>1, SlotsFree
      <4>2. plan[made].gather = "full" => \E g \in Slots("caller") : Gathers(g, made) /\ n <= g
        BY <1>4 DEF RowsComing
      <4>. QED  BY <4>1, <4>2
    <3>5. GatheredLater(Core(f).of, n)'
      BY <1>3, <1>4, <1>6, <3>4 DEF GatheredLater
    <3>. QED  BY <1>2, <3>1, <3>2, <3>3, <3>5
  <2>. QED  BY <1>3, <2>1, <2>2 DEF CoresApart
<1>16. CoresHold'
  <2>1. ASSUME NEW m \in Slots("compute")
        PROVE  TileHolds(Core(m))' /\ ChunkHolds(Core(m))' /\ FullHolds(Core(m).of)'
    <3>1. TileHolds(Core(m)) /\ ChunkHolds(Core(m)) /\ FullHolds(Core(m).of)
      BY DEF OnStreams, CoresHold
    <3>2. TileHolds(Core(m))'
      BY <1>3, <1>6, <3>1 DEF TileHolds
    <3>3. ChunkHolds(Core(m))'
      BY <1>3, <1>6, <3>1 DEF ChunkHolds
    <3>4. FullHolds(Core(m).of)'
      BY <1>3, <1>6, <3>1 DEF FullHolds
    <3>. QED  BY <3>2, <3>3, <3>4
  <2>2. TileHolds(Core(f))' /\ ChunkHolds(Core(f))' /\ FullHolds(Core(f).of)'
    <3>1. TileHolds(Of(made, Coming)) /\ ChunkHolds(Of(made, Coming))
      BY <1>4 DEF NextHolds
    <3>2. Decoding(Of(made, Coming)) => Decoding(Core(f))'
      BY <1>3, <1>4 DEF Decoding, Same, Of
    <3>3. TileHolds(Core(f))'
      BY <1>3, <1>4, <1>6, <3>1, <3>2 DEF TileHolds, Before, Of
    <3>4. ChunkHolds(Core(f))'
      BY <1>3, <1>4, <1>6, <3>1, <3>2 DEF ChunkHolds, Of
    <3>5. plan[made].gather = "full" =>
            \/ \E g \in Slots("caller") : Gathers(g, made)
            \/ rows = <<made, 0 .. plan[made].parts - 1>> /\ \A d \in Slots("decode") : Decoder(d).of >= made
      BY <1>4 DEF RowsComing
    <3>6. FullHolds(Core(f).of)'
      BY <1>3, <1>4, <1>6, <3>5 DEF FullHolds
    <3>. QED  BY <3>3, <3>4, <3>6
  <2>. QED  BY <1>3, <2>1, <2>2 DEF CoresHold
<1>17. UsesStored'
  <2>1. ASSUME NEW n \in Slots("caller"), Caller(n).do = "use", Caller(n).of > 0
        PROVE  StoredBy(Caller(n).of, n)'
    <3>1. \A m \in Slots("compute") : Covers("caller", n, "compute", m) => Covers("caller", n, "compute", m)'
      BY <1>2
    <3>2. StoredBy(Caller(n).of, n)
      BY <2>1 DEF OnStreams, UsesStored
    <3>. QED  BY <1>3, <1>6, <3>1, <3>2 DEF StoredBy
  <2>. QED  BY <1>3, <2>1 DEF UsesStored
<1>18. Submitter'
  <2>1. \A u \in HostThreads : u # t => stage'[u] = stage[u]
    BY <1>6 DEF TypeOK
  <2>2. stage'[t] = IF Coming + 1 < plan[made].parts THEN "decodes" ELSE "joins"
    BY <1>6 DEF TypeOK
  <2>. QED  BY <1>4, <1>6, <2>1, <2>2 DEF Submitter, Submits
<1>19. UpToComing'
  BY <1>3, <1>4, <1>6, <1>7 DEF UpToComing, OfCall
<1>20. NextWaits'
  <2>1. ASSUME NEW m \in Slots("compute"), Core(m).of < made  PROVE Reaches(Free("decode"), m)'
    <3>1. Reaches(Free("decode"), m)
      BY <1>4, <2>1 DEF NextWaits, Forked
    <3>. QED  BY <1>2, <1>3, <3>1 DEF Reaches
  <2>. QED  BY <1>3, <1>4, <1>6, <2>1 DEF NextWaits
<1>21. NextApart'
  <2>1. ASSUME NEW n \in Disturbers
        PROVE  Covers("compute", Free("compute"), "caller", n)' /\ Covers("decode", Free("decode"), "caller", n)'
    <3>1. Covers("compute", f, "caller", n) /\ Covers("decode", Free("decode"), "caller", n)
      BY <1>1, <1>4 DEF NextApart, Forked
    <3>. QED  BY <1>2, <1>3, <3>1
  <2>. QED  BY <1>3, <1>4, <2>1 DEF NextApart
<1>22. NextHolds'
  BY <1>4 DEF NextHolds
<1>23. RowsComing'
  <2>1. Phase \in {"decodes", "multiplies"} /\ plan'[made'] = plan[made] /\ rows' = rows /\ made' = made
    BY <1>4, <1>6
  <2>. QED  BY <1>3, <1>4, <2>1 DEF RowsComing
<1>24. Recorded'
  <2>1. ASSUME NEW j \in 0 .. Coming
        PROVE  /\ j \in DOMAIN consumed'
               /\ \A m \in Slots("compute")' :
                    Core(m)'.of < made \/ Core(m)'.part <= j => \E w \in consumed'[j] : w[1] = "compute" /\ w[2] >= m
    <3>1. CASE j = Coming
      <4>1. \A m \in Slots("compute") \cup {f} : f >= m
        BY <1>3, SlotsFree
      <4>2. /\ <<"compute", f>> \in consumed'[j]
            /\ <<"compute", f>>[1] = "compute" /\ <<"compute", f>>[2] = f
        BY <1>5, <3>1
      <4>3. j \in DOMAIN consumed'
        BY <1>5, <3>1
      <4>. QED  BY <1>3, <4>1, <4>2, <4>3
    <3>2. CASE j < Coming
      <4>1. j \in 0 .. Coming - 1
        BY <1>4, <3>2
      <4>2. /\ j \in DOMAIN consumed
            /\ \A m \in Slots("compute") :
                 Core(m).of < made \/ Core(m).part <= j => \E w \in consumed[j] : w[1] = "compute" /\ w[2] >= m
        BY <1>4, <4>1 DEF Recorded
      <4>3. ~(Core(f)'.of < made \/ Core(f)'.part <= j)
        BY <1>4, <3>2
      <4>. QED  BY <1>3, <1>4, <1>5, <3>2, <4>2, <4>3
    <3>. QED  BY <1>4, <3>1, <3>2
  <2>2. \A j \in 0 .. Coming' - 1 : j \in 0 .. Coming
    BY <1>4
  <2>. QED  BY <1>6, <2>1, <2>2 DEF Recorded
<1>25. Joined'
  BY <1>4 DEF Joined, Unforked
<1>26. Followed'
  <2>1. ASSUME NEW d \in Slots("decode")  PROVE HasCore(d)'
    <3>1. CASE HasCore(d)
      BY <1>3, <3>1 DEF HasCore
    <3>2. CASE Same(Decoder(d), Of(made, Coming))
      BY <1>3, <1>4, <3>2 DEF HasCore, Same, Of
    <3>. QED  BY <3>1, <3>2 DEF Followed
  <2>. QED  BY <1>3, <2>1 DEF Followed
<1>27. PartsStored'
  <2>1. ASSUME NEW i \in 0 .. Coming
        PROVE  i \in output[made] \/ \E m \in Slots("compute")' : Same(Core(m)', Of(made, i))
    <3>1. CASE i = Coming
      BY <1>3, <1>4, <3>1 DEF Same, Of
    <3>2. CASE i # Coming
      <4>1. i \in 0 .. Coming - 1
        BY <1>4, <3>2
      <4>. QED  BY <1>3, <1>4, <4>1 DEF PartsStored
    <3>. QED  BY <3>1, <3>2
  <2>2. \A i \in 0 .. Coming' - 1 : i \in 0 .. Coming
    BY <1>4
  <2>. QED  BY <1>6, <2>1, <2>2 DEF PartsStored
<1>28. CallsStored'
  <2>1. ASSUME NEW u \in HostThreads, stage'[u] \in {"returns", "returned"}
        PROVE  StoredBy(number[u], Free("caller"))'
    <3>1. stage[u] \in {"returns", "returned"}
      BY <1>6, <2>1 DEF TypeOK
    <3>. QED  BY <1>2, <1>3, <1>6, <3>1 DEF CallsStored, StoredBy
  <2>. QED  BY <1>6, <2>1 DEF CallsStored
<1>29. OnStreams'
  BY <1>8, <1>9, <1>10, <1>11, <1>12, <1>14, <1>15, <1>16, <1>17 DEF OnStreams
<1>. QED  BY <1>4, <1>18, <1>19, <1>20, <1>21, <1>22, <1>23, <1>24, <1>25, <1>26, <1>27, <1>28, <1>29

-----------------------------------------------------------------------------
(* What the device does to the kernels that are left. *)

\* Kernels may go, if they are the first of their stream and wait for nothing more.
Device ==
  /\ UNCHANGED <<hostVars, pendingOn, consumed>>
  /\ \A s \in Streams : Slots(s)' \subseteq Slots(s) /\ \A n \in Slots(s)' : Item(s, n)' = Item(s, n)
  /\ \A s, u \in Streams : \A n \in Slots(s)' : \A m \in Slots(u)' : Covers(s, n, u, m) => Covers(s, n, u, m)'
  /\ \A s, u \in Streams : \A m \in Slots(u)' : Covers(s, Free(s), u, m) => Covers(s, Free(s), u, m)'
  /\ \A s \in Streams : \A n \in Slots(s) : n \in Slots(s)' \/ (Ready(s, n) /\ \A l \in Slots(s) : n <= l)
  /\ \A c \in 1 .. MaxStreamed : output[c] \subseteq output'[c]
  /\ \A m \in Slots("compute") : m \in Slots("compute")' \/ Core(m).part \in output'[Core(m).of]

LEMMA HeadItem ==
  ASSUME TypeOK, NEW s \in Streams, queue[s] # << >>
  PROVE  finished[s] + 1 \in Slots(s) /\ Item(s, finished[s] + 1) = Head(queue[s])
<1>1. PICK a \in Nat, l \in Nat, q \in Seq(Kernels) : a = finished[s] /\ q = queue[s] /\ l = Len(q)
  BY QueueType
<1>2. l > 0 /\ Head(q) = q[1]
  BY <1>1
<1>3. (a + 1) - a = 1
  OBVIOUS
<1>. QED  BY <1>1, <1>2, <1>3 DEF Slots, Item

LEMMA CallTypes ==
  ASSUME TypeOK, Kinds
  PROVE  /\ made \in Nat
         /\ \A d \in Slots("decode") : OfCall(Decoder(d)) /\ Decoder(d).of \in 1 .. made /\ Decoder(d).of \in Nat
                                       /\ Decoder(d).part \in Nat /\ Decoder(d).of \in 1 .. MaxStreamed
         /\ \A m \in Slots("compute") : OfCall(Core(m)) /\ Core(m).of \in 1 .. made /\ Core(m).of \in Nat
                                        /\ Core(m).part \in Nat /\ Core(m).of \in 1 .. MaxStreamed
<1>1. made \in Nat /\ made <= MaxStreamed /\ MaxStreamed \in Nat
  BY MadeType
<1>2. ASSUME NEW x, OfCall(x)
      PROVE  x.of \in 1 .. made /\ x.of \in Nat /\ x.part \in Nat /\ x.of \in 1 .. MaxStreamed
  BY <1>1, <1>2 DEF OfCall
<1>. QED  BY <1>1, <1>2 DEF Kinds

LEMMA DeviceFacts ==
  ASSUME TypeOK, OnStreams, Device
  PROVE  /\ \A d \in Slots("decode")' : d \in Slots("decode") /\ Decoder(d)' = Decoder(d)
         /\ \A m \in Slots("compute")' : m \in Slots("compute") /\ Core(m)' = Core(m)
         /\ \A n \in Slots("caller")' : n \in Slots("caller") /\ Caller(n)' = Caller(n)
         /\ Disturbers' = Disturbers \cap Slots("caller")'
         /\ \A n \in Slots("caller")' : \A c : Gathers(n, c)' <=> Gathers(n, c)
         /\ \A d \in Slots("decode")' : HasCore(d) => HasCore(d)'
         /\ \A n \in Slots("caller")', d \in Slots("decode")' : CoreCovered(n, d) => CoreCovered(n, d)'
         /\ \A n \in Slots("caller")' : \A x : DecoderWaitsFor(x, n) => DecoderWaitsFor(x, n)'
         /\ \A n \in Slots("caller")' : \A c : GatheredLater(c, n) => GatheredLater(c, n)'
         /\ \A n \in Slots("decode")', m \in Slots("compute")' : Reaches(n, m) => Reaches(n, m)'
         /\ \A m \in Slots("compute")' : Reaches(Free("decode"), m) => Reaches(Free("decode"), m)'
         /\ \A c \in 1 .. MaxStreamed : \A n \in Slots("caller")' : StoredBy(c, n) => StoredBy(c, n)'
         /\ \A c \in 1 .. MaxStreamed : StoredBy(c, Free("caller")) => StoredBy(c, Free("caller"))'
         /\ plan' = plan
<1>. /\ "caller" \in Streams /\ "compute" \in Streams /\ "decode" \in Streams
     /\ "caller" # "compute" /\ "caller" # "decode" /\ "compute" # "decode"
  BY StreamNames
<1>1. /\ \A s \in Streams : Slots(s)' \subseteq Slots(s) /\ \A n \in Slots(s)' : Item(s, n)' = Item(s, n)
      /\ \A s, u \in Streams : \A n \in Slots(s)' : \A m \in Slots(u)' : Covers(s, n, u, m) => Covers(s, n, u, m)'
      /\ \A s, u \in Streams : \A m \in Slots(u)' : Covers(s, Free(s), u, m) => Covers(s, Free(s), u, m)'
      /\ plan' = plan
  BY DEF Device, hostVars
<1>2. ASSUME NEW s \in Streams, NEW n \in Slots(s), n \notin Slots(s)', NEW u \in Streams, NEW m \in Slots(u)
      PROVE  ~Covers(s, n, u, m)
  <2>1. Ready(s, n)
    BY <1>2 DEF Device
  <2>. QED  BY <2>1, HeadCovers
<1>3. /\ \A d \in Slots("decode")' : d \in Slots("decode") /\ Decoder(d)' = Decoder(d)
      /\ \A m \in Slots("compute")' : m \in Slots("compute") /\ Core(m)' = Core(m)
      /\ \A n \in Slots("caller")' : n \in Slots("caller") /\ Caller(n)' = Caller(n)
  BY <1>1 DEF Decoder, Core, Caller
<1>4. /\ Disturbers' = Disturbers \cap Slots("caller")'
      /\ \A n \in Slots("caller")' : \A c : Gathers(n, c)' <=> Gathers(n, c)
  BY <1>3 DEF Disturbers, Gathers
\* The core of a decoder that is left is left too.
<1>5. ASSUME NEW d \in Slots("decode")', NEW m \in Slots("compute"), Same(Core(m), Decoder(d))
      PROVE  m \in Slots("compute")'
  <2>1. d \in Slots("decode")
    BY <1>3
  <2>2. ~Before(Core(m), Decoder(d))
    BY <1>5, <2>1, CallTypes DEF Same, Before, OnStreams
  <2>3. Covers("compute", m, "decode", d)
    BY <2>1, <2>2 DEF OnStreams, CoreWaits
  <2>. QED  BY <1>2, <2>1, <2>3
<1>6. \A d \in Slots("decode")' : HasCore(d) => HasCore(d)'
  BY <1>3, <1>5 DEF HasCore, Same
<1>7. ASSUME NEW n \in Slots("caller")', NEW d \in Slots("decode")', CoreCovered(n, d)
      PROVE  CoreCovered(n, d)'
  <2>1. PICK m \in Slots("compute") : Same(Core(m), Decoder(d)) /\ Covers("caller", n, "compute", m)
    BY <1>7 DEF CoreCovered
  <2>2. m \in Slots("compute")'
    BY <1>5, <2>1
  <2>. QED  BY <1>1, <1>3, <2>1, <2>2 DEF CoreCovered, Same
<1>8. ASSUME NEW n \in Slots("caller")', NEW x, DecoderWaitsFor(x, n)
      PROVE  DecoderWaitsFor(x, n)'
  <2>1. PICK d \in Slots("decode") : Same(Decoder(d), x) /\ Covers("decode", d, "caller", n)
    BY <1>8 DEF DecoderWaitsFor
  <2>2. d \in Slots("decode")'
    BY <1>2, <1>3, <2>1
  <2>. QED  BY <1>1, <1>3, <2>1, <2>2 DEF DecoderWaitsFor
<1>9. ASSUME NEW n \in Slots("caller")', NEW c, GatheredLater(c, n)
      PROVE  GatheredLater(c, n)'
  <2>1. SUFFICES ASSUME plan[c].gather = "full"
                 PROVE  \E g \in Slots("caller")' : g >= n /\ Gathers(g, c)'
    BY <1>1 DEF GatheredLater
  <2>2. PICK g \in Slots("caller") : g >= n /\ Gathers(g, c)
    BY <1>9, <2>1 DEF GatheredLater
  <2>3. n \in Slots("caller") /\ n \in Nat /\ g \in Nat
    BY <1>3, SlotsFree
  <2>4. g \in Slots("caller")'
    BY <2>2, <2>3 DEF Device
  <2>. QED  BY <1>4, <2>2, <2>4
<1>10. ASSUME NEW k \in Slots("caller"), NEW m \in Slots("compute")', Covers("caller", k, "compute", m)
       PROVE  k \in Slots("caller")'
  BY <1>2, <1>3, <1>10
<1>11. ASSUME NEW n \in Slots("decode")', NEW m \in Slots("compute")', Reaches(n, m)
       PROVE  Reaches(n, m)'
  <2>1. CASE Covers("decode", n, "compute", m)
    BY <1>1, <2>1 DEF Reaches
  <2>2. CASE \E k \in Slots("caller") : Covers("decode", n, "caller", k) /\ Covers("caller", k, "compute", m)
    BY <1>1, <1>10, <2>2 DEF Reaches
  <2>. QED  BY <1>11, <2>1, <2>2 DEF Reaches
<1>12. ASSUME NEW m \in Slots("compute")', Reaches(Free("decode"), m)
       PROVE  Reaches(Free("decode"), m)'
  <2>1. CASE Covers("decode", Free("decode"), "compute", m)
    BY <1>1, <2>1 DEF Reaches
  <2>2. CASE \E k \in Slots("caller") :
               Covers("decode", Free("decode"), "caller", k) /\ Covers("caller", k, "compute", m)
    <3>1. PICK k \in Slots("caller") :
            Covers("decode", Free("decode"), "caller", k) /\ Covers("caller", k, "compute", m)
      BY <2>2
    <3>2. k \in Slots("caller")'
      BY <1>10, <3>1
    <3>. QED  BY <1>1, <3>1, <3>2 DEF Reaches
  <2>. QED  BY <1>12, <2>1, <2>2 DEF Reaches
\* What a core that is gone has stored is there.
<1>13. ASSUME NEW c \in 1 .. MaxStreamed, NEW i, NEW m \in Slots("compute"), Same(Core(m), Of(c, i))
       PROVE  i \in output'[c] \/ m \in Slots("compute")'
  BY <1>13 DEF Device, Same, Of
<1>14. ASSUME NEW c \in 1 .. MaxStreamed, NEW n \in Slots("caller")', StoredBy(c, n)
       PROVE  StoredBy(c, n)'
  <2>1. ASSUME NEW i \in 0 .. plan[c].parts - 1
        PROVE  \/ i \in output'[c]
               \/ \E m \in Slots("compute")' : Same(Core(m)', Of(c, i)) /\ Covers("caller", n, "compute", m)'
    <3>1. CASE i \in output[c]
      BY <3>1 DEF Device
    <3>2. CASE \E m \in Slots("compute") : Same(Core(m), Of(c, i)) /\ Covers("caller", n, "compute", m)
      <4>1. PICK m \in Slots("compute") : Same(Core(m), Of(c, i)) /\ Covers("caller", n, "compute", m)
        BY <3>2
      <4>2. i \in output'[c] \/ m \in Slots("compute")'
        BY <1>13, <4>1
      <4>. QED  BY <1>1, <1>3, <4>1, <4>2
    <3>. QED  BY <1>14, <3>1, <3>2 DEF StoredBy
  <2>. QED  BY <1>1, <2>1 DEF StoredBy
<1>15. ASSUME NEW c \in 1 .. MaxStreamed, StoredBy(c, Free("caller"))
       PROVE  StoredBy(c, Free("caller"))'
  <2>1. ASSUME NEW i \in 0 .. plan[c].parts - 1
        PROVE  \/ i \in output'[c]
               \/ \E m \in Slots("compute")' :
                    Same(Core(m)', Of(c, i)) /\ Covers("caller", Free("caller"), "compute", m)'
    <3>1. CASE i \in output[c]
      BY <3>1 DEF Device
    <3>2. CASE \E m \in Slots("compute") : Same(Core(m), Of(c, i)) /\ Covers("caller", Free("caller"), "compute", m)
      <4>1. PICK m \in Slots("compute") : Same(Core(m), Of(c, i)) /\ Covers("caller", Free("caller"), "compute", m)
        BY <3>2
      <4>2. i \in output'[c] \/ m \in Slots("compute")'
        BY <1>13, <4>1
      <4>. QED  BY <1>1, <1>3, <4>1, <4>2
    <3>. QED  BY <1>15, <3>1, <3>2 DEF StoredBy
  <2>. QED  BY <1>1, <2>1 DEF StoredBy
<1>. QED  BY <1>1, <1>3, <1>4, <1>6, <1>7, <1>8, <1>9, <1>11, <1>12, <1>14, <1>15

LEMMA DeviceKeeps ==
  ASSUME TypeOK, OnStreams, OfSubmission, Device
  PROVE  /\ Kinds' /\ InOrder' /\ CoreWaits' /\ DecoderWaits' /\ DecodersApart' /\ CoresApart' /\ UsesStored'
         /\ Submitter' /\ UpToComing' /\ NextWaits' /\ Recorded' /\ Joined' /\ Followed' /\ NextApart'
         /\ CallsStored' /\ PartsStored'
         /\ Phase' = Phase /\ Coming' = Coming
<1>. USE DEF OfSubmission, OnStreams
<1>. /\ "caller" \in Streams /\ "compute" \in Streams /\ "decode" \in Streams
     /\ "caller" # "compute" /\ "caller" # "decode" /\ "compute" # "decode"
  BY StreamNames
<1>1. /\ \A s \in Streams : Slots(s)' \subseteq Slots(s) /\ \A n \in Slots(s)' : Item(s, n)' = Item(s, n)
      /\ \A s, u \in Streams : \A n \in Slots(s)' : \A m \in Slots(u)' : Covers(s, n, u, m) => Covers(s, n, u, m)'
      /\ \A s, u \in Streams : \A m \in Slots(u)' : Covers(s, Free(s), u, m) => Covers(s, Free(s), u, m)'
      /\ UNCHANGED <<submitter, made, plan, stage, number, part, consumed>>
  BY DEF Device, hostVars
<1>2. /\ \A d \in Slots("decode")' : d \in Slots("decode") /\ Decoder(d)' = Decoder(d)
      /\ \A m \in Slots("compute")' : m \in Slots("compute") /\ Core(m)' = Core(m)
      /\ \A n \in Slots("caller")' : n \in Slots("caller") /\ Caller(n)' = Caller(n)
      /\ Disturbers' = Disturbers \cap Slots("caller")'
      /\ \A n \in Slots("caller")' : \A c : Gathers(n, c)' <=> Gathers(n, c)
  BY DeviceFacts
<1>3. Phase' = Phase /\ Coming' = Coming /\ (Forked' <=> Forked) /\ (Unforked' <=> Unforked)
  BY <1>1 DEF Phase, Coming, Forked, Unforked
<1>4. Kinds'
  BY <1>1, <1>2 DEF Kinds, OfCall
<1>5. InOrder'
  BY <1>1 DEF InOrder, Before
<1>6. CoreWaits'
  BY <1>1, <1>2 DEF CoreWaits, Before
<1>7. DecoderWaits'
  <2>1. \A n \in Slots("decode")', m \in Slots("compute")' : Reaches(n, m) => Reaches(n, m)'
    BY DeviceFacts
  <2>. QED  BY <1>1, <1>2, <2>1 DEF DecoderWaits
<1>8. DecodersApart'
  <2>1. \A n \in Slots("caller")', d \in Slots("decode")' : CoreCovered(n, d) => CoreCovered(n, d)'
    BY DeviceFacts
  <2>. QED  BY <1>1, <1>2, <2>1 DEF DecodersApart
<1>9. CoresApart'
  <2>1. ASSUME NEW n \in Disturbers', NEW m \in Slots("compute")'
        PROVE  \/ Covers("caller", n, "compute", m)' /\ ~Gathers(n, Core(m).of)'
               \/ /\ Covers("compute", m, "caller", n)'
                  /\ DecoderWaitsFor(Core(m), n)' /\ GatheredLater(Core(m).of, n)'
    <3>1. n \in Slots("caller")' /\ n \in Disturbers
      BY <1>2
    <3>2. DecoderWaitsFor(Core(m), n) => DecoderWaitsFor(Core(m), n)'
      <4>1. PICK x : x = Core(m)
        OBVIOUS
      <4>2. DecoderWaitsFor(x, n) => DecoderWaitsFor(x, n)'
        BY <3>1, DeviceFacts
      <4>. QED  BY <1>2, <4>1, <4>2 DEF DecoderWaitsFor
    <3>3. GatheredLater(Core(m).of, n) => GatheredLater(Core(m).of, n)'
      <4>1. PICK c : c = Core(m).of
        OBVIOUS
      <4>2. GatheredLater(c, n) => GatheredLater(c, n)'
        BY <3>1, DeviceFacts
      <4>. QED  BY <1>2, <4>1, <4>2 DEF GatheredLater
    <3>. QED  BY <1>1, <1>2, <3>1, <3>2, <3>3 DEF CoresApart
  <2>. QED  BY <2>1 DEF CoresApart
<1>11. UsesStored'
  <2>1. ASSUME NEW n \in Slots("caller")', Caller(n).do = "use", Caller(n).of > 0
        PROVE  StoredBy(Caller(n).of, n)'
    <3>1. PICK c : c = Caller(n).of
      OBVIOUS
    <3>2. c \in 1 .. MaxStreamed
      BY <1>2, <2>1, <3>1, MadeType DEF Kinds
    <3>3. StoredBy(c, n)'
      BY <1>2, <2>1, <3>1, <3>2, DeviceFacts DEF UsesStored
    <3>. QED  BY <1>2, <3>1, <3>3 DEF StoredBy
  <2>. QED  BY <1>2, <2>1 DEF UsesStored
<1>12. Submitter'
  BY <1>1, <1>3 DEF Submitter
<1>13. UpToComing' /\ Recorded'
  BY <1>1, <1>2, <1>3 DEF UpToComing, Recorded
<1>14. NextWaits'
  <2>1. \A m \in Slots("compute")' : Reaches(Free("decode"), m) => Reaches(Free("decode"), m)'
    BY DeviceFacts
  <2>. QED  BY <1>1, <1>2, <1>3, <2>1 DEF NextWaits
<1>15. Joined'
  BY <1>1, <1>2, <1>3 DEF Joined
<1>16. Followed'
  <2>1. \A d \in Slots("decode")' : HasCore(d) => HasCore(d)'
    BY DeviceFacts
  <2>. QED  BY <1>1, <1>2, <1>3, <2>1 DEF Followed
<1>17. NextApart'
  <2>1. ASSUME NEW n \in Disturbers', Phase = "multiplies"  PROVE DecoderWaitsFor(Of(made, Coming), n)'
    <3>1. PICK x : x = Of(made, Coming)
      OBVIOUS
    <3>2. DecoderWaitsFor(x, n)'
      BY <1>2, <2>1, <3>1, DeviceFacts DEF NextApart
    <3>. QED  BY <1>1, <1>3, <3>1, <3>2 DEF DecoderWaitsFor, Of
  <2>. QED  BY <1>1, <1>2, <1>3, <2>1 DEF NextApart
<1>18. CallsStored'
  <2>1. ASSUME NEW u \in HostThreads, stage[u] \in {"returns", "returned"}
        PROVE  StoredBy(number[u], Free("caller"))'
    <3>1. number[u] \in 1 .. MaxStreamed
      <4>1. number[u] > 0
        BY <2>1, SubmitterFacts DEF Submitter, Submits
      <4>2. number[u] \in 0 .. made
        BY DEF TypeOK
      <4>. QED  BY <4>1, <4>2, MadeType
    <3>2. StoredBy(number[u], Free("caller"))
      BY <2>1 DEF CallsStored
    <3>3. PICK c : c = number[u]
      OBVIOUS
    <3>4. StoredBy(c, Free("caller"))'
      BY <3>1, <3>2, <3>3, DeviceFacts
    <3>. QED  BY <1>1, <3>3, <3>4 DEF StoredBy
  <2>. QED  BY <1>1, <2>1 DEF CallsStored
<1>19. PartsStored'
  <2>1. ASSUME Phase # "free", NEW i \in 0 .. Coming - 1
        PROVE  i \in output'[made] \/ \E m \in Slots("compute")' : Same(Core(m)', Of(made, i))
    <3>1. made \in 1 .. MaxStreamed
      BY <2>1, MadeType DEF Submitter, Phase
    <3>2. CASE i \in output[made]
      BY <3>1, <3>2 DEF Device
    <3>3. CASE \E m \in Slots("compute") : Same(Core(m), Of(made, i))
      <4>1. PICK m \in Slots("compute") : Same(Core(m), Of(made, i))
        BY <3>3
      <4>2. m \in Slots("compute")' \/ i \in output'[made]
        BY <4>1 DEF Device, Same, Of
      <4>. QED  BY <1>2, <4>1, <4>2
    <3>. QED  BY <2>1, <3>2, <3>3 DEF PartsStored
  <2>. QED  BY <1>1, <1>3, <2>1 DEF PartsStored
<1>. QED  BY <1>3, <1>4, <1>5, <1>6, <1>7, <1>8, <1>9, <1>11, <1>12, <1>13, <1>14, <1>15, <1>16, <1>17, <1>18, <1>19

-----------------------------------------------------------------------------
(* A kernel starts. *)

\* A decoder that may start has nothing in front of it but the core of the part before.
LEMMA DecoderApart ==
  ASSUME TypeOK, OnStreams, NEW h, Ready("decode", h), NEW m \in Slots("compute"), ~Decoding(Core(m))
  PROVE  /\ Core(m).of = Decoder(h).of /\ Decoder(h).part = Core(m).part + 1
         /\ tile[Core(m).part % 2] = <<Core(m).of, Core(m).part>>
         /\ Core(m).part % 2 \in {0, 1} /\ Decoder(h).part % 2 \in {0, 1}
         /\ Core(m).part % 2 # Decoder(h).part % 2
<1>. /\ "caller" \in Streams /\ "compute" \in Streams /\ "decode" \in Streams
  BY StreamNames
<1>1. h \in Slots("decode")
  BY DEF Ready
<1>2. Before(Core(m), Decoder(h)) /\ tile[Core(m).part % 2] = <<Core(m).of, Core(m).part>>
  BY <1>1 DEF OnStreams, CoresHold, TileHolds
<1>3. ~Reaches(h, m) /\ ~Covers("decode", h, "compute", m)
  BY HeadCovers DEF Reaches
<1>4. ~(Core(m).of < Decoder(h).of) /\ ~(Core(m).of = Decoder(h).of /\ Core(m).part + 2 <= Decoder(h).part)
  BY <1>1, <1>3 DEF OnStreams, DecoderWaits
<1>5. PICK a \in Nat, b \in Nat : a = Core(m).part /\ b = Decoder(h).part
  BY <1>1, CallTypes DEF OnStreams
<1>6. Core(m).of = Decoder(h).of /\ b = a + 1
  BY <1>1, <1>2, <1>4, <1>5 DEF Before
<1>7. a % 2 \in {0, 1} /\ (a + 1) % 2 \in {0, 1} /\ a % 2 # (a + 1) % 2
  BY <1>5
<1>. QED  BY <1>2, <1>5, <1>6, <1>7

\* What disturbs has the decoder of every core that is left behind it, and of the next.
LEMMA DisturberApart ==
  ASSUME TypeOK, OnStreams, OfSubmission, NEW h, Ready("caller", h), h \in Disturbers
  PROVE  /\ \A m \in Slots("compute") : Decoding(Core(m)) /\ GatheredLater(Core(m).of, h)
         /\ Phase = "multiplies" => Decoding(Of(made, Coming))
<1>. /\ "caller" \in Streams /\ "compute" \in Streams /\ "decode" \in Streams
  BY StreamNames
<1>1. \A m \in Slots("compute") : ~Covers("caller", h, "compute", m)
  BY HeadCovers
<1>2. \A x : DecoderWaitsFor(x, h) => Decoding(x)
  BY DEF DecoderWaitsFor, Decoding
<1>3. \A m \in Slots("compute") : Decoding(Core(m)) /\ GatheredLater(Core(m).of, h)
  BY <1>1, <1>2 DEF OnStreams, CoresApart
<1>4. Phase = "multiplies" => Decoding(Of(made, Coming))
  BY <1>2 DEF OfSubmission, NextApart
<1>. QED  BY <1>3, <1>4

LEMMA StartStep ==
  ASSUME StreamsInv, NEW s \in Streams, Start(s)
  PROVE  StreamsInv'
<1>. USE DEF StreamsInv
<1>. /\ "caller" \in Streams /\ "compute" \in Streams /\ "decode" \in Streams
     /\ "caller" # "compute" /\ "caller" # "decode" /\ "compute" # "decode"
  BY StreamNames
<1>1. PICK h : h = finished[s] + 1
  OBVIOUS
<1>2. PICK x : x = Item(s, h)
  OBVIOUS
<1>3. /\ h \in Slots(s) /\ x = Head(queue[s]) /\ Ready(s, h)
  BY <1>1, <1>2, HeadItem DEF Start, Ready
<1>4. /\ running' = running \cup {s}
      /\ tile' = [y \in {0, 1} |-> IF x.reuses \/ (x.do = "decode" /\ y = x.part % 2) THEN Garbage ELSE tile[y]]
      /\ rows' = IF x.do = "gather" \/ x.reuses THEN Garbage ELSE rows
      /\ UNCHANGED <<submitter, made, plan, stage, number, part, queue, finished, pendingOn, consumed, output>>
  BY <1>3 DEF Start, hostVars
<1>5. /\ \A u \in Streams : Slots(u)' = Slots(u) /\ \A n \in Slots(u) : Item(u, n)' = Item(u, n)
      /\ \A u, v \in Streams : \A n \in Slots(u) : \A m \in Slots(v) : Covers(u, n, v, m) => Covers(u, n, v, m)'
      /\ \A u, v \in Streams : \A m \in Slots(v) : Covers(u, Free(u), v, m) => Covers(u, Free(u), v, m)'
      /\ \A d \in Slots("decode") : Decoder(d)' = Decoder(d)
      /\ \A m \in Slots("compute") : Core(m)' = Core(m)
      /\ \A n \in Slots("caller") : \A c : Gathers(n, c)' <=> Gathers(n, c)
      /\ Disturbers' = Disturbers
      /\ \A y : Decoding(y)' <=> Decoding(y)
  <2>1. \A u \in Streams : pendingOn[u] \subseteq pendingOn'[u]
    BY <1>4
  <2>. QED  BY <1>4, <2>1, IdleFacts
<1>6. Device
  BY <1>4, <1>5 DEF Device, hostVars
<1>7. /\ Kinds' /\ InOrder' /\ CoreWaits' /\ DecoderWaits' /\ DecodersApart' /\ CoresApart' /\ UsesStored'
      /\ Submitter' /\ UpToComing' /\ NextWaits' /\ Recorded' /\ Joined' /\ Followed' /\ NextApart'
      /\ CallsStored' /\ PartsStored'
      /\ Phase' = Phase /\ Coming' = Coming
  BY <1>6, DeviceKeeps
<1>8. TypeOK'
  <2>1. tile' \in [{0, 1} -> Nat \X Nat]
    <3>1. Garbage \in Nat \X Nat
      BY DEF Garbage, Nobody
    <3>2. \A y \in {0, 1} : tile[y] \in Nat \X Nat
      BY DEF TypeOK
    <3>. QED  BY <1>4, <3>1, <3>2
  <2>. QED  BY <1>4, <2>1 DEF TypeOK
<1>9. HeadsReady'
  <2>1. ASSUME NEW u \in running \cup {s}  PROVE \E k \in Slots(u)' : Ready(u, k)'
    <3>1. u \in Streams
      BY DEF TypeOK
    <3>2. PICK k \in Slots(u) : Ready(u, k)
      BY <1>3 DEF OnStreams, HeadsReady
    <3>. QED  BY <1>4, <1>5, <3>1, <3>2 DEF Ready
  <2>. QED  BY <1>4, <2>1 DEF HeadsReady
\* What is to be kept does not go.
<1>10. /\ \A m \in Slots("compute") : TileHolds(Core(m)) /\ ChunkHolds(Core(m)) /\ FullHolds(Core(m).of)
       /\ Phase = "multiplies" => TileHolds(Of(made, Coming)) /\ ChunkHolds(Of(made, Coming))
  BY DEF OnStreams, OfSubmission, CoresHold, NextHolds
<1>11. CASE s = "compute" \/ (s = "caller" /\ h \notin Disturbers)
  <2>1. ~x.reuses /\ x.do # "decode" /\ x.do # "gather"
    <3>1. CASE s = "compute"
      BY <1>2, <1>3, <3>1 DEF OnStreams, Kinds, OfCall, Core
    <3>2. CASE s = "caller" /\ h \notin Disturbers
      BY <1>2, <1>3, <3>2 DEF OnStreams, Kinds, Disturbers, Caller
    <3>. QED  BY <1>11, <3>1, <3>2
  <2>2. tile' = tile /\ rows' = rows
    BY <1>4, <2>1 DEF TypeOK
  <2>3. ASSUME NEW m \in Slots("compute")  PROVE TileHolds(Core(m))' /\ ChunkHolds(Core(m))' /\ FullHolds(Core(m).of)'
    BY <1>4, <1>5, <1>10, <2>2 DEF TileHolds, ChunkHolds, FullHolds
  <2>4. CoresHold'
    BY <1>5, <2>3 DEF CoresHold
  <2>5. NextHolds'
    BY <1>4, <1>5, <1>7, <1>10, <2>2 DEF NextHolds, TileHolds, ChunkHolds, Of
  <2>6. RowsComing'
    BY <1>4, <1>5, <1>7, <2>2 DEF OfSubmission, RowsComing
  <2>. QED  BY <1>7, <1>8, <1>9, <2>4, <2>5, <2>6 DEF OnStreams, OfSubmission
<1>12. CASE s = "caller" /\ h \in Disturbers
  <2>1. /\ \A m \in Slots("compute") : Decoding(Core(m)) /\ GatheredLater(Core(m).of, h)
        /\ Phase = "multiplies" => Decoding(Of(made, Coming))
    BY <1>3, <1>12, DisturberApart
  <2>2. ASSUME NEW m \in Slots("compute")  PROVE TileHolds(Core(m))' /\ ChunkHolds(Core(m))' /\ FullHolds(Core(m).of)'
    <3>1. Decoding(Core(m))'
      BY <1>5, <2>1 DEF Decoding
    <3>2. TileHolds(Core(m))' /\ ChunkHolds(Core(m))'
      BY <3>1 DEF TileHolds, ChunkHolds
    <3>3. FullHolds(Core(m).of)'
      BY <1>4, <1>5, <2>1 DEF FullHolds, GatheredLater
    <3>. QED  BY <3>2, <3>3
  <2>3. CoresHold'
    BY <1>5, <2>2 DEF CoresHold
  <2>4. NextHolds'
    <3>1. Phase = "multiplies" => Decoding(Of(made, Coming))'
      BY <1>4, <1>5, <1>7, <2>1 DEF Decoding, Of
    <3>. QED  BY <1>7, <3>1 DEF NextHolds, TileHolds, ChunkHolds
  <2>5. RowsComing'
    BY <1>4, <1>5, <1>7, <1>12 DEF OfSubmission, RowsComing
  <2>. QED  BY <1>7, <1>8, <1>9, <2>3, <2>4, <2>5 DEF OnStreams, OfSubmission
<1>13. CASE s = "decode"
  <2>1. x = Decoder(h) /\ h \in Slots("decode") /\ x.do = "decode" /\ ~x.reuses
    BY <1>2, <1>3, <1>13 DEF OnStreams, Kinds, OfCall, Decoder
  <2>2. rows' = rows /\ tile' = [y \in {0, 1} |-> IF y = x.part % 2 THEN Garbage ELSE tile[y]]
    BY <1>4, <2>1
  <2>3. ASSUME NEW m \in Slots("compute")  PROVE TileHolds(Core(m))' /\ ChunkHolds(Core(m))' /\ FullHolds(Core(m).of)'
    <3>1. TileHolds(Core(m))'
      <4>1. CASE Decoding(Core(m))
        BY <1>5, <4>1 DEF TileHolds
      <4>2. CASE ~Decoding(Core(m))
        <5>1. tile'[Core(m).part % 2] = <<Core(m).of, Core(m).part>>
          BY <1>3, <1>13, <2>1, <2>2, <4>2, DecoderApart
        <5>. QED  BY <1>5, <1>10, <4>2, <5>1 DEF TileHolds
      <4>. QED  BY <4>1, <4>2
    <3>2. ChunkHolds(Core(m))' /\ FullHolds(Core(m).of)'
      BY <1>4, <1>5, <1>10, <2>2 DEF ChunkHolds, FullHolds
    <3>. QED  BY <3>1, <3>2
  <2>4. CoresHold'
    BY <1>5, <2>3 DEF CoresHold
  <2>5. NextHolds'
    <3>1. ASSUME Phase = "multiplies"  PROVE Decoding(Of(made, Coming))
      <4>1. ~Before(Of(made, Coming), Decoder(h))
        <5>1. Decoder(h).of <= made /\ made \in Nat /\ Decoder(h).of \in Nat /\ Decoder(h).part \in Nat
          BY <2>1, CallTypes DEF OnStreams
        <5>2. Coming \in Nat /\ (Decoder(h).of = made => Decoder(h).part <= Coming)
          <6>1. Decoder(h).of = made => Decoder(h).part < Coming \/ Decoder(h).part = Coming
            BY <2>1, <3>1 DEF OfSubmission, UpToComing
          <6>2. submitter # Nobody
            BY <3>1 DEF Phase
          <6>3. Coming \in Nat
            BY <6>2 DEF OfSubmission, Submitter, Coming, TypeOK
          <6>. QED  BY <5>1, <6>1, <6>3
        <5>. QED  BY <5>1, <5>2 DEF Before, Of
      <4>. QED  BY <1>10, <2>1, <3>1, <4>1 DEF TileHolds
    <3>2. Phase = "multiplies" => Decoding(Of(made, Coming))'
      BY <1>4, <1>5, <1>7, <3>1 DEF Decoding, Of
    <3>. QED  BY <1>7, <3>2 DEF NextHolds, TileHolds, ChunkHolds
  <2>6. RowsComing'
    BY <1>4, <1>5, <1>7, <2>2 DEF OfSubmission, RowsComing
  <2>. QED  BY <1>7, <1>8, <1>9, <2>4, <2>5, <2>6 DEF OnStreams, OfSubmission
<1>. QED  BY <1>11, <1>12, <1>13 DEF Streams

-----------------------------------------------------------------------------
(* A kernel finishes. *)

LEMMA FinishFrame ==
  ASSUME StreamsInv, NEW s \in Streams, Finish(s), NEW h, h = finished[s] + 1, NEW x, x = Item(s, h)
  PROVE  /\ Ready(s, h) /\ h \in Slots(s) /\ \A n \in Slots(s) : h <= n
         /\ Slots(s)' = Slots(s) \ {h} /\ \A u \in Streams \ {s} : Slots(u)' = Slots(u)
         /\ tile' = (IF x.do = "decode" THEN [tile EXCEPT ![x.part % 2] = <<x.of, x.part>>] ELSE tile)
         /\ rows' = Gathered(x)
         /\ Device /\ TypeOK' /\ HeadsReady'
<1>. USE DEF StreamsInv
<1>. /\ "caller" \in Streams /\ "compute" \in Streams /\ "decode" \in Streams
     /\ "caller" # "compute" /\ "caller" # "decode" /\ "compute" # "decode"
  BY StreamNames
<1>1. Ready(s, h) /\ h \in Slots(s) /\ x = Head(queue[s]) /\ queue[s] # << >>
  <2>1. Ready(s, h) /\ h \in Slots(s)
    BY DEF Finish, OnStreams, HeadsReady, Ready
  <2>2. queue[s] # << >>
    BY <2>1, QueueType DEF Slots
  <2>. QED  BY <2>1, <2>2, HeadItem
<1>2. /\ running' = running \ {s}
      /\ tile' = (IF x.do = "decode" THEN [tile EXCEPT ![x.part % 2] = <<x.of, x.part>>] ELSE tile)
      /\ rows' = Gathered(x)
      /\ output' = IF x.do = "core" THEN [output EXCEPT ![x.of] = @ \cup {x.part}] ELSE output
      /\ queue' = [queue EXCEPT ![s] = Tail(@)] /\ finished' = [finished EXCEPT ![s] = @ + 1]
      /\ UNCHANGED <<submitter, made, plan, stage, number, part, pendingOn, consumed>>
  BY <1>1 DEF Finish, hostVars
<1>3. /\ Keeps
      /\ Slots(s)' = Slots(s) \ {h} /\ \A n \in Slots(s) : h <= n
      /\ \A u \in Streams \ {s} : Slots(u)' = Slots(u)
  BY <1>1, <1>2, PopFrame
<1>4. \A u \in Streams : Slots(u)' \subseteq Slots(u)
  BY <1>3
<1>5. /\ \A u \in Streams : \A n \in Slots(u)' : Item(u, n)' = Item(u, n)
      /\ \A u, v \in Streams : \A n \in Slots(u)' : \A m \in Slots(v)' : Covers(u, n, v, m) => Covers(u, n, v, m)'
      /\ \A u, v \in Streams : \A m \in Slots(v)' : Covers(u, Free(u), v, m) => Covers(u, Free(u), v, m)'
  BY <1>3, <1>4 DEF Keeps
\* Only a core stores.
<1>6. /\ x.do = "core" => s = "compute" /\ x.of \in 1 .. made /\ x.of \in 1 .. MaxStreamed
                          /\ x.part \in 0 .. plan[x.of].parts - 1
      /\ s = "compute" => x.do = "core" /\ x = Core(h)
      /\ x.do = "decode" => x.of \in Nat /\ x.part \in Nat
  <2>1. CASE s = "compute"
    BY <1>1, <2>1, CallTypes DEF OnStreams, Kinds, OfCall, Core
  <2>2. CASE s = "decode"
    BY <1>1, <2>2, CallTypes DEF OnStreams, Kinds, OfCall, Decoder
  <2>3. CASE s = "caller"
    BY <1>1, <2>3 DEF OnStreams, Kinds, Caller
  <2>. QED  BY <2>1, <2>2, <2>3 DEF Streams
<1>7. \A c \in 1 .. MaxStreamed : output[c] \subseteq output'[c]
  BY <1>2, <1>6 DEF TypeOK
<1>8. \A m \in Slots("compute") : m \in Slots("compute")' \/ Core(m).part \in output'[Core(m).of]
  <2>1. CASE s = "compute"
    <3>1. x.part \in output'[x.of]
      BY <1>2, <1>6, <2>1 DEF TypeOK
    <3>. QED  BY <1>3, <1>6, <2>1, <3>1
  <2>2. CASE s # "compute"
    BY <1>3, <2>2
  <2>. QED  BY <2>1, <2>2
<1>9. Device
  <2>1. \A u \in Streams : \A n \in Slots(u) : n \in Slots(u)' \/ (Ready(u, n) /\ \A l \in Slots(u) : n <= l)
    BY <1>1, <1>3
  <2>. QED  BY <1>2, <1>4, <1>5, <1>7, <1>8, <2>1 DEF Device, hostVars
<1>10. HeadsReady'
  <2>1. ASSUME NEW u \in running \ {s}  PROVE \E k \in Slots(u)' : Ready(u, k)'
    <3>1. u \in Streams \ {s}
      BY DEF TypeOK
    <3>2. PICK k \in Slots(u) : Ready(u, k)
      BY DEF OnStreams, HeadsReady
    <3>3. k \in Slots(u)' /\ Item(u, k)' = Item(u, k) /\ finished'[u] = finished[u]
      BY <1>2, <1>3, <1>5, <3>1 DEF TypeOK
    <3>4. \A w \in Item(u, k).after : finished'[w[1]] >= w[2]
      <4>1. ASSUME NEW w \in Item(u, k).after  PROVE finished'[w[1]] >= w[2]
        <5>1. w \in Streams \X Nat
          BY <3>1, <3>2, SlotsFree DEF Kernels, Marks
        <5>2. finished[w[1]] >= w[2]
          BY <3>2 DEF Ready
        <5>3. finished[w[1]] \in Nat /\ w[2] \in Nat /\ w[1] \in Streams
          BY <5>1 DEF TypeOK
        <5>4. finished'[w[1]] = finished[w[1]] \/ finished'[w[1]] = finished[w[1]] + 1
          BY <1>2, <5>3 DEF TypeOK
        <5>. QED  BY <5>2, <5>3, <5>4
      <4>. QED  BY <4>1
    <3>. QED  BY <3>2, <3>3, <3>4 DEF Ready
  <2>. QED  BY <1>2, <2>1 DEF HeadsReady
<1>11. TypeOK'
  <2>1. queue' \in [Streams -> Seq(Kernels)]
    <3>1. Tail(queue[s]) \in Seq(Kernels)
      BY <1>1, QueueType
    <3>2. queue \in [Streams -> Seq(Kernels)]
      BY DEF TypeOK
    <3>3. queue' = [queue EXCEPT ![s] = Tail(queue[s])]
      BY <1>2
    <3>. QED  BY <3>1, <3>2, <3>3
  <2>2. finished' \in [Streams -> Nat]
    <3>1. finished \in [Streams -> Nat]
      BY DEF TypeOK
    <3>2. finished' = [finished EXCEPT ![s] = finished[s] + 1]
      BY <1>2
    <3>. QED  BY <3>1, <3>2
  <2>3. tile' \in [{0, 1} -> Nat \X Nat]
    BY <1>2, <1>6 DEF TypeOK
  <2>4. output' \in [1 .. MaxStreamed -> SUBSET Nat]
    <3>1. output \in [1 .. MaxStreamed -> SUBSET Nat]
      BY DEF TypeOK
    <3>2. CASE x.do = "core"
      <4>1. x.part \in Nat
        BY <1>6, <3>2
      <4>2. output[x.of] \cup {x.part} \in SUBSET Nat
        BY <1>6, <3>1, <3>2, <4>1
      <4>. QED  BY <1>2, <3>1, <3>2, <4>2
    <3>3. CASE x.do # "core"
      BY <1>2, <3>1, <3>3
    <3>. QED  BY <3>2, <3>3
  <2>5. ASSUME NEW c \in 1 .. MaxStreamed
        PROVE  IF c <= made THEN plan[c].parts > 0 /\ output'[c] \subseteq 0 .. plan[c].parts - 1 ELSE output'[c] = {}
    <3>1. IF c <= made THEN plan[c].parts > 0 /\ output[c] \subseteq 0 .. plan[c].parts - 1 ELSE output[c] = {}
      BY DEF TypeOK
    <3>2. CASE x.do = "core" /\ c = x.of
      <4>1. output'[c] = output[c] \cup {x.part} /\ c <= made
        BY <1>2, <1>6, <3>2, MadeType DEF TypeOK
      <4>. QED  BY <1>6, <3>1, <3>2, <4>1
    <3>3. CASE ~(x.do = "core" /\ c = x.of)
      <4>1. output'[c] = output[c]
        BY <1>2, <3>3 DEF TypeOK
      <4>. QED  BY <3>1, <4>1
    <3>. QED  BY <3>2, <3>3
  <2>6. running' \subseteq Streams
    BY <1>2 DEF TypeOK
  <2>. QED  BY <1>2, <2>1, <2>2, <2>3, <2>4, <2>5, <2>6 DEF TypeOK
<1>. QED  BY <1>1, <1>2, <1>3, <1>9, <1>10, <1>11

\* What a finished kernel leaves to show: the parts that the tile and the rows are about.
LEMMA FinishRest ==
  ASSUME StreamsInv, NEW s \in Streams, Finish(s), CoresHold', NextHolds', RowsComing'
  PROVE  StreamsInv'
<1>1. Device /\ TypeOK' /\ HeadsReady'
  BY FinishFrame
<1>. QED  BY <1>1, DeviceKeeps DEF StreamsInv, OnStreams, OfSubmission

LEMMA FinishCore ==
  ASSUME StreamsInv, Finish("compute")
  PROVE  StreamsInv'
<1>. USE DEF StreamsInv
<1>. /\ "caller" \in Streams /\ "compute" \in Streams /\ "decode" \in Streams
     /\ "caller" # "compute" /\ "caller" # "decode" /\ "compute" # "decode"
  BY StreamNames
<1>1. PICK h : h = finished["compute"] + 1
  OBVIOUS
<1>2. PICK x : x = Item("compute", h)
  OBVIOUS
<1>3. /\ h \in Slots("compute") /\ Slots("decode")' = Slots("decode") /\ Slots("caller")' = Slots("caller")
      /\ tile' = (IF x.do = "decode" THEN [tile EXCEPT ![x.part % 2] = <<x.of, x.part>>] ELSE tile)
      /\ rows' = Gathered(x) /\ Device
  BY <1>1, <1>2, FinishFrame
<1>4. tile' = tile /\ rows' = rows
  BY <1>2, <1>3 DEF OnStreams, Kinds, Core, Gathered
<1>5. /\ \A d \in Slots("decode") : Decoder(d)' = Decoder(d)
      /\ \A m \in Slots("compute")' : m \in Slots("compute") /\ Core(m)' = Core(m)
      /\ \A n \in Slots("caller") : \A c : Gathers(n, c)' <=> Gathers(n, c)
      /\ Disturbers' = Disturbers /\ plan' = plan
  BY <1>3, DeviceFacts DEF Disturbers
<1>6. \A y : Decoding(y)' <=> Decoding(y)
  BY <1>3, <1>5 DEF Decoding
<1>7. ASSUME NEW m \in Slots("compute")'  PROVE TileHolds(Core(m))' /\ ChunkHolds(Core(m))' /\ FullHolds(Core(m).of)'
  <2>1. TileHolds(Core(m)) /\ ChunkHolds(Core(m)) /\ FullHolds(Core(m).of)
    BY <1>5 DEF OnStreams, CoresHold
  <2>. QED  BY <1>3, <1>4, <1>5, <1>6, <2>1 DEF TileHolds, ChunkHolds, FullHolds
<1>8. Phase' = Phase /\ Coming' = Coming /\ made' = made
  BY <1>3, DeviceKeeps DEF Device, hostVars
<1>9. NextHolds'
  BY <1>3, <1>4, <1>5, <1>6, <1>8 DEF OfSubmission, NextHolds, TileHolds, ChunkHolds, Of
<1>10. RowsComing'
  BY <1>3, <1>4, <1>5, <1>8 DEF OfSubmission, RowsComing
<1>11. CoresHold'
  BY <1>7 DEF CoresHold
<1>. QED  BY <1>9, <1>10, <1>11, FinishRest

LEMMA FinishDecoder ==
  ASSUME StreamsInv, Finish("decode")
  PROVE  StreamsInv'
<1>. USE DEF StreamsInv
<1>. /\ "caller" \in Streams /\ "compute" \in Streams /\ "decode" \in Streams
     /\ "caller" # "compute" /\ "caller" # "decode" /\ "compute" # "decode"
  BY StreamNames
<1>1. PICK h : h = finished["decode"] + 1
  OBVIOUS
<1>2. PICK x : x = Decoder(h)
  OBVIOUS
<1>3. /\ Ready("decode", h) /\ h \in Slots("decode") /\ \A d \in Slots("decode") : h <= d
      /\ Slots("decode")' = Slots("decode") \ {h}
      /\ Slots("compute")' = Slots("compute") /\ Slots("caller")' = Slots("caller")
      /\ tile' = (IF x.do = "decode" THEN [tile EXCEPT ![x.part % 2] = <<x.of, x.part>>] ELSE tile)
      /\ rows' = Gathered(x) /\ Device
  BY <1>1, <1>2, FinishFrame DEF Decoder
<1>4. /\ x.of \in 1 .. made /\ x.of \in Nat /\ x.part \in Nat /\ x.part % 2 \in {0, 1} /\ made \in Nat
      /\ tile' = [tile EXCEPT ![x.part % 2] = <<x.of, x.part>>]
      /\ rows' = IF plan[x.of].gather = "chunk"
                 THEN <<x.of, {x.part} \cup (IF rows[1] = x.of THEN rows[2] ELSE {})>> ELSE rows
  <2>1. x.of \in 1 .. made /\ x.of \in Nat /\ x.part \in Nat /\ x.do = "decode" /\ made \in Nat
    BY <1>2, <1>3, CallTypes DEF OnStreams, Kinds
  <2>. QED  BY <1>3, <2>1 DEF Gathered
<1>5. tile'[x.part % 2] = <<x.of, x.part>> /\ \A y \in {0, 1} : y # x.part % 2 => tile'[y] = tile[y]
  BY <1>4 DEF TypeOK
<1>6. /\ \A d \in Slots("decode")' : d \in Slots("decode") /\ Decoder(d)' = Decoder(d)
      /\ \A m \in Slots("compute") : Core(m)' = Core(m)
      /\ \A n \in Slots("caller") : \A c : Gathers(n, c)' <=> Gathers(n, c)
      /\ Disturbers' = Disturbers /\ plan' = plan
  BY <1>3, DeviceFacts DEF Disturbers
<1>7. Phase' = Phase /\ Coming' = Coming /\ made' = made
  BY <1>3, DeviceKeeps DEF Device, hostVars
\* Only the decoder that has finished is gone, and those left come after it.
<1>8. \A y : Decoding(y) => Decoding(y)' \/ Same(x, y)
  BY <1>2, <1>3, <1>6 DEF Decoding
<1>9. \A d \in Slots("decode")' : Before(x, Decoder(d))
  <2>1. ASSUME NEW d \in Slots("decode")'  PROVE h < d
    BY <1>3, SlotsFree
  <2>. QED  BY <1>2, <1>3, <2>1 DEF OnStreams, InOrder, Decoder
<1>10. ASSUME NEW m \in Slots("compute")
       PROVE  TileHolds(Core(m))' /\ ChunkHolds(Core(m))' /\ FullHolds(Core(m).of)'
  <2>1. TileHolds(Core(m)) /\ ChunkHolds(Core(m)) /\ FullHolds(Core(m).of)
    BY DEF OnStreams, CoresHold
  <2>2. ASSUME Decoding(Core(m))'  PROVE TileHolds(Core(m))' /\ ChunkHolds(Core(m))'
    BY <2>2, <1>10 DEF TileHolds, ChunkHolds
  <2>3. ASSUME ~Decoding(Core(m))' /\ Same(x, Core(m))  PROVE TileHolds(Core(m))' /\ ChunkHolds(Core(m))'
    <3>1. TileHolds(Core(m))'
      BY <1>5, <1>6, <1>9, <2>3 DEF TileHolds, Same, Before
    <3>2. ChunkHolds(Core(m))'
      BY <1>4, <1>6, <2>3 DEF ChunkHolds, Same
    <3>. QED  BY <3>1, <3>2
  <2>4. ASSUME ~Decoding(Core(m)) /\ ~Decoding(Core(m))'  PROVE TileHolds(Core(m))' /\ ChunkHolds(Core(m))'
    <3>1. /\ Core(m).of = x.of /\ tile[Core(m).part % 2] = <<Core(m).of, Core(m).part>>
          /\ Core(m).part % 2 \in {0, 1} /\ Core(m).part % 2 # x.part % 2
      BY <1>2, <1>3, <2>4, DecoderApart
    <3>2. TileHolds(Core(m))'
      BY <1>5, <1>6, <2>1, <2>4, <3>1 DEF TileHolds
    <3>3. ChunkHolds(Core(m))'
      BY <1>4, <1>6, <2>1, <2>4, <3>1 DEF ChunkHolds
    <3>. QED  BY <3>2, <3>3
  <2>5. FullHolds(Core(m).of)'
    <3>1. CASE \E g \in Slots("caller") : Gathers(g, Core(m).of)
      BY <1>3, <1>6, <3>1 DEF FullHolds
    <3>2. CASE ~\E g \in Slots("caller") : Gathers(g, Core(m).of)
      <4>1. SUFFICES ASSUME plan[Core(m).of].gather = "full"
                     PROVE  /\ rows' = <<Core(m).of, 0 .. plan[Core(m).of].parts - 1>>
                            /\ \A d \in Slots("decode")' : Decoder(d)'.of >= Core(m).of
        BY <1>6 DEF FullHolds
      <4>2. /\ rows = <<Core(m).of, 0 .. plan[Core(m).of].parts - 1>>
            /\ \A d \in Slots("decode") : Decoder(d).of >= Core(m).of
        BY <2>1, <3>2, <4>1 DEF FullHolds
      <4>3. ~(Core(m).of < x.of)
        <5>1. ~Reaches(h, m)
          BY <1>3, HeadCovers DEF Reaches
        <5>. QED  BY <1>2, <1>3, <5>1 DEF OnStreams, DecoderWaits
      <4>4. Core(m).of = x.of
        BY <1>2, <1>3, <1>4, <4>2, <4>3, CallTypes DEF OnStreams
      <4>5. rows' = rows
        BY <1>4, <4>1, <4>4
      <4>. QED  BY <1>6, <4>2, <4>5
    <3>. QED  BY <3>1, <3>2
  <2>6. TileHolds(Core(m))' /\ ChunkHolds(Core(m))'
    <3>1. Decoding(Core(m)) => Decoding(Core(m))' \/ Same(x, Core(m))
      BY <1>2, <1>3, <1>6 DEF Decoding
    <3>. QED  BY <2>2, <2>3, <2>4, <3>1
  <2>. QED  BY <2>5, <2>6
<1>11. CoresHold'
  BY <1>3, <1>10 DEF CoresHold
<1>12. NextHolds'
  <2>1. SUFFICES ASSUME Phase = "multiplies"
                 PROVE  TileHolds(Of(made, Coming))' /\ ChunkHolds(Of(made, Coming))'
    BY <1>7 DEF NextHolds
  <2>2. TileHolds(Of(made, Coming))
    BY <2>1 DEF OfSubmission, NextHolds
  <2>3. /\ Coming \in Nat
        /\ \A d \in Slots("decode") : Decoder(d).of <= made /\ (Decoder(d).of = made => Decoder(d).part <= Coming)
    <3>1. \A d \in Slots("decode") : Decoder(d).of \in 1 .. made /\ Decoder(d).part \in Nat
      BY CallTypes DEF OnStreams
    <3>2. submitter # Nobody
      BY <2>1 DEF Phase
    <3>3. Coming \in Nat
      BY <3>2 DEF OfSubmission, Submitter, Coming, TypeOK
    <3>4. \A d \in Slots("decode") : Decoder(d).of = made => Decoder(d).part < Coming \/ Decoder(d).part = Coming
      BY <2>1 DEF OfSubmission, UpToComing
    <3>. QED  BY <1>4, <3>1, <3>3, <3>4
  <2>4. Decoding(Of(made, Coming))
    <3>1. ~Before(Of(made, Coming), x)
      BY <1>2, <1>3, <1>4, <2>3 DEF Before, Of
    <3>. QED  BY <1>2, <1>3, <2>2, <3>1 DEF TileHolds
  <2>5. CASE Decoding(Of(made, Coming))'
    BY <2>5 DEF TileHolds, ChunkHolds
  <2>6. CASE x.of = made /\ x.part = Coming
    <3>1. TileHolds(Of(made, Coming))'
      BY <1>5, <1>6, <1>7, <1>9, <2>6 DEF TileHolds, Of, Before
    <3>2. ChunkHolds(Of(made, Coming))'
      BY <1>4, <1>6, <1>7, <2>6 DEF ChunkHolds, Of
    <3>. QED  BY <3>1, <3>2
  <2>7. Decoding(Of(made, Coming))' \/ (x.of = made /\ x.part = Coming)
    BY <1>2, <1>3, <1>6, <1>7, <2>4 DEF Decoding, Same, Of
  <2>. QED  BY <2>5, <2>6, <2>7
<1>13. RowsComing'
  <2>1. SUFFICES ASSUME Phase \in {"decodes", "multiplies"}, plan[made].gather = "full",
                        ~\E g \in Slots("caller") : Gathers(g, made) /\ \A n \in Disturbers : n <= g
                 PROVE  /\ rows' = <<made, 0 .. plan[made].parts - 1>> /\ Disturbers = {}
                        /\ \A d \in Slots("decode")' : Decoder(d)'.of = made
    BY <1>3, <1>6, <1>7 DEF RowsComing
  <2>2. /\ rows = <<made, 0 .. plan[made].parts - 1>> /\ Disturbers = {}
        /\ \A d \in Slots("decode") : Decoder(d).of = made
    BY <2>1 DEF OfSubmission, RowsComing
  <2>. QED  BY <1>2, <1>3, <1>4, <1>6, <2>1, <2>2
<1>. QED  BY <1>11, <1>12, <1>13, FinishRest

LEMMA FinishCaller ==
  ASSUME StreamsInv, Finish("caller")
  PROVE  StreamsInv'
<1>. USE DEF StreamsInv
<1>. /\ "caller" \in Streams /\ "compute" \in Streams /\ "decode" \in Streams
     /\ "caller" # "compute" /\ "caller" # "decode" /\ "compute" # "decode"
  BY StreamNames
<1>1. PICK h : h = finished["caller"] + 1
  OBVIOUS
<1>2. PICK x : x = Caller(h)
  OBVIOUS
<1>3. /\ Ready("caller", h) /\ h \in Slots("caller") /\ \A n \in Slots("caller") : h <= n
      /\ Slots("caller")' = Slots("caller") \ {h}
      /\ Slots("compute")' = Slots("compute") /\ Slots("decode")' = Slots("decode")
      /\ tile' = (IF x.do = "decode" THEN [tile EXCEPT ![x.part % 2] = <<x.of, x.part>>] ELSE tile)
      /\ rows' = Gathered(x) /\ Device
  BY <1>1, <1>2, FinishFrame DEF Caller
<1>4. /\ tile' = tile /\ x.do \in {"gather", "use"}
      /\ rows' = IF x.do = "gather" THEN <<x.of, 0 .. plan[x.of].parts - 1>> ELSE rows
  <2>1. x.do \in {"gather", "use"}
    BY <1>2, <1>3 DEF OnStreams, Kinds
  <2>. QED  BY <1>3, <2>1 DEF Gathered
<1>5. /\ \A d \in Slots("decode") : Decoder(d)' = Decoder(d)
      /\ \A m \in Slots("compute") : Core(m)' = Core(m)
      /\ \A n \in Slots("caller")' : n \in Slots("caller") /\ \A c : Gathers(n, c)' <=> Gathers(n, c)
      /\ Disturbers' = Disturbers \ {h} /\ plan' = plan
  BY <1>3, DeviceFacts DEF Disturbers
<1>6. \A y : Decoding(y)' <=> Decoding(y)
  BY <1>3, <1>5 DEF Decoding
<1>7. Phase' = Phase /\ Coming' = Coming /\ made' = made
  BY <1>3, DeviceKeeps DEF Device, hostVars
<1>8. /\ \A m \in Slots("compute") : TileHolds(Core(m)) /\ ChunkHolds(Core(m)) /\ FullHolds(Core(m).of)
      /\ Phase = "multiplies" => TileHolds(Of(made, Coming)) /\ ChunkHolds(Of(made, Coming))
  BY DEF OnStreams, OfSubmission, CoresHold, NextHolds
<1>9. x.do = "gather" =>
        /\ h \in Disturbers
        /\ \A m \in Slots("compute") : Decoding(Core(m)) /\ GatheredLater(Core(m).of, h)
        /\ Phase = "multiplies" => Decoding(Of(made, Coming))
  <2>1. x.do = "gather" => h \in Disturbers
    BY <1>2, <1>3 DEF Disturbers
  <2>. QED  BY <1>3, <2>1, DisturberApart
\* When rows have been gathered the decoders of calls before are gone.
<1>10. x.do = "gather" => \A d \in Slots("decode") : Decoder(d).of >= x.of
  <2>1. ASSUME x.do = "gather", NEW d \in Slots("decode"), Decoder(d).of < x.of  PROVE FALSE
    <3>1. CoreCovered(h, d)
      BY <1>2, <1>9, <2>1 DEF OnStreams, DecodersApart
    <3>. QED  BY <1>3, <3>1, HeadCovers DEF CoreCovered
  <2>2. x.of \in 0 .. made /\ made \in Nat /\ \A d \in Slots("decode") : Decoder(d).of \in Nat
    BY <1>2, <1>3, CallTypes DEF OnStreams, Kinds
  <2>. QED  BY <2>1, <2>2
<1>11. ASSUME NEW m \in Slots("compute")
       PROVE  TileHolds(Core(m))' /\ ChunkHolds(Core(m))' /\ FullHolds(Core(m).of)'
  <2>1. TileHolds(Core(m))'
    <3>1. TileHolds(Core(m)) /\ Core(m)' = Core(m) /\ (Decoding(Core(m))' <=> Decoding(Core(m)))
      BY <1>3, <1>5, <1>8 DEF Decoding
    <3>. QED  BY <1>3, <1>4, <1>5, <3>1 DEF TileHolds
  <2>2. ChunkHolds(Core(m))'
    BY <1>4, <1>5, <1>6, <1>8, <1>9 DEF ChunkHolds
  <2>3. FullHolds(Core(m).of)'
    <3>1. SUFFICES ASSUME plan[Core(m).of].gather = "full", ~\E g \in Slots("caller")' : Gathers(g, Core(m).of)'
                   PROVE  /\ rows' = <<Core(m).of, 0 .. plan[Core(m).of].parts - 1>>
                          /\ \A d \in Slots("decode") : Decoder(d).of >= Core(m).of
      BY <1>3, <1>5 DEF FullHolds
    <3>2. \A g \in Slots("caller") : Gathers(g, Core(m).of) => g = h
      <4>1. PICK c : c = Core(m).of
        OBVIOUS
      <4>2. Core(m)'.of = c
        BY <1>5, <4>1
      <4>3. ~\E g \in Slots("caller")' : Gathers(g, c)'
        BY <3>1, <4>2 DEF Gathers
      <4>4. \A g \in Slots("caller") \ {h} : ~Gathers(g, c)
        BY <1>3, <1>5, <4>3
      <4>. QED  BY <4>1, <4>4
    <3>3. CASE x.do = "gather"
      <4>1. Gathers(h, Core(m).of)
        BY <1>9, <3>1, <3>2, <3>3 DEF GatheredLater
      <4>2. x.of = Core(m).of
        BY <1>2, <4>1 DEF Gathers
      <4>. QED  BY <1>4, <1>10, <3>3, <4>2
    <3>4. CASE x.do # "gather"
      <4>1. ~Gathers(h, Core(m).of)
        BY <1>2, <3>4 DEF Gathers
      <4>. QED  BY <1>4, <1>8, <3>1, <3>2, <3>4, <4>1 DEF FullHolds
    <3>. QED  BY <3>3, <3>4
  <2>. QED  BY <2>1, <2>2, <2>3
<1>12. CoresHold'
  BY <1>3, <1>11 DEF CoresHold
<1>13. NextHolds'
  BY <1>3, <1>4, <1>5, <1>6, <1>7, <1>8, <1>9 DEF NextHolds, TileHolds, ChunkHolds, Of
<1>14. RowsComing'
  <2>1. SUFFICES ASSUME Phase \in {"decodes", "multiplies"}, plan[made].gather = "full"
                 PROVE  RowsComing'
    BY <1>5, <1>7 DEF RowsComing
  <2>2. CASE \E g \in Slots("caller") : Gathers(g, made) /\ \A n \in Disturbers : n <= g
    <3>1. PICK g \in Slots("caller") : Gathers(g, made) /\ \A n \in Disturbers : n <= g
      BY <2>2
    <3>2. CASE g # h
      BY <1>3, <1>5, <1>7, <3>1, <3>2 DEF RowsComing
    <3>3. CASE g = h
      <4>1. x.do = "gather" /\ x.of = made
        BY <1>2, <3>1, <3>3 DEF Gathers
      <4>2. rows' = <<made, 0 .. plan[made].parts - 1>>
        BY <1>4, <4>1
      <4>3. Disturbers \ {h} = {}
        <5>1. ASSUME NEW n \in Disturbers  PROVE n = h
          <6>1. n \in Slots("caller") /\ n \in Nat /\ h \in Nat
            BY <1>3, SlotsFree DEF Disturbers
          <6>. QED  BY <1>3, <3>1, <3>3, <6>1
        <5>. QED  BY <5>1
      <4>4. \A d \in Slots("decode") : Decoder(d).of = made
        BY <1>10, <4>1, CallTypes DEF OnStreams
      <4>. QED  BY <1>3, <1>5, <1>7, <4>2, <4>3, <4>4 DEF RowsComing
    <3>. QED  BY <3>2, <3>3
  <2>3. CASE /\ rows = <<made, 0 .. plan[made].parts - 1>> /\ Disturbers = {}
             /\ \A d \in Slots("decode") : Decoder(d).of = made
    <3>1. rows' = rows
      BY <1>4, <1>9, <2>3
    <3>. QED  BY <1>3, <1>5, <1>7, <2>3, <3>1 DEF RowsComing
  <2>. QED  BY <2>1, <2>2, <2>3 DEF OfSubmission, RowsComing
<1>. QED  BY <1>12, <1>13, <1>14, FinishRest

-----------------------------------------------------------------------------
(* The invariant holds, and what runs finds its data. *)

LEMMA InitInv == StreamedInit => StreamsInv
<1>. SUFFICES ASSUME StreamedInit  PROVE StreamsInv
  OBVIOUS
<1>. USE DEF StreamedInit
<1>1. \A s \in Streams : Slots(s) = {}
  BY DEF Slots
<1>2. Slots("caller") = {} /\ Slots("compute") = {} /\ Slots("decode") = {} /\ Disturbers = {}
  BY <1>1, StreamNames DEF Disturbers
<1>3. Phase = "free"
  BY DEF Phase
<1>4. TypeOK
  BY StreamedAssumption DEF TypeOK, NoPlan, Garbage, Nobody, Marks, Submits
<1>5. OnStreams
  <2>1. InOrder
    BY <1>1, StreamNames DEF InOrder
  <2>. QED  BY <1>2, <2>1 DEF OnStreams, Kinds, HeadsReady, CoreWaits, DecoderWaits, DecodersApart, CoresApart,
                                     CoresHold, UsesStored
<1>6. OfSubmission
  BY <1>2, <1>3 DEF OfSubmission, Submitter, UpToComing, NextWaits, Recorded, Joined, Followed, NextApart, NextHolds,
                    RowsComing, CallsStored, PartsStored, Forked, Submits
<1>. QED  BY <1>4, <1>5, <1>6 DEF StreamsInv

LEMMA StutterStep ==
  ASSUME StreamsInv, UNCHANGED streamVars
  PROVE  StreamsInv'
<1>. USE DEF StreamsInv, streamVars, hostVars
<1>1. /\ UNCHANGED <<submitter, made, plan, stage, number, part, queue, running, finished, pendingOn, consumed>>
      /\ tile' = tile /\ rows' = rows /\ output' = output
      /\ \A s \in Streams : pendingOn[s] \subseteq pendingOn'[s]
  OBVIOUS
<1>2. TypeOK'
  BY <1>1 DEF TypeOK
<1>3. OnStreams'
  BY <1>1, MadeType, IdleStreams
<1>4. /\ \A u \in Streams : Slots(u)' = Slots(u) /\ \A n \in Slots(u) : Item(u, n)' = Item(u, n)
      /\ \A u, v \in Streams : \A n \in Slots(u) : \A m \in Slots(v) : Covers(u, n, v, m) => Covers(u, n, v, m)'
      /\ \A u, v \in Streams : \A m \in Slots(v) : Covers(u, Free(u), v, m) => Covers(u, Free(u), v, m)'
  BY <1>1, IdleFacts
<1>5. /\ Slots("decode")' = Slots("decode") /\ Slots("caller")' = Slots("caller") /\ Disturbers' = Disturbers
      /\ Slots("compute")' = Slots("compute")
      /\ \A d \in Slots("decode") : Decoder(d)' = Decoder(d)
      /\ \A n \in Slots("caller") : \A c : Gathers(n, c)' <=> Gathers(n, c)
      /\ \A y : Decoding(y)' <=> Decoding(y)
  BY <1>1, IdleFacts
<1>6. Device
  BY <1>1, <1>4, <1>5 DEF Device
<1>7. /\ Submitter' /\ UpToComing' /\ NextWaits' /\ Recorded' /\ Joined' /\ Followed' /\ NextApart'
      /\ CallsStored' /\ PartsStored'
      /\ Phase' = Phase /\ Coming' = Coming
  BY <1>6, DeviceKeeps
<1>8. NextHolds'
  BY <1>1, <1>5, <1>7 DEF OfSubmission, NextHolds, TileHolds, ChunkHolds, Of
<1>9. RowsComing'
  BY <1>1, <1>5, <1>7 DEF OfSubmission, RowsComing
<1>. QED  BY <1>2, <1>3, <1>7, <1>8, <1>9 DEF OfSubmission

LEMMA NextInv == StreamsInv /\ [StreamedNext]_streamVars => StreamsInv'
<1>. SUFFICES ASSUME StreamsInv, [StreamedNext]_streamVars  PROVE StreamsInv'
  OBVIOUS
<1>1. ASSUME NEW t \in HostThreads, Enter(t)  PROVE StreamsInv'
  BY <1>1, EnterStep
<1>2. ASSUME NEW t \in HostThreads, Prepare(t)  PROVE StreamsInv'
  BY <1>2, PrepareIdle, PrepareGather
<1>3. ASSUME NEW t \in HostThreads, Decode(t)  PROVE StreamsInv'
  BY <1>3, DecodeStep
<1>4. ASSUME NEW t \in HostThreads, MultiplyPart(t)  PROVE StreamsInv'
  BY <1>4, MultiplyStep
<1>5. ASSUME NEW t \in HostThreads, Join(t)  PROVE StreamsInv'
  BY <1>5, JoinStep
<1>6. ASSUME NEW t \in HostThreads, Fail(t)  PROVE StreamsInv'
  BY <1>6, FailStep
<1>7. ASSUME NEW t \in HostThreads, Returns(t) \/ Throws(t)  PROVE StreamsInv'
  BY <1>7, ReleaseStep
<1>8. ASSUME NEW t \in HostThreads, Use(t)  PROVE StreamsInv'
  BY <1>8, UseStep
<1>9. ASSUME NEW s \in Streams, Start(s)  PROVE StreamsInv'
  BY <1>9, StartStep
<1>10. ASSUME NEW s \in Streams, Finish(s)  PROVE StreamsInv'
  BY <1>10, FinishCore, FinishDecoder, FinishCaller DEF Streams
<1>11. CASE UNCHANGED streamVars
  BY <1>11, StutterStep
<1>. QED  BY <1>1, <1>2, <1>3, <1>4, <1>5, <1>6, <1>7, <1>8, <1>9, <1>10, <1>11 DEF StreamedNext, AllOver

\* The first kernel of a stream that runs waits for nothing.
LEMMA RunningReady ==
  ASSUME StreamsInv, NEW s \in running
  PROVE  /\ s \in Streams /\ Ready(s, finished[s] + 1) /\ finished[s] + 1 \in Slots(s)
         /\ Now(s) = Item(s, finished[s] + 1)
<1>1. s \in Streams
  BY DEF StreamsInv, TypeOK
<1>2. Ready(s, finished[s] + 1) /\ finished[s] + 1 \in Slots(s)
  BY DEF StreamsInv, OnStreams, HeadsReady, Ready
<1>3. queue[s] # << >>
  BY <1>1, <1>2, QueueType DEF Slots, StreamsInv
<1>. QED  BY <1>1, <1>2, <1>3, HeadItem DEF StreamsInv, Now

LEMMA CoreFindsData ==
  ASSUME StreamsInv, "compute" \in running, NEW x, x = Now("compute")
  PROVE  /\ tile[x.part % 2] = <<x.of, x.part>>
         /\ plan[x.of].gather # "none" => rows[1] = x.of /\ x.part \in rows[2]
<1>. USE DEF StreamsInv
<1>. /\ "caller" \in Streams /\ "compute" \in Streams /\ "decode" \in Streams
  BY StreamNames
<1>1. PICK h \in Slots("compute") : Ready("compute", h) /\ x = Core(h)
  BY RunningReady DEF Core
<1>2. TileHolds(x) /\ ChunkHolds(x) /\ FullHolds(x.of) /\ OfCall(x) /\ x.of \in 1 .. MaxStreamed
  BY <1>1, CallTypes DEF OnStreams, CoresHold
<1>3. ~Decoding(x)
  <2>1. ASSUME NEW d \in Slots("decode"), Same(Decoder(d), x)  PROVE FALSE
    <3>1. ~Before(Core(h), Decoder(d))
      BY <1>1, <2>1, CallTypes DEF Same, Before, OnStreams
    <3>2. Covers("compute", h, "decode", d)
      BY <1>1, <3>1 DEF OnStreams, CoreWaits
    <3>. QED  BY <1>1, <3>2, HeadCovers
  <2>. QED  BY <2>1 DEF Decoding
<1>4. ~\E g \in Slots("caller") : Gathers(g, x.of)
  <2>1. ASSUME NEW g \in Slots("caller"), Gathers(g, x.of)  PROVE FALSE
    <3>1. g \in Disturbers
      BY <2>1 DEF Disturbers, Gathers
    <3>2. Covers("compute", h, "caller", g)
      BY <1>1, <2>1, <3>1 DEF OnStreams, CoresApart
    <3>. QED  BY <1>1, <3>2, HeadCovers
  <2>. QED  BY <2>1
<1>5. tile[x.part % 2] = <<x.of, x.part>>
  BY <1>2, <1>3 DEF TileHolds
<1>6. plan[x.of].gather \in {"none", "chunk", "full"}
  BY <1>2 DEF TypeOK
<1>7. plan[x.of].gather = "chunk" => rows[1] = x.of /\ x.part \in rows[2]
  BY <1>2, <1>3 DEF ChunkHolds
<1>8. plan[x.of].gather = "full" => rows[1] = x.of /\ x.part \in rows[2]
  <2>1. plan[x.of].gather = "full" => rows = <<x.of, 0 .. plan[x.of].parts - 1>>
    BY <1>2, <1>4 DEF FullHolds
  <2>2. x.part \in 0 .. plan[x.of].parts - 1
    BY <1>2 DEF OfCall
  <2>3. PICK r : r = <<x.of, 0 .. plan[x.of].parts - 1>>
    OBVIOUS
  <2>4. r[1] = x.of /\ r[2] = 0 .. plan[x.of].parts - 1
    BY <2>3
  <2>. QED  BY <2>1, <2>2, <2>3, <2>4
<1>. QED  BY <1>5, <1>6, <1>7, <1>8

LEMMA UseFindsData ==
  ASSUME StreamsInv, "caller" \in running, NEW x, x = Now("caller"), x.do = "use"
  PROVE  /\ x.of # Nobody => output[x.of] = 0 .. plan[x.of].parts - 1
         /\ x.reuses => running = {"caller"}
<1>. USE DEF StreamsInv
<1>. /\ "caller" \in Streams /\ "compute" \in Streams /\ "decode" \in Streams
     /\ "caller" # "compute" /\ "caller" # "decode" /\ "compute" # "decode"
  BY StreamNames
<1>1. PICK h \in Slots("caller") : Ready("caller", h) /\ x = Caller(h)
  BY RunningReady DEF Caller
<1>2. x.of # Nobody => output[x.of] = 0 .. plan[x.of].parts - 1
  <2>1. SUFFICES ASSUME x.of # Nobody  PROVE output[x.of] = 0 .. plan[x.of].parts - 1
    OBVIOUS
  <2>2. x.of \in 1 .. made /\ x.of \in 1 .. MaxStreamed /\ x.of <= made /\ x.of > 0
    <3>1. x.of \in 0 .. made
      BY <1>1 DEF OnStreams, Kinds
    <3>. QED  BY <2>1, <3>1, MadeType DEF Nobody
  <2>3. output[x.of] \subseteq 0 .. plan[x.of].parts - 1
    BY <2>2 DEF TypeOK
  <2>4. StoredBy(x.of, h)
    BY <1>1, <2>2 DEF OnStreams, UsesStored
  <2>5. \A m \in Slots("compute") : ~Covers("caller", h, "compute", m)
    BY <1>1, HeadCovers
  <2>6. 0 .. plan[x.of].parts - 1 \subseteq output[x.of]
    BY <2>4, <2>5 DEF StoredBy
  <2>. QED  BY <2>3, <2>6
<1>3. ASSUME x.reuses  PROVE running = {"caller"}
  <2>1. h \in Disturbers
    BY <1>1, <1>3 DEF Disturbers
  <2>2. \A m \in Slots("compute") : ~Covers("caller", h, "compute", m)
    BY <1>1, HeadCovers
  <2>3. "compute" \notin running
    <3>1. SUFFICES ASSUME "compute" \in running  PROVE FALSE
      OBVIOUS
    <3>2. PICK m \in Slots("compute") : Ready("compute", m)
      BY <3>1, RunningReady
    <3>3. Covers("compute", m, "caller", h)
      BY <2>1, <2>2 DEF OnStreams, CoresApart
    <3>. QED  BY <3>2, <3>3, HeadCovers
  <2>4. "decode" \notin running
    <3>1. SUFFICES ASSUME "decode" \in running  PROVE FALSE
      OBVIOUS
    <3>2. PICK d \in Slots("decode") : Ready("decode", d)
      BY <3>1, RunningReady
    <3>3. Covers("decode", d, "caller", h)
      BY <2>1, <2>2 DEF OnStreams, DecodersApart, CoreCovered
    <3>. QED  BY <3>2, <3>3, HeadCovers
  <2>. QED  BY <2>3, <2>4 DEF TypeOK, Streams
<1>. QED  BY <1>2, <1>3

LEMMA InvRuns == StreamsInv => RunsOnItsData
<1>. SUFFICES ASSUME StreamsInv  PROVE RunsOnItsData
  OBVIOUS
<1>1. ASSUME "compute" \in running, NEW x, x = Now("compute")
      PROVE  /\ tile[x.part % 2] = <<x.of, x.part>>
             /\ plan[x.of].gather # "none" => rows[1] = x.of /\ x.part \in rows[2]
  BY <1>1, CoreFindsData
<1>2. ASSUME "caller" \in running, NEW x, x = Now("caller"), x.do = "use"
      PROVE  /\ x.of # Nobody => output[x.of] = 0 .. plan[x.of].parts - 1
             /\ x.reuses => running = {"caller"}
  BY <1>2, UseFindsData
<1>. QED  BY <1>1, <1>2 DEF RunsOnItsData, Runs

\* What is queued on the three streams waits for what it needs, whatever the order in
\* which kernels start and finish, calls overlap and submissions fail.
THEOREM StreamsInOrder == StreamedSpec => []StreamsInv
<1>. QED  BY InitInv, NextInv, PTL DEF StreamedSpec

\* A core finds the decoded weights of its part and its rows, and what the caller does
\* after a call finds every part stored and its storage left alone, for any number of
\* threads, calls and parts.
THEOREM AlwaysRunsOnItsData == StreamedSpec => []RunsOnItsData
<1>. QED  BY StreamsInOrder, InvRuns, PTL

-----------------------------------------------------------------------------
(* Outputs that interleave. *)

LEMMA Larger ==
  ASSUME NEW x \in Nat, NEW y \in Nat, NEW z \in Nat, x <= y
  PROVE  x * z \in Nat /\ y * z \in Nat /\ x * z <= y * z
OBVIOUS

LEMMA NextMultiple ==
  ASSUME NEW x \in Nat, NEW y \in Nat, NEW z \in Nat, x < y
  PROVE  x * z \in Nat /\ y * z \in Nat /\ x * z + z <= y * z /\ (x + 1) * z = x * z + z
OBVIOUS

\* The multiple that the check compares is the last one not above the offset.
LEMMA LastUpToFacts ==
  ASSUME NEW offset \in Nat, NEW step \in Nat, step > 0, NEW count \in Nat, count > 0
  PROVE  LET j == LastUpTo(offset, step, count)
         IN  /\ j \in 0 .. count - 1 /\ j * step \in Nat /\ (j + 1) * step \in Nat
             /\ j * step <= offset
             /\ j + 1 < count => offset < (j + 1) * step
<1>1. PICK q \in Nat, r \in 0 .. step - 1 : offset = q * step + r /\ offset \div step = q
  BY DivMod
<1>. DEFINE j == LastUpTo(offset, step, count)
<1>2. j = (IF q < count - 1 THEN q ELSE count - 1)
  BY <1>1 DEF LastUpTo
<1>. HIDE DEF j
<1>3. j \in 0 .. count - 1 /\ j <= q /\ (j + 1 < count => j = q)
  BY <1>2
<1>4. j * step \in Nat /\ q * step \in Nat /\ j * step <= q * step /\ (j + 1) * step = j * step + step
  BY <1>3, Larger
<1>5. j * step <= offset /\ (j + 1) * step \in Nat
  BY <1>4, <1>1
<1>6. ASSUME j + 1 < count  PROVE offset < (j + 1) * step
  BY <1>6, <1>3, <1>4, <1>1
<1>. QED  BY <1>3, <1>4, <1>5, <1>6 DEF j

\* It stands for all multiples: if it and the next are n or more away, so are the others.
LEMMA NearestDecides ==
  ASSUME NEW offset \in Nat, NEW step \in Nat, step > 0, NEW count \in Nat, NEW n \in Nat, NEW i \in 0 .. count - 1,
         LET j == LastUpTo(offset, step, count)
         IN  /\ offset - j * step >= n
             /\ j + 1 < count => (j + 1) * step - offset >= n
  PROVE  i * step \in Nat /\ (offset - i * step >= n \/ i * step - offset >= n)
<1>. DEFINE j == LastUpTo(offset, step, count)
<1>1. /\ j \in 0 .. count - 1 /\ j * step \in Nat /\ (j + 1) * step \in Nat
      /\ j * step <= offset
      /\ j + 1 < count => offset < (j + 1) * step
  <2>1. count > 0
    OBVIOUS
  <2>. QED  BY <2>1, LastUpToFacts
<1>2. offset - j * step >= n /\ (j + 1 < count => (j + 1) * step - offset >= n)
  OBVIOUS
<1>. HIDE DEF j
<1>3. CASE i <= j
  <2>1. i * step \in Nat /\ i * step <= j * step
    BY <1>1, <1>3, Larger
  <2>. QED  BY <2>1, <1>1, <1>2
<1>4. CASE j + 1 <= i
  <2>1. i * step \in Nat /\ (j + 1) * step <= i * step
    BY <1>1, <1>4, Larger
  <2>2. j + 1 < count
    BY <1>4, <1>1
  <2>. QED  BY <2>1, <2>2, <1>1, <1>2
<1>. QED  BY <1>1, <1>3, <1>4

\* The fields of a call.
IsProduct(p) ==
  /\ p.kind \in {"dense", "tsm", "hybrid", "batch"} /\ (p.kind # "batch" => p.batch = 1)
  /\ p.batch \in Nat /\ p.m \in Nat /\ p.n \in Nat /\ p.tiles \in Nat /\ p.bs \in Nat /\ p.ld \in Nat
  /\ p.splits \in Nat /\ p.splits > 0 /\ p.stages \in Nat /\ p.stages > 0 /\ p.splitM \in Nat
  /\ p.mFirst \in BOOLEAN /\ p.aligned \in BOOLEAN

LEMMA ProductFields == \A p \in Products : IsProduct(p)
BY ProductsAssumption DEF IsProduct

\* No row of one batch and row of another begin less than a row apart.
LEMMA RowsApartIn ==
  ASSUME NEW p, IsProduct(p), p.bs > 0, p.ld >= p.n, p.n > 0, ~OutputOverlaps(p),
         NEW i \in 1 .. p.batch - 1, NEW j \in 0 .. p.m - 1
  PROVE  /\ i * p.bs \in Nat /\ j * p.ld \in Nat /\ i * p.bs >= p.n
         /\ i * p.bs - j * p.ld >= p.n \/ j * p.ld - i * p.bs >= p.n
<1>. USE DEF IsProduct
<1>1. p.batch > 1 /\ p.bs >= p.n /\ p.batch \in Nat /\ p.m \in Nat /\ p.n \in Nat /\ p.bs \in Nat /\ p.ld \in Nat
  BY DEF OutputOverlaps
<1>2. i * p.bs \in Nat /\ i * p.bs >= p.bs
  BY <1>1, Larger
<1>3. j * p.ld \in Nat
  BY <1>1, Larger
<1>4. i * p.bs <= (p.batch - 1) * p.bs /\ (p.batch - 1) * p.bs \in Nat
  BY <1>1, Larger
<1>5. j * p.ld <= (p.m - 1) * p.ld /\ (p.m - 1) * p.ld \in Nat
  BY <1>1, Larger
<1>6. CASE j = 0
  BY <1>6, <1>1, <1>2, <1>3
<1>7. CASE j > 0
  <2>1. p.m > 1 /\ j * p.ld >= p.ld
    BY <1>7, <1>1, Larger
  <2>5. p.ld > 0 /\ p.bs > 0 /\ p.batch > 0 /\ p.m > 0
    BY <2>1, <1>1
  <2>2. CASE p.bs >= (p.m - 1) * p.ld + p.n
    BY <2>2, <1>1, <1>2, <1>3, <1>5
  <2>3. CASE p.ld >= (p.batch - 1) * p.bs + p.n
    BY <2>3, <2>1, <1>1, <1>2, <1>3, <1>4
  <2>4. CASE p.bs < (p.m - 1) * p.ld + p.n /\ p.ld < (p.batch - 1) * p.bs + p.n
    <3>1. CASE p.batch <= p.m
      <4>1. LET last == LastUpTo(i * p.bs, p.ld, p.m)
            IN  ~(i * p.bs - last * p.ld < p.n) /\ ~(last + 1 < p.m /\ (last + 1) * p.ld - i * p.bs < p.n)
        BY <3>1, <2>4, <2>1, <1>1 DEF OutputOverlaps
      <4>. DEFINE last == LastUpTo(i * p.bs, p.ld, p.m)
      <4>2. last \in 0 .. p.m - 1 /\ last * p.ld \in Nat /\ (last + 1) * p.ld \in Nat
        BY <2>5, <1>1, <1>2, LastUpToFacts
      <4>3. i * p.bs - last * p.ld >= p.n /\ (last + 1 < p.m => (last + 1) * p.ld - i * p.bs >= p.n)
        <5>. HIDE DEF last
        <5>1. ~(i * p.bs - last * p.ld < p.n) /\ ~(last + 1 < p.m /\ (last + 1) * p.ld - i * p.bs < p.n)
          BY <4>1 DEF last
        <5>. QED  BY <5>1, <4>2, <1>1, <1>2
      <4>4. j \in 0 .. p.m - 1
        BY <1>1
      <4>5. i * p.bs - j * p.ld >= p.n \/ j * p.ld - i * p.bs >= p.n
        BY <4>3, <4>4, <2>5, <1>1, <1>2, NearestDecides
      <4>. QED  BY <4>5, <1>1, <1>2, <1>3
    <3>2. CASE ~(p.batch <= p.m)
      <4>1. LET last == LastUpTo(j * p.ld, p.bs, p.batch)
            IN  ~(j * p.ld - last * p.bs < p.n) /\ ~(last + 1 < p.batch /\ (last + 1) * p.bs - j * p.ld < p.n)
        BY <3>2, <2>4, <2>1, <1>1, <1>7 DEF OutputOverlaps
      <4>. DEFINE last == LastUpTo(j * p.ld, p.bs, p.batch)
      <4>2. last \in 0 .. p.batch - 1 /\ last * p.bs \in Nat /\ (last + 1) * p.bs \in Nat
        BY <2>5, <1>1, <1>3, LastUpToFacts
      <4>3. j * p.ld - last * p.bs >= p.n /\ (last + 1 < p.batch => (last + 1) * p.bs - j * p.ld >= p.n)
        <5>. HIDE DEF last
        <5>1. ~(j * p.ld - last * p.bs < p.n) /\ ~(last + 1 < p.batch /\ (last + 1) * p.bs - j * p.ld < p.n)
          BY <4>1 DEF last
        <5>. QED  BY <5>1, <4>2, <1>1, <1>3
      <4>4. i \in 0 .. p.batch - 1
        BY <1>1
      <4>5. j * p.ld - i * p.bs >= p.n \/ i * p.bs - j * p.ld >= p.n
        BY <4>3, <4>4, <2>5, <1>1, <1>3, NearestDecides
      <4>. QED  BY <4>5, <1>1, <1>2, <1>3
    <3>. QED  BY <3>1, <3>2
  <2>. QED  BY <2>2, <2>3, <2>4, <1>1, <1>4, <1>5
<1>. QED  BY <1>6, <1>7

\* Of two elements of different batches, the first one first.
LEMMA BatchesApart ==
  ASSUME NEW p, IsProduct(p), p.bs > 0, p.ld >= p.n, p.n > 0, ~OutputOverlaps(p),
         NEW b \in 0 .. p.batch - 1, NEW d \in 0 .. p.batch - 1, NEW r \in 0 .. p.m - 1, NEW s \in 0 .. p.m - 1,
         NEW x \in 0 .. p.n - 1, NEW y \in 0 .. p.n - 1, b < d
  PROVE  Address(p, b, <<r, x>>) # Address(p, d, <<s, y>>)
<1>1. p.batch \in Nat /\ p.m \in Nat /\ p.n \in Nat /\ p.bs \in Nat /\ p.ld \in Nat
  BY DEF IsProduct
<1>. DEFINE i == d - b
<1>2. i \in 1 .. p.batch - 1
  BY <1>1
<1>3. d * p.bs = b * p.bs + i * p.bs /\ b * p.bs \in Nat /\ i * p.bs \in Nat
  BY <1>1
<1>4. r * p.ld \in Nat /\ s * p.ld \in Nat
  BY <1>1
<1>5. CASE s <= r
  <2>. DEFINE j == r - s
  <2>1. j \in 0 .. p.m - 1 /\ r * p.ld = s * p.ld + j * p.ld
    BY <1>1, <1>5
  <2>2. j * p.ld \in Nat /\ (i * p.bs - j * p.ld >= p.n \/ j * p.ld - i * p.bs >= p.n)
    BY <2>1, <1>2, RowsApartIn
  <2>. HIDE DEF i, j
  <2>. QED  BY <2>1, <2>2, <1>1, <1>3, <1>4 DEF Address
<1>6. CASE r < s
  <2>. DEFINE j == s - r
  <2>1. s * p.ld = r * p.ld + j * p.ld /\ j * p.ld \in Nat
    BY <1>1, <1>6
  <2>2. i * p.bs >= p.n
    <3>1. 0 \in 0 .. p.m - 1
      BY <1>1
    <3>. QED  BY <3>1, <1>2, RowsApartIn
  <2>. HIDE DEF i, j
  <2>. QED  BY <2>1, <2>2, <1>1, <1>3, <1>4 DEF Address
<1>. QED  BY <1>1, <1>5, <1>6

\* Rows of n elements that begin ld apart.
LEMMA RowAndColumn ==
  ASSUME NEW n \in Nat, NEW ld \in Nat, ld >= n, NEW r \in Nat, NEW s \in Nat, NEW x \in 0 .. n - 1, NEW y \in 0 .. n - 1,
         r * ld + x = s * ld + y
  PROVE  r = s /\ x = y
<1>1. ASSUME r < s  PROVE FALSE
  BY <1>1, NextMultiple
<1>2. ASSUME s < r  PROVE FALSE
  BY <1>2, NextMultiple
<1>. QED  BY <1>1, <1>2

\* The check accepts an output only if all its elements have their own addresses.
LEMMA AddressesDiffer ==
  ASSUME NEW p, IsProduct(p), CheckBatch(p), p.n > 0,
         NEW b \in 0 .. p.batch - 1, NEW d \in 0 .. p.batch - 1, NEW r \in 0 .. p.m - 1, NEW s \in 0 .. p.m - 1,
         NEW x \in 0 .. p.n - 1, NEW y \in 0 .. p.n - 1,
         Address(p, b, <<r, x>>) = Address(p, d, <<s, y>>)
  PROVE  b = d /\ r = s /\ x = y
<1>1. p.bs > 0 /\ p.ld >= p.n /\ ~OutputOverlaps(p)
  BY DEF CheckBatch
<1>2. p.batch \in Nat /\ p.m \in Nat /\ p.n \in Nat /\ p.bs \in Nat /\ p.ld \in Nat
  BY DEF IsProduct
<1>3. ~(b < d)
  BY <1>1, BatchesApart
<1>4. ~(d < b)
  BY <1>1, BatchesApart
<1>5. b = d
  BY <1>2, <1>3, <1>4
<1>6. b * p.bs \in Nat /\ r * p.ld \in Nat /\ s * p.ld \in Nat
  BY <1>2
<1>7. r * p.ld + x = s * p.ld + y
  <2>1. b * p.bs + r * p.ld + x = d * p.bs + s * p.ld + y
    BY DEF Address
  <2>. QED  BY <2>1, <1>2, <1>5, <1>6
<1>. QED  BY <1>1, <1>2, <1>5, <1>7, RowAndColumn

-----------------------------------------------------------------------------
(* An output that is refused. *)

Every(p) == (0 .. p.batch - 1) \X (0 .. p.m - 1) \X (0 .. p.n - 1)
OwnPlace(p, x) == IF p.kind = "batch" THEN Address(p, x[1], <<x[2], x[3]>>) ELSE Offset(p, <<x[2], x[3]>>)

LEMMA AddressOf ==
  ASSUME NEW p, NEW b, NEW r, NEW x
  PROVE  Address(p, b, <<r, x>>) = b * p.bs + r * p.ld + x
BY DEF Address

\* An output that the check calls overlapping has two elements in one address.
LEMMA SharedAddress ==
  ASSUME NEW p, IsProduct(p), p.m > 0, p.n > 0, p.ld >= p.n, p.bs > 0, OutputOverlaps(p)
  PROVE  \E b, d \in 0 .. p.batch - 1, r, s \in 0 .. p.m - 1, x, y \in 0 .. p.n - 1 :
            (b # d \/ r # s) /\ Address(p, b, <<r, x>>) = Address(p, d, <<s, y>>)
<1>1. p.batch \in Nat /\ p.m \in Nat /\ p.n \in Nat /\ p.bs \in Nat /\ p.ld \in Nat /\ p.batch > 1
  BY DEF IsProduct, OutputOverlaps
<1>. DEFINE Meet(b, r, x, d, s, y) == b * p.bs + r * p.ld + x = d * p.bs + s * p.ld + y
<1>2. SUFFICES \E b, d \in 0 .. p.batch - 1, r, s \in 0 .. p.m - 1, x, y \in 0 .. p.n - 1 :
                  (b # d \/ r # s) /\ Meet(b, r, x, d, s, y)
  <2>1. PICK b \in 0 .. p.batch - 1, d \in 0 .. p.batch - 1, r \in 0 .. p.m - 1, s \in 0 .. p.m - 1,
             x \in 0 .. p.n - 1, y \in 0 .. p.n - 1 : (b # d \/ r # s) /\ Meet(b, r, x, d, s, y)
    <3>. HIDE DEF Meet
    <3>. QED  OBVIOUS
  <2>2. Address(p, b, <<r, x>>) = Address(p, d, <<s, y>>)
    BY <2>1, AddressOf
  <2>. QED  BY <2>1, <2>2
<1>3. 0 \in 0 .. p.batch - 1 /\ 1 \in 0 .. p.batch - 1 /\ 0 \in 0 .. p.m - 1 /\ 0 \in 0 .. p.n - 1
  BY <1>1
<1>4. 0 * p.bs = 0 /\ 0 * p.ld = 0 /\ 1 * p.bs = p.bs
  BY <1>1
<1>5. CASE p.bs < p.n
  <2>1. p.bs \in 0 .. p.n - 1 /\ Meet(0, 0, p.bs, 1, 0, 0)
    BY <1>1, <1>4, <1>5
  <2>. QED  BY <2>1, <1>3
<1>6. CASE ~(p.bs < p.n)
  <2>1. CASE p.batch <= p.m
    <3>1. PICK i \in 1 .. p.batch - 1 :
            LET j == LastUpTo(i * p.bs, p.ld, p.m)
            IN  \/ i * p.bs - j * p.ld < p.n
                \/ j + 1 < p.m /\ (j + 1) * p.ld - i * p.bs < p.n
      BY <2>1, <1>6 DEF OutputOverlaps
    <3>. DEFINE j == LastUpTo(i * p.bs, p.ld, p.m)
    <3>2. i * p.bs \in Nat /\ i \in 0 .. p.batch - 1 /\ i # 0 /\ p.ld > 0
      BY <1>1, Larger
    <3>3. /\ j \in 0 .. p.m - 1 /\ j * p.ld \in Nat /\ (j + 1) * p.ld \in Nat
          /\ j * p.ld <= i * p.bs
          /\ j + 1 < p.m => i * p.bs < (j + 1) * p.ld
      BY <3>2, <1>1, LastUpToFacts
    <3>4. \/ i * p.bs - j * p.ld < p.n
          \/ j + 1 < p.m /\ (j + 1) * p.ld - i * p.bs < p.n
      BY <3>1
    <3>. HIDE DEF j
    <3>5. CASE i * p.bs - j * p.ld < p.n
      <4>. DEFINE y == i * p.bs - j * p.ld
      <4>1. y \in 0 .. p.n - 1 /\ Meet(i, 0, 0, 0, j, y)
        BY <3>2, <3>3, <3>5, <1>1, <1>4
      <4>. HIDE DEF y, Meet
      <4>. QED  BY <4>1, <3>2, <3>3, <1>3
    <3>6. CASE j + 1 < p.m /\ (j + 1) * p.ld - i * p.bs < p.n
      <4>. DEFINE x == (j + 1) * p.ld - i * p.bs
      <4>1. x \in 0 .. p.n - 1 /\ Meet(i, 0, x, 0, j + 1, 0) /\ j + 1 \in 0 .. p.m - 1
        BY <3>2, <3>3, <3>6, <1>1, <1>4
      <4>. HIDE DEF x, Meet
      <4>. QED  BY <4>1, <3>2, <1>3
    <3>. QED  BY <3>4, <3>5, <3>6
  <2>2. CASE ~(p.batch <= p.m)
    <3>1. PICK i \in 1 .. p.m - 1 :
            LET j == LastUpTo(i * p.ld, p.bs, p.batch)
            IN  \/ i * p.ld - j * p.bs < p.n
                \/ j + 1 < p.batch /\ (j + 1) * p.bs - i * p.ld < p.n
      BY <2>2, <1>6 DEF OutputOverlaps
    <3>. DEFINE j == LastUpTo(i * p.ld, p.bs, p.batch)
    <3>2. i * p.ld \in Nat /\ i \in 0 .. p.m - 1 /\ i # 0 /\ p.batch > 0
      BY <1>1, Larger
    <3>3. /\ j \in 0 .. p.batch - 1 /\ j * p.bs \in Nat /\ (j + 1) * p.bs \in Nat
          /\ j * p.bs <= i * p.ld
          /\ j + 1 < p.batch => i * p.ld < (j + 1) * p.bs
      BY <3>2, <1>1, LastUpToFacts
    <3>4. \/ i * p.ld - j * p.bs < p.n
          \/ j + 1 < p.batch /\ (j + 1) * p.bs - i * p.ld < p.n
      BY <3>1
    <3>. HIDE DEF j
    <3>5. CASE i * p.ld - j * p.bs < p.n
      <4>. DEFINE y == i * p.ld - j * p.bs
      <4>1. y \in 0 .. p.n - 1 /\ Meet(0, i, 0, j, 0, y)
        BY <3>2, <3>3, <3>5, <1>1, <1>4
      <4>. HIDE DEF y, Meet
      <4>. QED  BY <4>1, <3>2, <3>3, <1>3
    <3>6. CASE j + 1 < p.batch /\ (j + 1) * p.bs - i * p.ld < p.n
      <4>. DEFINE x == (j + 1) * p.bs - i * p.ld
      <4>1. x \in 0 .. p.n - 1 /\ Meet(0, i, x, j + 1, 0, 0) /\ j + 1 \in 0 .. p.batch - 1
        BY <3>2, <3>3, <3>6, <1>1, <1>4
      <4>. HIDE DEF x, Meet
      <4>. QED  BY <4>1, <3>2, <1>3
    <3>. QED  BY <3>4, <3>5, <3>6
  <2>. QED  BY <2>1, <2>2
<1>. QED  BY <1>5, <1>6

LEMMA EveryIsFinite ==
  ASSUME NEW p, IsProduct(p)
  PROVE  IsFiniteSet(Every(p)) /\ Cardinality(Every(p)) \in Nat
<1>. DEFINE A == 0 .. p.batch - 1
            B == 0 .. p.m - 1
            C == 0 .. p.n - 1
            S == (A \X B) \X C
            f == [t \in S |-> <<t[1][1], t[1][2], t[2]>>]
<1>1. p.batch \in Nat /\ p.m \in Nat /\ p.n \in Nat
  BY DEF IsProduct
<1>2. IsFiniteSet(A) /\ IsFiniteSet(B) /\ IsFiniteSet(C)
  <2>1. p.batch - 1 \in Int /\ p.m - 1 \in Int /\ p.n - 1 \in Int /\ 0 \in Int
    BY <1>1
  <2>2. \A i \in Int : IsFiniteSet(0 .. i)
    BY FS_Interval
  <2>. QED  BY <2>1, <2>2
<1>. HIDE DEF A, B, C
<1>3. IsFiniteSet(A \X B)
  BY <1>2, FS_Product
<1>4. IsFiniteSet(S)
  BY <1>2, <1>3, FS_Product
<1>5. \A t \in S : t[1][1] \in A /\ t[1][2] \in B /\ t[2] \in C
  OBVIOUS
<1>6. f \in [S -> A \X B \X C]
  BY <1>5
<1>7. ASSUME NEW x \in A \X B \X C  PROVE \E t \in S : f[t] = x
  <2>1. PICK a \in A, b \in B, c \in C : x = <<a, b, c>>
    OBVIOUS
  <2>2. <<<<a, b>>, c>> \in S
    OBVIOUS
  <2>3. f[<<<<a, b>>, c>>] = x
    BY <2>1, <2>2
  <2>. QED  BY <2>2, <2>3
<1>8. f \in Surjection(S, A \X B \X C)
  <2>. HIDE DEF S, f
  <2>. QED  BY <1>6, <1>7 DEF Surjection
<1>9. IsFiniteSet(A \X B \X C)
  <2>. HIDE DEF S, f
  <2>. QED  BY <1>4, <1>8, FS_Surjection
<1>. QED  BY <1>9, FS_CardinalityType DEF Every, A, B, C

LEMMA RefusalIsRight ==
  ASSUME NEW p, IsProduct(p), p.m > 0, p.n > 0, p.kind = "batch", p.ld >= p.n, p.bs > 0, p.tiles >= p.stages, ~Accepted(p)
  PROVE  Cardinality({OwnPlace(p, x) : x \in Every(p)}) < Cardinality(Every(p))
<1>. DEFINE S == Every(p)
            f == [x \in S |-> OwnPlace(p, x)]
            T == {OwnPlace(p, x) : x \in S}
<1>1. OutputOverlaps(p)
  BY DEF Accepted, CheckBatch, IsProduct
<1>2. PICK b \in 0 .. p.batch - 1, d \in 0 .. p.batch - 1, r \in 0 .. p.m - 1, s \in 0 .. p.m - 1,
           x \in 0 .. p.n - 1, y \in 0 .. p.n - 1 :
             (b # d \/ r # s) /\ Address(p, b, <<r, x>>) = Address(p, d, <<s, y>>)
  BY <1>1, SharedAddress
<1>3. <<b, r, x>> \in S /\ <<d, s, y>> \in S /\ <<b, r, x>> # <<d, s, y>>
  BY <1>2 DEF Every
<1>4. OwnPlace(p, <<b, r, x>>) = OwnPlace(p, <<d, s, y>>)
  BY <1>2 DEF OwnPlace
<1>5. IsFiniteSet(S) /\ Cardinality(S) \in Nat
  BY EveryIsFinite
<1>. HIDE DEF S
<1>6. f \in Surjection(S, T)
  BY DEF Surjection
<1>7. f[<<b, r, x>>] = f[<<d, s, y>>]
  BY <1>3, <1>4
<1>8. f \notin Injection(S, T)
  <2>. HIDE DEF f, T
  <2>. QED  BY <1>3, <1>7 DEF Injection, IsInjective
<1>9. IsFiniteSet(T) /\ Cardinality(T) <= Cardinality(S) /\ Cardinality(T) # Cardinality(S)
  <2>. HIDE DEF f, T
  <2>. QED  BY <1>5, <1>6, <1>8, FS_Surjection
<1>10. Cardinality(T) \in Nat
  <2>. HIDE DEF T
  <2>. QED  BY <1>9, FS_CardinalityType
<1>. QED  BY <1>5, <1>9, <1>10 DEF S

-----------------------------------------------------------------------------
(* The grid. *)

Depth(p) == IF p.kind = "batch" THEN p.batch ELSE p.splits
Holds(p, cta, z, r, c) == cta.z = z /\ <<r, c>> \in Elements(p, cta)

LEMMA BlockOf ==
  ASSUME NEW count \in Nat, NEW c \in 0 .. count - 1
  PROVE  \E q \in 0 .. CeilOf(count, BlockSide) - 1, i \in 0 .. BlockSide - 1 : c = q * BlockSide + i
<1>1. PICK q \in Nat, i \in 0 .. 1 : c = q * 2 + i
  <2>1. c \in Nat /\ BlockSide \in Nat /\ BlockSide > 0 /\ BlockSide = 2
    BY DEF BlockSide
  <2>2. PICK q \in Nat, i \in 0 .. BlockSide - 1 : c = q * BlockSide + i
    BY <2>1, DivMod
  <2>. QED  BY <2>1, <2>2
<1>2. q \in 0 .. (count + 2 - 1) \div 2 - 1
  BY <1>1
<1>. QED  BY <1>1, <1>2 DEF CeilOf, BlockSide

\* Every element of the rows of a launch is some CTA's, whichever dimension comes first.
LEMMA GridCovers ==
  ASSUME NEW p, IsProduct(p), NEW first \in Nat, NEW count \in Nat, NEW r \in first .. first + count - 1,
         NEW c \in 0 .. p.n - 1, NEW z \in 0 .. Depth(p) - 1
  PROVE  \E cta \in Grid(p, first, count) : Holds(p, cta, z, r, c)
<1>1. p.n \in Nat
  BY DEF IsProduct
<1>2. PICK q \in 0 .. CeilOf(count, BlockSide) - 1, i \in 0 .. BlockSide - 1 : r - first = q * BlockSide + i
  <2>1. r - first \in 0 .. count - 1
    OBVIOUS
  <2>. QED  BY <2>1, BlockOf
<1>3. PICK s \in 0 .. CeilOf(p.n, BlockSide) - 1, j \in 0 .. BlockSide - 1 : c = s * BlockSide + j
  BY <1>1, BlockOf
<1>. DEFINE swapped == UsesTsm(p) /\ p.mFirst
            cta == [x |-> IF swapped THEN q ELSE s, y |-> IF swapped THEN s ELSE q, z |-> z, mFirst |-> swapped,
                    first |-> first, count |-> count]
<1>4. cta \in Grid(p, first, count)
  BY DEF Grid, Depth
<1>5. r = first + q * BlockSide + i
  BY <1>2 DEF BlockSide
<1>6. <<r, c>> \in Elements(p, cta)
  <2>1. /\ (IF cta.mFirst THEN cta.x ELSE cta.y) = q /\ (IF cta.mFirst THEN cta.y ELSE cta.x) = s
        /\ cta.first = first /\ cta.count = count
    OBVIOUS
  <2>. HIDE DEF cta
  <2>2. Elements(p, cta) = {<<first + q * BlockSide + u, s * BlockSide + v>> : u, v \in 0 .. BlockSide - 1}
                             \cap ((first .. first + count - 1) \X (0 .. p.n - 1))
    BY <2>1 DEF Elements
  <2>3. <<r, c>> \in {<<first + q * BlockSide + u, s * BlockSide + v>> : u, v \in 0 .. BlockSide - 1}
    BY <1>3, <1>5
  <2>. QED  BY <2>2, <2>3
<1>. QED  BY <1>4, <1>6 DEF Holds

LEMMA LaunchesCover ==
  ASSUME NEW p, IsProduct(p), Accepted(p), NEW r \in 0 .. p.m - 1, NEW c \in 0 .. p.n - 1, NEW z \in 0 .. Depth(p) - 1
  PROVE  \E cta \in Launches(p) : Holds(p, cta, z, r, c)
<1>1. p.m \in Nat /\ p.splitM \in Nat
  BY DEF IsProduct
<1>2. CASE p.kind # "hybrid"
  <2>1. r \in 0 .. 0 + p.m - 1
    BY <1>1
  <2>. QED  BY <2>1, <1>1, <1>2, GridCovers DEF Launches
<1>3. CASE p.kind = "hybrid" /\ r < p.splitM
  <2>1. r \in 0 .. 0 + p.splitM - 1
    BY <1>1, <1>3
  <2>. QED  BY <2>1, <1>1, <1>3, GridCovers DEF Launches
<1>4. CASE p.kind = "hybrid" /\ r >= p.splitM
  <2>1. p.m - p.splitM \in Nat /\ r \in p.splitM .. p.splitM + (p.m - p.splitM) - 1
    BY <1>1, <1>4 DEF Accepted
  <2>. QED  BY <2>1, <1>1, <1>4, GridCovers DEF Launches
<1>. QED  BY <1>1, <1>2, <1>3, <1>4

\* A CTA stores elements of the product only.
LEMMA LaunchesInside ==
  ASSUME NEW p, IsProduct(p), Accepted(p), NEW cta \in Launches(p)
  PROVE  /\ cta.z \in 0 .. Depth(p) - 1
         /\ \A e \in Elements(p, cta) : e[1] \in 0 .. p.m - 1 /\ e[2] \in 0 .. p.n - 1 /\ e = <<e[1], e[2]>>
<1>1. p.m \in Nat /\ p.splitM \in Nat
  BY DEF IsProduct
<1>2. PICK first \in Nat, count \in Nat : cta \in Grid(p, first, count) /\ first + count <= p.m
  <2>1. CASE p.kind # "hybrid"
    BY <2>1, <1>1 DEF Launches
  <2>2. CASE p.kind = "hybrid"
    <3>1. p.m - p.splitM \in Nat /\ p.splitM <= p.m
      BY <2>2, <1>1 DEF Accepted
    <3>2. cta \in Grid(p, 0, p.splitM) \/ cta \in Grid(p, p.splitM, p.m - p.splitM)
      BY <2>2 DEF Launches
    <3>. QED  BY <3>1, <3>2, <1>1
  <2>. QED  BY <2>1, <2>2
<1>3. cta.z \in 0 .. Depth(p) - 1 /\ cta.first = first /\ cta.count = count
  BY <1>2 DEF Grid, Depth
<1>4. \A e \in Elements(p, cta) : e \in (first .. first + count - 1) \X (0 .. p.n - 1)
  BY <1>3 DEF Elements
<1>5. \A e \in (first .. first + count - 1) \X (0 .. p.n - 1) : e[1] \in 0 .. p.m - 1 /\ e[2] \in 0 .. p.n - 1 /\ e = <<e[1], e[2]>>
  BY <1>1, <1>2
<1>. QED  BY <1>3, <1>4, <1>5

-----------------------------------------------------------------------------
(* Where elements are stored. *)

Whole(p, x) == [element |-> x, sum |-> [t \in 0 .. p.tiles - 1 |-> 1]]

\* Whether CTAs store to D: K is not split.
IsDirect(p) == p.kind = "batch" \/ p.splits = 1

LEMMA OffsetsDiffer ==
  ASSUME NEW n \in Nat, NEW r \in Nat, NEW s \in Nat, NEW x \in 0 .. n - 1, NEW y \in 0 .. n - 1,
         r * n + x = s * n + y
  PROVE  r = s /\ x = y
BY RowAndColumn

LEMMA PlacesDiffer ==
  ASSUME NEW p, IsProduct(p), Accepted(p), p.n > 0, NEW b \in 0 .. p.batch - 1, NEW d \in 0 .. p.batch - 1,
         NEW r \in 0 .. p.m - 1, NEW s \in 0 .. p.m - 1, NEW x \in 0 .. p.n - 1, NEW y \in 0 .. p.n - 1,
         OwnPlace(p, <<b, r, x>>) = OwnPlace(p, <<d, s, y>>)
  PROVE  b = d /\ r = s /\ x = y
<1>1. CASE p.kind = "batch"
  <2>1. CheckBatch(p)
    BY <1>1 DEF Accepted
  <2>2. Address(p, b, <<r, x>>) = Address(p, d, <<s, y>>)
    BY <1>1 DEF OwnPlace
  <2>. QED  BY <2>1, <2>2, AddressesDiffer
<1>2. CASE p.kind # "batch"
  <2>1. p.batch = 1 /\ p.m \in Nat /\ p.n \in Nat
    BY <1>2 DEF IsProduct
  <2>2. r * p.n + x = s * p.n + y
    BY <1>2 DEF OwnPlace, Offset
  <2>3. r \in Nat /\ s \in Nat
    BY <2>1
  <2>4. r = s /\ x = y
    BY <2>1, <2>2, <2>3, OffsetsDiffer
  <2>. QED  BY <2>1, <2>4
<1>. QED  BY <1>1, <1>2

\* What a CTA stores to D is right, and is all of its elements.
LEMMA StoresWhole ==
  ASSUME NEW p, IsProduct(p), Accepted(p), p.n > 0, IsDirect(p), NEW cta \in Launches(p)
  PROVE  /\ \A b \in 0 .. p.batch - 1, r \in 0 .. p.m - 1, c \in 0 .. p.n - 1 :
              /\ Holds(p, cta, b, r, c) => OwnPlace(p, <<b, r, c>>) \in DOMAIN Stored(p, cta)
              /\ OwnPlace(p, <<b, r, c>>) \in DOMAIN Stored(p, cta) =>
                    Stored(p, cta)[OwnPlace(p, <<b, r, c>>)] = Whole(p, <<b, r, c>>)
<1>. DEFINE es == Elements(p, cta)
<1>1. /\ cta.z \in 0 .. Depth(p) - 1
      /\ \A e \in es : e[1] \in 0 .. p.m - 1 /\ e[2] \in 0 .. p.n - 1 /\ e = <<e[1], e[2]>>
  BY LaunchesInside
<1>2. cta.z \in 0 .. p.batch - 1
  BY <1>1 DEF Depth, IsDirect, IsProduct
<1>. SUFFICES ASSUME NEW b \in 0 .. p.batch - 1, NEW r \in 0 .. p.m - 1, NEW c \in 0 .. p.n - 1
     PROVE  /\ Holds(p, cta, b, r, c) => OwnPlace(p, <<b, r, c>>) \in DOMAIN Stored(p, cta)
            /\ OwnPlace(p, <<b, r, c>>) \in DOMAIN Stored(p, cta) =>
                  Stored(p, cta)[OwnPlace(p, <<b, r, c>>)] = Whole(p, <<b, r, c>>)
  OBVIOUS
<1>. DEFINE at(e) == OwnPlace(p, <<cta.z, e[1], e[2]>>)
            whole(e) == Whole(p, <<cta.z, e[1], e[2]>>)
<1>3. Stored(p, cta) = [a \in {at(e) : e \in es} |-> whole(CHOOSE e \in es : at(e) = a)]
  <2>1. CASE p.kind = "batch"
    <3>1. \A e \in es : at(e) = Address(p, cta.z, e)
      BY <2>1 DEF OwnPlace, Address
    <3>2. \A e \in es : Value(p, cta.z, e, 0 .. p.tiles - 1) = whole(e)
      BY DEF Value, Whole
    <3>3. Stored(p, cta) = [a \in {Address(p, cta.z, e) : e \in es} |->
                              Value(p, cta.z, CHOOSE e \in es : Address(p, cta.z, e) = a, 0 .. p.tiles - 1)]
      BY <2>1 DEF Stored
    <3>. HIDE DEF es, at, whole
    <3>4. {Address(p, cta.z, e) : e \in es} = {at(e) : e \in es}
      BY <3>1
    <3>5. ASSUME NEW a \in {at(e) : e \in es}
          PROVE  Value(p, cta.z, CHOOSE e \in es : Address(p, cta.z, e) = a, 0 .. p.tiles - 1)
                   = whole(CHOOSE e \in es : at(e) = a)
      <4>1. (CHOOSE e \in es : Address(p, cta.z, e) = a) = (CHOOSE e \in es : at(e) = a)
        BY <3>1
      <4>2. (CHOOSE e \in es : at(e) = a) \in es
        BY <3>5
      <4>. QED  BY <4>1, <4>2, <3>2
    <3>. QED  BY <3>3, <3>4, <3>5
  <2>2. CASE p.kind # "batch"
    <3>1. p.splits = 1 /\ p.batch = 1 /\ cta.z = 0
      BY <2>2, <1>2 DEF IsDirect, IsProduct
    <3>2. \A e \in es : at(e) = 0 + Offset(p, e)
      <4>1. ASSUME NEW e \in es  PROVE at(e) = 0 + Offset(p, e)
        <5>1. Offset(p, e) \in Int /\ at(e) = Offset(p, e)
          BY <2>2, <1>1 DEF OwnPlace, Offset, IsProduct
        <5>. HIDE DEF at
        <5>. QED  BY <5>1
      <4>. QED  BY <4>1
    <3>3. SplitRange(p, cta.z) = 0 .. p.tiles - 1
      BY <3>1 DEF SplitRange, IsProduct
    <3>4. \A e \in es : Value(p, 0, e, SplitRange(p, cta.z)) = whole(e)
      BY <3>1, <3>3 DEF Value, Whole
    <3>5. Stored(p, cta) = [a \in {0 + Offset(p, e) : e \in es} |->
                              Value(p, 0, CHOOSE e \in es : 0 + Offset(p, e) = a, SplitRange(p, cta.z))]
      BY <2>2, <3>1 DEF Stored
    <3>. HIDE DEF es, at, whole
    <3>6. {0 + Offset(p, e) : e \in es} = {at(e) : e \in es}
      BY <3>2
    <3>7. ASSUME NEW a \in {at(e) : e \in es}
          PROVE  Value(p, 0, CHOOSE e \in es : 0 + Offset(p, e) = a, SplitRange(p, cta.z))
                   = whole(CHOOSE e \in es : at(e) = a)
      <4>1. (CHOOSE e \in es : 0 + Offset(p, e) = a) = (CHOOSE e \in es : at(e) = a)
        BY <3>2
      <4>2. (CHOOSE e \in es : at(e) = a) \in es
        BY <3>7
      <4>. QED  BY <4>1, <4>2, <3>4
    <3>. QED  BY <3>5, <3>6, <3>7
  <2>. QED  BY <2>1, <2>2
<1>4. ASSUME Holds(p, cta, b, r, c)  PROVE OwnPlace(p, <<b, r, c>>) \in DOMAIN Stored(p, cta)
  <2>1. <<r, c>> \in es /\ b = cta.z
    BY <1>4 DEF Holds
  <2>2. at(<<r, c>>) = OwnPlace(p, <<b, r, c>>)
    BY <2>1
  <2>. HIDE DEF es, at, whole
  <2>. QED  BY <2>1, <2>2, <1>3
<1>5. ASSUME OwnPlace(p, <<b, r, c>>) \in DOMAIN Stored(p, cta)
      PROVE  Stored(p, cta)[OwnPlace(p, <<b, r, c>>)] = Whole(p, <<b, r, c>>)
  <2>. DEFINE a == OwnPlace(p, <<b, r, c>>)
              f == CHOOSE e \in es : at(e) = a
  <2>1. f \in es /\ at(f) = a /\ Stored(p, cta)[a] = whole(f)
    <3>. HIDE DEF es, at, whole, a
    <3>1. a \in {at(e) : e \in es}
      BY <1>3, <1>5 DEF a
    <3>. QED  BY <3>1, <1>3
  <2>2. f[1] \in 0 .. p.m - 1 /\ f[2] \in 0 .. p.n - 1
    <3>. HIDE DEF f
    <3>. QED  BY <2>1, <1>1
  <2>3. OwnPlace(p, <<cta.z, f[1], f[2]>>) = OwnPlace(p, <<b, r, c>>)
    BY <2>1
  <2>. HIDE DEF f
  <2>4. cta.z = b /\ f[1] = r /\ f[2] = c
    BY <2>2, <2>3, <1>2, PlacesDiffer
  <2>. QED  BY <2>1, <2>4
<1>. QED  BY <1>4, <1>5

-----------------------------------------------------------------------------
(* K in splits. *)

\* Every K tile is in one split.
LEMMA TakenOnce ==
  ASSUME NEW p, IsProduct(p), NEW t \in 0 .. p.tiles - 1
  PROVE  \E s \in 0 .. p.splits - 1 : {u \in 0 .. p.splits - 1 : t \in SplitRange(p, u)} = {s}
<1>. DEFINE N == p.splits
            T == p.tiles
            g(u) == (T * u) \div N
<1>1. N \in Nat /\ N > 0 /\ T \in Nat /\ T > 0
  BY DEF IsProduct
<1>2. ASSUME NEW u \in Nat, NEW c \in Nat  PROVE g(u) <= c <=> T * u < (c + 1) * N
  <2>1. T * u \in Nat
    BY <1>1
  <2>2. PICK q \in Nat, j \in 0 .. N - 1 : T * u = q * N + j /\ g(u) = q
    BY <2>1, <1>1, DivMod
  <2>3. q * N \in Nat /\ c * N \in Nat /\ (c + 1) * N = c * N + N
    BY <1>1
  <2>4. ASSUME q <= c  PROVE T * u < (c + 1) * N
    <3>1. q * N <= c * N
      BY <2>4, <1>1, Larger
    <3>. QED  BY <3>1, <2>2, <2>3, <1>1
  <2>5. ASSUME c < q  PROVE ~(T * u < (c + 1) * N)
    <3>1. c * N + N <= q * N
      BY <2>5, <1>1, NextMultiple
    <3>. QED  BY <3>1, <2>2, <2>3, <1>1
  <2>. QED  BY <2>2, <2>4, <2>5
<1>3. ASSUME NEW u \in Nat  PROVE g(u) \in Nat
  <2>1. T * u \in Nat
    BY <1>1
  <2>2. PICK q \in Nat, j \in 0 .. N - 1 : T * u = q * N + j /\ g(u) = q
    BY <2>1, <1>1, DivMod
  <2>. QED  BY <2>2
<1>. DEFINE last == (t + 1) * N - 1
<1>4. last \in Nat /\ t \in Nat
  BY <1>1
<1>5. PICK s \in Nat, j \in 0 .. T - 1 : last = s * T + j
  BY <1>1, <1>4, DivMod
<1>6. T * s <= last /\ T * (s + 1) > last /\ T * s \in Nat /\ T * (s + 1) \in Nat
  BY <1>1, <1>4, <1>5
<1>7. s < N
  <2>1. (t + 1) * N <= T * N /\ T * N \in Nat
    BY <1>1, <1>4, Larger
  <2>2. ASSUME N <= s  PROVE FALSE
    <3>1. N * T <= s * T /\ s * T \in Nat /\ N * T = T * N
      BY <2>2, <1>1, Larger
    <3>. QED  BY <3>1, <2>1, <1>5, <1>4, <1>1
  <2>. QED  BY <2>2, <1>1
<1>8. ASSUME NEW u \in 0 .. N - 1  PROVE t \in SplitRange(p, u) <=> u = s
  <2>1. t \in SplitRange(p, u) <=> g(u) <= t /\ ~(g(u + 1) <= t)
    <3>1. g(u + 1) \in Nat
      BY <1>3, <1>1
    <3>2. t \in SplitRange(p, u) <=> g(u) <= t /\ t < g(u + 1)
      BY DEF SplitRange
    <3>. HIDE DEF g
    <3>. QED  BY <3>1, <3>2, <1>4
  <2>2. u \in Nat /\ u + 1 \in Nat
    BY <1>1
  <2>3. g(u) <= t <=> T * u <= last
    <3>1. T * u \in Nat /\ (t + 1) * N \in Nat
      BY <2>2, <1>1, <1>4
    <3>2. g(u) <= t <=> T * u < (t + 1) * N
      BY <2>2, <1>2, <1>4
    <3>. HIDE DEF g
    <3>. QED  BY <3>1, <3>2
  <2>4. g(u + 1) <= t <=> T * (u + 1) <= last
    <3>1. T * (u + 1) \in Nat /\ (t + 1) * N \in Nat
      BY <2>2, <1>1, <1>4
    <3>2. g(u + 1) <= t <=> T * (u + 1) < (t + 1) * N
      BY <2>2, <1>2, <1>4
    <3>. HIDE DEF g
    <3>. QED  BY <3>1, <3>2
  <2>5. T * u \in Nat /\ T * (u + 1) \in Nat
    BY <2>2, <1>1
  <2>6. CASE u < s
    <3>1. T * (u + 1) <= T * s
      <4>1. (u + 1) * T <= s * T
        BY <2>6, <2>2, <1>1, Larger
      <4>. QED  BY <4>1, <2>2, <1>1
    <3>2. T * (u + 1) <= last
      <4>. HIDE DEF last
      <4>. QED  BY <3>1, <2>5, <1>4, <1>6
    <3>. HIDE DEF g, last
    <3>. QED  BY <3>2, <2>1, <2>4, <2>6
  <2>7. CASE s < u
    <3>1. T * (s + 1) <= T * u
      <4>1. (s + 1) * T <= u * T
        BY <2>7, <2>2, <1>1, Larger
      <4>. QED  BY <4>1, <2>2, <1>1
    <3>2. ~(T * u <= last)
      <4>. HIDE DEF last
      <4>. QED  BY <3>1, <2>5, <1>4, <1>6
    <3>. HIDE DEF g, last
    <3>. QED  BY <3>2, <2>1, <2>3, <2>7
  <2>8. CASE u = s
    <3>. HIDE DEF g, last
    <3>. QED  BY <2>8, <2>1, <2>3, <2>4, <1>4, <1>6
  <2>. QED  BY <2>2, <2>6, <2>7, <2>8
<1>9. s \in 0 .. p.splits - 1
  BY <1>1, <1>7
<1>. QED  BY <1>8, <1>9

\* Where a split keeps its sum of an element.
Kept(p, z, r, c) == z * p.m * p.n + Offset(p, <<r, c>>)

LEMMA OffsetInside ==
  ASSUME NEW p, IsProduct(p), NEW r \in 0 .. p.m - 1, NEW c \in 0 .. p.n - 1
  PROVE  Offset(p, <<r, c>>) \in 0 .. p.m * p.n - 1 /\ Offset(p, <<r, c>>) = r * p.n + c /\ p.m * p.n \in Nat
<1>1. p.m \in Nat /\ p.n \in Nat
  BY DEF IsProduct
<1>2. Offset(p, <<r, c>>) = r * p.n + c
  BY DEF Offset
<1>3. r * p.n \in Nat /\ (r + 1) * p.n <= p.m * p.n /\ (r + 1) * p.n = r * p.n + p.n /\ p.m * p.n \in Nat
  BY <1>1, Larger
<1>. QED  BY <1>1, <1>2, <1>3

LEMMA KeptDiffer ==
  ASSUME NEW p, IsProduct(p), NEW z \in Nat, NEW w \in Nat, NEW r \in 0 .. p.m - 1, NEW s \in 0 .. p.m - 1,
         NEW x \in 0 .. p.n - 1, NEW y \in 0 .. p.n - 1, Kept(p, z, r, x) = Kept(p, w, s, y)
  PROVE  z = w /\ r = s /\ x = y
<1>1. p.m \in Nat /\ p.n \in Nat
  BY DEF IsProduct
<1>. DEFINE a == Offset(p, <<r, x>>)
            b == Offset(p, <<s, y>>)
            count == p.m * p.n
<1>2. a \in 0 .. count - 1 /\ b \in 0 .. count - 1 /\ count \in Nat /\ a = r * p.n + x /\ b = s * p.n + y
  BY OffsetInside
<1>3. z * count + a = w * count + b
  <2>1. z * p.m * p.n = z * count /\ w * p.m * p.n = w * count
    BY <1>1
  <2>. QED  BY <2>1 DEF Kept
<1>4. z = w /\ a = b
  <2>. HIDE DEF a, b, count
  <2>1. ASSUME z < w  PROVE FALSE
    <3>1. z * count + count <= w * count /\ z * count \in Nat /\ w * count \in Nat
      BY <2>1, <1>2, NextMultiple
    <3>. QED  BY <3>1, <1>2, <1>3
  <2>2. ASSUME w < z  PROVE FALSE
    <3>1. w * count + count <= z * count /\ z * count \in Nat /\ w * count \in Nat
      BY <2>2, <1>2, NextMultiple
    <3>. QED  BY <3>1, <1>2, <1>3
  <2>3. z = w
    BY <2>1, <2>2
  <2>. QED  BY <2>3, <1>2, <1>3
<1>5. r * p.n + x = s * p.n + y
  BY <1>2, <1>4
<1>6. r \in Nat /\ s \in Nat
  BY <1>1
<1>. QED  BY <1>1, <1>4, <1>5, <1>6, OffsetsDiffer

\* What a CTA of split K stores to the workspace.
LEMMA StoresShare ==
  ASSUME NEW p, IsProduct(p), Accepted(p), p.n > 0, ~IsDirect(p), NEW cta \in Launches(p)
  PROVE  \A z \in 0 .. p.splits - 1, r \in 0 .. p.m - 1, c \in 0 .. p.n - 1 :
              /\ Holds(p, cta, z, r, c) => Kept(p, z, r, c) \in DOMAIN Stored(p, cta)
              /\ Kept(p, z, r, c) \in DOMAIN Stored(p, cta) =>
                    Stored(p, cta)[Kept(p, z, r, c)] = Value(p, 0, <<r, c>>, SplitRange(p, z))
<1>. DEFINE es == Elements(p, cta)
            z == cta.z
            at(e) == z * p.m * p.n + Offset(p, e)
            share(e) == Value(p, 0, e, SplitRange(p, z))
<1>1. /\ z \in 0 .. p.splits - 1
      /\ \A e \in es : e[1] \in 0 .. p.m - 1 /\ e[2] \in 0 .. p.n - 1 /\ e = <<e[1], e[2]>>
  BY LaunchesInside DEF Depth, IsDirect
<1>2. Stored(p, cta) = [a \in {at(e) : e \in es} |-> share(CHOOSE e \in es : at(e) = a)]
  BY DEF Stored, IsDirect
<1>. SUFFICES ASSUME NEW w \in 0 .. p.splits - 1, NEW r \in 0 .. p.m - 1, NEW c \in 0 .. p.n - 1
     PROVE  /\ Holds(p, cta, w, r, c) => Kept(p, w, r, c) \in DOMAIN Stored(p, cta)
            /\ Kept(p, w, r, c) \in DOMAIN Stored(p, cta) =>
                  Stored(p, cta)[Kept(p, w, r, c)] = Value(p, 0, <<r, c>>, SplitRange(p, w))
  OBVIOUS
<1>3. ASSUME Holds(p, cta, w, r, c)  PROVE Kept(p, w, r, c) \in DOMAIN Stored(p, cta)
  <2>1. <<r, c>> \in es /\ w = z
    BY <1>3 DEF Holds
  <2>2. at(<<r, c>>) = Kept(p, w, r, c)
    BY <2>1 DEF Kept
  <2>. HIDE DEF es, at, share
  <2>. QED  BY <2>1, <2>2, <1>2
<1>4. ASSUME Kept(p, w, r, c) \in DOMAIN Stored(p, cta)
      PROVE  Stored(p, cta)[Kept(p, w, r, c)] = Value(p, 0, <<r, c>>, SplitRange(p, w))
  <2>. DEFINE a == Kept(p, w, r, c)
              f == CHOOSE e \in es : at(e) = a
  <2>1. f \in es /\ at(f) = a /\ Stored(p, cta)[a] = share(f)
    <3>. HIDE DEF es, at, share, a
    <3>1. a \in {at(e) : e \in es}
      BY <1>2, <1>4 DEF a
    <3>. QED  BY <3>1, <1>2
  <2>2. f[1] \in 0 .. p.m - 1 /\ f[2] \in 0 .. p.n - 1 /\ f = <<f[1], f[2]>>
    <3>. HIDE DEF f
    <3>. QED  BY <2>1, <1>1
  <2>3. Kept(p, z, f[1], f[2]) = Kept(p, w, r, c)
    <3>. HIDE DEF f
    <3>. QED  BY <2>1, <2>2 DEF Kept
  <2>. HIDE DEF f
  <2>4. z \in Nat /\ w \in Nat
    BY <1>1 DEF IsProduct
  <2>5. z = w /\ f[1] = r /\ f[2] = c
    BY <2>2, <2>3, <2>4, KeptDiffer
  <2>. QED  BY <2>1, <2>2, <2>5
<1>. QED  BY <1>3, <1>4

-----------------------------------------------------------------------------
(* The invariant. *)

\* The elements that CTAs have stored to D, and the shares they have kept, are right.
StoredSoFar == \A cta \in Launches(product) \ pending :
  \A b \in 0 .. product.batch - 1, r \in 0 .. product.m - 1, c \in 0 .. product.n - 1 :
    Holds(product, cta, b, r, c) =>
      LET a == OwnPlace(product, <<b, r, c>>) IN a \in DOMAIN memory /\ memory[a] = Whole(product, <<b, r, c>>)
KeptSoFar == \A cta \in Launches(product) \ pending :
  \A z \in 0 .. product.splits - 1, r \in 0 .. product.m - 1, c \in 0 .. product.n - 1 :
    Holds(product, cta, z, r, c) =>
      LET a == Kept(product, z, r, c)
      IN  a \in DOMAIN partial /\ partial[a] = Value(product, 0, <<r, c>>, SplitRange(product, z))

AllKept == \A z \in 0 .. product.splits - 1, r \in 0 .. product.m - 1, c \in 0 .. product.n - 1 :
  partial[Kept(product, z, r, c)] = Value(product, 0, <<r, c>>, SplitRange(product, z))
AllStored == \A b \in 0 .. product.batch - 1, r \in 0 .. product.m - 1, c \in 0 .. product.n - 1 :
  memory[OwnPlace(product, <<b, r, c>>)] = Whole(product, <<b, r, c>>)

ProductInv ==
  /\ phase \in {"idle", "run", "reduce", "done", "refused"}
  /\ phase # "idle" => IsProduct(product)
  /\ phase \in {"run", "reduce", "refused"} => product.batch > 0 /\ product.m > 0 /\ product.n > 0
  /\ phase = "refused" => ~Accepted(product)
  /\ phase \in {"run", "reduce"} => Accepted(product)
  /\ phase = "run" => pending \subseteq Launches(product)
  /\ phase = "run" => IF IsDirect(product) THEN StoredSoFar ELSE KeptSoFar
  /\ phase = "reduce" => ~IsDirect(product) /\ AllKept
  /\ phase = "done" => AllStored

LEMMA MultiplyKeeps == ASSUME ProductInv, NEW p \in Products, Multiply(p)  PROVE ProductInv'
<1>1. phase = "idle" /\ product' = p /\ IsProduct(p)
  BY ProductFields DEF Multiply
<1>2. p.batch \in Nat /\ p.m \in Nat /\ p.n \in Nat /\ p.tiles \in Nat
  BY <1>1 DEF IsProduct
<1>3. CASE p.batch = 0 \/ p.m = 0 \/ p.n = 0
  <2>1. phase' = "done"
    BY <1>3 DEF Multiply
  <2>2. AllStored'
    BY <1>1, <1>2, <1>3 DEF AllStored
  <2>. QED  BY <2>1, <2>2, <1>1 DEF ProductInv
<1>4. CASE ~(p.batch = 0 \/ p.m = 0 \/ p.n = 0) /\ ~Accepted(p)
  <2>1. phase' = "refused"
    BY <1>4 DEF Multiply
  <2>. QED  BY <2>1, <1>1, <1>2, <1>4 DEF ProductInv
<1>5. CASE ~(p.batch = 0 \/ p.m = 0 \/ p.n = 0) /\ Accepted(p) /\ p.tiles = 0
  <2>. DEFINE es == (0 .. p.batch - 1) \X (0 .. p.m - 1) \X (0 .. p.n - 1)
              at(x) == Address(p, x[1], <<x[2], x[3]>>)
              none(x) == Value(p, x[1], <<x[2], x[3]>>, {})
  <2>1. phase' = "done" /\ memory' = [a \in {at(x) : x \in es} |-> none(CHOOSE x \in es : at(x) = a)]
    BY <1>5 DEF Multiply
  <2>2. p.kind = "batch"
    <3>1. SUFFICES ASSUME p.kind # "batch"  PROVE FALSE
      OBVIOUS
    <3>2. SplitsAccepted(p)
      BY <3>1, <1>1, <1>5 DEF Accepted, IsProduct
    <3>3. 0 \div p.splits = 0
      BY <1>1 DEF IsProduct
    <3>. QED  BY <3>2, <3>3, <1>1, <1>5 DEF SplitsAccepted, IsProduct
  <2>3. ASSUME NEW b \in 0 .. p.batch - 1, NEW r \in 0 .. p.m - 1, NEW c \in 0 .. p.n - 1
        PROVE  memory'[OwnPlace(p, <<b, r, c>>)] = Whole(p, <<b, r, c>>)
    <3>. DEFINE a == at(<<b, r, c>>)
                x == CHOOSE y \in es : at(y) = a
    <3>1. <<b, r, c>> \in es
      OBVIOUS
    <3>2. x \in es /\ at(x) = a /\ memory'[a] = none(x)
      <4>. HIDE DEF es, at, none
      <4>. QED  BY <3>1, <2>1
    <3>3. x[1] \in 0 .. p.batch - 1 /\ x[2] \in 0 .. p.m - 1 /\ x[3] \in 0 .. p.n - 1 /\ x = <<x[1], x[2], x[3]>>
      <4>. HIDE DEF x
      <4>. QED  BY <3>2
    <3>4. OwnPlace(p, <<b, r, c>>) = a /\ OwnPlace(p, <<x[1], x[2], x[3]>>) = at(x)
      BY <2>2 DEF OwnPlace
    <3>. HIDE DEF x, a
    <3>5. x[1] = b /\ x[2] = r /\ x[3] = c
      BY <3>2, <3>3, <3>4, <1>1, <1>2, <1>5, PlacesDiffer
    <3>6. none(x) = Whole(p, <<b, r, c>>)
      BY <3>5, <1>2, <1>5 DEF Value, Whole
    <3>. QED  BY <3>2, <3>4, <3>6
  <2>4. AllStored'
    <3>. HIDE DEF es, at, none
    <3>1. SUFFICES ASSUME NEW b \in (0 .. product.batch - 1)', NEW r \in (0 .. product.m - 1)',
                          NEW c \in (0 .. product.n - 1)'
                   PROVE  (memory[OwnPlace(product, <<b, r, c>>)] = Whole(product, <<b, r, c>>))'
      BY DEF AllStored
    <3>. QED  BY <3>1, <2>3, <1>1
  <2>. QED  BY <2>1, <2>4, <1>1 DEF ProductInv
<1>6. CASE ~(p.batch = 0 \/ p.m = 0 \/ p.n = 0) /\ Accepted(p) /\ p.tiles # 0
  <2>1. phase' = "run" /\ pending' = Launches(p)
    BY <1>6 DEF Multiply
  <2>2. StoredSoFar' /\ KeptSoFar'
    BY <2>1, <1>1 DEF StoredSoFar, KeptSoFar
  <2>. QED  BY <2>1, <2>2, <1>1, <1>2, <1>6 DEF ProductInv
<1>. QED  BY <1>3, <1>4, <1>5, <1>6

LEMMA OverFacts ==
  ASSUME NEW new, NEW old, NEW a
  PROVE  /\ a \in DOMAIN Over(new, old) <=> a \in DOMAIN new \/ a \in DOMAIN old
         /\ a \in DOMAIN new => Over(new, old)[a] = new[a]
         /\ a \in DOMAIN old /\ a \notin DOMAIN new => Over(new, old)[a] = old[a]
BY DEF Over

LEMMA CtaKeeps == ASSUME ProductInv, Cta  PROVE ProductInv'
<1>1. PICK cta \in pending :
        LET stored == Stored(product, cta)
        IN  /\ phase = "run"
            /\ pending' = pending \ {cta}
            /\ IF product.kind # "batch" /\ product.splits > 1
               THEN partial' = Over(stored, partial) /\ UNCHANGED memory
               ELSE memory' = Over(stored, memory) /\ UNCHANGED partial
            /\ UNCHANGED <<product, phase>>
  BY DEF Cta
<1>. DEFINE p == product
            st == Stored(p, cta)
<1>2. /\ phase = "run" /\ phase' = "run" /\ product' = product
      /\ IsProduct(p) /\ Accepted(p) /\ p.batch > 0 /\ p.m > 0 /\ p.n > 0
      /\ IF IsDirect(p) THEN StoredSoFar ELSE KeptSoFar
  BY <1>1 DEF ProductInv
<1>3. /\ Launches(p)' = Launches(p) /\ Launches(p) \ pending' \subseteq (Launches(p) \ pending) \cup {cta}
      /\ cta \in Launches(p) /\ pending' \subseteq Launches(p)
  BY <1>1, <1>2 DEF ProductInv
<1>4. CASE IsDirect(p)
  <2>1. memory' = Over(st, memory)
    BY <1>1, <1>2, <1>4 DEF IsDirect, IsProduct
  <2>2. ASSUME NEW w \in Launches(p) \ pending',
               NEW b \in 0 .. p.batch - 1, NEW r \in 0 .. p.m - 1, NEW c \in 0 .. p.n - 1, Holds(p, w, b, r, c)
        PROVE  LET a == OwnPlace(p, <<b, r, c>>) IN a \in DOMAIN memory' /\ memory'[a] = Whole(p, <<b, r, c>>)
    <3>. DEFINE a == OwnPlace(p, <<b, r, c>>)
    <3>1. CASE a \in DOMAIN st
      <4>1. st[a] = Whole(p, <<b, r, c>>)
        BY <3>1, <1>2, <1>3, <1>4, StoresWhole
      <4>. QED  BY <4>1, <3>1, <2>1, OverFacts
    <3>2. CASE a \notin DOMAIN st
      <4>1. w # cta
        BY <3>2, <2>2, <1>2, <1>3, <1>4, StoresWhole
      <4>2. a \in DOMAIN memory /\ memory[a] = Whole(p, <<b, r, c>>)
        BY <4>1, <2>2, <1>2, <1>3, <1>4 DEF StoredSoFar
      <4>. QED  BY <4>2, <3>2, <2>1, OverFacts
    <3>. QED  BY <3>1, <3>2
  <2>3. StoredSoFar'
    BY <2>2, <1>2 DEF StoredSoFar
  <2>. QED  BY <2>3, <1>2, <1>3, <1>4 DEF ProductInv
<1>5. CASE ~IsDirect(p)
  <2>1. partial' = Over(st, partial)
    BY <1>1, <1>2, <1>5 DEF IsDirect, IsProduct
  <2>2. ASSUME NEW w \in Launches(p) \ pending',
               NEW z \in 0 .. p.splits - 1, NEW r \in 0 .. p.m - 1, NEW c \in 0 .. p.n - 1, Holds(p, w, z, r, c)
        PROVE  LET a == Kept(p, z, r, c)
               IN  a \in DOMAIN partial' /\ partial'[a] = Value(p, 0, <<r, c>>, SplitRange(p, z))
    <3>. DEFINE a == Kept(p, z, r, c)
    <3>1. CASE a \in DOMAIN st
      <4>1. st[a] = Value(p, 0, <<r, c>>, SplitRange(p, z))
        BY <3>1, <1>2, <1>3, <1>5, StoresShare
      <4>. QED  BY <4>1, <3>1, <2>1, OverFacts
    <3>2. CASE a \notin DOMAIN st
      <4>1. w # cta
        BY <3>2, <2>2, <1>2, <1>3, <1>5, StoresShare
      <4>2. a \in DOMAIN partial /\ partial[a] = Value(p, 0, <<r, c>>, SplitRange(p, z))
        BY <4>1, <2>2, <1>2, <1>3, <1>5 DEF KeptSoFar
      <4>. QED  BY <4>2, <3>2, <2>1, OverFacts
    <3>. QED  BY <3>1, <3>2
  <2>3. KeptSoFar'
    BY <2>2, <1>2 DEF KeptSoFar
  <2>. QED  BY <2>3, <1>2, <1>3, <1>5 DEF ProductInv
<1>. QED  BY <1>4, <1>5

LEMMA DrainedKeeps == ASSUME ProductInv, Drained  PROVE ProductInv'
<1>. DEFINE p == product
<1>1. /\ phase = "run" /\ pending = {} /\ product' = p /\ memory' = memory /\ partial' = partial
      /\ IsProduct(p) /\ Accepted(p) /\ p.batch > 0 /\ p.m > 0 /\ p.n > 0
      /\ IF IsDirect(p) THEN StoredSoFar ELSE KeptSoFar
  BY DEF ProductInv, Drained
<1>2. CASE IsDirect(p)
  <2>1. phase' = "done"
    BY <1>1, <1>2 DEF Drained, IsDirect, IsProduct
  <2>2. ASSUME NEW b \in 0 .. p.batch - 1, NEW r \in 0 .. p.m - 1, NEW c \in 0 .. p.n - 1
        PROVE  memory[OwnPlace(p, <<b, r, c>>)] = Whole(p, <<b, r, c>>)
    <3>1. b \in 0 .. Depth(p) - 1
      BY <1>1, <1>2 DEF Depth, IsDirect, IsProduct
    <3>2. PICK cta \in Launches(p) : Holds(p, cta, b, r, c)
      BY <3>1, <1>1, LaunchesCover
    <3>. QED  BY <3>2, <1>1, <1>2 DEF StoredSoFar
  <2>3. AllStored'
    <3>1. SUFFICES ASSUME NEW b \in (0 .. product.batch - 1)', NEW r \in (0 .. product.m - 1)',
                          NEW c \in (0 .. product.n - 1)'
                   PROVE  (memory[OwnPlace(product, <<b, r, c>>)] = Whole(product, <<b, r, c>>))'
      BY DEF AllStored
    <3>. QED  BY <3>1, <2>2, <1>1
  <2>. QED  BY <2>1, <2>3, <1>1 DEF ProductInv
<1>3. CASE ~IsDirect(p)
  <2>1. phase' = "reduce"
    BY <1>1, <1>3 DEF Drained, IsDirect, IsProduct
  <2>2. ASSUME NEW z \in 0 .. p.splits - 1, NEW r \in 0 .. p.m - 1, NEW c \in 0 .. p.n - 1
        PROVE  partial[Kept(p, z, r, c)] = Value(p, 0, <<r, c>>, SplitRange(p, z))
    <3>1. z \in 0 .. Depth(p) - 1
      BY <1>1, <1>3 DEF Depth, IsDirect
    <3>2. PICK cta \in Launches(p) : Holds(p, cta, z, r, c)
      BY <3>1, <1>1, LaunchesCover
    <3>. QED  BY <3>2, <1>1, <1>3 DEF KeptSoFar
  <2>3. AllKept'
    <3>1. SUFFICES ASSUME NEW z \in (0 .. product.splits - 1)', NEW r \in (0 .. product.m - 1)',
                          NEW c \in (0 .. product.n - 1)'
                   PROVE  (partial[Kept(product, z, r, c)] = Value(product, 0, <<r, c>>, SplitRange(product, z)))'
      BY DEF AllKept
    <3>. QED  BY <3>1, <2>2, <1>1
  <2>. QED  BY <2>1, <2>3, <1>1, <1>3 DEF ProductInv
<1>. QED  BY <1>2, <1>3

LEMMA ReduceKeeps == ASSUME ProductInv, Reduce  PROVE ProductInv'
<1>. DEFINE p == product
            count == p.m * p.n
            at(z, i) == partial[z * count + i]
            times(i, t) == Cardinality({s \in 0 .. p.splits - 1 : at(s, i).sum[t] = 1})
<1>1. /\ phase = "reduce" /\ phase' = "done" /\ product' = p
      /\ IsProduct(p) /\ Accepted(p) /\ p.batch > 0 /\ p.m > 0 /\ p.n > 0 /\ ~IsDirect(p) /\ AllKept
  BY DEF ProductInv, Reduce
<1>2. memory' = [i \in 0 .. count - 1 |-> [element |-> at(0, i).element, sum |-> [t \in 0 .. p.tiles - 1 |-> times(i, t)]]]
  BY DEF Reduce
<1>3. p.m \in Nat /\ p.n \in Nat /\ p.splits \in Nat /\ p.splits > 0 /\ p.kind # "batch" /\ p.batch = 1 /\ p.tiles \in Nat
  BY <1>1 DEF IsProduct, IsDirect
<1>4. ASSUME NEW b \in 0 .. p.batch - 1, NEW r \in 0 .. p.m - 1, NEW c \in 0 .. p.n - 1
      PROVE  memory'[OwnPlace(p, <<b, r, c>>)] = Whole(p, <<b, r, c>>)
  <2>. DEFINE i == Offset(p, <<r, c>>)
  <2>1. i \in 0 .. count - 1 /\ count \in Nat
    BY <1>1, OffsetInside
  <2>2. OwnPlace(p, <<b, r, c>>) = i /\ b = 0
    BY <1>3 DEF OwnPlace
  <2>3. ASSUME NEW z \in 0 .. p.splits - 1
        PROVE  at(z, i) = Value(p, 0, <<r, c>>, SplitRange(p, z))
    <3>1. z * count + i = Kept(p, z, r, c)
      <4>1. z * count = z * p.m * p.n
        BY <1>3
      <4>. QED  BY <4>1 DEF Kept
    <3>. HIDE DEF i, count
    <3>. QED  BY <3>1, <1>1 DEF AllKept
  <2>4. at(0, i).element = <<b, r, c>>
    <3>1. 0 \in 0 .. p.splits - 1
      BY <1>3
    <3>. HIDE DEF at, i
    <3>2. at(0, i) = Value(p, 0, <<r, c>>, SplitRange(p, 0))
      BY <3>1, <2>3
    <3>. QED  BY <3>2, <2>2 DEF Value
  <2>5. ASSUME NEW t \in 0 .. p.tiles - 1  PROVE times(i, t) = 1
    <3>1. ASSUME NEW z \in 0 .. p.splits - 1  PROVE at(z, i).sum[t] = 1 <=> t \in SplitRange(p, z)
      <4>1. at(z, i) = Value(p, 0, <<r, c>>, SplitRange(p, z))
        BY <2>3
      <4>. HIDE DEF at, i
      <4>. QED  BY <4>1 DEF Value
    <3>. HIDE DEF at, i
    <3>2. {s \in 0 .. p.splits - 1 : at(s, i).sum[t] = 1} = {s \in 0 .. p.splits - 1 : t \in SplitRange(p, s)}
      BY <3>1
    <3>3. PICK s \in 0 .. p.splits - 1 : {u \in 0 .. p.splits - 1 : t \in SplitRange(p, u)} = {s}
      BY <1>1, TakenOnce
    <3>4. Cardinality({s}) = 1
      BY FS_Singleton
    <3>. QED  BY <3>2, <3>3, <3>4
  <2>. HIDE DEF at, i, count, times
  <2>6. memory'[i] = [element |-> at(0, i).element, sum |-> [t \in 0 .. p.tiles - 1 |-> times(i, t)]]
    BY <1>2, <2>1
  <2>7. [t \in 0 .. p.tiles - 1 |-> times(i, t)] = [t \in 0 .. p.tiles - 1 |-> 1]
    BY <2>5
  <2>. QED  BY <2>2, <2>4, <2>6, <2>7 DEF Whole
<1>5. AllStored'
  <2>1. SUFFICES ASSUME NEW b \in (0 .. product.batch - 1)', NEW r \in (0 .. product.m - 1)',
                        NEW c \in (0 .. product.n - 1)'
                 PROVE  (memory[OwnPlace(product, <<b, r, c>>)] = Whole(product, <<b, r, c>>))'
    BY DEF AllStored
  <2>. QED  BY <2>1, <1>4, <1>1
<1>. QED  BY <1>1, <1>5 DEF ProductInv

LEMMA ProductsInvariance == ProductSpec => []ProductInv
<1>1. ProductInit => ProductInv
  BY DEF ProductInit, ProductInv
<1>2. ProductInv /\ [ProductNext]_productVars => ProductInv'
  <2>. SUFFICES ASSUME ProductInv, [ProductNext]_productVars  PROVE ProductInv'
    OBVIOUS
  <2>1. ASSUME NEW p \in Products, Multiply(p)  PROVE ProductInv'
    BY <2>1, MultiplyKeeps
  <2>2. CASE UNCHANGED productVars
    BY <2>2 DEF ProductInv, StoredSoFar, KeptSoFar, AllKept, AllStored, productVars
  <2>. QED  BY <2>1, <2>2, CtaKeeps, DrainedKeeps, ReduceKeeps DEF ProductNext, Multiplied
<1>. QED  BY <1>1, <1>2, PTL DEF ProductSpec

\* For every call, of any size and with any strides, and any order of its CTAs: each
\* element of every product ends at its own address with each K tile summed once,
\* and outputs are refused as overlapping only if two elements share an address.
THEOREM AlwaysProductsAreWhole == ProductSpec => []ProductsAreWhole
<1>1. ProductInv => ProductsAreWhole
  <2>. SUFFICES ASSUME ProductInv  PROVE ProductsAreWhole
    OBVIOUS
  <2>. DEFINE p == product
              all == (0 .. p.batch - 1) \X (0 .. p.m - 1) \X (0 .. p.n - 1)
              at(x) == IF p.kind = "batch" THEN Address(p, x[1], <<x[2], x[3]>>) ELSE Offset(p, <<x[2], x[3]>>)
  <2>0. all = Every(p) /\ \A x \in all : at(x) = OwnPlace(p, x)
    BY DEF Every, OwnPlace
  <2>1. ASSUME phase = "done", NEW x \in all
        PROVE  memory[at(x)] = [element |-> x, sum |-> [t \in 0 .. p.tiles - 1 |-> 1]]
    <3>1. PICK b \in 0 .. p.batch - 1, r \in 0 .. p.m - 1, c \in 0 .. p.n - 1 : x = <<b, r, c>>
      OBVIOUS
    <3>2. memory[OwnPlace(p, <<b, r, c>>)] = Whole(p, <<b, r, c>>)
      BY <2>1 DEF ProductInv, AllStored
    <3>3. memory[OwnPlace(p, x)] = Whole(p, x)
      BY <3>1, <3>2
    <3>. QED  BY <3>3, <2>0 DEF Whole
  <2>2. ASSUME phase = "refused", p.kind = "batch", p.ld >= p.n, p.bs > 0, p.tiles >= p.stages
        PROVE  Cardinality({at(x) : x \in all}) < Cardinality(all)
    <3>1. IsProduct(p) /\ p.m > 0 /\ p.n > 0 /\ ~Accepted(p)
      BY <2>2 DEF ProductInv
    <3>2. Cardinality({OwnPlace(p, x) : x \in Every(p)}) < Cardinality(Every(p))
      BY <3>1, <2>2, RefusalIsRight
    <3>. HIDE DEF all, at
    <3>3. {at(x) : x \in all} = {OwnPlace(p, x) : x \in Every(p)}
      BY <2>0
    <3>. QED  BY <3>2, <3>3, <2>0
  <2>. QED  BY <2>1, <2>2 DEF ProductsAreWhole
<1>. QED  BY <1>1, ProductsInvariance, PTL
===============================================================================
