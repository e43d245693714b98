-------------------------- MODULE FusedDispatchProofs --------------------------
(***************************************************************************)
(* Proofs about FusedDispatch for any number of CTAs, experts, M-blocks,   *)
(* K tiles and launches: a tile is computed from rows and scales of its    *)
(* own round, by one CTA, and none is missing when the launch ends.        *)
(*                                                                         *)
(* The inductive invariant says what the flag words mean.  How far an      *)
(* M-block's copy and a reshape item have come is read off the program     *)
(* counter of the one CTA whose stride reaches it; a copy flag is then     *)
(* either this generation's tag of that progress or an older tag, and an   *)
(* expert's count lacks exactly the chunks that are not done.              *)
(***************************************************************************)
EXTENDS FusedDispatch, NatFacts, FiniteSetTheorems

NStripes == (KTiles + KTilesPerFlag - 1) \div KTilesPerFlag

\* The CTA that copies M-block mb, and the one that reshapes item w.
Copier(mb) == mb % CopyBlocks
Reshaper(w) == CopyBlocks + (w % ComputeBlocks)

\* The layout is the one of this launch.
Started == launches > 0 /\ pc[0] # "prepare"

\* The stripes of M-block mb that are published.
Progress(mb) ==
  LET c == Copier(mb) IN
  IF pc[c] \in {"prepare", "publish", "wait"} THEN 0
  ELSE IF pc[c] \in {"copy", "flag"}
       THEN IF mb < work[c] THEN NStripes ELSE IF mb = work[c] THEN step[c] ELSE 0
       ELSE NStripes

\* Reshape item w is published.
ItemDone(w) ==
  LET c == Reshaper(w) IN
  pc[c] # "wait" /\ (pc[c] \in {"reshape", "reshaped"} => w < work[c])

\* The item that brings the scales of partition p of M-block mb.
ItemOf(mb, p) == IF layout.share THEN mb ELSE 3 * layout.owner[mb] + p

Chunks(e) == {mb \in 0 .. layout.blocks - 1 : layout.owner[mb] = e}
Remaining(e) == {mb \in Chunks(e) : ~ItemDone(mb)}

Tiles == layout.blocks * NumNBlocks

PcNames == {"prepare", "publish", "wait", "copy", "flag", "reshape", "reshaped",
            "fetch", "load", "done"}

TypeOK ==
  /\ generation \in 0 .. GenerationLimit
  /\ launches \in Nat
  /\ plan \in [Experts -> 0 .. MaxMBlocks]
  /\ layout.blocks \in 0 .. MaxMBlocks
  /\ layout.share \in BOOLEAN
  /\ DOMAIN layout.owner = 0 .. layout.blocks - 1
  /\ \A mb \in 0 .. layout.blocks - 1 : layout.owner[mb] \in Experts
  /\ ticket \in Nat
  /\ ready \in [gen : Nat, metadata : BOOLEAN]
  /\ copyFlag \in [MBlocks -> Nat]
  /\ sfaFlag \in [Experts -> [Partitions -> Nat]]
  /\ fp4 \in [MBlocks -> [Stripes -> Int]]
  /\ sfa \in [MBlocks -> [Partitions -> Int]]
  /\ output \in [MBlocks -> [0 .. NumNBlocks - 1 -> Int]]
  /\ pc \in [Ctas -> PcNames]
  /\ work \in [Ctas -> Nat]
  /\ step \in [Ctas -> Nat]

\* CTA 0 prepares while the others wait; what the layout is afterwards.
Phases ==
  /\ launches = 0 => (\A c \in Ctas : pc[c] = "done") /\ layout.blocks = 0
  /\ launches > 0 => generation > 0 /\ plan \in Plans
  /\ pc[0] \in {"prepare", "publish"} =>
       ~ready.metadata /\ \A c \in Ctas : c # 0 => pc[c] = "wait"
  /\ pc[0] # "wait"
  /\ \A c \in Ctas :
       /\ pc[c] \in {"prepare", "publish"} => c = 0
       /\ pc[c] \in {"copy", "flag"} => CopyCta(c)
       /\ pc[c] \in {"reshape", "reshaped"} => ~CopyCta(c)
  /\ ready.gen = generation
  /\ Started =>
       /\ layout.blocks = BlocksBefore(plan, Groups)
       /\ layout.owner = [mb \in 0 .. layout.blocks - 1 |-> ExpertOf(plan, mb)]

\* A CTA works on what its stride reaches.
Strides == \A c \in Ctas :
  /\ pc[c] \in {"copy", "flag"} => Copier(work[c]) = c /\ step[c] \in Stripes
  /\ pc[c] = "flag" => work[c] < layout.blocks
  /\ pc[c] \in {"reshape", "reshaped"} => Reshaper(work[c]) = c
  /\ pc[c] = "reshaped" => work[c] < ReshapeItems

\* The tag of an M-block is its progress in this generation, or an older tag.
CopyTags ==
  /\ launches = 0 => \A mb \in MBlocks : copyFlag[mb] <= 8 * generation + 7
  /\ pc[0] = "prepare" => Wrapped \/ \A mb \in MBlocks : copyFlag[mb] < 8 * generation
  /\ Started => \A mb \in MBlocks :
       IF mb < layout.blocks /\ Progress(mb) > 0
       THEN copyFlag[mb] = 8 * generation + Progress(mb)
       ELSE copyFlag[mb] < 8 * generation

\* The rows of the published stripes have landed.
Rows == Started => \A mb \in 0 .. layout.blocks - 1, ks \in Stripes :
  ks < Progress(mb) => fp4[mb][ks] = generation

\* An item's flag is the generation once it is done; the count of shared rows lacks
\* the chunks that are not.
ScaleTags ==
  /\ launches = 0 => \A e \in Experts, p \in Partitions : sfaFlag[e][p] <= generation
  /\ pc[0] = "prepare" =>
       Wrapped \/ \A e \in Experts, p \in Partitions : sfaFlag[e][p] < generation
  /\ Started /\ ~layout.share => \A e \in Experts, p \in Partitions :
       IF ItemDone(3 * e + p) THEN sfaFlag[e][p] = generation ELSE sfaFlag[e][p] < generation
  /\ Started /\ layout.share => \A e \in Experts :
       /\ sfaFlag[e][0] = Word(generation - Cardinality(Remaining(e)))
       /\ \A p \in Partitions \ {0} :
            sfaFlag[e][p] = IF Remaining(e) = {} THEN generation ELSE Word(generation - plan[e])

\* The scales of the items that are done have landed.
Scales == Started => \A mb \in 0 .. layout.blocks - 1, p \in Partitions :
  ItemDone(ItemOf(mb, p)) => sfa[mb][p] = generation

\* A CTA that has loaded a K tile had waited for its stripe and its partitions.
Loads == \A c \in Ctas : pc[c] = "load" =>
  \A t \in 0 .. step[c] - 1 :
    /\ t \div KTilesPerFlag < Progress(MOf(work[c]))
    /\ \A p \in PartitionsUpTo(t) : ItemDone(ItemOf(MOf(work[c]), p))

\* A ticket is a tile of one CTA, or stored; nobody leaves before all are taken.
Tickets ==
  /\ \A c \in Ctas : pc[c] = "load" =>
       work[c] < ticket /\ work[c] < Tiles /\ step[c] <= KTiles
  /\ TilesDisjoint
  /\ Started => \A t \in 0 .. Tiles - 1 : t < ticket =>
       \/ output[MOf(t)][NOf(t)] = generation
       \/ \E c \in Ctas : pc[c] = "load" /\ work[c] = t
  /\ Started => \A c \in Ctas : pc[c] = "done" => ticket >= Tiles

IInv ==
  /\ TypeOK /\ Phases /\ Strides
  /\ CopyTags /\ Rows /\ ScaleTags /\ Scales
  /\ Loads /\ Tickets
-----------------------------------------------------------------------------
(* The constants, and the operators on them. *)

LEMMA Constants ==
  /\ CopyBlocks \in Nat /\ CopyBlocks > 0 /\ ComputeBlocks \in Nat /\ ComputeBlocks > 0
  /\ Groups \in Nat /\ Groups > 0 /\ NumNBlocks \in Nat /\ NumNBlocks > 0
  /\ KTilesPerFlag \in Nat /\ KTilesPerFlag > 0
  /\ MaxRounds \in Nat /\ MaxMBlocks \in Nat
  /\ GenerationLimit \in Nat /\ GenerationLimit >= 3
  /\ WordRange \in Nat /\ WordRange > 8 * GenerationLimit + 7 /\ WordRange > MaxMBlocks
BY FusedAssumption

LEMMA KTilesType == KTiles \in Nat /\ KTiles > 0
<1>1. /\ ScaleBlocks \in Nat /\ ScaleBlocks > 0 /\ BlocksPerTile \in Nat /\ BlocksPerTile > 0
      /\ ScaleBlocks % BlocksPerTile = 0
  BY FusedAssumption
<1>2. PICK q \in Nat, j \in 0 .. BlocksPerTile - 1 :
        ScaleBlocks = q * BlocksPerTile + j /\ ScaleBlocks \div BlocksPerTile = q
        /\ ScaleBlocks % BlocksPerTile = j
  BY <1>1, DivMod
<1>3. q # 0
  BY <1>1, <1>2
<1>. QED  BY <1>2, <1>3 DEF KTiles

LEMMA StripesType ==
  /\ NStripes \in 1 .. 7 /\ Stripes = 0 .. NStripes - 1
  /\ \A t \in 0 .. KTiles - 1 : t \div KTilesPerFlag \in Stripes
<1>1. NStripes \in Nat /\ Stripes = 0 .. NStripes - 1 /\ NStripes > 0
  <2>1. PICK k \in Nat : k = KTiles + KTilesPerFlag - 1 /\ k >= KTilesPerFlag
    BY Constants, KTilesType
  <2>2. k \div KTilesPerFlag \in Nat /\ KTilesPerFlag \div KTilesPerFlag <= k \div KTilesPerFlag
    BY <2>1, Constants, DivMonotone
  <2>3. KTilesPerFlag \div KTilesPerFlag = 1
    <3>1. KTilesPerFlag = 1 * KTilesPerFlag + 0 /\ 0 \in 0 .. KTilesPerFlag - 1
      BY Constants
    <3>. QED  BY <3>1, Constants, Remainder
  <2>. QED  BY <2>1, <2>2, <2>3 DEF NStripes, Stripes
<1>2. NStripes <= 7
  <2>1. Cardinality(Stripes) = NStripes
    BY <1>1, FS_Interval
  <2>. QED  BY <2>1, FusedAssumption
<1>3. ASSUME NEW t \in 0 .. KTiles - 1  PROVE t \div KTilesPerFlag \in Stripes
  <2>1. PICK q \in Nat, j \in 0 .. KTilesPerFlag - 1 :
          t = q * KTilesPerFlag + j /\ t \div KTilesPerFlag = q
    BY Constants, KTilesType, DivMod
  <2>2. PICK k \in Nat : k = KTiles + KTilesPerFlag - 1 /\ k >= t + KTilesPerFlag
    BY Constants, KTilesType
  <2>3. t + KTilesPerFlag = (q + 1) * KTilesPerFlag + j /\ t + KTilesPerFlag \in Nat
    BY <2>1, Constants, KTilesType
  <2>4. (t + KTilesPerFlag) \div KTilesPerFlag = q + 1
    BY <2>3, Constants, Remainder
  <2>5. q + 1 <= k \div KTilesPerFlag
    BY <2>2, <2>3, <2>4, Constants, DivMonotone
  <2>. QED  BY <1>1, <2>1, <2>2, <2>5 DEF NStripes
<1>. QED  BY <1>1, <1>2, <1>3

\* A stride reaches the M-blocks of one remainder, one after the other.
LEMMA CopierFacts ==
  /\ \A mb \in Nat : Copier(mb) \in 0 .. CopyBlocks - 1 /\ Copier(mb) <= mb
  /\ \A c \in 0 .. CopyBlocks - 1 : Copier(c) = c
  /\ \A mb \in Nat : Copier(mb + CopyBlocks) = Copier(mb)
  /\ \A a, b \in Nat : Copier(a) = Copier(b) /\ a <= b /\ b < a + CopyBlocks => a = b
<1>1. ASSUME NEW mb \in Nat  PROVE Copier(mb) \in 0 .. CopyBlocks - 1 /\ Copier(mb) <= mb
  BY Constants, DivMod DEF Copier
<1>2. ASSUME NEW c \in 0 .. CopyBlocks - 1  PROVE Copier(c) = c
  BY Constants DEF Copier
<1>3. ASSUME NEW mb \in Nat  PROVE Copier(mb + CopyBlocks) = Copier(mb)
  BY Constants, NextInClass DEF Copier
<1>4. ASSUME NEW a \in Nat, NEW b \in Nat, Copier(a) = Copier(b), a <= b, b < a + CopyBlocks
      PROVE  a = b
  BY <1>4, Constants, ClassApart DEF Copier
<1>. QED  BY <1>1, <1>2, <1>3, <1>4

LEMMA ReshaperFacts ==
  /\ \A w \in Nat : /\ Reshaper(w) \in CopyBlocks .. CopyBlocks + ComputeBlocks - 1
                    /\ Reshaper(w) - CopyBlocks <= w
  /\ \A c \in CopyBlocks .. CopyBlocks + ComputeBlocks - 1 : Reshaper(c - CopyBlocks) = c
  /\ \A w \in Nat : Reshaper(w + ComputeBlocks) = Reshaper(w)
  /\ \A a, b \in Nat : Reshaper(a) = Reshaper(b) /\ a <= b /\ b < a + ComputeBlocks => a = b
<1>1. ASSUME NEW w \in Nat
      PROVE  Reshaper(w) \in CopyBlocks .. CopyBlocks + ComputeBlocks - 1
             /\ Reshaper(w) - CopyBlocks <= w
  <2>1. w % ComputeBlocks \in 0 .. ComputeBlocks - 1 /\ w % ComputeBlocks <= w
    BY Constants, DivMod
  <2>. QED  BY <2>1, Constants DEF Reshaper
<1>2. ASSUME NEW c \in CopyBlocks .. CopyBlocks + ComputeBlocks - 1
      PROVE  Reshaper(c - CopyBlocks) = c
  BY Constants DEF Reshaper
<1>3. ASSUME NEW w \in Nat  PROVE Reshaper(w + ComputeBlocks) = Reshaper(w)
  BY Constants, NextInClass DEF Reshaper
<1>4. ASSUME NEW a \in Nat, NEW b \in Nat, Reshaper(a) = Reshaper(b), a <= b,
             b < a + ComputeBlocks
      PROVE  a = b
  <2>1. a % ComputeBlocks \in Nat /\ b % ComputeBlocks \in Nat
    BY Constants
  <2>2. a % ComputeBlocks = b % ComputeBlocks
    BY <1>4, <2>1, Constants DEF Reshaper
  <2>. QED  BY <1>4, <2>2, Constants, ClassApart
<1>. QED  BY <1>1, <1>2, <1>3, <1>4

\* Tickets number the tiles row by row.
LEMMA TileNumbers ==
  /\ \A t \in Nat : MOf(t) \in Nat /\ NOf(t) \in 0 .. NumNBlocks - 1
  /\ \A b, t \in Nat : t < b * NumNBlocks => MOf(t) < b
  /\ \A b \in Nat, m \in Nat, n \in 0 .. NumNBlocks - 1 : m < b =>
       /\ m * NumNBlocks + n \in Nat /\ m * NumNBlocks + n < b * NumNBlocks
       /\ MOf(m * NumNBlocks + n) = m /\ NOf(m * NumNBlocks + n) = n
<1>1. ASSUME NEW t \in Nat  PROVE MOf(t) \in Nat /\ NOf(t) \in 0 .. NumNBlocks - 1
  BY Constants, DivMod DEF MOf, NOf
<1>2. ASSUME NEW b \in Nat, NEW t \in Nat, t < b * NumNBlocks  PROVE MOf(t) < b
  BY <1>2, Constants, RowOfCell DEF MOf
<1>3. ASSUME NEW b \in Nat, NEW m \in Nat, NEW n \in 0 .. NumNBlocks - 1, m < b
      PROVE  /\ m * NumNBlocks + n \in Nat /\ m * NumNBlocks + n < b * NumNBlocks
             /\ MOf(m * NumNBlocks + n) = m /\ NOf(m * NumNBlocks + n) = n
  <2>1. PICK t \in Nat : t = m * NumNBlocks + n
    BY Constants
  <2>2. t % NumNBlocks = n /\ t \div NumNBlocks = m
    BY <2>1, Constants, Remainder
  <2>3. t < b * NumNBlocks
    BY <1>3, <2>2, Constants, RowOfCell
  <2>. QED  BY <2>1, <2>2, <2>3 DEF MOf, NOf
<1>. QED  BY <1>1, <1>2, <1>3

\* The words: numbers that fit, and differences that wrap.
LEMMA WordFacts ==
  /\ \A x \in 0 .. WordRange - 1 : Word(x) = x
  /\ \A x \in -WordRange .. -1 : Word(x) = x + WordRange
  /\ \A x \in Int : Word(x) \in 0 .. WordRange - 1
  /\ Word(WordRange) = 0
BY Constants DEF Word

\* The count of an expert with r chunks to go, in generation g.
LEMMA CountFacts ==
  ASSUME NEW g \in 1 .. GenerationLimit, NEW r \in 0 .. MaxMBlocks
  PROVE  /\ Word(g - r) \in Nat
         /\ Word(g - r) = g <=> r = 0
         /\ r > 0 => Word(Word(g - r) + 1) = Word(g - (r - 1))
<1>1. g - r \in Int /\ WordRange \in Nat /\ g < WordRange - 1 /\ r < WordRange
  BY Constants
<1>2. CASE r <= g
  <2>1. Word(g - r) = g - r
    BY <1>1, <1>2, WordFacts
  <2>2. r > 0 => Word(g - r + 1) = g - r + 1 /\ g - (r - 1) = g - r + 1
    BY <1>1, <1>2, WordFacts
  <2>. QED  BY <1>2, <2>1, <2>2
<1>3. CASE r > g
  <2>1. Word(g - r) = g - r + WordRange
    BY <1>1, <1>3, WordFacts
  <2>2. CASE r = g + 1
    <3>1. g - r + WordRange + 1 = WordRange /\ g - (r - 1) = 0
      BY <1>1, <2>2
    <3>2. Word(WordRange) = 0 /\ Word(0) = 0
      BY <1>1, WordFacts
    <3>. QED  BY <1>1, <1>3, <2>1, <3>1, <3>2
  <2>3. CASE r > g + 1
    <3>1. Word(g - r + WordRange + 1) = g - r + WordRange + 1
      BY <1>1, <1>3, <2>3, WordFacts
    <3>2. Word(g - (r - 1)) = g - (r - 1) + WordRange
      BY <1>1, <1>3, <2>3, WordFacts
    <3>. QED  BY <1>1, <1>3, <2>1, <3>1, <3>2
  <2>. QED  BY <1>3, <2>2, <2>3
<1>. QED  BY <1>2, <1>3
-----------------------------------------------------------------------------
(* The layout that CTA 0 prepares from a plan. *)

LEMMA BlocksBeforeFacts ==
  ASSUME NEW p \in Plans
  PROVE  /\ BlocksBefore(p, 0) = 0
         /\ \A e \in 0 .. Groups : BlocksBefore(p, e) \in Nat
         /\ \A e \in Experts :
              p[e] \in Nat /\ BlocksBefore(p, e + 1) = BlocksBefore(p, e) + p[e]
<1>1. p \in [0 .. Groups - 1 -> Nat] /\ Groups \in Nat
  BY FusedAssumption DEF Experts
<1>. DEFINE Sum == LET sum[i \in 0 .. Groups] == IF i = 0 THEN 0 ELSE sum[i - 1] + p[i - 1]
                   IN  sum
<1>2. Sum \in [0 .. Groups -> Nat] /\ Sum[0] = 0
      /\ \A e \in 0 .. Groups - 1 : Sum[e + 1] = Sum[e] + p[e]
  BY <1>1, PrefixSums
<1>3. \A e : BlocksBefore(p, e) = Sum[e]
  BY DEF BlocksBefore
<1>. HIDE DEF Sum
<1>. QED  BY <1>1, <1>2, <1>3 DEF Experts

LEMMA OwnerFacts ==
  ASSUME NEW p \in Plans
  PROVE  /\ BlocksBefore(p, Groups) \in 0 .. MaxMBlocks
         /\ \A mb \in 0 .. BlocksBefore(p, Groups) - 1 : ExpertOf(p, mb) \in Experts
         /\ \A e \in Experts :
              LET S == {mb \in 0 .. BlocksBefore(p, Groups) - 1 : ExpertOf(p, mb) = e}
              IN  IsFiniteSet(S) /\ Cardinality(S) = p[e]
<1>1. PICK B \in [0 .. Groups -> Nat] : \A e \in 0 .. Groups : B[e] = BlocksBefore(p, e)
  <2>1. PICK B : B = [e \in 0 .. Groups |-> BlocksBefore(p, e)]
    OBVIOUS
  <2>2. \A e \in 0 .. Groups : BlocksBefore(p, e) \in Nat
    BY BlocksBeforeFacts
  <2>3. B \in [0 .. Groups -> Nat] /\ \A e \in 0 .. Groups : B[e] = BlocksBefore(p, e)
    BY <2>1, <2>2
  <2>. QED  BY <2>3
<1>2. Groups \in Nat /\ MaxMBlocks \in Nat
  BY Constants
<1>3. /\ B[0] = 0
      /\ \A e \in Experts : /\ p[e] \in Nat /\ e \in 0 .. Groups /\ e + 1 \in 0 .. Groups
                            /\ B[e + 1] = B[e] + p[e]
  BY <1>1, <1>2, BlocksBeforeFacts DEF Experts
<1>4. ASSUME NEW f \in 0 .. Groups, NEW e \in 0 .. f  PROVE B[e] <= B[f]
  <2>. DEFINE S == {n \in 0 .. f : \A i \in 0 .. n : B[i] <= B[n]}
  <2>1. 0 \in S
    BY <1>2
  <2>2. ASSUME NEW n \in 0 .. f - 1, n \in S  PROVE n + 1 \in S
    <3>0. n \in Experts /\ n \in 0 .. Groups /\ n + 1 \in 0 .. Groups
      BY <1>2 DEF Experts
    <3>1. B[n] <= B[n + 1] /\ B[n] \in Nat /\ B[n + 1] \in Nat
      BY <1>3, <3>0
    <3>2. ASSUME NEW i \in 0 .. n + 1  PROVE B[i] <= B[n + 1]
      <4>1. CASE i = n + 1
        BY <4>1, <3>1
      <4>2. CASE i \in 0 .. n
        <5>1. B[i] <= B[n] /\ i \in 0 .. Groups
          BY <2>2, <4>2, <1>2
        <5>. QED  BY <5>1, <3>1
      <4>. QED  BY <4>1, <4>2
    <3>. QED  BY <3>2
  <2>. HIDE DEF S
  <2>3. f \in S
    BY <1>2, <2>1, <2>2, UpTo
  <2>. QED  BY <2>3 DEF S
<1>5. ASSUME NEW mb \in 0 .. B[Groups] - 1
      PROVE  \E e \in Experts : B[e] <= mb /\ mb < B[e] + p[e]
  <2>. DEFINE S == {n \in 0 .. Groups :
                      mb < B[n] => \E e \in Experts : B[e] <= mb /\ mb < B[e] + p[e]}
  <2>1. 0 \in S
    BY <1>2, <1>3
  <2>2. ASSUME NEW n \in 0 .. Groups - 1, n \in S  PROVE n + 1 \in S
    <3>1. n \in Experts /\ B[n + 1] = B[n] + p[n] /\ B[n] \in Nat
      BY <1>2, <1>3 DEF Experts
    <3>2. mb < B[n] \/ B[n] <= mb
      BY <3>1
    <3>3. mb < B[n] => \E e \in Experts : B[e] <= mb /\ mb < B[e] + p[e]
      BY <2>2
    <3>4. mb < B[n + 1] => \E e \in Experts : B[e] <= mb /\ mb < B[e] + p[e]
      BY <3>1, <3>2, <3>3
    <3>. QED  BY <1>2, <3>4
  <2>. HIDE DEF S
  <2>3. Groups \in S
    BY <1>2, <2>1, <2>2, UpTo
  <2>. QED  BY <2>3 DEF S
<1>6. ASSUME NEW mb \in Nat, NEW e \in Experts, B[e] <= mb, mb < B[e] + p[e],
             NEW f \in Experts, B[f] <= mb, mb < B[f] + p[f]
      PROVE  e = f
  <2>1. ~(e < f)
    <3>1. e < f => B[e + 1] <= B[f]
      BY <1>2, <1>4 DEF Experts
    <3>. QED  BY <1>3, <1>6, <3>1
  <2>2. ~(f < e)
    <3>1. f < e => B[f + 1] <= B[e]
      BY <1>2, <1>4 DEF Experts
    <3>. QED  BY <1>3, <1>6, <3>1
  <2>. QED  BY <1>2, <2>1, <2>2 DEF Experts
<1>7. \A mb : ExpertOf(p, mb) = CHOOSE e \in Experts : B[e] <= mb /\ mb < B[e] + p[e]
  BY <1>1, <1>3 DEF ExpertOf
<1>8. ASSUME NEW mb \in 0 .. B[Groups] - 1
      PROVE  /\ ExpertOf(p, mb) \in Experts
             /\ B[ExpertOf(p, mb)] <= mb /\ mb < B[ExpertOf(p, mb)] + p[ExpertOf(p, mb)]
  BY <1>5, <1>7
<1>9. ASSUME NEW e \in Experts
      PROVE  LET S == {mb \in 0 .. B[Groups] - 1 : ExpertOf(p, mb) = e}
             IN  IsFiniteSet(S) /\ Cardinality(S) = p[e]
  <2>1. B[e] \in Nat /\ p[e] \in Nat /\ B[e] + p[e] <= B[Groups]
    <3>1. B[e + 1] <= B[Groups]
      BY <1>2, <1>3, <1>4
    <3>. QED  BY <3>1, <1>3
  <2>2. {mb \in 0 .. B[Groups] - 1 : ExpertOf(p, mb) = e} = B[e] .. B[e] + p[e] - 1
    <3>1. ASSUME NEW mb \in 0 .. B[Groups] - 1, ExpertOf(p, mb) = e
          PROVE  mb \in B[e] .. B[e] + p[e] - 1
      BY <1>8, <2>1, <3>1
    <3>2. ASSUME NEW mb \in B[e] .. B[e] + p[e] - 1
          PROVE  mb \in 0 .. B[Groups] - 1 /\ ExpertOf(p, mb) = e
      <4>1. mb \in 0 .. B[Groups] - 1 /\ mb \in Nat
        BY <1>2, <2>1
      <4>. QED  BY <1>6, <1>8, <2>1, <4>1
    <3>. QED  BY <1>2, <2>1, <3>1, <3>2
  <2>3. IsFiniteSet(B[e] .. B[e] + p[e] - 1) /\ Cardinality(B[e] .. B[e] + p[e] - 1) = p[e]
    <3>1. PICK a \in Nat, n \in Nat : a = B[e] /\ n = p[e]
      BY <2>1
    <3>2. a \in Int /\ a + n - 1 \in Int
      OBVIOUS
    <3>3. /\ IsFiniteSet(a .. a + n - 1)
          /\ Cardinality(a .. a + n - 1) = IF a > a + n - 1 THEN 0 ELSE a + n - 1 - a + 1
      BY <3>2, FS_Interval
    <3>4. (IF a > a + n - 1 THEN 0 ELSE a + n - 1 - a + 1) = n
      OBVIOUS
    <3>5. IsFiniteSet(a .. a + n - 1) /\ Cardinality(a .. a + n - 1) = n
      BY <3>3, <3>4
    <3>. QED  BY <3>1, <3>5
  <2>. QED  BY <2>2, <2>3
<1>10. BlocksBefore(p, Groups) = B[Groups] /\ B[Groups] \in Nat
  BY <1>1, <1>2
<1>11. B[Groups] <= MaxMBlocks
  BY <1>10, FusedAssumption
<1>. QED  BY <1>2, <1>8, <1>9, <1>10, <1>11
-----------------------------------------------------------------------------
(* What a step of one CTA leaves alone. *)

LEMMA CtaFacts ==
  /\ 0 \in Ctas /\ Ctas \subseteq Nat
  /\ \A mb \in Nat : Copier(mb) \in Ctas /\ CopyCta(Copier(mb))
  /\ \A w \in Nat : Reshaper(w) \in Ctas /\ ~CopyCta(Reshaper(w))
BY Constants, CopierFacts, ReshaperFacts DEF Ctas, CopyCta

LEMMA ItemsType ==
  ASSUME TypeOK
  PROVE  /\ ReshapeItems = IF layout.share THEN layout.blocks ELSE Groups * 3
         /\ ReshapeItems \in Nat
         /\ \A mb \in 0 .. layout.blocks - 1, p \in Partitions : ItemOf(mb, p) \in 0 .. ReshapeItems - 1
         /\ ~layout.share => \A e \in Experts, p \in Partitions : 3 * e + p \in 0 .. ReshapeItems - 1
<1>1. Cardinality(Partitions) = 3
  <2>1. PICK a \in Int, b \in Int : a = 0 /\ b = 2
    OBVIOUS
  <2>2. Cardinality(a .. b) = IF a > b THEN 0 ELSE b - a + 1
    BY FS_Interval
  <2>3. Cardinality(a .. b) = 3
    BY <2>1, <2>2
  <2>. QED  BY <2>1, <2>3 DEF Partitions
<1>2. ReshapeItems = IF layout.share THEN layout.blocks ELSE Groups * 3
  BY <1>1 DEF ReshapeItems
<1>3. /\ layout.blocks \in Nat /\ layout.share \in BOOLEAN /\ Groups \in Nat
      /\ \A mb \in 0 .. layout.blocks - 1 : layout.owner[mb] \in 0 .. Groups - 1
  BY Constants DEF TypeOK, Experts
<1>4. ASSUME NEW mb \in 0 .. layout.blocks - 1, NEW p \in Partitions
      PROVE  ItemOf(mb, p) \in 0 .. ReshapeItems - 1
  BY <1>2, <1>3 DEF ItemOf, Partitions
<1>5. ASSUME ~layout.share, NEW e \in Experts, NEW p \in Partitions
      PROVE  3 * e + p \in 0 .. ReshapeItems - 1
  BY <1>2, <1>3, <1>5 DEF Experts, Partitions
<1>. QED  BY <1>2, <1>3, <1>4, <1>5

\* A step of CTA c in a launch that is prepared.  Only the publication of the metadata
\* changes the word the others wait for.
Local(c) ==
  /\ \A d \in Ctas : d # c => pc'[d] = pc[d] /\ work'[d] = work[d] /\ step'[d] = step[d]
  /\ UNCHANGED <<generation, launches, plan, layout>>
  /\ pc[0] # "publish" => ready' = ready

LEMMA Running ==
  ASSUME TypeOK, Phases, NEW c \in Ctas, CtaStep(c)
  PROVE  /\ Started /\ Started' /\ launches > 0 /\ pc[0] \notin {"prepare", "publish"}
         /\ pc[c] \notin {"prepare", "publish", "done"} /\ generation > 0
         /\ pc'[0] \notin {"prepare", "publish"} /\ pc'[c] \notin {"prepare", "publish", "wait"}
<1>1. pc[c] \notin {"prepare", "publish", "done"} /\ (pc[c] = "wait" => ready.metadata)
  BY DEF CtaStep, AwaitMetadata, CopyStripe, PublishStripe, Reshape, PublishReshape, FetchTile,
         LoadKTile, StoreTile
<1>2. launches > 0 /\ pc[0] \notin {"prepare", "publish"}
  BY <1>1 DEF TypeOK, Phases
<1>3. /\ pc'[c] \notin {"prepare", "publish", "wait"}
      /\ (\A d \in Ctas : d # c => pc'[d] = pc[d]) /\ launches' = launches
  <2>1. pc \in [Ctas -> PcNames]
    BY DEF TypeOK
  <2>2. CASE AwaitMetadata(c) \/ CopyStripe(c) \/ PublishStripe(c)
    BY <2>1, <2>2 DEF AwaitMetadata, CopyStripe, PublishStripe
  <2>3. CASE Reshape(c) \/ PublishReshape(c)
    BY <2>1, <2>3 DEF Reshape, PublishReshape
  <2>4. CASE FetchTile(c)
    BY <2>1, <2>4 DEF FetchTile
  <2>5. CASE LoadKTile(c)
    BY <1>1, <2>1, <2>5 DEF LoadKTile
  <2>6. CASE StoreTile(c)
    BY <2>1, <2>6 DEF StoreTile
  <2>. QED  BY <2>2, <2>3, <2>4, <2>5, <2>6 DEF CtaStep
<1>. QED  BY <1>1, <1>2, <1>3, CtaFacts DEF Started, Phases

LEMMA LocalProgress ==
  ASSUME TypeOK, NEW c \in Ctas, Local(c), NEW mb \in Nat, Copier(mb) # c
  PROVE  Progress(mb)' = Progress(mb)
<1>1. Copier(mb) \in Ctas
  BY CtaFacts
<1>. QED  BY <1>1 DEF Local, Progress

LEMMA LocalItems ==
  ASSUME TypeOK, NEW c \in Ctas, Local(c), NEW w \in Nat, Reshaper(w) # c
  PROVE  ItemDone(w)' = ItemDone(w)
<1>1. Reshaper(w) \in Ctas
  BY CtaFacts
<1>. QED  BY <1>1, Zenon DEF Local, ItemDone

LEMMA ProgressType ==
  ASSUME TypeOK, Strides, NEW mb \in Nat
  PROVE  Progress(mb) \in 0 .. NStripes
<1>1. PICK c \in Ctas : c = Copier(mb)
  BY CtaFacts
<1>2. pc[c] \in {"copy", "flag"} => step[c] \in 0 .. NStripes - 1
  BY StripesType DEF Strides
<1>. QED  BY <1>1, <1>2, StripesType DEF Progress

LEMMA CopyTagsKept ==
  ASSUME TypeOK, CopyTags, Started, Started', launches > 0, NEW c \in Ctas, Local(c),
         \A mb \in 0 .. layout.blocks - 1 : Progress(mb)' = Progress(mb),
         copyFlag' = copyFlag
  PROVE  CopyTags'
<1>1. /\ generation' = generation /\ layout' = layout /\ launches' = launches
      /\ layout.blocks \in Nat /\ MaxMBlocks \in Nat
  BY Constants DEF Local, TypeOK
<1>2. (\A mb \in MBlocks :
         IF mb < layout.blocks /\ Progress(mb) > 0
         THEN copyFlag[mb] = 8 * generation + Progress(mb)
         ELSE copyFlag[mb] < 8 * generation)'
  BY <1>1 DEF CopyTags, MBlocks
<1>. QED  BY <1>1, <1>2 DEF CopyTags, Started

LEMMA RowsKept ==
  ASSUME TypeOK, Rows, Started, NEW c \in Ctas, Local(c),
         \A mb \in 0 .. layout.blocks - 1 : Progress(mb)' = Progress(mb),
         fp4' = fp4
  PROVE  Rows'
BY DEF Rows, Local

LEMMA ScaleTagsKept ==
  ASSUME TypeOK, ScaleTags, Started, Started', launches > 0, NEW c \in Ctas, Local(c),
         \A w \in 0 .. ReshapeItems - 1 : ItemDone(w)' = ItemDone(w),
         sfaFlag' = sfaFlag
  PROVE  ScaleTags'
<1>1. layout.share => \A e \in Experts : Remaining(e)' = Remaining(e)
  BY ItemsType DEF Remaining, Chunks, Local
<1>2. ~layout.share => \A e \in Experts, p \in Partitions : ItemDone(3 * e + p)' = ItemDone(3 * e + p)
  BY ItemsType
<1>3. /\ generation' = generation /\ layout' = layout /\ plan' = plan /\ launches' = launches
  BY DEF Local
<1>4. (Started /\ ~layout.share => \A e \in Experts, p \in Partitions :
         IF ItemDone(3 * e + p) THEN sfaFlag[e][p] = generation ELSE sfaFlag[e][p] < generation)'
  BY <1>2, <1>3 DEF ScaleTags
<1>5. (Started /\ layout.share => \A e \in Experts :
         /\ sfaFlag[e][0] = Word(generation - Cardinality(Remaining(e)))
         /\ \A p \in Partitions \ {0} :
              sfaFlag[e][p] = IF Remaining(e) = {} THEN generation ELSE Word(generation - plan[e]))'
  BY <1>1, <1>3 DEF ScaleTags
<1>. QED  BY <1>3, <1>4, <1>5 DEF ScaleTags, Started, TypeOK

LEMMA ScalesKept ==
  ASSUME TypeOK, Scales, Started, NEW c \in Ctas, Local(c),
         \A w \in 0 .. ReshapeItems - 1 : ItemDone(w)' = ItemDone(w),
         sfa' = sfa
  PROVE  Scales'
<1>1. \A mb \in 0 .. layout.blocks - 1, p \in Partitions :
        ItemOf(mb, p)' = ItemOf(mb, p) /\ ItemDone(ItemOf(mb, p))' = ItemDone(ItemOf(mb, p))
  BY ItemsType DEF ItemOf, Local
<1>. QED  BY <1>1 DEF Scales, Local

\* What a CTA waited for is still there.
LEMMA LoadsKept ==
  ASSUME TypeOK, Strides, Loads, Tickets, NEW c \in Ctas, Local(c),
         \A mb \in 0 .. layout.blocks - 1 : Progress(mb)' \in Nat /\ Progress(mb)' >= Progress(mb),
         \A w \in 0 .. ReshapeItems - 1 : ItemDone(w) => ItemDone(w)',
         NEW d \in Ctas, d # c, pc'[d] = "load", NEW t \in 0 .. step'[d] - 1
  PROVE  (/\ t \div KTilesPerFlag < Progress(MOf(work[d]))
          /\ \A p \in PartitionsUpTo(t) : ItemDone(ItemOf(MOf(work[d]), p)))'
<1>1. pc[d] = "load" /\ work'[d] = work[d] /\ step'[d] = step[d] /\ layout' = layout
  BY DEF Local
<1>2. PICK mb \in 0 .. layout.blocks - 1 : mb = MOf(work[d])
  <2>1. work[d] \in Nat /\ layout.blocks \in Nat
    BY DEF TypeOK
  <2>2. work[d] < layout.blocks * NumNBlocks
    BY <1>1 DEF Tickets, Tiles
  <2>3. PICK b \in Nat, k \in Nat : b = layout.blocks /\ k = work[d]
    BY <2>1
  <2>4. MOf(k) \in Nat /\ MOf(k) < b
    BY <2>2, <2>3, TileNumbers
  <2>. QED  BY <2>3, <2>4
<1>3. t \div KTilesPerFlag < Progress(mb) /\ \A p \in PartitionsUpTo(t) : ItemDone(ItemOf(mb, p))
  BY <1>1, <1>2 DEF Loads
<1>4. t \div KTilesPerFlag < Progress(mb)'
  <2>1. Progress(mb)' >= Progress(mb) /\ Progress(mb) \in Nat /\ Progress(mb)' \in Nat
    <3>1. mb \in Nat /\ NStripes \in Nat
      BY <1>2, StripesType DEF TypeOK
    <3>. QED  BY <3>1, ProgressType
  <2>2. t \div KTilesPerFlag \in Int
    BY <1>1, Constants DEF TypeOK
  <2>. QED  BY <1>3, <2>1, <2>2
<1>5. ASSUME NEW p \in PartitionsUpTo(t)  PROVE ItemDone(ItemOf(mb, p))'
  <2>1. PICK w \in 0 .. ReshapeItems - 1 : w = ItemOf(mb, p)
    BY <1>2, ItemsType DEF PartitionsUpTo
  <2>2. ItemOf(mb, p)' = w
    BY <1>1, <2>1 DEF ItemOf
  <2>3. ItemDone(w)'
    BY <1>3, <2>1
  <2>. QED  BY <2>2, <2>3
<1>. QED  BY <1>1, <1>2, <1>4, <1>5

LEMMA TicketsKept ==
  ASSUME TypeOK, Tickets, Started, NEW c \in Ctas, Local(c), pc[c] # "load",
         pc'[c] \notin {"load", "done"}, UNCHANGED <<ticket, output>>
  PROVE  Tickets'
<1>1. \A d \in Ctas : /\ pc'[d] = "load" => d # c /\ pc[d] = "load"
                      /\ pc[d] = "load" => pc'[d] = "load" /\ work'[d] = work[d] /\ step'[d] = step[d]
                      /\ pc'[d] = "done" => pc[d] = "done"
  BY DEF Local
<1>2. Tiles' = Tiles /\ generation' = generation /\ ticket' = ticket /\ output' = output
  BY DEF Local, Tiles
<1>3. \A t \in Nat : (\E d \in Ctas : pc[d] = "load" /\ work[d] = t)
                       => \E d \in Ctas : pc'[d] = "load" /\ work'[d] = t
  BY <1>1
<1>4. \A t \in 0 .. Tiles - 1 : t < ticket =>
        output[MOf(t)][NOf(t)] = generation \/ \E d \in Ctas : pc'[d] = "load" /\ work'[d] = t
  BY <1>3 DEF Tickets
<1>5. \A t \in 0 .. Tiles' - 1 : t < ticket' =>
        \/ output'[MOf(t)][NOf(t)] = generation'
        \/ \E d \in Ctas : pc'[d] = "load" /\ work'[d] = t
  BY <1>2, <1>4
<1>6. TilesDisjoint'
  BY <1>1 DEF TilesDisjoint, Tickets
<1>. QED  BY <1>1, <1>2, <1>5, <1>6 DEF Tickets

LEMMA LocalStep ==
  ASSUME TypeOK, NEW c \in Ctas, CtaStep(c)
  PROVE  Local(c)
<1>1. pc \in [Ctas -> PcNames] /\ work \in [Ctas -> Nat] /\ step \in [Ctas -> Nat]
  BY DEF TypeOK
<1>2. CASE AwaitMetadata(c) \/ CopyStripe(c) \/ PublishStripe(c)
  BY <1>1, <1>2 DEF AwaitMetadata, CopyStripe, PublishStripe, Local, meta
<1>3. CASE Reshape(c) \/ PublishReshape(c)
  BY <1>1, <1>3 DEF Reshape, PublishReshape, Local, meta
<1>4. CASE FetchTile(c) \/ LoadKTile(c) \/ StoreTile(c)
  BY <1>1, <1>4 DEF FetchTile, LoadKTile, StoreTile, Local, meta
<1>. QED  BY <1>2, <1>3, <1>4 DEF CtaStep

LEMMA PhasesKept ==
  ASSUME TypeOK, Phases, NEW c \in Ctas, CtaStep(c), Local(c),
         pc'[c] \in {"copy", "flag"} => CopyCta(c),
         pc'[c] \in {"reshape", "reshaped"} => ~CopyCta(c)
  PROVE  Phases'
<1>1. /\ Started /\ Started' /\ launches > 0 /\ generation > 0 /\ pc[0] # "publish"
      /\ pc'[0] \notin {"prepare", "publish"} /\ pc'[c] \notin {"prepare", "publish", "wait"}
  BY Running
<1>2. /\ generation' = generation /\ layout' = layout /\ launches' = launches /\ plan' = plan
      /\ ready' = ready
  BY <1>1 DEF Local
<1>3. pc'[0] # "wait"
  BY <1>1, CtaFacts DEF Local, Phases
<1>4. \A d \in Ctas : /\ pc'[d] \in {"prepare", "publish"} => d = 0
                      /\ pc'[d] \in {"copy", "flag"} => CopyCta(d)
                      /\ pc'[d] \in {"reshape", "reshaped"} => ~CopyCta(d)
  BY <1>1 DEF Local, Phases
<1>. QED  BY <1>1, <1>2, <1>3, <1>4 DEF Phases

LEMMA StridesKept ==
  ASSUME Strides, NEW c \in Ctas, Local(c),
         pc'[c] \in {"copy", "flag"} => Copier(work'[c]) = c /\ step'[c] \in Stripes,
         pc'[c] = "flag" => work'[c] < layout.blocks,
         pc'[c] \in {"reshape", "reshaped"} => Reshaper(work'[c]) = c,
         pc'[c] = "reshaped" => work'[c] < ReshapeItems
  PROVE  Strides'
<1>1. layout' = layout /\ ReshapeItems' = ReshapeItems
  BY DEF Local, ReshapeItems
<1>. QED  BY <1>1 DEF Strides, Local

\* The steps that publish nothing: M-blocks and items are as far as they were.
LEMMA Quiet ==
  ASSUME IInv, Started, Started', launches > 0, NEW c \in Ctas, Local(c),
         \A mb \in 0 .. layout.blocks - 1 : Progress(mb)' = Progress(mb),
         \A w \in 0 .. ReshapeItems - 1 : ItemDone(w)' = ItemDone(w),
         UNCHANGED <<copyFlag, sfaFlag>>
  PROVE  /\ CopyTags' /\ ScaleTags' /\ (fp4' = fp4 => Rows') /\ (sfa' = sfa => Scales')
         /\ \A d \in Ctas : d # c => (pc[d] = "load" => \A t \in 0 .. step[d] - 1 :
              /\ t \div KTilesPerFlag < Progress(MOf(work[d]))
              /\ \A p \in PartitionsUpTo(t) : ItemDone(ItemOf(MOf(work[d]), p)))'
<1>1. TypeOK /\ Strides /\ CopyTags /\ Rows /\ ScaleTags /\ Scales /\ Loads /\ Tickets
  BY DEF IInv
<1>2. CopyTags' /\ ScaleTags' /\ (fp4' = fp4 => Rows') /\ (sfa' = sfa => Scales')
  BY <1>1, CopyTagsKept, RowsKept, ScaleTagsKept, ScalesKept
<1>3. \A mb \in 0 .. layout.blocks - 1 : Progress(mb)' \in Nat /\ Progress(mb)' >= Progress(mb)
  <2>1. ASSUME NEW mb \in 0 .. layout.blocks - 1
        PROVE  Progress(mb)' \in Nat /\ Progress(mb)' >= Progress(mb)
    <3>1. mb \in Nat /\ NStripes \in Nat
      BY <1>1, StripesType DEF TypeOK
    <3>2. Progress(mb) \in 0 .. NStripes
      BY <1>1, <3>1, ProgressType
    <3>. QED  BY <3>1, <3>2
  <2>. QED  BY <2>1
<1>4. \A w \in 0 .. ReshapeItems - 1 : ItemDone(w) => ItemDone(w)'
  OBVIOUS
<1>5. ASSUME NEW d \in Ctas, d # c, pc'[d] = "load", NEW t \in 0 .. step'[d] - 1
      PROVE  (/\ t \div KTilesPerFlag < Progress(MOf(work[d]))
              /\ \A p \in PartitionsUpTo(t) : ItemDone(ItemOf(MOf(work[d]), p)))'
  BY <1>1, <1>3, <1>4, <1>5, LoadsKept
<1>. QED  BY <1>2, <1>5

LEMMA AwaitMetadataStep ==
  ASSUME IInv, NEW c \in Ctas, AwaitMetadata(c)
  PROVE  IInv'
<1>1. /\ TypeOK /\ Phases /\ Strides /\ Tickets /\ CtaStep(c) /\ Local(c)
      /\ Started /\ Started' /\ launches > 0 /\ pc[0] # "publish"
  BY Running, LocalStep DEF IInv, CtaStep
<1>2. /\ pc[c] = "wait" /\ pc' = [pc EXCEPT ![c] = IF CopyCta(c) THEN "copy" ELSE "reshape"]
      /\ work'[c] = (IF CopyCta(c) THEN c ELSE c - CopyBlocks) /\ step'[c] = 0
      /\ pc'[c] = (IF CopyCta(c) THEN "copy" ELSE "reshape")
      /\ work'[c] \in Nat
      /\ UNCHANGED <<ticket, copyFlag, sfaFlag, fp4, sfa, output>>
  <2>1. pc \in [Ctas -> PcNames] /\ work \in [Ctas -> Nat] /\ step \in [Ctas -> Nat]
    BY <1>1 DEF TypeOK
  <2>2. c \in Nat /\ (~CopyCta(c) => c - CopyBlocks \in Nat)
    BY Constants DEF Ctas, CopyCta
  <2>. QED  BY <2>1, <2>2 DEF AwaitMetadata, meta, flags, data
<1>3. TypeOK'
  BY <1>1, <1>2 DEF TypeOK, PcNames, AwaitMetadata, meta, flags, data
<1>4. Phases'
  BY <1>1, <1>2, PhasesKept
<1>5. Strides'
  <2>1. CopyCta(c) => Copier(work'[c]) = c
    BY <1>2, CopierFacts, Constants DEF CopyCta, Ctas
  <2>2. ~CopyCta(c) => Reshaper(work'[c]) = c
    BY <1>2, ReshaperFacts, Constants DEF CopyCta, Ctas
  <2>3. 0 \in Stripes
    BY StripesType
  <2>. QED  BY <1>1, <1>2, <2>1, <2>2, <2>3, StridesKept
<1>6. ASSUME NEW mb \in Nat  PROVE Progress(mb)' = Progress(mb)
  <2>1. CASE Copier(mb) = c
    <3>1. CopyCta(c) /\ c <= mb
      BY <2>1, CopierFacts, CtaFacts
    <3>2. Progress(mb) = 0
      BY <1>2, <2>1 DEF Progress
    <3>3. Progress(mb)' = IF mb < work'[c] THEN NStripes ELSE IF mb = work'[c] THEN step'[c] ELSE 0
      BY <1>2, <2>1, <3>1 DEF Progress
    <3>. QED  BY <1>2, <3>1, <3>2, <3>3
  <2>. QED  BY <1>1, <2>1, LocalProgress
<1>7. ASSUME NEW w \in Nat  PROVE ItemDone(w)' = ItemDone(w)
  <2>1. CASE Reshaper(w) = c
    <3>1. ~CopyCta(c) /\ c - CopyBlocks <= w
      BY <2>1, ReshaperFacts, CtaFacts
    <3>2. ~ItemDone(w)
      BY <1>2, <2>1 DEF ItemDone
    <3>3. ItemDone(w)' => w < work'[c]
      BY <1>2, <2>1, <3>1 DEF ItemDone
    <3>4. ~(w < work'[c])
      BY <1>2, <3>1, Constants
    <3>. QED  BY <3>2, <3>3, <3>4 DEF ItemDone
  <2>. QED  BY <1>1, <2>1, LocalItems
<1>8. pc'[c] # "load" /\ pc[c] # "load" /\ pc'[c] # "done"
  BY <1>2
<1>9. CopyTags' /\ Rows' /\ ScaleTags' /\ Scales' /\ Loads'
  <2>1. \A mb \in 0 .. layout.blocks - 1 : Progress(mb)' = Progress(mb)
    BY <1>1, <1>6 DEF TypeOK
  <2>2. \A w \in 0 .. ReshapeItems - 1 : ItemDone(w)' = ItemDone(w)
    BY <1>1, <1>7, ItemsType
  <2>. QED  BY <1>1, <1>2, <1>8, <2>1, <2>2, Quiet DEF Loads
<1>10. Tickets'
  BY <1>1, <1>2, <1>8, TicketsKept
<1>. QED  BY <1>3, <1>4, <1>5, <1>9, <1>10 DEF IInv

LEMMA CopyStripeStep ==
  ASSUME IInv, NEW c \in Ctas, CopyStripe(c)
  PROVE  IInv'
<1>1. /\ TypeOK /\ Phases /\ Strides /\ Tickets /\ CtaStep(c) /\ Local(c)
      /\ Started /\ Started' /\ launches > 0 /\ pc[0] # "publish"
  BY Running, LocalStep DEF IInv, CtaStep
<1>2. /\ pc[c] = "copy" /\ work[c] < layout.blocks
      /\ pc' = [pc EXCEPT ![c] = "flag"] /\ pc'[c] = "flag"
      /\ UNCHANGED <<ticket, copyFlag, sfaFlag, sfa, output, work, step>>
      /\ fp4' = [fp4 EXCEPT ![work[c]][step[c]] = InFlight]
  BY <1>1 DEF CopyStripe, TypeOK, meta, flags
<1>3. work[c] \in MBlocks /\ step[c] \in Stripes /\ Copier(work[c]) = c /\ CopyCta(c)
      /\ work[c] \in Nat /\ step[c] \in Nat
  BY <1>1, <1>2, Constants DEF TypeOK, Strides, Phases, MBlocks
<1>4. TypeOK'
  <2>1. fp4' \in [MBlocks -> [Stripes -> Int]]
    BY <1>1, <1>2, <1>3 DEF TypeOK, InFlight
  <2>. QED  BY <1>1, <1>2, <2>1 DEF TypeOK, PcNames, Local
<1>5. Phases'
  BY <1>1, <1>2, <1>3, PhasesKept
<1>6. Strides'
  BY <1>1, <1>2, <1>3, StridesKept
<1>7. ASSUME NEW mb \in Nat  PROVE Progress(mb)' = Progress(mb)
  <2>1. CASE Copier(mb) = c
    BY <1>2, <2>1 DEF Progress
  <2>. QED  BY <1>1, <2>1, LocalProgress
<1>8. ASSUME NEW w \in Nat  PROVE ItemDone(w)' = ItemDone(w)
  <2>1. Reshaper(w) # c
    BY <1>3, CtaFacts
  <2>. QED  BY <1>1, <2>1, LocalItems
<1>9. CopyTags' /\ ScaleTags' /\ Scales' /\ Loads'
  <2>1. \A mb \in 0 .. layout.blocks - 1 : Progress(mb)' = Progress(mb)
    BY <1>1, <1>7 DEF TypeOK
  <2>2. \A w \in 0 .. ReshapeItems - 1 : ItemDone(w)' = ItemDone(w)
    BY <1>1, <1>8, ItemsType
  <2>. QED  BY <1>1, <1>2, <2>1, <2>2, Quiet DEF Loads
<1>10. Rows'
  <2>1. Progress(work[c]) = step[c]
    BY <1>2, <1>3 DEF Progress
  <2>2. ASSUME NEW mb \in 0 .. layout.blocks - 1, NEW ks \in Stripes, ks < Progress(mb)
        PROVE  fp4'[mb][ks] = generation
    <3>1. fp4[mb][ks] = generation
      BY <1>1, <2>2 DEF Rows, IInv
    <3>2. mb # work[c] \/ ks # step[c]
      BY <1>3, <2>1, <2>2
    <3>3. mb \in MBlocks
      BY <1>1, Constants DEF TypeOK, MBlocks
    <3>. QED  BY <1>1, <1>2, <1>3, <3>1, <3>2, <3>3 DEF TypeOK
  <2>3. layout.blocks \in Nat /\ layout' = layout /\ generation' = generation
    BY <1>1 DEF TypeOK, Local
  <2>. QED  BY <1>7, <2>2, <2>3 DEF Rows
<1>11. Tickets'
  BY <1>1, <1>2, TicketsKept
<1>. QED  BY <1>4, <1>5, <1>6, <1>9, <1>10, <1>11 DEF IInv

LEMMA PublishStripeStep ==
  ASSUME IInv, NEW c \in Ctas, PublishStripe(c)
  PROVE  IInv'
<1>1. /\ TypeOK /\ Phases /\ Strides /\ Tickets /\ CtaStep(c) /\ Local(c)
      /\ CopyTags /\ Rows /\ ScaleTags /\ Scales /\ Loads
      /\ Started /\ Started' /\ launches > 0 /\ pc[0] # "publish" /\ generation > 0
  BY Running, LocalStep DEF IInv, CtaStep
<1>2. PICK mb \in Nat, ks \in Nat : mb = work[c] /\ ks = step[c]
  BY <1>1 DEF TypeOK
<1>3. /\ pc[c] = "flag" /\ pc' = [pc EXCEPT ![c] = "copy"] /\ pc'[c] = "copy"
      /\ UNCHANGED <<ticket, sfaFlag, sfa, output>>
      /\ fp4' = [fp4 EXCEPT ![mb][ks] = generation]
      /\ copyFlag' = [copyFlag EXCEPT ![mb] = 8 * generation + (ks + 1)]
  BY <1>1, <1>2 DEF PublishStripe, TypeOK, meta, CopyTag
<1>4. /\ ks + 1 \notin Stripes => step' = [step EXCEPT ![c] = 0] /\ step'[c] = 0
           /\ work' = [work EXCEPT ![c] = mb + CopyBlocks] /\ work'[c] = mb + CopyBlocks
      /\ ks + 1 \in Stripes => step' = [step EXCEPT ![c] = ks + 1] /\ step'[c] = ks + 1
           /\ work' = [work EXCEPT ![c] = mb] /\ work'[c] = mb
  BY <1>1, <1>2 DEF PublishStripe, TypeOK
<1>5. /\ mb < layout.blocks /\ mb \in MBlocks /\ ks \in Stripes /\ Copier(mb) = c /\ CopyCta(c)
      /\ layout.blocks \in Nat /\ layout.blocks <= MaxMBlocks
  <2>1. layout.blocks \in Nat /\ layout.blocks <= MaxMBlocks
    BY <1>1, Constants DEF TypeOK
  <2>2. mb < layout.blocks /\ ks \in Stripes /\ Copier(mb) = c
    BY <1>1, <1>2, <1>3 DEF Strides
  <2>3. CopyCta(c)
    BY <1>1, <1>3 DEF Phases
  <2>. QED  BY <2>1, <2>2, <2>3, Constants DEF MBlocks
<1>6. /\ layout' = layout /\ generation' = generation /\ launches' = launches
      /\ generation \in Nat
  BY <1>1 DEF TypeOK, Local
<1>7. TypeOK'
  <2>1. fp4' \in [MBlocks -> [Stripes -> Int]]
    BY <1>1, <1>3, <1>5, <1>6 DEF TypeOK
  <2>2. copyFlag' \in [MBlocks -> Nat]
    BY <1>1, <1>3, <1>5, <1>6 DEF TypeOK
  <2>3. work' \in [Ctas -> Nat] /\ step' \in [Ctas -> Nat]
    <3>1. work \in [Ctas -> Nat] /\ step \in [Ctas -> Nat] /\ mb + CopyBlocks \in Nat
      BY <1>1, Constants DEF TypeOK
    <3>. QED  BY <1>4, <3>1
  <2>4. pc' \in [Ctas -> PcNames]
    BY <1>1, <1>3 DEF TypeOK, PcNames
  <2>. QED  BY <1>1, <1>3, <2>1, <2>2, <2>3, <2>4 DEF TypeOK, Local
<1>8. Phases'
  BY <1>1, <1>3, <1>5, PhasesKept
<1>9. Strides'
  <2>1. Copier(mb + CopyBlocks) = c /\ 0 \in Stripes
    BY <1>5, CopierFacts, StripesType
  <2>. QED  BY <1>1, <1>3, <1>4, <1>5, <2>1, StridesKept
<1>10. ASSUME NEW b \in Nat
       PROVE  Progress(b)' = IF b = mb THEN ks + 1 ELSE Progress(b)
  <2>1. CASE Copier(b) # c
    BY <1>1, <1>5, <2>1, LocalProgress
  <2>2. CASE Copier(b) = c
    <3>1. Progress(b) = IF b < mb THEN NStripes ELSE IF b = mb THEN ks ELSE 0
      BY <1>2, <1>3, <2>2 DEF Progress
    <3>2. Progress(b)' = IF b < work'[c] THEN NStripes ELSE IF b = work'[c] THEN step'[c] ELSE 0
      BY <1>3, <2>2 DEF Progress
    <3>3. CASE ks + 1 \in Stripes
      BY <1>4, <3>1, <3>2, <3>3
    <3>4. CASE ks + 1 \notin Stripes
      <4>1. ks + 1 = NStripes
        BY <1>5, <3>4, StripesType
      <4>2. b < mb + CopyBlocks => b <= mb
        BY <1>5, <2>2, CopierFacts, Constants
      <4>. QED  BY <1>4, <3>1, <3>2, <3>4, <4>1, <4>2, Constants
    <3>. QED  BY <3>3, <3>4
  <2>. QED  BY <2>1, <2>2
<1>11. ASSUME NEW w \in Nat  PROVE ItemDone(w)' = ItemDone(w)
  <2>1. Reshaper(w) # c
    BY <1>5, CtaFacts
  <2>. QED  BY <1>1, <2>1, LocalItems
<1>12. CopyTags'
  <2>1. ASSUME NEW b \in MBlocks
        PROVE  (IF b < layout.blocks /\ Progress(b) > 0
                THEN copyFlag[b] = 8 * generation + Progress(b)
                ELSE copyFlag[b] < 8 * generation)'
    <3>1. b \in Nat
      BY Constants DEF MBlocks
    <3>2. CASE b = mb
      <4>1. Progress(b)' = ks + 1 /\ layout'.blocks = layout.blocks
        BY <1>6, <1>10, <3>1, <3>2
      <4>2. copyFlag'[b] = 8 * generation + (ks + 1)
        BY <1>1, <1>3, <1>5, <3>2 DEF TypeOK
      <4>. QED  BY <1>5, <1>6, <3>2, <4>1, <4>2
    <3>3. CASE b # mb
      <4>1. copyFlag'[b] = copyFlag[b] /\ Progress(b)' = Progress(b)
        BY <1>1, <1>3, <1>10, <3>1, <3>3 DEF TypeOK
      <4>. QED  BY <1>1, <1>6, <4>1 DEF CopyTags
    <3>. QED  BY <3>2, <3>3
  <2>. QED  BY <1>1, <1>6, <2>1 DEF CopyTags, Started
<1>13. Rows'
  <2>1. ASSUME NEW b \in 0 .. layout.blocks - 1, NEW k \in Stripes, k < Progress(b)'
        PROVE  fp4'[b][k] = generation
    <3>1. b \in Nat /\ b \in MBlocks
      BY <1>5, Constants DEF MBlocks
    <3>2. CASE b = mb /\ k = ks
      BY <1>1, <1>3, <1>5, <3>2 DEF TypeOK
    <3>3. CASE b # mb \/ k # ks
      <4>1. fp4'[b][k] = fp4[b][k]
        BY <1>1, <1>3, <1>5, <3>1, <3>3 DEF TypeOK
      <4>2. k < Progress(b)
        <5>1. CASE b # mb
          BY <1>10, <2>1, <3>1, <5>1
        <5>2. CASE b = mb
          <6>1. Progress(mb) = ks
            BY <1>2, <1>3, <1>5 DEF Progress
          <6>. QED  BY <1>10, <2>1, <3>3, <5>2, <6>1, StripesType
        <5>. QED  BY <5>1, <5>2
      <4>. QED  BY <1>1, <4>1, <4>2 DEF Rows
    <3>. QED  BY <3>2, <3>3
  <2>. QED  BY <1>6, <2>1 DEF Rows
<1>14. ScaleTags' /\ Scales'
  BY <1>1, <1>3, <1>11, ScaleTagsKept, ScalesKept, ItemsType
<1>15. Loads'
  <2>1. ASSUME NEW b \in 0 .. layout.blocks - 1
        PROVE  Progress(b)' \in Nat /\ Progress(b)' >= Progress(b)
    <3>0. b \in Nat
      BY <1>5
    <3>1. Progress(b) \in Nat
      <4>1. Progress(b) \in 0 .. NStripes
        BY <1>1, <3>0, ProgressType
      <4>. QED  BY <4>1, StripesType
    <3>2. Progress(mb) = ks
      BY <1>2, <1>3, <1>5 DEF Progress
    <3>. QED  BY <1>10, <3>0, <3>1, <3>2
  <2>2. \A w \in 0 .. ReshapeItems - 1 : ItemDone(w) => ItemDone(w)'
    BY <1>1, <1>11, ItemsType
  <2>. QED  BY <1>1, <1>3, <2>1, <2>2, LoadsKept DEF Loads
<1>16. Tickets'
  BY <1>1, <1>3, TicketsKept
<1>. QED  BY <1>7, <1>8, <1>9, <1>12, <1>13, <1>14, <1>15, <1>16 DEF IInv

\* An item brings the scales of the cells that name it.
LEMMA CoversFacts ==
  ASSUME TypeOK, NEW w \in Nat, NEW mb \in 0 .. layout.blocks - 1, NEW p \in Partitions
  PROVE  ItemCovers(w, mb, p) <=> w = ItemOf(mb, p)
<1>1. mb \in DOMAIN layout.owner /\ layout.owner[mb] \in Nat /\ p \in 0 .. 2
  BY Constants DEF TypeOK, Experts, Partitions
<1>. QED  BY <1>1 DEF ItemCovers, ItemOf

LEMMA ReshapeStep ==
  ASSUME IInv, NEW c \in Ctas, Reshape(c)
  PROVE  IInv'
<1>1. /\ TypeOK /\ Phases /\ Strides /\ Tickets /\ CtaStep(c) /\ Local(c) /\ Scales
      /\ Started /\ Started' /\ launches > 0 /\ pc[0] # "publish"
  BY Running, LocalStep DEF IInv, CtaStep
<1>2. /\ pc[c] = "reshape" /\ work[c] < ReshapeItems
      /\ pc' = [pc EXCEPT ![c] = "reshaped"] /\ pc'[c] = "reshaped"
      /\ UNCHANGED <<ticket, copyFlag, sfaFlag, fp4, output, work, step>>
      /\ sfa' = [mb \in MBlocks |-> [p \in Partitions |->
                   IF ItemCovers(work[c], mb, p) THEN InFlight ELSE sfa[mb][p]]]
  BY <1>1 DEF Reshape, TypeOK, meta, flags
<1>3. work[c] \in Nat /\ Reshaper(work[c]) = c /\ ~CopyCta(c)
  BY <1>1, <1>2 DEF TypeOK, Strides, Phases
<1>4. TypeOK'
  <2>1. sfa' \in [MBlocks -> [Partitions -> Int]]
    BY <1>1, <1>2 DEF TypeOK, InFlight
  <2>. QED  BY <1>1, <1>2, <2>1 DEF TypeOK, PcNames, Local
<1>5. Phases'
  BY <1>1, <1>2, <1>3, PhasesKept
<1>6. Strides'
  BY <1>1, <1>2, <1>3, StridesKept
<1>7. ASSUME NEW mb \in Nat  PROVE Progress(mb)' = Progress(mb)
  <2>1. Copier(mb) # c
    BY <1>3, CtaFacts
  <2>. QED  BY <1>1, <2>1, LocalProgress
<1>8. ASSUME NEW w \in Nat  PROVE ItemDone(w)' = ItemDone(w)
  <2>1. CASE Reshaper(w) = c
    BY <1>2, <2>1 DEF ItemDone
  <2>. QED  BY <1>1, <2>1, LocalItems
<1>9. CopyTags' /\ Rows' /\ ScaleTags' /\ Loads'
  <2>1. \A mb \in 0 .. layout.blocks - 1 : Progress(mb)' = Progress(mb)
    BY <1>1, <1>7 DEF TypeOK
  <2>2. \A w \in 0 .. ReshapeItems - 1 : ItemDone(w)' = ItemDone(w)
    BY <1>1, <1>8, ItemsType
  <2>. QED  BY <1>1, <1>2, <2>1, <2>2, Quiet DEF Loads
<1>10. Scales'
  <2>1. ~ItemDone(work[c])
    BY <1>2, <1>3 DEF ItemDone
  <2>2. layout' = layout /\ generation' = generation
    BY <1>1 DEF Local
  <2>3. ASSUME NEW mb \in 0 .. layout.blocks - 1, NEW p \in Partitions, ItemDone(ItemOf(mb, p))'
        PROVE  sfa'[mb][p] = generation
    <3>1. PICK w \in Nat : w = ItemOf(mb, p)
      BY <1>1, ItemsType
    <3>2. ItemOf(mb, p)' = w
      BY <2>2, <3>1 DEF ItemOf
    <3>3. ItemDone(w)
      BY <1>8, <2>3, <3>2
    <3>4. ~ItemCovers(work[c], mb, p)
      BY <1>1, <1>3, <2>1, <3>1, <3>3, CoversFacts
    <3>5. mb \in MBlocks
      BY <1>1, Constants DEF TypeOK, MBlocks
    <3>6. sfa'[mb][p] = sfa[mb][p]
      BY <1>2, <3>4, <3>5
    <3>. QED  BY <1>1, <3>1, <3>3, <3>6 DEF Scales
  <2>. QED  BY <2>2, <2>3 DEF Scales
<1>11. Tickets'
  BY <1>1, <1>2, TicketsKept
<1>. QED  BY <1>4, <1>5, <1>6, <1>9, <1>10, <1>11 DEF IInv

\* The chunks of an expert, and those that are still to be counted.
LEMMA ChunkFacts ==
  ASSUME TypeOK, Phases, Started, launches > 0, NEW e \in Experts
  PROVE  /\ plan[e] \in 0 .. MaxMBlocks
         /\ IsFiniteSet(Chunks(e)) /\ Cardinality(Chunks(e)) = plan[e]
         /\ IsFiniteSet(Remaining(e)) /\ Cardinality(Remaining(e)) \in 0 .. plan[e]
         /\ Cardinality(Remaining(e)) = 0 <=> Remaining(e) = {}
<1>1. plan \in Plans /\ plan[e] \in 0 .. MaxMBlocks
  BY DEF Phases, TypeOK
<1>2. IsFiniteSet(Chunks(e)) /\ Cardinality(Chunks(e)) = plan[e]
  <2>1. Chunks(e) = {mb \in 0 .. BlocksBefore(plan, Groups) - 1 : ExpertOf(plan, mb) = e}
    BY DEF Phases, Chunks
  <2>. QED  BY <1>1, <2>1, OwnerFacts
<1>3. Remaining(e) \subseteq Chunks(e)
  BY DEF Remaining
<1>4. IsFiniteSet(Remaining(e)) /\ Cardinality(Remaining(e)) <= Cardinality(Chunks(e))
  BY <1>2, <1>3, FS_Subset
<1>5. Cardinality(Remaining(e)) \in Nat
  BY <1>4, FS_CardinalityType
<1>6. Cardinality(Remaining(e)) = 0 <=> Remaining(e) = {}
  BY <1>4, FS_EmptySet
<1>. QED  BY <1>1, <1>2, <1>4, <1>5, <1>6, Constants

LEMMA PublishReshapeStep ==
  ASSUME IInv, NEW c \in Ctas, PublishReshape(c)
  PROVE  IInv'
<1>1. /\ TypeOK /\ Phases /\ Strides /\ Tickets /\ CtaStep(c) /\ Local(c)
      /\ CopyTags /\ Rows /\ ScaleTags /\ Scales /\ Loads
      /\ Started /\ Started' /\ launches > 0 /\ pc[0] # "publish" /\ generation > 0
  BY Running, LocalStep DEF IInv, CtaStep
<1>2. PICK w \in Nat : w = work[c]
  BY <1>1 DEF TypeOK
<1>3. /\ pc[c] = "reshaped" /\ pc' = [pc EXCEPT ![c] = "reshape"] /\ pc'[c] = "reshape"
      /\ work' = [work EXCEPT ![c] = w + ComputeBlocks] /\ work'[c] = w + ComputeBlocks
      /\ UNCHANGED <<ticket, copyFlag, fp4, output, step>>
      /\ sfa' = [mb \in MBlocks |-> [p \in Partitions |->
                   IF ItemCovers(w, mb, p) THEN generation ELSE sfa[mb][p]]]
  BY <1>1, <1>2 DEF PublishReshape, TypeOK, meta
<1>4. w \in 0 .. ReshapeItems - 1 /\ Reshaper(w) = c /\ ~CopyCta(c)
  BY <1>1, <1>2, <1>3, ItemsType DEF Strides, Phases
<1>5. /\ layout' = layout /\ generation' = generation /\ launches' = launches /\ plan' = plan
      /\ generation \in 1 .. GenerationLimit
      /\ layout.blocks \in Nat /\ layout.blocks <= MaxMBlocks /\ layout.share \in BOOLEAN
  BY <1>1, Constants DEF TypeOK, Local
\* The expert's flags, as the two branches leave them.
<1>6. PICK e \in Experts : e = ItemExpert(w)
  <2>1. CASE layout.share
    BY <1>1, <1>4, <2>1, ItemsType DEF ItemExpert, TypeOK
  <2>2. CASE ~layout.share
    BY <1>1, <1>4, <2>2, ItemsType, Constants DEF ItemExpert, Experts
  <2>. QED  BY <2>1, <2>2
<1>7. ASSUME layout.share
      PROVE  /\ \A p \in Partitions :
                  sfaFlag'[e][p] = IF p = 0 THEN Word(sfaFlag[e][0] + 1)
                                   ELSE IF Word(sfaFlag[e][0] + 1) = generation THEN generation
                                   ELSE sfaFlag[e][p]
             /\ \A f \in Experts : f # e => sfaFlag'[f] = sfaFlag[f]
             /\ sfaFlag' \in [Experts -> [Partitions -> Nat]]
  <2>1. sfaFlag' = [sfaFlag EXCEPT ![e] = [p \in Partitions |->
                      IF p = 0 THEN Word(sfaFlag[e][0] + 1)
                      ELSE IF Word(sfaFlag[e][0] + 1) = generation THEN generation
                      ELSE sfaFlag[e][p]]]
    BY <1>2, <1>6, <1>7 DEF PublishReshape, AllChunks
  <2>2. sfaFlag \in [Experts -> [Partitions -> Nat]] /\ 0 \in Partitions
    BY <1>1 DEF TypeOK, Partitions
  <2>3. Word(sfaFlag[e][0] + 1) \in Nat /\ generation \in Nat
    BY <1>5, <2>2, WordFacts, Constants
  <2>. QED  BY <2>1, <2>2, <2>3
<1>8. ASSUME ~layout.share
      PROVE  /\ e = w \div 3 /\ w % 3 \in Partitions /\ w = 3 * e + (w % 3)
             /\ sfaFlag'[e][w % 3] = generation
             /\ \A f \in Experts, p \in Partitions :
                  f # e \/ p # w % 3 => sfaFlag'[f][p] = sfaFlag[f][p]
             /\ sfaFlag' \in [Experts -> [Partitions -> Nat]]
  <2>1. e = w \div 3 /\ w % 3 \in Partitions /\ w = 3 * e + (w % 3)
    BY <1>6, <1>8 DEF ItemExpert, Partitions
  <2>2. sfaFlag' = [sfaFlag EXCEPT ![e][w % 3] = generation]
    BY <1>2, <1>6, <1>8 DEF PublishReshape
  <2>3. sfaFlag \in [Experts -> [Partitions -> Nat]] /\ generation \in Nat
    BY <1>1, <1>5 DEF TypeOK
  <2>4. PICK q \in Partitions : q = w % 3
    BY <2>1
  <2>5. /\ sfaFlag'[e][q] = generation
        /\ \A f \in Experts, p \in Partitions :
             f # e \/ p # q => sfaFlag'[f][p] = sfaFlag[f][p]
        /\ sfaFlag' \in [Experts -> [Partitions -> Nat]]
    BY <2>2, <2>3, <2>4
  <2>. QED  BY <2>1, <2>4, <2>5
<1>9. TypeOK'
  <2>1. sfaFlag' \in [Experts -> [Partitions -> Nat]]
    BY <1>5, <1>7, <1>8
  <2>2. sfa' \in [MBlocks -> [Partitions -> Int]]
    BY <1>1, <1>3, <1>5 DEF TypeOK
  <2>3. work' \in [Ctas -> Nat] /\ pc' \in [Ctas -> PcNames]
    BY <1>1, <1>3, Constants DEF TypeOK, PcNames
  <2>. QED  BY <1>1, <1>3, <2>1, <2>2, <2>3 DEF TypeOK, Local
<1>10. Phases'
  BY <1>1, <1>3, <1>4, PhasesKept
<1>11. Strides'
  <2>1. Reshaper(w + ComputeBlocks) = c
    BY <1>4, ReshaperFacts
  <2>. QED  BY <1>1, <1>3, <1>4, <2>1, StridesKept
<1>12. ASSUME NEW mb \in Nat  PROVE Progress(mb)' = Progress(mb)
  <2>1. Copier(mb) # c
    BY <1>4, CtaFacts
  <2>. QED  BY <1>1, <2>1, LocalProgress
<1>13. ~ItemDone(w)
  BY <1>2, <1>3, <1>4 DEF ItemDone
<1>14. ASSUME NEW v \in Nat  PROVE ItemDone(v)' <=> ItemDone(v) \/ v = w
  <2>1. CASE Reshaper(v) # c
    BY <1>1, <1>4, <2>1, LocalItems
  <2>2. CASE Reshaper(v) = c
    <3>1. ItemDone(v) <=> v < w
      BY <1>2, <1>3, <2>2 DEF ItemDone
    <3>2. ItemDone(v)' <=> v < w + ComputeBlocks
      BY <1>3, <2>2 DEF ItemDone
    <3>3. v < w + ComputeBlocks <=> v <= w
      BY <1>4, <2>2, ReshaperFacts, Constants
    <3>. QED  BY <3>1, <3>2, <3>3
  <2>. QED  BY <2>1, <2>2
<1>15. CopyTags' /\ Rows'
  <2>1. \A mb \in 0 .. layout.blocks - 1 : Progress(mb)' = Progress(mb)
    BY <1>5, <1>12
  <2>. QED  BY <1>1, <1>3, <2>1, CopyTagsKept, RowsKept
<1>16. Scales'
  <2>1. ASSUME NEW mb \in 0 .. layout.blocks - 1, NEW p \in Partitions, ItemDone(ItemOf(mb, p))'
        PROVE  sfa'[mb][p] = generation
    <3>1. PICK v \in Nat : v = ItemOf(mb, p)
      BY <1>1, ItemsType
    <3>2. ItemOf(mb, p)' = v
      BY <1>5, <3>1 DEF ItemOf
    <3>3. ItemDone(v) \/ v = w
      BY <1>14, <2>1, <3>2
    <3>4. ItemCovers(w, mb, p) <=> v = w
      BY <1>1, <3>1, CoversFacts
    <3>5. mb \in MBlocks
      BY <1>5, Constants DEF MBlocks
    <3>6. sfa'[mb][p] = IF v = w THEN generation ELSE sfa[mb][p]
      BY <1>3, <3>4, <3>5
    <3>. QED  BY <1>1, <3>1, <3>3, <3>6 DEF Scales
  <2>. QED  BY <1>5, <2>1 DEF Scales
<1>17. ScaleTags'
  <2>1. CASE ~layout.share
    <3>1. ASSUME NEW f \in Experts, NEW p \in Partitions
          PROVE  (IF ItemDone(3 * f + p) THEN sfaFlag[f][p] = generation
                  ELSE sfaFlag[f][p] < generation)'
      <4>1. PICK v \in Nat : v = 3 * f + p
        BY Constants DEF Experts, Partitions
      <4>2. CASE f = e /\ p = w % 3
        BY <1>5, <1>8, <1>14, <2>1, <4>1, <4>2
      <4>3. CASE f # e \/ p # w % 3
        <5>1. sfaFlag'[f][p] = sfaFlag[f][p]
          BY <1>8, <2>1, <4>3
        <5>2. v # w
          BY <1>8, <2>1, <4>1, <4>3, Constants DEF Experts, Partitions
        <5>3. ItemDone(v)' <=> ItemDone(v)
          BY <1>14, <5>2
        <5>. QED  BY <1>1, <1>5, <2>1, <4>1, <5>1, <5>3 DEF ScaleTags
      <4>. QED  BY <4>2, <4>3
    <3>. QED  BY <1>1, <1>5, <2>1, <3>1 DEF ScaleTags, Started
  <2>2. CASE layout.share
    <3>1. w \in Remaining(e) /\ \A f \in Experts : f # e => w \notin Remaining(f)
      BY <1>1, <1>4, <1>6, <1>13, <2>2, ItemsType DEF Remaining, Chunks, ItemExpert
    <3>2. \A f \in Experts : Remaining(f)' = Remaining(f) \ {w}
      BY <1>5, <1>14 DEF Remaining, Chunks
    <3>3. ASSUME NEW f \in Experts
          PROVE  (/\ sfaFlag[f][0] = Word(generation - Cardinality(Remaining(f)))
                  /\ \A p \in Partitions \ {0} :
                       sfaFlag[f][p] = IF Remaining(f) = {} THEN generation
                                       ELSE Word(generation - plan[f]))'
      <4>1. CASE f # e
        <5>1. Remaining(f)' = Remaining(f)
          BY <3>1, <3>2, <4>1
        <5>. QED  BY <1>1, <1>5, <1>7, <2>2, <4>1, <5>1 DEF ScaleTags
      <4>2. CASE f = e
        <5>1. PICK r \in 0 .. MaxMBlocks : r = Cardinality(Remaining(e))
          BY <1>1, ChunkFacts, Constants
        <5>2. r > 0 /\ Cardinality(Remaining(e) \ {w}) = r - 1
              /\ (r - 1 = 0 <=> Remaining(e) \ {w} = {})
          <6>1. IsFiniteSet(Remaining(e)) /\ (r = 0 <=> Remaining(e) = {})
            BY <1>1, <5>1, ChunkFacts
          <6>2. IsFiniteSet(Remaining(e) \ {w}) /\ Cardinality(Remaining(e) \ {w}) = r - 1
            BY <3>1, <5>1, <6>1, FS_RemoveElement
          <6>3. Cardinality(Remaining(e) \ {w}) = 0 <=> Remaining(e) \ {w} = {}
            BY <6>2, FS_EmptySet
          <6>. QED  BY <3>1, <5>1, <6>1, <6>2, <6>3
        <5>3. sfaFlag[e][0] = Word(generation - r)
              /\ \A p \in Partitions \ {0} : sfaFlag[e][p] = Word(generation - plan[e])
          BY <1>1, <2>2, <3>1, <5>1 DEF ScaleTags
        <5>4. Word(Word(generation - r) + 1) = Word(generation - (r - 1))
              /\ (Word(generation - (r - 1)) = generation <=> r - 1 = 0)
          <6>1. PICK q \in 0 .. MaxMBlocks : q = r - 1
            BY <5>2, Constants
          <6>2. Word(Word(generation - r) + 1) = Word(generation - (r - 1))
            BY <1>5, <5>2, CountFacts
          <6>3. Word(generation - q) = generation <=> q = 0
            BY <1>5, CountFacts
          <6>. QED  BY <6>1, <6>2, <6>3
        <5>5. sfaFlag'[e][0] = Word(generation - (r - 1))
          BY <1>7, <2>2, <5>3, <5>4 DEF Partitions
        <5>6. ASSUME NEW p \in Partitions \ {0}
              PROVE  sfaFlag'[e][p] = IF Remaining(e) \ {w} = {} THEN generation
                                      ELSE Word(generation - plan[e])
          BY <1>7, <2>2, <5>2, <5>3, <5>4
        <5>. QED  BY <1>5, <3>2, <4>2, <5>2, <5>5, <5>6
      <4>. QED  BY <4>1, <4>2
    <3>. QED  BY <1>1, <1>5, <2>2, <3>3 DEF ScaleTags, Started
  <2>. QED  BY <2>1, <2>2
<1>18. Loads'
  <2>1. ASSUME NEW b \in 0 .. layout.blocks - 1
        PROVE  Progress(b)' \in Nat /\ Progress(b)' >= Progress(b)
    <3>0. b \in Nat
      BY <1>5
    <3>1. Progress(b) \in Nat
      <4>1. Progress(b) \in 0 .. NStripes
        BY <1>1, <3>0, ProgressType
      <4>. QED  BY <4>1, StripesType
    <3>. QED  BY <1>12, <3>0, <3>1
  <2>2. \A v \in 0 .. ReshapeItems - 1 : ItemDone(v) => ItemDone(v)'
    BY <1>1, <1>14, ItemsType
  <2>. QED  BY <1>1, <1>3, <2>1, <2>2, LoadsKept DEF Loads
<1>19. Tickets'
  BY <1>1, <1>3, TicketsKept
<1>. QED  BY <1>9, <1>10, <1>11, <1>15, <1>16, <1>17, <1>18, <1>19 DEF IInv
-----------------------------------------------------------------------------
(* Taking, loading and storing tiles. *)

LEMMA FetchTileStep ==
  ASSUME IInv, NEW c \in Ctas, FetchTile(c)
  PROVE  IInv'
<1>1. /\ TypeOK /\ Phases /\ Strides /\ Tickets /\ CtaStep(c) /\ Local(c)
      /\ Started /\ Started' /\ launches > 0 /\ pc[0] # "publish"
  BY Running, LocalStep DEF IInv, CtaStep
<1>2. PICK t \in Nat : t = ticket
  BY <1>1 DEF TypeOK
<1>3. /\ pc' = [pc EXCEPT ![c] = IF t < Tiles THEN "load" ELSE "done"]
      /\ pc'[c] = IF t < Tiles THEN "load" ELSE "done"
      /\ work' = [work EXCEPT ![c] = t] /\ work'[c] = t
      /\ step' = [step EXCEPT ![c] = 0] /\ step'[c] = 0
      /\ ticket' = t + 1 /\ pc[c] # "load"
      /\ UNCHANGED <<copyFlag, sfaFlag, fp4, sfa, output>>
  <2>1. pc \in [Ctas -> PcNames] /\ work \in [Ctas -> Nat] /\ step \in [Ctas -> Nat]
    BY <1>1 DEF TypeOK
  <2>. QED  BY <1>2, <2>1 DEF FetchTile, flags, data, Tiles
<1>4. Tiles \in Nat /\ Tiles' = Tiles /\ generation' = generation /\ layout' = layout
      /\ layout.blocks \in Nat
  BY <1>1, Constants DEF TypeOK, Local, Tiles
<1>5. TypeOK'
  <2>1. pc' \in [Ctas -> PcNames] /\ work' \in [Ctas -> Nat] /\ step' \in [Ctas -> Nat]
    BY <1>1, <1>3 DEF TypeOK, PcNames
  <2>2. ticket' \in Nat
    BY <1>3
  <2>. QED  BY <1>1, <1>3, <2>1, <2>2 DEF TypeOK, Local
<1>6. Phases' /\ Strides'
  BY <1>1, <1>3, PhasesKept, StridesKept
<1>7. ASSUME NEW mb \in 0 .. layout.blocks - 1  PROVE Progress(mb)' = Progress(mb)
  <2>1. CASE Copier(mb) = c
    <3>1. CopyCta(c) /\ c \in Nat
      BY <1>4, <2>1, CtaFacts
    <3>2. pc[c] = "fetch" \/ (pc[c] = "copy" /\ work[c] >= layout.blocks)
      BY <1>1, <3>1 DEF FetchTile, Phases
    <3>3. work[c] \in Nat
      BY <1>1 DEF TypeOK
    <3>4. Progress(mb) = NStripes
      BY <1>4, <2>1, <3>2, <3>3 DEF Progress
    <3>5. Progress(mb)' = NStripes
      BY <1>3, <2>1 DEF Progress
    <3>. QED  BY <3>4, <3>5
  <2>. QED  BY <1>1, <1>4, <2>1, LocalProgress
<1>8. ASSUME NEW w \in 0 .. ReshapeItems - 1  PROVE ItemDone(w)' = ItemDone(w)
  <2>0. w \in Nat
    BY <1>1, ItemsType
  <2>1. CASE Reshaper(w) = c
    <3>1. ~CopyCta(c)
      BY <2>0, <2>1, CtaFacts
    <3>2. pc[c] = "fetch" \/ (pc[c] = "reshape" /\ work[c] >= ReshapeItems)
      BY <1>1, <3>1 DEF FetchTile, Phases
    <3>3. ItemDone(w)
      BY <1>1, <2>0, <2>1, <3>2, ItemsType DEF ItemDone, TypeOK
    <3>4. ItemDone(w)'
      BY <1>3, <2>1 DEF ItemDone
    <3>. QED  BY <3>3, <3>4 DEF ItemDone
  <2>. QED  BY <1>1, <2>0, <2>1, LocalItems
<1>9. CopyTags' /\ Rows' /\ ScaleTags' /\ Scales' /\ Loads'
  BY <1>1, <1>3, <1>7, <1>8, Quiet DEF Loads
<1>10. Tickets'
  <2>1. \A d \in Ctas : d # c /\ pc'[d] = "load" =>
          /\ pc[d] = "load" /\ work'[d] = work[d] /\ step'[d] = step[d]
          /\ work[d] < t /\ work[d] < Tiles /\ step[d] <= KTiles
    BY <1>1, <1>2 DEF Local, Tickets
  <2>2. \A d \in Ctas : pc'[d] = "load" =>
          work'[d] < ticket' /\ work'[d] < Tiles' /\ step'[d] <= KTiles
    BY <1>1, <1>2, <1>3, <1>4, <2>1, KTilesType DEF TypeOK
  <2>3. TilesDisjoint'
    <3>1. ASSUME NEW d \in Ctas, NEW e \in Ctas, pc'[d] = "load", pc'[e] = "load", d # e
          PROVE  work'[d] # work'[e]
      <4>1. CASE d # c /\ e # c
        BY <1>1, <2>1, <3>1, <4>1 DEF TilesDisjoint, Tickets
      <4>2. CASE d = c \/ e = c
        BY <1>1, <1>3, <2>1, <3>1, <4>2 DEF TypeOK
      <4>. QED  BY <4>1, <4>2
    <3>. QED  BY <3>1 DEF TilesDisjoint
  <2>4. ASSUME NEW u \in 0 .. Tiles - 1, u < t + 1
        PROVE  \/ output[MOf(u)][NOf(u)] = generation
               \/ \E d \in Ctas : pc'[d] = "load" /\ work'[d] = u
    <3>1. CASE u = t
      BY <1>3, <1>4, <3>1
    <3>2. CASE u < t
      <4>1. CASE output[MOf(u)][NOf(u)] = generation
        BY <4>1
      <4>2. CASE \E d \in Ctas : pc[d] = "load" /\ work[d] = u
        <5>1. PICK d \in Ctas : pc[d] = "load" /\ work[d] = u
          BY <4>2
        <5>2. d # c
          BY <1>3, <5>1
        <5>. QED  BY <1>1, <5>1, <5>2 DEF Local
      <4>. QED  BY <1>1, <1>2, <3>2, <4>1, <4>2 DEF Tickets
    <3>. QED  BY <1>2, <1>4, <2>4, <3>1, <3>2
  <2>5. \A d \in Ctas : pc'[d] = "done" => ticket' >= Tiles
    <3>1. \A d \in Ctas : d # c /\ pc'[d] = "done" => t >= Tiles
      BY <1>1, <1>2 DEF Local, Tickets
    <3>. QED  BY <1>2, <1>3, <1>4, <3>1
  <2>. QED  BY <1>3, <1>4, <2>2, <2>3, <2>4, <2>5 DEF Tickets
<1>. QED  BY <1>5, <1>6, <1>9, <1>10 DEF IInv

\* A word in the accepted window tells that the stripe is published.
LEMMA StripeIsReady ==
  ASSUME TypeOK, Strides, CopyTags, Started, generation > 0,
         NEW mb \in 0 .. layout.blocks - 1, NEW ks \in Stripes, StripeReady(mb, ks)
  PROVE  ks < Progress(mb)
<1>1. /\ mb \in MBlocks /\ mb \in Nat /\ mb < layout.blocks /\ copyFlag[mb] \in Nat
      /\ generation \in 1 .. GenerationLimit /\ GenerationLimit \in Nat
  <2>1. layout.blocks \in 0 .. MaxMBlocks /\ copyFlag \in [MBlocks -> Nat]
        /\ generation \in 0 .. GenerationLimit
    BY DEF TypeOK
  <2>2. mb \in MBlocks /\ mb \in Nat /\ mb < layout.blocks
    BY <2>1, Constants DEF MBlocks
  <2>. QED  BY <2>1, <2>2, Constants
<1>2. Progress(mb) \in 0 .. 7 /\ ks \in 0 .. 6
  <2>1. Progress(mb) \in 0 .. NStripes
    BY <1>1, ProgressType
  <2>. QED  BY <2>1, StripesType
<1>3. PICK x \in Int : x = copyFlag[mb] - (8 * generation + (ks + 1))
  BY <1>1, <1>2
<1>4. Word(x) <= 7 - (ks + 1)
  BY <1>3 DEF StripeReady, CopyTag
<1>5. IF Progress(mb) > 0 THEN copyFlag[mb] = 8 * generation + Progress(mb)
                          ELSE copyFlag[mb] < 8 * generation
  BY <1>1 DEF CopyTags
<1>6. SUFFICES ASSUME ks >= Progress(mb)  PROVE FALSE
  BY <1>2
<1>7. x < 0 /\ x >= -(8 * generation + (ks + 1)) /\ (Progress(mb) = 0 => x < -ks - 1)
      /\ (Progress(mb) > 0 => x >= -7)
  BY <1>1, <1>2, <1>3, <1>5, <1>6
<1>8. WordRange \in Nat /\ WordRange > 8 * GenerationLimit + 7
      /\ 8 * generation <= 8 * GenerationLimit
  BY <1>1, Constants
<1>9. x \in -WordRange .. -1
  BY <1>1, <1>2, <1>7, <1>8
<1>10. Word(x) = x + WordRange
  BY <1>9, WordFacts
<1>11. x + WordRange > 7 - (ks + 1)
  BY <1>1, <1>2, <1>7, <1>8
<1>. QED  BY <1>2, <1>4, <1>8, <1>10, <1>11

\* The same for the scales: a partition's flag is the generation only once the item
\* that brings the M-block's scales is published.
LEMMA ScalesAreReady ==
  ASSUME TypeOK, Phases, ScaleTags, Started, launches > 0,
         NEW mb \in 0 .. layout.blocks - 1, NEW p \in Partitions,
         sfaFlag[layout.owner[mb]][p] = generation
  PROVE  ItemDone(ItemOf(mb, p))
<1>1. PICK e \in Experts : e = layout.owner[mb]
  BY DEF TypeOK
<1>2. generation \in 1 .. GenerationLimit
  BY Constants DEF TypeOK, Phases
<1>3. CASE ~layout.share
  BY <1>1, <1>2, <1>3 DEF ScaleTags, ItemOf
<1>4. CASE layout.share
  <2>1. SUFFICES ASSUME ~ItemDone(mb)  PROVE FALSE
    BY <1>4 DEF ItemOf
  <2>2. mb \in Remaining(e)
    BY <1>1, <2>1 DEF Remaining, Chunks
  <2>3. PICK r \in 0 .. MaxMBlocks, n \in 0 .. MaxMBlocks :
          r = Cardinality(Remaining(e)) /\ n = plan[e] /\ r > 0 /\ n > 0
    BY <2>2, ChunkFacts, Constants
  <2>4. sfaFlag[e][p] = Word(generation - r) \/ sfaFlag[e][p] = Word(generation - n)
    BY <1>4, <2>2, <2>3 DEF ScaleTags
  <2>5. Word(generation - r) # generation /\ Word(generation - n) # generation
    BY <1>2, <2>3, CountFacts
  <2>. QED  BY <1>1, <2>4, <2>5
<1>. QED  BY <1>3, <1>4

LEMMA LoadKTileStep ==
  ASSUME IInv, NEW c \in Ctas, LoadKTile(c)
  PROVE  IInv'
<1>1. /\ TypeOK /\ Phases /\ Strides /\ CopyTags /\ ScaleTags /\ Loads /\ Tickets
      /\ CtaStep(c) /\ Local(c) /\ Started /\ Started' /\ launches > 0 /\ generation > 0
      /\ pc[0] # "publish"
  BY Running, LocalStep DEF IInv, CtaStep
<1>2. PICK s \in Nat, w \in Nat : s = step[c] /\ w = work[c]
  BY <1>1 DEF TypeOK
<1>3. /\ pc[c] = "load" /\ s < KTiles
      /\ step' = [step EXCEPT ![c] = s + 1] /\ step'[c] = s + 1
      /\ UNCHANGED <<ticket, copyFlag, sfaFlag, fp4, sfa, output, pc, work>>
      /\ StripeReady(MOf(w), s \div KTilesPerFlag)
      /\ \A p \in PartitionsUpTo(s) : sfaFlag[layout.owner[MOf(w)]][p] = generation
  BY <1>1, <1>2 DEF LoadKTile, meta, flags, data, TypeOK
<1>4. TypeOK'
  <2>1. step' \in [Ctas -> Nat]
    BY <1>1, <1>3 DEF TypeOK
  <2>. QED  BY <1>1, <1>3, <2>1 DEF TypeOK, Local
<1>5. Phases' /\ Strides'
  BY <1>1, <1>3, PhasesKept, StridesKept
<1>6. layout' = layout /\ generation' = generation /\ Tiles' = Tiles
      /\ layout.blocks \in Nat
  BY <1>1 DEF Local, Tiles, TypeOK
<1>7. ASSUME NEW mb \in Nat  PROVE Progress(mb)' = Progress(mb)
  <2>1. CASE Copier(mb) = c
    BY <1>3, <2>1 DEF Progress
  <2>. QED  BY <1>1, <2>1, LocalProgress
<1>8. ASSUME NEW v \in Nat  PROVE ItemDone(v)' = ItemDone(v)
  BY <1>3, Zenon DEF ItemDone
<1>9. /\ CopyTags' /\ Rows' /\ ScaleTags' /\ Scales'
      /\ \A d \in Ctas : d # c => (pc[d] = "load" => \A t \in 0 .. step[d] - 1 :
              /\ t \div KTilesPerFlag < Progress(MOf(work[d]))
              /\ \A p \in PartitionsUpTo(t) : ItemDone(ItemOf(MOf(work[d]), p)))'
  <2>1. \A mb \in 0 .. layout.blocks - 1 : Progress(mb)' = Progress(mb)
    BY <1>6, <1>7
  <2>2. \A v \in 0 .. ReshapeItems - 1 : ItemDone(v)' = ItemDone(v)
    BY <1>1, <1>8, ItemsType
  <2>. QED  BY <1>1, <1>3, <2>1, <2>2, Quiet
<1>10. PICK mb \in 0 .. layout.blocks - 1 : mb = MOf(w)
  <2>1. PICK b \in Nat : b = layout.blocks /\ w < b * NumNBlocks
    BY <1>1, <1>2, <1>3, <1>6 DEF Tickets, Tiles
  <2>2. MOf(w) \in Nat /\ MOf(w) < b
    BY <2>1, TileNumbers
  <2>. QED  BY <2>1, <2>2
<1>11. ASSUME NEW t \in 0 .. s
       PROVE  /\ t \div KTilesPerFlag < Progress(mb)
              /\ \A p \in PartitionsUpTo(t) : ItemDone(ItemOf(mb, p))
  <2>1. CASE t < s
    BY <1>1, <1>2, <1>3, <1>10, <2>1 DEF Loads
  <2>2. CASE t = s
    <3>1. s \div KTilesPerFlag \in Stripes
      BY <1>3, KTilesType, StripesType
    <3>2. s \div KTilesPerFlag < Progress(mb)
      BY <1>1, <1>3, <1>10, <3>1, StripeIsReady
    <3>3. \A p \in PartitionsUpTo(s) : ItemDone(ItemOf(mb, p))
      BY <1>1, <1>3, <1>10, ScalesAreReady DEF PartitionsUpTo
    <3>. QED  BY <2>2, <3>2, <3>3
  <2>. QED  BY <2>1, <2>2
<1>12. Loads'
  <2>1. ASSUME NEW t \in 0 .. s
        PROVE  (/\ t \div KTilesPerFlag < Progress(MOf(work[c]))
                /\ \A p \in PartitionsUpTo(t) : ItemDone(ItemOf(MOf(work[c]), p)))'
    <3>1. MOf(work'[c]) = mb /\ work' = work
      BY <1>2, <1>3, <1>10
    <3>2. Progress(mb)' = Progress(mb)
      BY <1>6, <1>7
    <3>3. \A p \in Partitions : ItemDone(ItemOf(mb, p))' <=> ItemDone(ItemOf(mb, p))
      <4>1. ASSUME NEW p \in Partitions
            PROVE  ItemDone(ItemOf(mb, p))' <=> ItemDone(ItemOf(mb, p))
        <5>1. PICK v \in Nat : v = ItemOf(mb, p)
          BY <1>1, ItemsType
        <5>2. ItemOf(mb, p)' = v
          BY <1>6, <5>1 DEF ItemOf
        <5>. QED  BY <1>8, <5>1, <5>2
      <4>. QED  BY <4>1
    <3>. QED  BY <1>11, <3>1, <3>2, <3>3 DEF PartitionsUpTo
  <2>2. step'[c] - 1 = s
    BY <1>3
  <2>. QED  BY <1>9, <2>1, <2>2 DEF Loads
<1>13. Tickets'
  <2>1. \A d \in Ctas : pc'[d] = "load" =>
          work'[d] < ticket' /\ work'[d] < Tiles' /\ step'[d] <= KTiles
    <3>1. ASSUME NEW d \in Ctas, pc[d] = "load"
          PROVE  work[d] < ticket /\ work[d] < Tiles /\ step'[d] <= KTiles
      <4>1. CASE d = c
        BY <1>1, <1>3, <3>1, <4>1, KTilesType DEF Tickets
      <4>2. CASE d # c
        BY <1>1, <3>1, <4>2 DEF Tickets, Local
      <4>. QED  BY <4>1, <4>2
    <3>. QED  BY <1>3, <1>6, <3>1
  <2>2. TilesDisjoint'
    BY <1>1, <1>3 DEF Tickets, TilesDisjoint
  <2>. QED  BY <1>1, <1>3, <1>6, <2>1, <2>2 DEF Tickets
<1>. QED  BY <1>4, <1>5, <1>9, <1>12, <1>13 DEF IInv

LEMMA StoreTileStep ==
  ASSUME IInv, NEW c \in Ctas, StoreTile(c)
  PROVE  IInv'
<1>1. /\ TypeOK /\ Phases /\ Strides /\ Tickets /\ CtaStep(c) /\ Local(c)
      /\ Started /\ Started' /\ launches > 0 /\ pc[0] # "publish"
  BY Running, LocalStep DEF IInv, CtaStep
<1>2. PICK w \in Nat : w = work[c]
  BY <1>1 DEF TypeOK
<1>3. /\ pc[c] = "load" /\ pc' = [pc EXCEPT ![c] = "fetch"] /\ pc'[c] = "fetch"
      /\ output' = [output EXCEPT ![MOf(w)][NOf(w)] = generation]
      /\ UNCHANGED <<ticket, copyFlag, sfaFlag, fp4, sfa, work, step>>
  BY <1>1, <1>2 DEF StoreTile, meta, flags, TypeOK
<1>4. /\ layout' = layout /\ generation' = generation /\ Tiles' = Tiles
      /\ layout.blocks \in Nat /\ layout.blocks <= MaxMBlocks /\ generation \in Nat
      /\ Tiles \in Nat
  BY <1>1, Constants DEF Local, Tiles, TypeOK
<1>5. ASSUME NEW u \in Nat, u < Tiles
      PROVE  MOf(u) \in MBlocks /\ NOf(u) \in 0 .. NumNBlocks - 1
  <2>1. PICK b \in Nat : b = layout.blocks /\ u < b * NumNBlocks /\ b <= MaxMBlocks
    BY <1>4, <1>5 DEF Tiles
  <2>2. MOf(u) \in Nat /\ MOf(u) < b /\ NOf(u) \in 0 .. NumNBlocks - 1
    BY <2>1, TileNumbers
  <2>. QED  BY <2>1, <2>2, Constants DEF MBlocks
<1>6. w < Tiles
  BY <1>1, <1>2, <1>3 DEF Tickets
<1>7. TypeOK'
  <2>1. output' \in [MBlocks -> [0 .. NumNBlocks - 1 -> Int]]
    <3>1. PICK m \in MBlocks, n \in 0 .. NumNBlocks - 1 : m = MOf(w) /\ n = NOf(w)
      BY <1>5, <1>6
    <3>2. output' = [output EXCEPT ![m][n] = generation] /\ generation \in Int
      BY <1>3, <1>4, <3>1
    <3>. QED  BY <1>1, <3>2 DEF TypeOK
  <2>2. pc' \in [Ctas -> PcNames]
    BY <1>1, <1>3 DEF TypeOK, PcNames
  <2>. QED  BY <1>1, <1>3, <2>1, <2>2 DEF TypeOK, Local
<1>8. Phases' /\ Strides'
  BY <1>1, <1>3, PhasesKept, StridesKept
<1>9. ASSUME NEW mb \in Nat  PROVE Progress(mb)' = Progress(mb)
  <2>1. CASE Copier(mb) = c
    BY <1>3, <2>1 DEF Progress
  <2>. QED  BY <1>1, <2>1, LocalProgress
<1>10. ASSUME NEW v \in Nat  PROVE ItemDone(v)' = ItemDone(v)
  <2>1. CASE Reshaper(v) = c
    BY <1>3, <2>1 DEF ItemDone
  <2>. QED  BY <1>1, <2>1, LocalItems
<1>11. CopyTags' /\ Rows' /\ ScaleTags' /\ Scales' /\ Loads'
  <2>1. \A mb \in 0 .. layout.blocks - 1 : Progress(mb)' = Progress(mb)
    BY <1>4, <1>9
  <2>2. \A v \in 0 .. ReshapeItems - 1 : ItemDone(v)' = ItemDone(v)
    BY <1>1, <1>10, ItemsType
  <2>. QED  BY <1>1, <1>3, <2>1, <2>2, Quiet DEF Loads
<1>12. Tickets'
  <2>1. \A d \in Ctas : pc'[d] = "load" => d # c /\ pc[d] = "load"
    BY <1>1, <1>3 DEF Local
  <2>2. TilesDisjoint'
    BY <1>1, <1>3, <2>1 DEF Tickets, TilesDisjoint
  <2>3. ASSUME NEW u \in 0 .. Tiles - 1, u < ticket
        PROVE  output'[MOf(u)][NOf(u)] = generation \/ \E d \in Ctas : pc'[d] = "load" /\ work[d] = u
    <3>1. MOf(u) \in MBlocks /\ NOf(u) \in 0 .. NumNBlocks - 1
          /\ MOf(w) \in MBlocks /\ NOf(w) \in 0 .. NumNBlocks - 1
      BY <1>4, <1>5, <1>6
    <3>2. CASE output[MOf(u)][NOf(u)] = generation
      BY <1>1, <1>3, <3>1, <3>2 DEF TypeOK
    <3>3. CASE \E d \in Ctas : pc[d] = "load" /\ work[d] = u
      <4>1. PICK d \in Ctas : pc[d] = "load" /\ work[d] = u
        BY <3>3
      <4>2. CASE d = c
        BY <1>1, <1>2, <1>3, <3>1, <4>1, <4>2 DEF TypeOK
      <4>3. CASE d # c
        BY <1>1, <4>1, <4>3 DEF Local
      <4>. QED  BY <4>2, <4>3
    <3>. QED  BY <1>1, <2>3, <3>2, <3>3 DEF Tickets
  <2>4. \A d \in Ctas : pc'[d] = "done" => pc[d] = "done"
    BY <1>1, <1>3 DEF Local
  <2>. QED  BY <1>1, <1>3, <1>4, <2>1, <2>2, <2>3, <2>4 DEF Tickets
<1>. QED  BY <1>7, <1>8, <1>11, <1>12 DEF IInv
-----------------------------------------------------------------------------
(* Between launches, and the work of CTA 0 before the others start. *)

LEMMA LaunchStep ==
  ASSUME IInv, Launch
  PROVE  IInv'
<1>1. /\ TypeOK /\ Phases /\ Strides /\ CopyTags /\ ScaleTags
      /\ \A c \in Ctas : pc[c] = "done"
      /\ launches' = launches + 1 /\ launches' > 0 /\ launches' \in Nat
      /\ UNCHANGED <<layout, ticket, copyFlag, sfaFlag, fp4, sfa, output, work, step>>
  BY DEF IInv, Launch, flags, data, TypeOK
<1>2. /\ generation' \in 1 .. GenerationLimit /\ generation \in Nat
      /\ Wrapped' \/ generation' = generation + 1
  BY <1>1, Constants DEF Launch, Advance, Wrapped, TypeOK
<1>3. /\ plan' \in Plans /\ plan' \in [Experts -> 0 .. MaxMBlocks]
      /\ ready'.gen = generation' /\ ~ready'.metadata
      /\ ready' \in [gen : Nat, metadata : BOOLEAN]
  BY <1>2, FusedAssumption DEF Launch
<1>4. /\ pc' \in [Ctas -> PcNames] /\ pc'[0] = "prepare"
      /\ \A c \in Ctas : pc'[c] = IF c = 0 THEN "prepare" ELSE "wait"
  BY CtaFacts DEF Launch, PcNames
<1>5. TypeOK'
  BY <1>1, <1>2, <1>3, <1>4 DEF TypeOK
<1>6. ~Started'
  BY <1>4 DEF Started
<1>7. Phases'
  BY <1>1, <1>2, <1>3, <1>4, <1>6 DEF Phases
<1>8. Strides' /\ Rows' /\ Scales' /\ Loads' /\ Tickets'
  BY <1>4, <1>6 DEF Strides, Rows, Scales, Loads, Tickets, TilesDisjoint
<1>9. CopyTags'
  <2>1. ASSUME NEW mb \in MBlocks  PROVE copyFlag[mb] <= 8 * generation + 7
    <3>1. CASE launches = 0
      BY <1>1, <3>1 DEF CopyTags
    <3>2. CASE launches # 0
      <4>1. Started /\ mb \in Nat
        BY <1>1, <3>2, CtaFacts, Constants DEF Started, TypeOK, MBlocks
      <4>2. Progress(mb) \in 0 .. 7
        <5>1. Progress(mb) \in 0 .. NStripes
          BY <1>1, <4>1, ProgressType
        <5>. QED  BY <5>1, StripesType
      <4>3. copyFlag[mb] = 8 * generation + Progress(mb) \/ copyFlag[mb] < 8 * generation
        BY <1>1, <4>1 DEF CopyTags
      <4>. QED  BY <1>1, <1>2, <4>2, <4>3 DEF TypeOK
    <3>. QED  BY <3>1, <3>2
  <2>2. ASSUME NEW mb \in MBlocks, ~Wrapped'  PROVE copyFlag[mb] < 8 * generation'
    BY <1>1, <1>2, <2>1, <2>2 DEF TypeOK
  <2>. QED  BY <1>1, <1>4, <1>6, <2>2 DEF CopyTags
<1>10. ScaleTags'
  <2>1. ASSUME NEW e \in Experts, NEW p \in Partitions  PROVE sfaFlag[e][p] <= generation
    <3>1. CASE launches = 0
      BY <1>1, <3>1 DEF ScaleTags
    <3>2. CASE launches # 0
      <4>1. Started /\ launches > 0 /\ generation \in 1 .. GenerationLimit
        BY <1>1, <3>2, CtaFacts DEF Started, TypeOK, Phases
      <4>2. \A w \in Nat : ItemDone(w)
        BY <1>1, CtaFacts DEF ItemDone
      <4>3. CASE ~layout.share
        <5>1. 3 * e + p \in Nat
          BY Constants DEF Experts, Partitions
        <5>. QED  BY <1>1, <4>1, <4>2, <4>3, <5>1 DEF ScaleTags
      <4>4. CASE layout.share
        <5>1. Remaining(e) = {}
          BY <1>1, <4>2 DEF Remaining, Chunks, TypeOK
        <5>2. Cardinality(Remaining(e)) = 0
          BY <5>1, FS_EmptySet
        <5>3. Word(generation - 0) = generation
          BY <4>1, CountFacts, Constants
        <5>4. sfaFlag[e][0] = Word(generation - 0)
              /\ \A q \in Partitions \ {0} : sfaFlag[e][q] = generation
          BY <1>1, <4>1, <4>4, <5>1, <5>2 DEF ScaleTags
        <5>. QED  BY <1>2, <5>3, <5>4
      <4>. QED  BY <4>3, <4>4
    <3>. QED  BY <3>1, <3>2
  <2>2. ASSUME NEW e \in Experts, NEW p \in Partitions, ~Wrapped'
        PROVE  sfaFlag[e][p] < generation'
    <3>1. sfaFlag[e][p] \in Nat
      BY <1>1 DEF TypeOK
    <3>. QED  BY <1>2, <2>1, <2>2, <3>1
  <2>. QED  BY <1>1, <1>4, <1>6, <2>2 DEF ScaleTags
<1>. QED  BY <1>5, <1>7, <1>8, <1>9, <1>10 DEF IInv

\* While the other CTAs wait nothing of this launch is published.
LEMMA NothingPublished ==
  ASSUME pc[0] \in {"prepare", "publish"},
         \A c \in Ctas : c # 0 => pc[c] = "wait", NEW n \in Nat
  PROVE  Progress(n) = 0 /\ ~ItemDone(n)
<1>1. pc[Copier(n)] \in {"prepare", "publish", "wait"}
  BY CtaFacts
<1>2. Reshaper(n) \in Ctas /\ Reshaper(n) # 0
  BY CtaFacts, Constants DEF CopyCta
<1>. QED  BY <1>1, <1>2 DEF Progress, ItemDone

LEMMA PrepareStep ==
  ASSUME IInv, Prepare
  PROVE  IInv'
<1>1. /\ TypeOK /\ Phases /\ Strides /\ CopyTags /\ ScaleTags
      /\ pc[0] = "prepare" /\ pc' = [pc EXCEPT ![0] = "publish"]
      /\ ticket' = 0
      /\ UNCHANGED <<generation, launches, plan, ready, fp4, sfa, output, work, step>>
      /\ copyFlag' = IF Wrapped THEN [mb \in MBlocks |-> 0] ELSE copyFlag
  BY DEF IInv, Prepare, data, FirstTicket
<1>2. PICK share \in BOOLEAN :
       /\ layout' = [blocks |-> BlocksBefore(plan, Groups), share |-> share,
                     owner |-> [mb \in 0 .. BlocksBefore(plan, Groups) - 1 |-> ExpertOf(plan, mb)]]
       /\ sfaFlag' = [e \in Experts |-> [p \in Partitions |->
            IF share THEN Word(generation - plan[e])
            ELSE IF Wrapped THEN 0 ELSE sfaFlag[e][p]]]
  BY DEF Prepare
<1>4. /\ launches > 0 /\ generation \in 1 .. GenerationLimit /\ plan \in Plans
      /\ generation' = generation /\ launches' = launches /\ plan' = plan
      /\ \A e \in Experts : plan[e] \in 0 .. MaxMBlocks
  <2>1. launches > 0
    BY <1>1, CtaFacts DEF Phases, TypeOK
  <2>2. plan \in Plans /\ generation > 0
    BY <1>1, <2>1 DEF Phases
  <2>. QED  BY <1>1, <2>1, <2>2, Constants DEF TypeOK
<1>3. PICK blocks \in 0 .. MaxMBlocks : blocks = BlocksBefore(plan, Groups)
  BY <1>4, OwnerFacts
<1>5. /\ layout'.blocks = blocks /\ layout'.share = share
      /\ layout'.owner = [mb \in 0 .. blocks - 1 |-> ExpertOf(plan, mb)]
  BY <1>2, <1>3
<1>6. pc'[0] = "publish" /\ \A c \in Ctas : c # 0 => pc'[c] = "wait"
  BY <1>1, CtaFacts DEF Phases, TypeOK
<1>7. TypeOK'
  <2>1. \A mb \in 0 .. blocks - 1 : layout'.owner[mb] \in Experts
    BY <1>3, <1>4, <1>5, OwnerFacts
  <2>2. copyFlag' \in [MBlocks -> Nat]
    BY <1>1 DEF TypeOK
  <2>3. sfaFlag' \in [Experts -> [Partitions -> Nat]]
    <3>1. \A e \in Experts : Word(generation - plan[e]) \in Nat
      BY <1>4, CountFacts
    <3>2. sfaFlag \in [Experts -> [Partitions -> Nat]]
      BY <1>1 DEF TypeOK
    <3>. QED  BY <1>2, <3>1, <3>2
  <2>4. pc' \in [Ctas -> PcNames]
    BY <1>1 DEF TypeOK, PcNames
  <2>. QED  BY <1>1, <1>4, <1>5, <2>1, <2>2, <2>3, <2>4 DEF TypeOK
<1>8. Started'
  BY <1>4, <1>6 DEF Started
<1>9. Phases'
  BY <1>1, <1>3, <1>4, <1>5, <1>6, CtaFacts DEF Phases
<1>10. \A n \in Nat : Progress(n)' = 0 /\ ~ItemDone(n)'
  <2>1. ASSUME NEW n \in Nat  PROVE Progress(n)' = 0 /\ ~ItemDone(n)'
    <3>1. pc'[Copier(n)] \in {"prepare", "publish", "wait"}
      BY <1>6, CtaFacts
    <3>2. pc'[Reshaper(n)] = "wait"
      BY <1>6, CtaFacts, Constants DEF CopyCta
    <3>. QED  BY <3>1, <3>2 DEF Progress, ItemDone
  <2>. QED  BY <2>1
<1>11. Strides' /\ Loads'
  BY <1>6 DEF Strides, Loads
<1>12. Rows' /\ Scales'
  <2>1. \A mb \in 0 .. blocks - 1 : Progress(mb)' = 0
    BY <1>10
  <2>2. \A mb \in 0 .. blocks - 1, p \in Partitions : ~ItemDone(ItemOf(mb, p))'
    <3>1. ASSUME NEW mb \in 0 .. blocks - 1, NEW p \in Partitions
          PROVE  ~ItemDone(ItemOf(mb, p))'
      <4>1. layout'.owner[mb] \in Experts
        BY <1>5, <1>7 DEF TypeOK
      <4>2. ItemOf(mb, p)' \in Nat
        BY <4>1, Constants DEF ItemOf, Experts, Partitions
      <4>. QED  BY <1>10, <4>2
    <3>. QED  BY <3>1
  <2>. QED  BY <1>5, <2>1, <2>2, StripesType DEF Rows, Scales
<1>13. CopyTags'
  <2>1. \A mb \in MBlocks : copyFlag'[mb] < 8 * generation
    BY <1>1, <1>4 DEF CopyTags, Wrapped
  <2>2. \A mb \in MBlocks : Progress(mb)' = 0
    BY <1>10, Constants DEF MBlocks
  <2>. QED  BY <1>4, <1>6, <2>1, <2>2 DEF CopyTags
<1>14. ScaleTags'
  <2>1. CASE ~share
    <3>1. ASSUME NEW e \in Experts, NEW p \in Partitions
          PROVE  sfaFlag'[e][p] < generation /\ ~ItemDone(3 * e + p)'
      <4>1. 3 * e + p \in Nat
        BY Constants DEF Experts, Partitions
      <4>2. sfaFlag'[e][p] = IF Wrapped THEN 0 ELSE sfaFlag[e][p]
        BY <1>2, <2>1
      <4>3. sfaFlag'[e][p] < generation
        BY <1>1, <1>4, <4>2 DEF ScaleTags
      <4>. QED  BY <1>10, <4>1, <4>3
    <3>. QED  BY <1>4, <1>5, <1>6, <2>1, <3>1 DEF ScaleTags
  <2>2. CASE share
    <3>1. ASSUME NEW e \in Experts
          PROVE  (/\ sfaFlag[e][0] = Word(generation - Cardinality(Remaining(e)))
                  /\ \A p \in Partitions \ {0} :
                       sfaFlag[e][p] = IF Remaining(e) = {} THEN generation
                                       ELSE Word(generation - plan[e]))'
      <4>1. \A p \in Partitions : sfaFlag'[e][p] = Word(generation - plan[e])
        BY <1>2, <2>2
      <4>2. PICK S : S = {mb \in 0 .. blocks - 1 : ExpertOf(plan, mb) = e}
        OBVIOUS
      <4>3. IsFiniteSet(S) /\ Cardinality(S) = plan[e] /\ (plan[e] = 0 <=> S = {})
        <5>1. IsFiniteSet(S) /\ Cardinality(S) = plan[e]
          BY <1>3, <1>4, <4>2, OwnerFacts
        <5>. QED  BY <5>1, FS_EmptySet
      <4>6. Remaining(e)' = S
        BY <1>5, <1>10, <4>2 DEF Remaining, Chunks
      <4>4. Word(generation - 0) = generation
        BY <1>4, CountFacts, Constants
      <4>5. 0 \in Partitions
        BY DEF Partitions
      <4>. QED  BY <1>4, <4>1, <4>3, <4>4, <4>5, <4>6
    <3>. QED  BY <1>4, <1>5, <1>6, <2>2, <3>1 DEF ScaleTags
  <2>. QED  BY <1>4, <2>1, <2>2
<1>15. Tickets'
  <2>1. \A c \in Ctas : pc'[c] \notin {"load", "done"}
    BY <1>6
  <2>2. \A t \in 0 .. Tiles' - 1 : ~(t < ticket')
    BY <1>1
  <2>. QED  BY <2>1, <2>2 DEF Tickets, TilesDisjoint
<1>. QED  BY <1>7, <1>9, <1>11, <1>12, <1>13, <1>14, <1>15 DEF IInv

LEMMA PublishStep ==
  ASSUME IInv, Publish
  PROVE  IInv'
<1>1. /\ TypeOK /\ Phases /\ Strides /\ CopyTags /\ Rows /\ ScaleTags /\ Scales /\ Loads /\ Tickets
      /\ pc[0] = "publish" /\ 0 \in Ctas /\ \A c \in Ctas : c # 0 => pc[c] = "wait"
      /\ launches > 0 /\ generation > 0 /\ Started
  BY CtaFacts DEF IInv, Publish, Phases, TypeOK, Started
<1>2. /\ pc' = [pc EXCEPT ![0] = "copy"] /\ pc'[0] = "copy"
      /\ work' = [work EXCEPT ![0] = 0] /\ work'[0] = 0
      /\ step' = [step EXCEPT ![0] = 0] /\ step'[0] = 0
      /\ ready' = [gen |-> generation, metadata |-> TRUE]
      /\ UNCHANGED <<generation, launches, plan, layout, ticket, copyFlag, sfaFlag, fp4, sfa, output>>
  BY <1>1 DEF Publish, TypeOK, flags, data
<1>3. Local(0)
  BY <1>1, <1>2 DEF Local, TypeOK
<1>4. TypeOK'
  <2>1. pc' \in [Ctas -> PcNames] /\ work' \in [Ctas -> Nat] /\ step' \in [Ctas -> Nat]
    BY <1>1, <1>2 DEF TypeOK, PcNames
  <2>2. ready' \in [gen : Nat, metadata : BOOLEAN]
    BY <1>1, <1>2 DEF TypeOK
  <2>. QED  BY <1>1, <1>2, <2>1, <2>2 DEF TypeOK
<1>5. Started'
  BY <1>1, <1>2 DEF Started
<1>6. \A c \in Ctas : c # 0 => pc'[c] = "wait"
  BY <1>1, <1>2 DEF TypeOK
<1>7. Phases'
  BY <1>1, <1>2, <1>5, <1>6, Constants DEF Phases, Started, CopyCta
<1>8. Strides'
  <2>1. Copier(0) = 0 /\ 0 \in Stripes
    BY CopierFacts, StripesType, Constants
  <2>. QED  BY <1>2, <1>6, <2>1 DEF Strides
<1>9. ASSUME NEW n \in Nat  PROVE Progress(n)' = Progress(n) /\ ItemDone(n)' = ItemDone(n)
  <2>1. Progress(n) = 0 /\ ~ItemDone(n)
    BY <1>1, NothingPublished
  <2>2. Progress(n)' = 0
    <3>1. CASE Copier(n) = 0
      BY <1>2, <3>1 DEF Progress
    <3>2. CASE Copier(n) # 0
      BY <1>1, <1>3, <2>1, <3>2, LocalProgress
    <3>. QED  BY <3>1, <3>2
  <2>3. Reshaper(n) # 0
    BY CtaFacts, Constants DEF CopyCta
  <2>. QED  BY <1>1, <1>3, <2>1, <2>2, <2>3, LocalItems
<1>10. CopyTags' /\ Rows' /\ ScaleTags' /\ Scales'
  <2>1. \A mb \in 0 .. layout.blocks - 1 : Progress(mb)' = Progress(mb)
    <3>1. \A n \in Nat : Progress(n)' = Progress(n)
      BY <1>9
    <3>. QED  BY <1>1, <3>1 DEF TypeOK
  <2>2. \A w \in 0 .. ReshapeItems - 1 : ItemDone(w)' = ItemDone(w)
    BY <1>1, <1>9, ItemsType
  <2>. QED  BY <1>1, <1>2, <1>3, <1>5, <2>1, <2>2, CopyTagsKept, RowsKept, ScaleTagsKept, ScalesKept
<1>11. Loads'
  BY <1>2, <1>6 DEF Loads
<1>12. Tickets'
  BY <1>1, <1>2, <1>3, TicketsKept
<1>. QED  BY <1>4, <1>7, <1>8, <1>10, <1>11, <1>12 DEF IInv
-----------------------------------------------------------------------------
(* The invariant, and what it gives. *)

LEMMA InitIInv == Init => IInv
<1>. SUFFICES ASSUME Init  PROVE IInv
  OBVIOUS
<1>1. /\ generation \in 0 .. GenerationLimit /\ generation \in Nat /\ launches = 0
      /\ \A c \in Ctas : pc[c] = "done" /\ pc[0] = "done"
  BY FusedAssumption, CtaFacts DEF Init
<1>2. ~Started /\ pc[0] = "done"
  BY <1>1, CtaFacts DEF Started
<1>3. Cardinality(Stripes) \in 1 .. 7
  <2>1. Cardinality(Stripes) = NStripes
    <3>1. PICK n \in Nat : n = NStripes /\ n > 0
      BY StripesType
    <3>2. Cardinality(0 .. n - 1) = n
      BY <3>1, FS_Interval
    <3>. QED  BY <3>1, <3>2, StripesType
  <2>. QED  BY <2>1, StripesType
<1>4. copyFlag \in [MBlocks -> Nat] /\ \A mb \in MBlocks : copyFlag[mb] <= 8 * generation + 7
  BY <1>1, <1>3 DEF Init, CopyTag
<1>5. /\ sfaFlag \in [Experts -> [Partitions -> Nat]]
      /\ \A e \in Experts, p \in Partitions : sfaFlag[e][p] <= generation
  BY <1>1 DEF Init
<1>6. TypeOK
  <2>1. layout.blocks = 0 /\ layout.share = FALSE /\ DOMAIN layout.owner = 0 .. layout.blocks - 1
    BY DEF Init
  <2>2. /\ plan \in [Experts -> 0 .. MaxMBlocks] /\ ticket \in Nat
        /\ ready \in [gen : Nat, metadata : BOOLEAN] /\ fp4 \in [MBlocks -> [Stripes -> Int]]
        /\ sfa \in [MBlocks -> [Partitions -> Int]]
        /\ output \in [MBlocks -> [0 .. NumNBlocks - 1 -> Int]]
        /\ pc \in [Ctas -> PcNames] /\ work \in [Ctas -> Nat] /\ step \in [Ctas -> Nat]
    BY <1>1, Constants DEF Init, PcNames
  <2>3. \A mb \in 0 .. layout.blocks - 1 : layout.owner[mb] \in Experts
    BY <2>1
  <2>4. layout.blocks \in 0 .. MaxMBlocks /\ layout.share \in BOOLEAN /\ launches \in Nat
    <3>1. 0 \in 0 .. MaxMBlocks /\ 0 \in Nat
      BY Constants
    <3>2. FALSE \in BOOLEAN
      OBVIOUS
    <3>. QED  BY <1>1, <2>1, <3>1, <3>2, Zenon
  <2>. QED  BY <1>1, <1>4, <1>5, <2>1, <2>2, <2>3, <2>4 DEF TypeOK
<1>7. Phases
  BY <1>1, <1>2 DEF Init, Phases
<1>8. Strides /\ Rows /\ Scales /\ Loads /\ Tickets
  BY <1>1, <1>2 DEF Strides, Rows, Scales, Loads, Tickets, TilesDisjoint
<1>9. CopyTags /\ ScaleTags
  BY <1>1, <1>2, <1>4, <1>5 DEF CopyTags, ScaleTags
<1>. QED  BY <1>6, <1>7, <1>8, <1>9 DEF IInv

LEMMA NextIInv == IInv /\ [Next]_vars => IInv'
<1>. SUFFICES ASSUME IInv, [Next]_vars  PROVE IInv'
  OBVIOUS
<1>1. CASE Launch
  BY <1>1, LaunchStep
<1>2. CASE Prepare
  BY <1>2, PrepareStep
<1>3. CASE Publish
  BY <1>3, PublishStep
<1>4. CASE \E c \in Ctas : CtaStep(c)
  <2>1. PICK c \in Ctas : CtaStep(c)
    BY <1>4
  <2>. QED  BY <2>1, AwaitMetadataStep, CopyStripeStep, PublishStripeStep, ReshapeStep,
               PublishReshapeStep, FetchTileStep, LoadKTileStep, StoreTileStep DEF CtaStep
<1>5. CASE UNCHANGED vars
  <2>1. /\ generation' = generation /\ launches' = launches /\ plan' = plan /\ layout' = layout
        /\ ticket' = ticket /\ ready' = ready /\ copyFlag' = copyFlag /\ sfaFlag' = sfaFlag
        /\ fp4' = fp4 /\ sfa' = sfa /\ output' = output /\ pc' = pc /\ work' = work /\ step' = step
    BY <1>5 DEF vars, meta, flags, data
  <2>2. \A n : Progress(n)' = Progress(n) /\ ItemDone(n)' = ItemDone(n)
    BY <2>1 DEF Progress, ItemDone
  <2>3. TypeOK' /\ Phases' /\ Strides' /\ Tickets'
    BY <2>1 DEF IInv, TypeOK, Phases, Started, Strides, ReshapeItems, Tickets, TilesDisjoint, Tiles
  <2>4. CopyTags' /\ Rows'
    BY <2>1, <2>2 DEF IInv, CopyTags, Rows, Started, Wrapped
  <2>5. ScaleTags'
    <3>1. \A e : Remaining(e)' = Remaining(e)
      BY <2>1, <2>2 DEF Remaining, Chunks
    <3>. QED  BY <2>1, <2>2, <3>1 DEF IInv, ScaleTags, Started, Wrapped
  <2>6. \A mb, p : ItemOf(mb, p)' = ItemOf(mb, p)
    BY <2>1 DEF ItemOf
  <2>7. \A mb, p : ItemDone(ItemOf(mb, p))' = ItemDone(ItemOf(mb, p))
    BY <2>1 DEF ItemOf, ItemDone
  <2>8. Scales' /\ Loads'
    BY <2>1, <2>2, <2>7 DEF IInv, Scales, Loads, Started
  <2>. QED  BY <2>3, <2>4, <2>5, <2>8 DEF IInv
<1>. QED  BY <1>1, <1>2, <1>3, <1>4, <1>5 DEF Next, Finished

\* The flag words mean what the program counters say, in every reachable state.
THEOREM Invariance == Spec => []IInv
<1>. QED  BY InitIInv, NextIInv, PTL DEF Spec

\* A K tile that begins in or before a partition it touches has waited for it.
LEMMA TouchedPartitions ==
  ASSUME NEW t \in Nat, NEW p \in Partitions, Touches(t, p)
  PROVE  p \in PartitionsUpTo(t)
<1>1. BlocksPerTile \in Nat /\ BlocksPerTile > 0 /\ ScaleBlocks \in Nat
  BY FusedAssumption
<1>2. PICK a \in Nat : a = PartitionBegin(p)
  BY <1>1 DEF PartitionBegin, Partitions
<1>3. PICK s \in PartitionBegin(p) .. PartitionBegin(p + 1) - 1 : s \div BlocksPerTile = t
  BY DEF Touches
<1>4. PICK r \in Nat : r = s /\ a <= r
  BY <1>1, <1>2, <1>3 DEF PartitionBegin, Partitions
<1>5. a \div BlocksPerTile <= t
  BY <1>1, <1>3, <1>4, DivMonotone
<1>. QED  BY <1>2, <1>5 DEF PartitionsUpTo, FirstKTile

\* What a CTA has loaded of its tile is of this round and has landed.
THEOREM AlwaysLoadsAreReady == Spec => []LoadsAreReady
<1>1. IInv => LoadsAreReady
  <2>. SUFFICES ASSUME IInv, NEW c \in Ctas, pc[c] = "load", NEW t \in 0 .. step[c] - 1
                PROVE  /\ fp4[MOf(work[c])][t \div KTilesPerFlag] = generation
                       /\ \A p \in Partitions : Touches(t, p) => sfa[MOf(work[c])][p] = generation
    BY DEF LoadsAreReady
  <2>1. /\ TypeOK /\ Phases /\ Rows /\ Scales /\ Loads /\ Tickets
        /\ work[c] < Tiles /\ step[c] <= KTiles
    BY DEF IInv, Tickets
  <2>2. t \in Nat /\ t \in 0 .. KTiles - 1
    BY <2>1, KTilesType DEF TypeOK
  <2>3. Started
    <3>1. launches > 0
      BY <2>1 DEF Phases, TypeOK
    <3>2. pc[0] # "prepare"
      BY <2>1, CtaFacts DEF Phases
    <3>. QED  BY <3>1, <3>2 DEF Started
  <2>4. PICK mb \in 0 .. layout.blocks - 1 : mb = MOf(work[c])
    <3>1. PICK b \in Nat, w \in Nat : b = layout.blocks /\ w = work[c] /\ w < b * NumNBlocks
      BY <2>1 DEF TypeOK, Tiles
    <3>2. MOf(w) \in Nat /\ MOf(w) < b
      BY <3>1, TileNumbers
    <3>. QED  BY <3>1, <3>2
  <2>5. t \div KTilesPerFlag \in Stripes
    BY <2>2, StripesType
  <2>6. fp4[mb][t \div KTilesPerFlag] = generation
    BY <2>1, <2>3, <2>4, <2>5 DEF Loads, Rows
  <2>7. ASSUME NEW p \in Partitions, Touches(t, p)  PROVE sfa[mb][p] = generation
    <3>1. p \in PartitionsUpTo(t)
      BY <2>2, <2>7, TouchedPartitions
    <3>. QED  BY <2>1, <2>3, <2>4, <3>1 DEF Loads, Scales
  <2>. QED  BY <2>4, <2>6, <2>7
<1>. QED  BY <1>1, Invariance, PTL

\* No two CTAs ever work on one tile.
THEOREM AlwaysTilesDisjoint == Spec => []TilesDisjoint
<1>1. IInv => TilesDisjoint
  BY DEF IInv, Tickets
<1>. QED  BY <1>1, Invariance, PTL

\* A launch that is over has computed every tile of its layout.
THEOREM AlwaysOutputComplete == Spec => []OutputComplete
<1>1. IInv => OutputComplete
  <2>. SUFFICES ASSUME IInv, \A c \in Ctas : pc[c] = "done",
                       NEW mb \in DOMAIN layout.owner, NEW n \in 0 .. NumNBlocks - 1
                PROVE  output[mb][n] = generation
    BY DEF OutputComplete
  <2>1. TypeOK /\ Phases /\ Tickets
    BY DEF IInv
  <2>2. layout.blocks \in Nat /\ mb \in 0 .. layout.blocks - 1
    BY <2>1 DEF TypeOK
  <2>3. Started
    BY <2>1, <2>2, CtaFacts DEF Started, Phases, TypeOK
  <2>4. PICK b \in Nat, m \in Nat : b = layout.blocks /\ m = mb /\ m < b
    BY <2>2
  <2>5. PICK t \in Nat : t = m * NumNBlocks + n /\ t < b * NumNBlocks /\ MOf(t) = m /\ NOf(t) = n
    BY <2>4, TileNumbers
  <2>6. Tiles = b * NumNBlocks /\ Tiles \in Nat
    BY <2>4, Constants DEF Tiles
  <2>7. ticket >= Tiles
    BY <2>1, <2>3, CtaFacts DEF Tickets
  <2>8. t \in 0 .. Tiles - 1 /\ t < ticket
    BY <2>1, <2>5, <2>6, <2>7 DEF TypeOK
  <2>9. output[MOf(t)][NOf(t)] = generation
    BY <2>1, <2>3, <2>8 DEF Tickets
  <2>. QED  BY <2>4, <2>5, <2>9
<1>. QED  BY <1>1, Invariance, PTL
=============================================================================
