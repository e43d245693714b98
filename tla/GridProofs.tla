----------------------------- MODULE GridProofs -----------------------------
(***************************************************************************)
(* Proofs about what the CTAs of a grid do together: GridSync, where they  *)
(* wait for each other, and TileSchedule, where each works out its tiles   *)
(* alone.                                                                  *)
(*                                                                         *)
(* GridSync, for every grid size N <= FinishTag and every number of        *)
(* synchronisations: the inductive invariant says which synchronisation g  *)
(* is being gathered: each block is before it, waiting in it, or has not   *)
(* yet noticed that the previous one is complete, and the low bits of the  *)
(* word are the sum of the increments of the blocks waiting in g.          *)
(*                                                                         *)
(* TileSchedule, for every job without a list: the swizzle is a bijection  *)
(* of the blocks of a group; the walk puts the groups end to end, so the   *)
(* indices 0 .. Total(j) - 1 are the blocks of the job, one each; the cells *)
(* of the blocks are apart and cover the output. The inductive invariant   *)
(* says that the output holds the cells of the indices that the CTAs have  *)
(* come past, and where their cursors stand. For the launches that signal, *)
(* a word counts the indices of its block that are taken and whose tiles   *)
(* no longer wait in their CTAs.                                           *)
(***************************************************************************)
EXTENDS GridSync, TileSchedule, NatFacts, FiniteSetTheorems, TLAPS

\* The blocks that have arrived at synchronisation g and wait for it.
Gathered(g) == {b \in Blocks : pc[b] = "spin" /\ syncs[b] = g}

LowBits(word) == IF Tagged(word) THEN word - FinishTag ELSE word

Position(b, g) ==
  \/ pc[b] = "run" /\ syncs[b] = g
  \/ pc[b] = "spin" /\ syncs[b] = g /\ Tagged(old[b]) = Tagged(counter)
  \/ pc[b] = "spin" /\ syncs[b] + 1 = g /\ Tagged(old[b]) # Tagged(counter)

\* What the increments of a set of waiting blocks add up to.
Weight(A) == (IF 0 \in A THEN FinishTag - (N - 1) ELSE 0) + Cardinality(A \ {0})

Gathering(g) ==
  /\ \A b \in Blocks : Position(b, g)
  /\ LowBits(counter) = Weight(Gathered(g))
  /\ Gathered(g) # Blocks

\* A block waits only in a synchronisation it was allowed to start.
WithinBound == \A b \in Blocks : pc[b] = "spin" => syncs[b] < MaxSyncs

IInv == TypeOK /\ WithinBound /\ \E g \in Nat : Gathering(g)

-----------------------------------------------------------------------------
(* Facts about the blocks other than the leader. *)

\* N - 1 blocks add one to the word.
LEMMA OthersFinite == IsFiniteSet(Blocks \ {0}) /\ Cardinality(Blocks \ {0}) = N - 1
<1>1. Blocks \ {0} = 1 .. N - 1
  BY GridAssumption DEF Blocks
<1>2. IsFiniteSet(1 .. N - 1) /\ Cardinality(1 .. N - 1) = N - 1
  <2>1. CASE N = 1
    <3>1. 1 .. N - 1 = {}
      BY <2>1
    <3>. QED  BY <3>1, <2>1, FS_EmptySet
  <2>2. CASE N > 1
    BY <2>2, GridAssumption, FS_Interval
  <2>. QED  BY <2>1, <2>2, GridAssumption
<1>. QED  BY <1>1, <1>2

\* The waiting blocks other than the leader are at most N - 1.
LEMMA WaitingCount ==
  ASSUME NEW A \in SUBSET Blocks
  PROVE  /\ IsFiniteSet(A \ {0})
         /\ Cardinality(A \ {0}) \in 0 .. N - 1
         /\ A \ {0} # Blocks \ {0} => Cardinality(A \ {0}) < N - 1
<1>1. A \ {0} \subseteq Blocks \ {0}
  OBVIOUS
<1>2. IsFiniteSet(A \ {0}) /\ Cardinality(A \ {0}) <= N - 1
       /\ (A \ {0} # Blocks \ {0} => Cardinality(A \ {0}) # N - 1)
  BY <1>1, OthersFinite, FS_Subset
<1>3. Cardinality(A \ {0}) \in Nat
  BY <1>2, FS_CardinalityType
<1>. QED  BY <1>2, <1>3, GridAssumption

\* A set that lacks a block weighs less than the tag.
LEMMA PartialWeight ==
  ASSUME NEW A \in SUBSET Blocks, A # Blocks
  PROVE  Weight(A) \in Nat /\ Weight(A) < FinishTag
<1>1. 0 \in Blocks
  BY GridAssumption DEF Blocks
<1>2. Cardinality(A \ {0}) \in 0 .. N - 1
       /\ (A \ {0} # Blocks \ {0} => Cardinality(A \ {0}) < N - 1)
  BY WaitingCount
<1>3. CASE 0 \in A
  <2>1. A \ {0} # Blocks \ {0}
    BY <1>1, <1>3
  <2>. QED  BY <1>2, <1>3, <2>1, GridAssumption DEF Weight
<1>4. CASE 0 \notin A
  BY <1>2, <1>4, GridAssumption DEF Weight
<1>. QED  BY <1>3, <1>4

\* All blocks together weigh exactly the tag.
LEMMA FullWeight == Weight(Blocks) = FinishTag
<1>1. 0 \in Blocks
  BY GridAssumption DEF Blocks
<1>. QED  BY <1>1, OthersFinite, GridAssumption DEF Weight

\* One more block adds its own increment.
LEMMA AddedWeight ==
  ASSUME NEW A \in SUBSET Blocks, NEW b \in Blocks, b \notin A
  PROVE  Weight(A \cup {b}) = Weight(A) + Increment(b)
<1>1. IsFiniteSet(A \ {0}) /\ Cardinality(A \ {0}) \in Nat
  BY WaitingCount
<1>2. CASE b = 0
  <2>1. (A \cup {b}) \ {0} = A \ {0} /\ 0 \in A \cup {b} /\ 0 \notin A
    BY <1>2
  <2>2. Weight(A) = Cardinality(A \ {0})
    BY <1>1, <2>1 DEF Weight
  <2>3. Weight(A \cup {b}) = FinishTag - (N - 1) + Cardinality(A \ {0})
    BY <2>1 DEF Weight
  <2>4. Increment(b) = FinishTag - (N - 1)
    BY <1>2 DEF Increment
  <2>5. FinishTag - (N - 1) \in Int
    BY GridAssumption
  <2>. QED  BY <1>1, <2>2, <2>3, <2>4, <2>5
<1>3. CASE b # 0
  <2>1. (A \cup {b}) \ {0} = (A \ {0}) \cup {b}
    BY <1>3
  <2>2. Cardinality((A \ {0}) \cup {b}) = Cardinality(A \ {0}) + 1
    BY <1>1, FS_AddElement
  <2>3. 0 \in A \cup {b} <=> 0 \in A
    BY <1>3
  <2>. QED  BY <1>1, <1>3, <2>1, <2>2, <2>3, GridAssumption DEF Weight, Increment
<1>. QED  BY <1>2, <1>3

-----------------------------------------------------------------------------
(* The invariant holds initially and every step keeps it. *)

\* The invariant holds of fresh memory.
LEMMA InitIInv == Init => IInv
<1> SUFFICES ASSUME Init PROVE IInv
  OBVIOUS
<1>1. TypeOK
  BY GridAssumption DEF Init, TypeOK, Words
<1>2. Gathered(0) = {}
  BY DEF Init, Gathered
<1>3. 0 \in Blocks
  BY GridAssumption DEF Blocks
<1>4. Weight({}) = 0
  BY FS_EmptySet DEF Weight
<1>8. WithinBound
  BY DEF Init, WithinBound
<1>5. LowBits(counter) = 0
  BY GridAssumption DEF Init, LowBits, Tagged
<1>6. \A b \in Blocks : Position(b, 0)
  BY DEF Init, Position
<1>7. Gathering(0)
  BY <1>2, <1>3, <1>4, <1>5, <1>6 DEF Gathering
<1>. QED  BY <1>1, <1>7, <1>8 DEF IInv

\* An addition keeps the word a word and the positions in their ranges.
LEMMA ArriveType ==
  ASSUME TypeOK, NEW b \in Blocks, Arrive(b)
  PROVE  TypeOK' /\ (WithinBound => WithinBound')
<1>1. counter + Increment(b) \in 0 .. 4 * FinishTag - 1
  BY GridAssumption DEF TypeOK, Words, Increment, Blocks
<1>2. counter' \in Words
  BY <1>1, GridAssumption DEF Arrive, Wrap, Words
<1>. QED  BY <1>2 DEF TypeOK, Arrive, WithinBound

\* An arrival, the last of a synchronisation or not, keeps the invariant.
LEMMA ArriveStep ==
  ASSUME TypeOK, NEW g \in Nat, Gathering(g), NEW b \in Blocks, Arrive(b)
  PROVE  Gathering(g)' \/ Gathering(g + 1)'
<1> DEFINE A == Gathered(g)
<1>1. syncs[b] = g /\ pc[b] = "run" /\ b \notin A
  BY DEF Gathering, Position, Arrive, Gathered
<1>2. A \in SUBSET Blocks /\ A # Blocks
  BY DEF Gathering, Gathered
<1>3. Weight(A \cup {b}) = Weight(A) + Increment(b)
  BY <1>1, <1>2, AddedWeight
<1>4. LowBits(counter) = Weight(A)
  BY DEF Gathering
<1>5. /\ pc' = [pc EXCEPT ![b] = "spin"]
      /\ old' = [old EXCEPT ![b] = counter]
      /\ syncs' = syncs
      /\ counter' = Wrap(counter + Increment(b))
  BY DEF Arrive
<1>6. counter \in 0 .. 2 * FinishTag - 1 /\ FinishTag \in Nat /\ Increment(b) \in Nat
  BY GridAssumption DEF TypeOK, Words, Increment, Blocks
<1>7. Gathered(g)' = A \cup {b}
  BY <1>1, <1>5 DEF TypeOK, Gathered
<1>8. CASE A \cup {b} # Blocks
  <2>1. Weight(A \cup {b}) \in Nat /\ Weight(A \cup {b}) < FinishTag
    BY <1>2, <1>8, PartialWeight
  <2>2. LowBits(counter') = LowBits(counter) + Increment(b)
        /\ Tagged(counter') = Tagged(counter)
    BY <1>3, <1>4, <1>5, <1>6, <2>1 DEF LowBits, Tagged, Wrap
  <2>3. LowBits(counter)' = Weight(Gathered(g))'
    <3>1. LowBits(counter') = Weight(A \cup {b})
      BY <1>3, <1>4, <2>2
    <3>. QED  BY <1>7, <3>1 DEF LowBits, Tagged, Weight
  <2>4. \A c \in Blocks : Position(c, g)'
    BY <1>1, <1>5, <2>2 DEF Gathering, Position, TypeOK, Tagged
  <2>. QED  BY <1>7, <1>8, <2>3, <2>4 DEF Gathering
<1>9. CASE A \cup {b} = Blocks
  <2>1. LowBits(counter) + Increment(b) = FinishTag
    BY <1>3, <1>4, <1>9, FullWeight
  <2>2. LowBits(counter') = 0 /\ Tagged(counter') # Tagged(counter)
    BY <1>5, <1>6, <2>1, GridAssumption DEF LowBits, Tagged, Wrap
  <2>3. Gathered(g + 1)' = {}
    BY <1>5, <1>9 DEF Gathering, Position, Gathered
  <2>4. \A c \in Blocks : Position(c, g + 1)'
    <3> SUFFICES ASSUME NEW c \in Blocks PROVE Position(c, g + 1)'
      OBVIOUS
    <3>1. CASE c = b
      BY <1>1, <1>5, <2>2, <3>1 DEF Position, TypeOK, Tagged
    <3>2. CASE c # b
      <4>1. pc[c] = "spin" /\ syncs[c] = g
        BY <1>9, <3>2 DEF Gathered
      <4>2. Tagged(old[c]) = Tagged(counter)
        BY <4>1 DEF Gathering, Position
      <4>. QED  BY <1>5, <2>2, <3>2, <4>1, <4>2 DEF Position, TypeOK, Tagged
    <3>. QED  BY <3>1, <3>2
  <2>5. Weight({}) = 0 /\ 0 \in Blocks
    BY FS_EmptySet, GridAssumption DEF Weight, Blocks
  <2>6. LowBits(counter)' = Weight(Gathered(g + 1))'
    BY <2>2, <2>3, <2>5 DEF LowBits, Tagged, Weight
  <2>. QED  BY <2>3, <2>4, <2>5, <2>6 DEF Gathering
<1>. QED  BY <1>8, <1>9

\* A load that leaves the loop keeps the invariant.
LEMMA PassStep ==
  ASSUME TypeOK, WithinBound, NEW g \in Nat, Gathering(g), NEW b \in Blocks, Pass(b)
  PROVE  TypeOK' /\ WithinBound' /\ Gathering(g)'
<1>1. syncs[b] + 1 = g
  BY DEF Pass, Gathering, Position
<1>2. /\ pc' = [pc EXCEPT ![b] = "run"]
      /\ syncs' = [syncs EXCEPT ![b] = @ + 1]
      /\ counter' = counter /\ old' = old
  BY DEF Pass
<1>3. syncs[b] + 1 <= MaxSyncs
  BY GridAssumption DEF Pass, WithinBound, TypeOK
<1>4. TypeOK'
  BY <1>1, <1>2, <1>3, GridAssumption DEF TypeOK
<1>5. Gathered(g)' = Gathered(g)
  BY <1>1, <1>2 DEF Gathered, TypeOK
<1>6. \A c \in Blocks : Position(c, g)'
  BY <1>1, <1>2 DEF Gathering, Position, TypeOK, Tagged
<1>7. LowBits(counter)' = Weight(Gathered(g))'
  BY <1>2, <1>5 DEF Gathering, LowBits, Tagged, Weight
<1>8. WithinBound'
  BY <1>2 DEF WithinBound, TypeOK
<1>. QED  BY <1>4, <1>5, <1>6, <1>7, <1>8 DEF Gathering

\* Every step keeps the invariant.
LEMMA NextIInv == IInv /\ [Next \/ Finished]_vars => IInv'
<1> SUFFICES ASSUME IInv, [Next \/ Finished]_vars PROVE IInv'
  OBVIOUS
<1>1. PICK g \in Nat : Gathering(g)
  BY DEF IInv
<1>2. ASSUME NEW b \in Blocks, Arrive(b) PROVE IInv'
  <2>1. Gathering(g)' \/ Gathering(g + 1)'
    BY <1>1, <1>2, ArriveStep DEF IInv
  <2>2. TypeOK' /\ WithinBound'
    BY <1>2, ArriveType DEF IInv
  <2>. QED  BY <2>1, <2>2 DEF IInv
<1>3. ASSUME NEW b \in Blocks, Pass(b) PROVE IInv'
  BY <1>1, <1>3, PassStep DEF IInv
<1>4. CASE UNCHANGED vars
  <2>1. TypeOK' /\ WithinBound'
    BY <1>4 DEF IInv, TypeOK, WithinBound, vars
  <2>2. Gathered(g)' = Gathered(g)
    BY <1>4 DEF vars, Gathered
  <2>3. \A b \in Blocks : Position(b, g)'
    BY <1>1, <1>4 DEF vars, Gathering, Position, Tagged
  <2>4. LowBits(counter)' = Weight(Gathered(g))'
    BY <1>1, <1>4, <2>2 DEF vars, Gathering, LowBits, Tagged, Weight
  <2>. QED  BY <1>1, <2>1, <2>2, <2>3, <2>4 DEF IInv, Gathering
<1>. QED  BY <1>2, <1>3, <1>4 DEF Next, Finished

\* grid_sync never leaves the states the invariant describes.
THEOREM Invariance == Spec => []IInv
BY InitIInv, NextIInv, PTL DEF Spec

-----------------------------------------------------------------------------
(* What the invariant gives. *)

\* The words and positions of grid_sync stay in their ranges for every grid that
\* the tag can hold.
THEOREM TypeCorrect == Spec => []TypeOK
<1>1. IInv => TypeOK
  BY DEF IInv
<1>. QED  BY <1>1, Invariance, PTL

\* While a synchronisation gathers, positions differ by at most one of them.
LEMMA GatheringTogether ==
  ASSUME TypeOK, NEW g \in Nat, Gathering(g)
  PROVE  \A b \in Blocks : syncs[b] <= g /\ g <= Arrived[b]
BY DEF TypeOK, Gathering, Position, Arrived

\* No CTA leaves grid_sync before every CTA of the grid has entered it.
THEOREM AlwaysTogether == Spec => []Together
<1>1. IInv => Together
  <2> SUFFICES ASSUME IInv PROVE Together
    OBVIOUS
  <2>1. PICK g \in Nat : Gathering(g)
    BY DEF IInv
  <2>2. \A b \in Blocks : syncs[b] <= g /\ g <= Arrived[b]
    BY <2>1, GatheringTogether DEF IInv
  <2>3. \A b \in Blocks : syncs[b] \in Nat /\ Arrived[b] \in Nat
    BY GridAssumption DEF IInv, TypeOK, Arrived
  <2>. QED  BY <2>2, <2>3 DEF Together
<1>. QED  BY <1>1, Invariance, PTL

\* Between synchronisations the low bits of the word are zero.
THEOREM AlwaysCounterReturns == Spec => []CounterReturns
<1>1. IInv => CounterReturns
  <2> SUFFICES ASSUME IInv, \A b \in Blocks : pc[b] = "run" PROVE counter \in {0, FinishTag}
    BY DEF CounterReturns
  <2>1. PICK g \in Nat : Gathering(g)
    BY DEF IInv
  <2>2. Gathered(g) = {} /\ Weight({}) = 0
    BY FS_EmptySet DEF Gathered, Weight
  <2>3. LowBits(counter) = 0
    BY <2>1, <2>2 DEF Gathering
  <2>. QED  BY <2>3, GridAssumption DEF IInv, TypeOK, Words, LowBits, Tagged
<1>. QED  BY <1>1, Invariance, PTL

\* grid_sync implements the abstract barrier: arriving enters it and the load
\* that finds the tag flipped leaves it.
THEOREM Refinement == Spec => ImplementsBarrier
<1>1. Init => Abstract!Init
  BY DEF Init, Abstract!Init, Arrived
<1>2. IInv /\ [Next \/ Finished]_vars => [Abstract!Next]_(Abstract!barrierVars)
  <2> SUFFICES ASSUME IInv, [Next \/ Finished]_vars
               PROVE  Abstract!Next \/ UNCHANGED <<Arrived, syncs>>
    BY DEF Abstract!barrierVars
  <2>1. ASSUME NEW b \in Blocks, Arrive(b) PROVE Abstract!Enter(b)
    BY <2>1 DEF Arrive, Abstract!Enter, Arrived, IInv, TypeOK
  <2>2. ASSUME NEW b \in Blocks, Pass(b) PROVE Abstract!Leave(b)
    <3>1. PICK g \in Nat : Gathering(g)
      BY DEF IInv
    <3>2. syncs[b] + 1 = g /\ syncs[b] \in Nat
      BY <3>1, <2>2, GridAssumption DEF Pass, Gathering, Position, IInv, TypeOK
    <3>3. \A c \in Blocks : g <= Arrived[c] /\ Arrived[c] \in Nat
      BY <3>1, GatheringTogether, GridAssumption DEF IInv, TypeOK, Arrived
    <3>4. \A c \in Blocks : syncs[b] < Arrived[c]
      BY <3>2, <3>3
    <3>5. Arrived' = Arrived
      BY <2>2 DEF Pass, Arrived, IInv, TypeOK
    <3>. QED  BY <2>2, <3>4, <3>5 DEF Pass, Abstract!Leave
  <2>3. CASE UNCHANGED vars
    BY <2>3 DEF vars, Arrived
  <2>. QED  BY <2>1, <2>2, <2>3 DEF Next, Finished, Abstract!Next
<1>. QED  BY <1>1, <1>2, Invariance, PTL DEF Spec, ImplementsBarrier, Abstract!Spec

-----------------------------------------------------------------------------
(* TileSchedule. Minima and blocks of rows.                                       *)

\* The least of two numbers.
LEMMA MinOfTwo ==
  ASSUME NEW a \in Int, NEW b \in Int
  PROVE  Min({a, b}) = IF a <= b THEN a ELSE b
<1>1. PICK x \in {a, b} : \A y \in {a, b} : x <= y
  OBVIOUS
<1>2. Min({a, b}) \in {a, b} /\ \A y \in {a, b} : Min({a, b}) <= y
  BY <1>1 DEF Min
<1>. QED  BY <1>2

\* Rounding up.
LEMMA UpDivFacts ==
  ASSUME NEW a \in Nat, NEW b \in Nat \ {0}
  PROVE  /\ UpDiv(a, b) \in Nat
         /\ a <= UpDiv(a, b) * b /\ UpDiv(a, b) * b < a + b
         /\ a = 0 <=> UpDiv(a, b) = 0
<1>1. PICK q \in Nat, j \in 0 .. b - 1 : a + b - 1 = q * b + j /\ (a + b - 1) \div b = q
  BY DivMod
<1>2. UpDiv(a, b) = q
  BY <1>1 DEF UpDiv
<1>3. PICK p \in Nat : p = q * b
  OBVIOUS
<1>4. a <= p /\ p < a + b
  BY <1>1, <1>3
<1>5. q = 0 => p = 0
  BY <1>3
<1>6. q # 0 => p >= b
  BY <1>3
<1>. QED  BY <1>2, <1>3, <1>4, <1>5, <1>6

\* The block of a row.
LEMMA BlockOfRow ==
  ASSUME NEW b \in Nat \ {0}, NEW r \in Nat, NEW m \in Nat
  PROVE  r \in m * b .. (m + 1) * b - 1 <=> r \div b = m
<1>1. PICK q \in Nat, j \in 0 .. b - 1 : r = q * b + j /\ r \div b = q
  BY DivMod
<1>2. (m + 1) * b = m * b + b
  OBVIOUS
<1>3. ASSUME r \in m * b .. (m + 1) * b - 1  PROVE q = m
  <2>1. PICK p \in Nat : p = m * b
    OBVIOUS
  <2>2. r = m * b + (r - p) /\ r - p \in 0 .. b - 1
    BY <1>2, <1>3, <2>1
  <2>. QED  BY <1>1, <2>2, Remainder
<1>4. ASSUME q = m  PROVE r \in m * b .. (m + 1) * b - 1
  <2>1. PICK p \in Nat : p = m * b
    OBVIOUS
  <2>. QED  BY <1>1, <1>2, <1>4, <2>1
<1>. QED  BY <1>1, <1>3, <1>4

\* Every row is in one of the blocks.
LEMMA BlocksHoldRows ==
  ASSUME NEW a \in Nat, NEW b \in Nat \ {0}, NEW r \in 0 .. a - 1
  PROVE  r \div b \in 0 .. UpDiv(a, b) - 1
<1>1. PICK u \in Nat : u = UpDiv(a, b) /\ a <= u * b
  BY UpDivFacts
<1>2. PICK p \in Nat : p = u * b
  OBVIOUS
<1>3. r < u * b
  BY <1>1, <1>2
<1>4. r \div b < u
  BY <1>3, RowOfCell
<1>5. r \div b \in Nat
  OBVIOUS
<1>. QED  BY <1>1, <1>4, <1>5

-----------------------------------------------------------------------------
(* Swizzles. *)

\* The band of an index: the rows of M blocks before it, its width, and the place
\* in the band.
Bands(w, mb, nb, idx, q, in, band) ==
  /\ q \in Nat /\ in \in Nat /\ band \in 1 .. w
  /\ idx = (q * w) * nb + in /\ in < nb * band
  /\ q * w + band <= mb
  /\ band = BandWidth(w, mb, q * w)
  /\ band = w \/ q * w + band = mb

\* A band is as wide as configured unless fewer M blocks are left.
LEMMA BandWidthIs ==
  ASSUME NEW w \in Nat \ {0}, NEW mb \in Nat, NEW first \in Nat, first < mb
  PROVE  /\ BandWidth(w, mb, first) = IF w <= mb - first THEN w ELSE mb - first
         /\ BandWidth(w, mb, first) \in 1 .. w
         /\ first + BandWidth(w, mb, first) <= mb
BY MinOfTwo DEF BandWidth

HasBand(w, mb, nb, idx) ==
  \E q \in Nat, in \in Nat, band \in Nat :
    /\ Bands(w, mb, nb, idx, q, in, band)
    /\ idx \div (nb * w) = q /\ idx % (nb * w) = in

\* An index splits into its band and its place there.
LEMMA BandOfIndex ==
  ASSUME NEW w \in Nat \ {0}, NEW mb \in Nat, NEW nb \in Nat, NEW idx \in Nat, idx < mb * nb
  PROVE  HasBand(w, mb, nb, idx)
<1>1. nb > 0 /\ mb > 0
  BY Z3
<1>2. PICK per \in Nat : per = nb * w /\ per > 0
  <2>1. nb * w > 0
    BY <1>1
  <2>. QED  BY <2>1
<1>3. PICK q \in Nat, in \in 0 .. per - 1 : idx = q * per + in /\ idx \div per = q /\ idx % per = in
  BY <1>2, DivMod
<1>4. q * per = (q * w) * nb
  BY <1>2
<1>5. PICK first \in Nat : first = q * w
  OBVIOUS
<1>6. first < mb
  <2>1. SUFFICES ASSUME first >= mb  PROVE FALSE
    BY <1>5
  <2>2. first * nb >= mb * nb
    BY <2>1, <1>1
  <2>. QED  BY <1>3, <1>4, <1>5, <2>2
<1>7. PICK band \in 1 .. w : band = BandWidth(w, mb, first) /\ first + band <= mb
                             /\ band = IF w <= mb - first THEN w ELSE mb - first
  BY <1>6, BandWidthIs
<1>8. in < nb * band
  <2>1. CASE band = w
    BY <1>2, <1>3, <2>1
  <2>2. CASE band = mb - first
    <3>1. nb * band = mb * nb - first * nb
      BY <2>2
    <3>. QED  BY <1>3, <1>4, <1>5, <3>1
  <2>. QED  BY <1>7, <2>1, <2>2
<1>9. Bands(w, mb, nb, idx, q, in, band)
  BY <1>3, <1>4, <1>5, <1>7, <1>8 DEF Bands
<1>10. in \in Nat /\ band \in Nat /\ idx \div (nb * w) = q /\ idx % (nb * w) = in
  BY <1>2, <1>3, <1>7
<1>. QED  BY <1>9, <1>10 DEF HasBand

\* Every other column of a full band of two is turned.
Turn(j, band, n, group) == IF j.interleave /\ j.width = 2 /\ band = 2 THEN n + group ELSE 0

Turned(j, band, n, group, e) == (e + Turn(j, band, n, group)) % band

\* Turning a band leaves it as it is or swaps its two M blocks in every other
\* column.
LEMMA TurnedIs ==
  ASSUME NEW j, NEW band \in Nat \ {0}, NEW n \in Nat, NEW group \in Nat
  PROVE  \/ \A e \in 0 .. band - 1 : Turned(j, band, n, group, e) = e
         \/ /\ band = 2
            /\ \E t \in Nat : \A e \in 0 .. 1 : Turned(j, band, n, group, e) = (e + t) % 2
<1>1. CASE Turn(j, band, n, group) = 0
  <2>1. \A e \in 0 .. band - 1 : e + 0 = e /\ e % band = e
    OBVIOUS
  <2>. QED  BY <1>1, <2>1 DEF Turned
<1>2. CASE band = 2 /\ Turn(j, band, n, group) = n + group
  <2>1. n + group \in Nat
    OBVIOUS
  <2>. QED  BY <1>2, <2>1 DEF Turned
<1>. QED  BY <1>1, <1>2 DEF Turn

\* A turned block stays in its band.
LEMMA TurnedInBand ==
  ASSUME NEW j, NEW band \in Nat \ {0}, NEW n \in Nat, NEW group \in Nat,
         NEW e \in 0 .. band - 1
  PROVE  /\ Turned(j, band, n, group, e) \in 0 .. band - 1
         /\ (n * band + e + Turn(j, band, n, group)) % band = Turned(j, band, n, group, e)
<1>1. CASE Turn(j, band, n, group) = 0
  <2>1. e + 0 = e /\ n * band + e + 0 = n * band + e /\ e % band = e
    OBVIOUS
  <2>2. (n * band + e) % band = e
    BY Remainder
  <2>. QED  BY <1>1, <2>1, <2>2 DEF Turned
<1>2. CASE band = 2 /\ Turn(j, band, n, group) = n + group
  <2>1. e \in 0 .. 1 /\ Turned(j, band, n, group, e) = (e + (n + group)) % 2
    BY <1>2 DEF Turned
  <2>2. (n * 2 + e + (n + group)) % 2 = (e + (n + group)) % 2
    BY <2>1
  <2>3. (e + (n + group)) % 2 \in 0 .. 1
    BY <2>1
  <2>. QED  BY <1>2, <2>1, <2>2, <2>3
<1>. QED  BY <1>1, <1>2 DEF Turn

\* Turning is its own inverse.
LEMMA TurnedTwice ==
  ASSUME NEW j, NEW band \in Nat \ {0}, NEW n \in Nat, NEW group \in Nat,
         NEW e \in 0 .. band - 1
  PROVE  Turned(j, band, n, group, Turned(j, band, n, group, e)) = e
<1>0. PICK f : f = Turned(j, band, n, group, e)
  OBVIOUS
<1>1. CASE \A i \in 0 .. band - 1 : Turned(j, band, n, group, i) = i
  BY <1>1
<1>2. CASE band = 2 /\ \E t \in Nat : \A i \in 0 .. 1 : Turned(j, band, n, group, i) = (i + t) % 2
  <2>1. PICK t \in Nat : \A i \in 0 .. 1 : Turned(j, band, n, group, i) = (i + t) % 2
    BY <1>2
  <2>2. e \in 0 .. 1 /\ f = (e + t) % 2 /\ f \in 0 .. 1
    BY <1>0, <1>2, <2>1
  <2>3. (f + t) % 2 = e
    BY <2>2
  <2>. QED  BY <1>0, <2>1, <2>2, <2>3
<1>. QED  BY <1>1, <1>2, TurnedIs

\* What get_swizzled_block_idx makes of an index: e is its place across the band.
Swizzles(j, mb, nb, group, idx, q, band, n, e) ==
  /\ q \in Nat /\ band \in 1 .. j.width /\ n \in 0 .. nb - 1 /\ e \in 0 .. band - 1
  /\ idx = (q * j.width) * nb + (n * band + e)
  /\ q * j.width + band <= mb
  /\ band = BandWidth(j.width, mb, q * j.width)
  /\ Swizzled(j, mb, nb, group, idx).n = n
  /\ Swizzled(j, mb, nb, group, idx).m = q * j.width + Turned(j, band, n, group, e)

\* The swizzle in terms of band, column and place in the column.
LEMMA SwizzledIs ==
  ASSUME NEW j, j.width \in Nat \ {0}, NEW group \in Nat,
         NEW mb \in Nat, NEW nb \in Nat, NEW idx \in Nat, idx < mb * nb
  PROVE  \E q, band, n, e : Swizzles(j, mb, nb, group, idx, q, band, n, e)
<1>0. PICK w \in Nat \ {0} : w = j.width
  OBVIOUS
<1>1. PICK q \in Nat, in \in Nat, band \in Nat :
           /\ Bands(w, mb, nb, idx, q, in, band)
           /\ idx \div (nb * w) = q /\ idx % (nb * w) = in
  <2>1. HasBand(w, mb, nb, idx)
    BY BandOfIndex
  <2>. QED  BY <2>1 DEF HasBand
<1>2. /\ band \in 1 .. w /\ idx = (q * w) * nb + in /\ in < nb * band /\ q * w + band <= mb
      /\ band = BandWidth(w, mb, q * w)
  BY <1>1 DEF Bands
<1>3. PICK n \in Nat, e \in 0 .. band - 1 : in = n * band + e /\ in \div band = n
  <2>1. band \in Nat /\ band > 0
    BY <1>2
  <2>. QED  BY <2>1, DivMod
<1>4. n < nb
  <2>1. band \in Nat /\ band > 0
    BY <1>2
  <2>. QED  BY <1>2, <1>3, <2>1, RowOfCell
<1>5. /\ Swizzled(j, mb, nb, group, idx).n = n
      /\ Swizzled(j, mb, nb, group, idx).m = q * w + ((in + Turn(j, band, n, group)) % band)
  BY <1>0, <1>1, <1>2, <1>3 DEF Swizzled, Turn
<1>6. (in + Turn(j, band, n, group)) % band = Turned(j, band, n, group, e)
  <2>1. band \in Nat \ {0}
    BY <1>2
  <2>. QED  BY <1>3, <2>1, TurnedInBand
<1>7. n \in 0 .. nb - 1 /\ idx = (q * w) * nb + (n * band + e)
  BY <1>2, <1>3, <1>4
<1>8. PICK turned : turned = Turned(j, band, n, group, e)
  OBVIOUS
<1>9. Swizzles(j, mb, nb, group, idx, q, band, n, e)
  BY <1>0, <1>2, <1>3, <1>5, <1>6, <1>7, <1>8, Zenon DEF Swizzles
<1>. QED  BY <1>9

\* A tile of the group, and the index is the only one of it.
LEMMA SwizzledInRange ==
  ASSUME NEW j, j.width \in Nat \ {0}, NEW group \in Nat,
         NEW mb \in Nat, NEW nb \in Nat, NEW idx \in Nat, idx < mb * nb
  PROVE  /\ Swizzled(j, mb, nb, group, idx).m \in 0 .. mb - 1
         /\ Swizzled(j, mb, nb, group, idx).n \in 0 .. nb - 1
<1>1. PICK q, band, n, e : Swizzles(j, mb, nb, group, idx, q, band, n, e)
  BY SwizzledIs
<1>2. PICK p \in 0 .. band - 1 : p = Turned(j, band, n, group, e)
  <2>1. band \in Nat \ {0} /\ n \in Nat /\ e \in 0 .. band - 1
    BY <1>1 DEF Swizzles
  <2>. QED  BY <2>1, TurnedInBand
<1>3. PICK first \in Nat : first = q * j.width
  BY <1>1 DEF Swizzles
<1>. QED  BY <1>1, <1>2, <1>3 DEF Swizzles

\* Two indices of a group get different blocks.
LEMMA SwizzledInjective ==
  ASSUME NEW j, j.width \in Nat \ {0}, NEW group \in Nat,
         NEW mb \in Nat, NEW nb \in Nat,
         NEW x \in Nat, x < mb * nb, NEW y \in Nat, y < mb * nb,
         Swizzled(j, mb, nb, group, x).m = Swizzled(j, mb, nb, group, y).m,
         Swizzled(j, mb, nb, group, x).n = Swizzled(j, mb, nb, group, y).n
  PROVE  x = y
<1>0. PICK w \in Nat \ {0} : w = j.width
  OBVIOUS
<1>1. PICK q, band, n, e : Swizzles(j, mb, nb, group, x, q, band, n, e)
  BY SwizzledIs
<1>2. PICK r, other, o, f : Swizzles(j, mb, nb, group, y, r, other, o, f)
  BY SwizzledIs
<1>3. n = o
  BY <1>1, <1>2 DEF Swizzles
<1>4. PICK p \in 0 .. w - 1 : p = Turned(j, band, n, group, e)
  <2>1. band \in 1 .. w /\ band \in Nat \ {0} /\ n \in Nat /\ e \in 0 .. band - 1
    BY <1>0, <1>1 DEF Swizzles
  <2>2. Turned(j, band, n, group, e) \in 0 .. band - 1
    BY <2>1, TurnedInBand
  <2>. QED  BY <2>1, <2>2
<1>5. PICK s \in 0 .. w - 1 : s = Turned(j, other, n, group, f)
  <2>1. other \in 1 .. w /\ other \in Nat \ {0} /\ n \in Nat /\ f \in 0 .. other - 1
    BY <1>0, <1>2, <1>3 DEF Swizzles
  <2>2. Turned(j, other, n, group, f) \in 0 .. other - 1
    BY <2>1, TurnedInBand
  <2>. QED  BY <2>1, <2>2
<1>6. q * w + p = r * w + s /\ q \in Nat /\ r \in Nat
  BY <1>0, <1>1, <1>2, <1>3, <1>4, <1>5 DEF Swizzles
<1>7. q = r /\ p = s
  <2>1. (q * w + p) \div w = q /\ (q * w + p) % w = p
    BY <1>6, Remainder
  <2>2. (r * w + s) \div w = r /\ (r * w + s) % w = s
    BY <1>6, Remainder
  <2>. QED  BY <1>6, <2>1, <2>2
<1>8. band = other
  BY <1>1, <1>2, <1>7 DEF Swizzles
<1>9. e = f
  <2>1. band \in Nat \ {0} /\ n \in Nat /\ e \in 0 .. band - 1 /\ f \in 0 .. band - 1
    BY <1>0, <1>1, <1>2, <1>8 DEF Swizzles
  <2>2. Turned(j, band, n, group, e) = Turned(j, band, n, group, f)
    BY <1>4, <1>5, <1>7, <1>8
  <2>3. /\ Turned(j, band, n, group, Turned(j, band, n, group, e)) = e
        /\ Turned(j, band, n, group, Turned(j, band, n, group, f)) = f
    BY <2>1, TurnedTwice
  <2>. QED  BY <2>2, <2>3
<1>. QED  BY <1>1, <1>2, <1>3, <1>7, <1>8, <1>9 DEF Swizzles

\* The index of a block.
IndexOf(j, mb, columns, group, m, n, tiles) ==
  CHOOSE idx \in Nat :
    /\ idx < tiles
    /\ Swizzled(j, mb, columns, group, idx).m = m /\ Swizzled(j, mb, columns, group, idx).n = n

Indexed(j, mb, columns, group, m, n, tiles) ==
  LET idx == IndexOf(j, mb, columns, group, m, n, tiles)
  IN  /\ idx \in Nat /\ idx < tiles
      /\ Swizzled(j, mb, columns, group, idx).m = m /\ Swizzled(j, mb, columns, group, idx).n = n

\* An index that the swizzle sends to a block is a witness that it has one.
LEMMA IndexedBy ==
  ASSUME NEW j, NEW mb, NEW columns, NEW group, NEW m, NEW n, NEW tiles, NEW idx \in Nat, idx < tiles,
         Swizzled(j, mb, columns, group, idx).m = m, Swizzled(j, mb, columns, group, idx).n = n
  PROVE  Indexed(j, mb, columns, group, m, n, tiles)
BY Zenon DEF Indexed, IndexOf

\* Every block of a group has an index.
LEMMA SwizzledOnto ==
  ASSUME NEW j, j.width \in Nat \ {0}, NEW group \in Nat,
         NEW mb \in Nat, NEW nb \in Nat, NEW m \in 0 .. mb - 1, NEW n \in 0 .. nb - 1
  PROVE  Indexed(j, mb, nb, group, m, n, mb * nb)
<1>0. PICK w \in Nat \ {0} : w = j.width
  OBVIOUS
<1>1. PICK q \in Nat, p \in 0 .. w - 1 : m = q * w + p /\ m \div w = q /\ m % w = p
  <2>1. w > 0 /\ m \in Nat
    OBVIOUS
  <2>. QED  BY <2>1, DivMod
<1>2. PICK first \in Nat : first = q * w
  OBVIOUS
<1>3. PICK band \in 1 .. w : /\ band = BandWidth(w, mb, first) /\ first + band <= mb
                             /\ band = IF w <= mb - first THEN w ELSE mb - first
  <2>1. first < mb
    BY <1>1, <1>2
  <2>. QED  BY <2>1, BandWidthIs
<1>4. p \in 0 .. band - 1
  BY <1>1, <1>2, <1>3
<1>5. PICK e \in 0 .. band - 1 : Turned(j, band, n, group, e) = p
  <2>1. band \in Nat \ {0} /\ n \in Nat
    BY <1>3
  <2>2. PICK e : e = Turned(j, band, n, group, p)
    OBVIOUS
  <2>3. e \in 0 .. band - 1
    BY <1>4, <2>1, <2>2, TurnedInBand
  <2>4. Turned(j, band, n, group, e) = p
    BY <1>4, <2>1, <2>2, TurnedTwice
  <2>. QED  BY <2>3, <2>4
<1>6. PICK in \in Nat : in = n * band + e
  OBVIOUS
<1>7. in < nb * band /\ in \div band = n
  <2>1. in \div band = n
    BY <1>6, Remainder
  <2>. QED  BY <2>1, RowOfCell
<1>8. PICK idx \in Nat : idx = q * (nb * w) + in
  OBVIOUS
<1>9. in < nb * w
  <2>1. nb * band <= nb * w
    BY <1>3
  <2>. QED  BY <1>7, <2>1
<1>10. idx \div (nb * w) = q /\ idx % (nb * w) = in
  <2>1. PICK per \in Nat : per = nb * w
    OBVIOUS
  <2>2. per > 0 /\ in \in 0 .. per - 1
    BY <1>9, <2>1
  <2>. QED  BY <1>8, <2>1, <2>2, Remainder
<1>11. idx < mb * nb
  <2>1. q * (nb * w) = first * nb
    BY <1>2
  <2>2. (first + band) * nb = first * nb + nb * band
    OBVIOUS
  <2>3. (first + band) * nb <= mb * nb
    BY <1>3
  <2>. QED  BY <1>7, <1>8, <2>1, <2>2, <2>3
<1>12. /\ Swizzled(j, mb, nb, group, idx).n = n
       /\ Swizzled(j, mb, nb, group, idx).m = first + ((in + Turn(j, band, n, group)) % band)
  BY <1>0, <1>2, <1>3, <1>7, <1>10 DEF Swizzled, Turn
<1>13. (in + Turn(j, band, n, group)) % band = p
  <2>1. band \in Nat \ {0} /\ n \in Nat
    BY <1>3
  <2>. QED  BY <1>5, <1>6, <2>1, TurnedInBand
<1>14. Swizzled(j, mb, nb, group, idx).m = m
  BY <1>1, <1>2, <1>12, <1>13
<1>. QED  BY <1>11, <1>12, <1>14, IndexedBy
-----------------------------------------------------------------------------
(* The tiles of a group: how many rows of blocks and columns of blocks it has. *)

\* Multiplying by a unit keeps equality and order.
LEMMA Cancel ==
  ASSUME NEW u \in Nat \ {0}, NEW x \in Nat, NEW y \in Nat
  PROVE  (x * u = y * u => x = y) /\ (x <= y <=> x * u <= y * u)
<1>1. x < y => x * u < y * u
  OBVIOUS
<1>2. y < x => y * u < x * u
  OBVIOUS
<1>3. PICK p \in Nat, r \in Nat : p = x * u /\ r = y * u
  OBVIOUS
<1>4. x = y => p = r
  BY <1>3
<1>. QED  BY <1>1, <1>2, <1>3, <1>4

\* A number of whole units.
LEMMA Exact ==
  ASSUME NEW u \in Nat \ {0}, NEW a \in Nat \ {0}, a % u = 0
  PROVE  a \div u \in Nat \ {0} /\ (a \div u) * u = a
<1>1. PICK q \in Nat, j \in 0 .. u - 1 : a = q * u + j /\ a \div u = q /\ a % u = j
  BY DivMod
<1>2. q * u = a
  BY <1>1
<1>3. q # 0
  BY <1>2
<1>. QED  BY <1>1, <1>2, <1>3

\* Larger blocks are not more.
LEMMA UpDivAntitone ==
  ASSUME NEW a \in Nat, NEW b \in Nat \ {0}, NEW c \in Nat \ {0}, b <= c
  PROVE  UpDiv(a, c) <= UpDiv(a, b)
<1>1. PICK x \in Nat : x = UpDiv(a, b) /\ a <= x * b
  BY UpDivFacts
<1>2. PICK y \in Nat : y = UpDiv(a, c) /\ y * c < a + c
  BY UpDivFacts
<1>3. x * b <= x * c
  OBVIOUS
<1>4. SUFFICES ASSUME x + 1 <= y  PROVE FALSE
  BY <1>1, <1>2
<1>5. (x + 1) * c <= y * c /\ (x + 1) * c = x * c + c
  BY <1>4
<1>6. PICK p \in Nat, r \in Nat, s \in Nat : p = x * b /\ r = x * c /\ s = y * c
  OBVIOUS
<1>. QED  BY <1>1, <1>2, <1>3, <1>5, <1>6

\* What fits in one block.
LEMMA OneBlock ==
  ASSUME NEW a \in Nat, NEW b \in Nat \ {0}, a <= b
  PROVE  UpDiv(a, b) = IF a = 0 THEN 0 ELSE 1
<1>1. PICK u \in Nat : u = UpDiv(a, b) /\ u * b < a + b /\ (a = 0 <=> u = 0)
  BY UpDivFacts
<1>2. SUFFICES ASSUME u >= 2  PROVE FALSE
  BY <1>1
<1>3. u * b >= 2 * b
  BY <1>2
<1>4. PICK p \in Nat : p = u * b
  OBVIOUS
<1>. QED  BY <1>1, <1>3, <1>4

\* Blocks twice as wide halve an even number of them.
LEMMA DoubleBlocks ==
  ASSUME NEW a \in Nat, NEW b \in Nat \ {0}, UpDiv(a, b) % 2 = 0
  PROVE  UpDiv(a, 2 * b) = UpDiv(a, b) \div 2
<1>1. PICK u \in Nat : u = UpDiv(a, b) /\ a <= u * b /\ u * b < a + b
  BY UpDivFacts
<1>2. PICK v \in Nat : v = UpDiv(a, 2 * b) /\ a <= v * (2 * b) /\ v * (2 * b) < a + 2 * b
  <2>1. 2 * b \in Nat \ {0}
    OBVIOUS
  <2>. QED  BY <2>1, UpDivFacts
<1>3. PICK t \in Nat : u = 2 * t /\ u \div 2 = t
  BY <1>1
<1>4. v * (2 * b) = 2 * (v * b) /\ u * b = 2 * (t * b)
  BY <1>3
<1>5. PICK p \in Nat, r \in Nat : p = v * b /\ r = t * b
  OBVIOUS
<1>6. ~(v < t)
  <2>1. v + 1 <= t => (v + 1) * b <= t * b /\ (v + 1) * b = v * b + b
    OBVIOUS
  <2>2. v < t => p + b <= r
    BY <1>5, <2>1
  <2>3. a <= 2 * p /\ 2 * r < a + b
    BY <1>1, <1>2, <1>4, <1>5
  <2>. QED  BY <2>2, <2>3
<1>7. ~(t < v)
  <2>1. t + 1 <= v => (t + 1) * b <= v * b /\ (t + 1) * b = t * b + b
    OBVIOUS
  <2>2. t < v => r + b <= p
    BY <1>5, <2>1
  <2>3. a <= 2 * r /\ 2 * p < a + 2 * b
    BY <1>1, <1>2, <1>4, <1>5
  <2>. QED  BY <2>2, <2>3
<1>8. v = t
  BY <1>6, <1>7
<1>. QED  BY <1>1, <1>2, <1>3, <1>8

\* Half of an odd number of blocks is one less than the blocks of twice the width, and
\* the last of those holds the last block alone.
LEMMA OddBlocks ==
  ASSUME NEW a \in Nat, NEW b \in Nat \ {0}, UpDiv(a, b) % 2 = 1
  PROVE  /\ UpDiv(a, 2 * b) = UpDiv(a, b) \div 2 + 1
         /\ \A c \in 0 .. a - 1 : c \div b = UpDiv(a, b) - 1 <=> c \div (2 * b) = UpDiv(a, 2 * b) - 1
<1>1. PICK u \in Nat : u = UpDiv(a, b) /\ a <= u * b /\ u * b < a + b
  BY UpDivFacts
<1>2. PICK v \in Nat : v = UpDiv(a, 2 * b) /\ a <= v * (2 * b) /\ v * (2 * b) < a + 2 * b
  <2>1. 2 * b \in Nat \ {0}
    OBVIOUS
  <2>. QED  BY <2>1, UpDivFacts
<1>3. PICK t \in Nat : u = 2 * t + 1 /\ u \div 2 = t
  BY <1>1
<1>4. v * (2 * b) = 2 * (v * b) /\ u * b = 2 * (t * b) + b
  BY <1>3
<1>5. PICK p \in Nat, r \in Nat : p = v * b /\ r = t * b
  OBVIOUS
<1>6. t < v
  <2>1. v <= t => v * b <= t * b
    OBVIOUS
  <2>2. 2 * r < a /\ a <= 2 * p
    BY <1>1, <1>2, <1>4, <1>5
  <2>. QED  BY <1>5, <2>1, <2>2
<1>7. ~(t + 1 < v)
  <2>1. t + 2 <= v => (t + 2) * b <= v * b /\ (t + 2) * b = t * b + 2 * b
    OBVIOUS
  <2>2. 2 * p < a + 2 * b /\ a <= 2 * r + b
    BY <1>1, <1>2, <1>4, <1>5
  <2>. QED  BY <1>5, <2>1, <2>2
<1>8. v = t + 1
  BY <1>6, <1>7
<1>9. ASSUME NEW c \in 0 .. a - 1
      PROVE  c \div b = 2 * t <=> c \div (2 * b) = t
  <2>1. c \in Nat /\ c < 2 * r + b
    BY <1>1, <1>4, <1>5
  <2>2. c \in (2 * t) * b .. (2 * t + 1) * b - 1 <=> c \div b = 2 * t
    BY <2>1, BlockOfRow
  <2>3. c \in t * (2 * b) .. (t + 1) * (2 * b) - 1 <=> c \div (2 * b) = t
    <3>1. 2 * b \in Nat \ {0}
      OBVIOUS
    <3>. QED  BY <2>1, <3>1, BlockOfRow
  <2>4. /\ (2 * t) * b = 2 * r /\ (2 * t + 1) * b = 2 * r + b
        /\ t * (2 * b) = 2 * r /\ (t + 1) * (2 * b) = 2 * r + 2 * b
    BY <1>5
  <2>. QED  BY <2>1, <2>2, <2>3, <2>4
<1>10. UpDiv(a, b) - 1 = 2 * t /\ UpDiv(a, 2 * b) - 1 = t /\ UpDiv(a, b) \div 2 + 1 = t + 1
  <2>1. UpDiv(a, b) = 2 * t + 1 /\ UpDiv(a, b) \div 2 = t
    BY <1>1, <1>3
  <2>2. UpDiv(a, 2 * b) = t + 1
    BY <1>2, <1>8
  <2>. QED  BY <2>1, <2>2
<1>11. UpDiv(a, 2 * b) = t + 1
  BY <1>2, <1>8
<1>. QED  BY <1>9, <1>10, <1>11, Zenon

-----------------------------------------------------------------------------
(* The tables of the dynamic kernels, in units. *)

TableOf(j) == IF j.scheduler = "expand" THEN Int8BuilderTable ELSE BuilderTable

\* What the builder tables of the dynamic kernels hold, in rows and columns.
LEMMA TableNumbers ==
  ASSUME NEW j, IsDynamic(j), InUnits(j), NEW i \in 1 .. 5
  PROVE  /\ TableOf(j)[j.tiles].m[i] \in Nat \ {0} /\ TableOf(j)[j.tiles].n[i] \in Nat \ {0}
         /\ TableOf(j)[j.tiles].m[5] \in Nat \ {0} /\ TableOf(j)[j.tiles].n[5] \in Nat \ {0}
         /\ TableOf(j)[j.tiles].m[i] <= TableOf(j)[j.tiles].m[5]
         /\ TableOf(j)[j.tiles].n[5] <= TableOf(j)[j.tiles].n[i]
         /\ j.scheduler = "expand" =>
              TableOf(j)[j.tiles].n[i] =
                IF j.tiles = "LargeK" /\ i = 3 THEN 2 * TableOf(j)[j.tiles].n[5] ELSE TableOf(j)[j.tiles].n[5]
         /\ j.scheduler = "expand" /\ j.tiles = "LargeK" =>
              TableOf(j)[j.tiles].m[1] = 16 /\ TableOf(j)[j.tiles].m[2] = 32 /\ TableOf(j)[j.tiles].m[3] = 64
<1>0. i = 1 \/ i = 2 \/ i = 3 \/ i = 4 \/ i = 5
  OBVIOUS
<1>1. CASE j.scheduler = "expand"
  <2>1. j.tiles \in {"LargeEM", "LargeK", "TPSmallK"}
    BY <1>1 DEF InUnits, Int8BuilderTable
  <2>2. TableOf(j) = Int8BuilderTable
    BY <1>1 DEF TableOf
  <2>. QED  BY <1>0, <2>1, <2>2 DEF Int8BuilderTable
<1>2. CASE j.scheduler = "builders"
  <2>1. j.tiles \in {"LargeEM", "LargeK", "LargeK_G2", "SmallEM"}
    BY <1>2 DEF InUnits, BuilderTable
  <2>2. TableOf(j) = BuilderTable
    BY <1>2 DEF TableOf
  <2>3. ~(j.scheduler = "expand")
    BY <1>2
  <2>4. PICK row : row = BuilderTable[j.tiles]
    OBVIOUS
  <2>5. /\ row.m[i] \in Nat \ {0} /\ row.n[i] \in Nat \ {0}
        /\ row.m[5] \in Nat \ {0} /\ row.n[5] \in Nat \ {0}
        /\ row.m[i] <= row.m[5] /\ row.n[5] <= row.n[i]
    <3>1. CASE j.tiles = "LargeEM"
      BY <1>0, <2>4, <3>1 DEF BuilderTable
    <3>2. CASE j.tiles = "LargeK"
      BY <1>0, <2>4, <3>2 DEF BuilderTable
    <3>3. CASE j.tiles = "LargeK_G2"
      BY <1>0, <2>4, <3>3 DEF BuilderTable
    <3>4. CASE j.tiles = "SmallEM"
      BY <1>0, <2>4, <3>4 DEF BuilderTable
    <3>. QED  BY <2>1, <3>1, <3>2, <3>3, <3>4
  <2>. QED  BY <2>2, <2>3, <2>4, <2>5
<1>. QED  BY <1>1, <1>2 DEF IsDynamic

\* The same in units of the job.
LEMMA BlocksInUnits ==
  ASSUME NEW j, IsDynamic(j), InUnits(j), NEW i \in 1 .. 5
  PROVE  /\ j.unitM \in Nat \ {0} /\ j.unitN \in Nat \ {0}
         /\ BlockMs(j)[i] \in Nat \ {0} /\ BlockMs(j)[i] * j.unitM = TableOf(j)[j.tiles].m[i]
         /\ BlockNs(j)[i] \in Nat \ {0} /\ BlockNs(j)[i] * j.unitN = TableOf(j)[j.tiles].n[i]
<1>1. /\ j.unitM \in Nat \ {0} /\ j.unitN \in Nat \ {0}
      /\ TableOf(j)[j.tiles].m[i] % j.unitM = 0 /\ TableOf(j)[j.tiles].n[i] % j.unitN = 0
  BY DEF InUnits, TableOf
<1>2. /\ BlockMs(j)[i] = TableOf(j)[j.tiles].m[i] \div j.unitM
      /\ BlockNs(j)[i] = TableOf(j)[j.tiles].n[i] \div j.unitN
  BY DEF BlockMs, BlockNs, TableOf
<1>3. PICK a \in Nat \ {0}, b \in Nat \ {0} : a = TableOf(j)[j.tiles].m[i] /\ b = TableOf(j)[j.tiles].n[i]
  BY TableNumbers
<1>4. PICK u \in Nat \ {0}, v \in Nat \ {0} : u = j.unitM /\ v = j.unitN
  BY <1>1
<1>5. a % u = 0 /\ b % v = 0
  BY <1>1, <1>3, <1>4
<1>6. a \div u \in Nat \ {0} /\ (a \div u) * u = a /\ b \div v \in Nat \ {0} /\ (b \div v) * v = b
  BY <1>5, Exact
<1>7. BlockMs(j)[i] = a \div u /\ BlockNs(j)[i] = b \div v
  BY <1>2, <1>3, <1>4
<1>. QED  BY <1>3, <1>4, <1>6, <1>7

\* How the builders of a table compare, in units of the job.
LEMMA ComparedInUnits ==
  ASSUME NEW j, IsDynamic(j), InUnits(j), NEW i \in 1 .. 5
  PROVE  /\ BlockMs(j)[i] <= BlockMs(j)[5] /\ BlockNs(j)[5] <= BlockNs(j)[i]
         /\ j.scheduler = "expand" =>
              BlockNs(j)[i] =
                IF j.tiles = "LargeK" /\ i = 3 THEN 2 * BlockNs(j)[5] ELSE BlockNs(j)[5]
<1>1. PICK u \in Nat \ {0}, v \in Nat \ {0} : u = j.unitM /\ v = j.unitN
  BY BlocksInUnits
<1>2. PICK a \in Nat, b \in Nat, c \in Nat, d \in Nat :
         /\ a = BlockMs(j)[i] /\ b = BlockMs(j)[5] /\ c = BlockNs(j)[i] /\ d = BlockNs(j)[5]
         /\ a * u = TableOf(j)[j.tiles].m[i] /\ b * u = TableOf(j)[j.tiles].m[5]
         /\ c * v = TableOf(j)[j.tiles].n[i] /\ d * v = TableOf(j)[j.tiles].n[5]
  <2>1. /\ BlockMs(j)[i] \in Nat \ {0} /\ BlockMs(j)[i] * u = TableOf(j)[j.tiles].m[i]
        /\ BlockNs(j)[i] \in Nat \ {0} /\ BlockNs(j)[i] * v = TableOf(j)[j.tiles].n[i]
    BY <1>1, BlocksInUnits
  <2>2. /\ BlockMs(j)[5] \in Nat \ {0} /\ BlockMs(j)[5] * u = TableOf(j)[j.tiles].m[5]
        /\ BlockNs(j)[5] \in Nat \ {0} /\ BlockNs(j)[5] * v = TableOf(j)[j.tiles].n[5]
    BY <1>1, BlocksInUnits
  <2>3. PICK a \in Nat, b \in Nat : a = BlockMs(j)[i] /\ b = BlockMs(j)[5]
    BY <2>1, <2>2
  <2>4. PICK c \in Nat, d \in Nat : c = BlockNs(j)[i] /\ d = BlockNs(j)[5]
    BY <2>1, <2>2, SMTT(20)
  <2>. QED  BY <2>1, <2>2, <2>3, <2>4
<1>3. /\ a * u <= b * u /\ d * v <= c * v
      /\ j.scheduler = "expand" => c * v = IF j.tiles = "LargeK" /\ i = 3 THEN 2 * (d * v) ELSE d * v
  <2>1. PICK p \in Nat, q \in Nat, r \in Nat, s \in Nat :
           /\ p = TableOf(j)[j.tiles].m[i] /\ q = TableOf(j)[j.tiles].m[5]
           /\ r = TableOf(j)[j.tiles].n[i] /\ s = TableOf(j)[j.tiles].n[5]
    BY TableNumbers, Zenon
  <2>2. p <= q /\ s <= r
    BY <2>1, TableNumbers
  <2>3. j.scheduler = "expand" => r = IF j.tiles = "LargeK" /\ i = 3 THEN 2 * s ELSE s
    BY <2>1, TableNumbers
  <2>4. a * u = p /\ b * u = q /\ c * v = r /\ d * v = s
    BY <1>2, <2>1, Zenon
  <2>. QED  BY <2>2, <2>3, <2>4
<1>4. a <= b /\ d <= c
  BY <1>3, Cancel
<1>5. ASSUME j.scheduler = "expand"
      PROVE  c = IF j.tiles = "LargeK" /\ i = 3 THEN 2 * d ELSE d
  <2>1. CASE j.tiles = "LargeK" /\ i = 3
    <3>1. c * v = (2 * d) * v
      BY <1>3, <1>5, <2>1
    <3>2. 2 * d \in Nat
      OBVIOUS
    <3>3. c = 2 * d
      BY <3>1, <3>2, Cancel
    <3>. QED  BY <2>1, <3>3
  <2>2. CASE ~(j.tiles = "LargeK" /\ i = 3)
    <3>1. c * v = d * v
      BY <1>3, <1>5, <2>2
    <3>2. c = d
      BY <3>1, Cancel
    <3>. QED  BY <2>2, <3>2
  <2>. QED  BY <2>1, <2>2
<1>. QED  BY <1>2, <1>4, <1>5

\* The builder of a group is one of the five, and holds the group unless it is the
\* largest.
LEMMA Selected ==
  ASSUME NEW j, IsDynamic(j), InUnits(j), NEW rows \in Nat
  PROVE  /\ SelectBuilder(j, rows) \in 1 .. 5
         /\ SelectBuilder(j, rows) # 5 => rows <= BlockMs(j)[SelectBuilder(j, rows)]
         /\ \A i \in 1 .. 4 : i < SelectBuilder(j, rows) => ~(rows <= BlockMs(j)[i])
<1>. DEFINE fits == {i \in 1 .. 4 : rows <= BlockMs(j)[i]}
<1>1. CASE fits = {}
  BY <1>1 DEF SelectBuilder
<1>2. CASE fits # {}
  <2>1. fits \subseteq Nat
    OBVIOUS
  <2>2. PICK x \in fits : \A y \in fits : x <= y
    <3>. HIDE DEF fits
    <3>. QED  BY <1>2, <2>1, LeastMember
  <2>3. Min(fits) \in fits /\ \A y \in fits : Min(fits) <= y
    <3>. HIDE DEF fits
    <3>. QED  BY <2>2 DEF Min
  <2>4. SelectBuilder(j, rows) = Min(fits)
    BY <1>2 DEF SelectBuilder
  <2>5. PICK z \in 1 .. 4 : z = SelectBuilder(j, rows) /\ rows <= BlockMs(j)[z] /\ \A y \in fits : z <= y
    BY <2>3, <2>4
  <2>. QED  BY <2>5
<1>. QED  BY <1>1, <1>2

\* Which groups of the int8 kernel take tiles of twice the columns.
LEMMA ExpandOfGroup ==
  ASSUME NEW j, j.scheduler = "expand", InUnits(j), NEW rows \in Nat
  PROVE  GroupExpand(j, rows) = IF j.tiles = "LargeK" /\ SelectBuilder(j, rows) = 3 THEN 2 ELSE 1
<1>0. IsDynamic(j)
  BY DEF IsDynamic
<1>1. CASE j.tiles # "LargeK"
  <2>1. \A i \in 1 .. 4 : BlockNs(j)[i] = BlockNs(j)[5]
    BY <1>0, <1>1, ComparedInUnits
  <2>. QED  BY <1>1, <2>1 DEF GroupExpand
<1>2. CASE j.tiles = "LargeK"
  <2>1. BlockNs(j)[3] = 2 * BlockNs(j)[5] /\ BlockNs(j)[5] \in Nat \ {0}
    BY <1>0, <1>2, ComparedInUnits, BlocksInUnits
  <2>2. \E i \in 1 .. 4 : BlockNs(j)[i] # BlockNs(j)[5]
    BY <2>1
  <2>3. j.k > 2048
    BY <1>2 DEF InUnits
  <2>4. PICK u \in Nat \ {0} : u = j.unitM
    BY <1>0, BlocksInUnits
  <2>5. PICK a \in Nat, b \in Nat, c \in Nat :
          /\ a = BlockMs(j)[1] /\ b = BlockMs(j)[2] /\ c = BlockMs(j)[3]
          /\ a * u = 16 /\ b * u = 32 /\ c * u = 64
    BY <1>0, <1>2, <2>4, BlocksInUnits, TableNumbers, SMTT(20)
  <2>6. (rows <= a <=> rows * u <= 16) /\ (rows <= b <=> rows * u <= 32) /\ (rows <= c <=> rows * u <= 64)
    BY <2>5, Cancel
  <2>7. PICK s \in 1 .. 5 : /\ s = SelectBuilder(j, rows)
                            /\ s # 5 => rows <= BlockMs(j)[s]
                            /\ \A i \in 1 .. 4 : i < s => ~(rows <= BlockMs(j)[i])
    BY <1>0, Selected
  <2>8. s = 3 <=> rows * u > 32 /\ rows * u <= 64
    <3>1. ASSUME s = 1  PROVE rows <= a
      BY <2>5, <2>7, <3>1
    <3>2. ASSUME s = 2  PROVE rows <= b
      BY <2>5, <2>7, <3>2
    <3>3. ASSUME s = 3  PROVE rows <= c /\ ~(rows <= b)
      <4>1. 2 \in 1 .. 4 /\ 2 < s
        BY <3>3
      <4>. QED  BY <2>5, <2>7, <3>3, <4>1
    <3>4. ASSUME s > 3  PROVE ~(rows <= c)
      <4>1. 3 \in 1 .. 4 /\ 3 < s
        BY <3>4
      <4>. QED  BY <2>5, <2>7, <4>1
    <3>5. PICK p \in Nat : p = rows * u
      OBVIOUS
    <3>. QED  BY <2>6, <2>7, <3>1, <3>2, <3>3, <3>4, <3>5
  <2>9. GroupExpand(j, rows) = IF rows * j.unitM > 32 /\ rows * j.unitM <= 64 THEN 2 ELSE 1
    BY <2>2, <2>3 DEF GroupExpand
  <2>10. GroupExpand(j, rows) = IF s = 3 THEN 2 ELSE 1
    BY <2>4, <2>8, <2>9
  <2>. QED  BY <1>2, <2>7, <2>10
<1>. QED  BY <1>1, <1>2

-----------------------------------------------------------------------------
(* Every group has as many tiles as blocks, but for the last column of blocks where *)
(* int8 halves an odd number of them. The swizzle counts the columns of a group, or   *)
(* more of them where there is one row of blocks.                                   *)

BlockRows(j, rows) == UpDiv(rows, TileM(j, rows))
BlockCols(j, rows) ==
  IF HalvesOdd(j, rows) THEN UpDiv(j.n, TileN(j, rows)) - 1 ELSE UpDiv(j.n, TileN(j, rows))

GroupCovered(j, rows) ==
  /\ TileM(j, rows) \in Nat \ {0} /\ TileN(j, rows) \in Nat \ {0}
  /\ GroupMBlocks(j, rows) = BlockRows(j, rows)
  /\ GroupTiles(j, rows) = BlockRows(j, rows) * BlockCols(j, rows)
  /\ SwizzleColumns(j, rows) \in Nat
  /\ \/ SwizzleColumns(j, rows) = BlockCols(j, rows)
     \/ BlockRows(j, rows) <= 1 /\ BlockCols(j, rows) <= SwizzleColumns(j, rows)

\* A tile has columns, and the column blocks are counted by them.
LEMMA ColumnsOfTile ==
  ASSUME NEW j, Sized(j)
  PROVE  TileColumns(j) \in Nat \ {0} /\ ColumnBlocks(j) = UpDiv(j.n, TileColumns(j))
<1>1. WaveExpand(j) \in {1, 2, 4} /\ Fp8Expand(j) \in {1, 4} /\ Fp4Expand(j) \in {1, 4, 8}
  BY DEF WaveExpand, Fp8Expand, Fp4Expand
<1>2. NExpand(j) \in {1, 2, 4, 8}
  BY <1>1 DEF NExpand
<1>3. j.bn \in Nat \ {0}
  BY DEF Sized
<1>. QED  BY <1>2, <1>3 DEF TileColumns, ColumnBlocks

\* A group of a scheduler with one tile shape.
LEMMA PlainGroup ==
  ASSUME NEW j, Sized(j), ~IsDynamic(j), NEW rows \in Nat
  PROVE  GroupCovered(j, rows)
<1>1. j.n \in Nat /\ j.bm \in Nat \ {0}
  BY DEF Sized
<1>2. ColumnBlocks(j) \in Nat
  <2>1. PICK n \in Nat, c \in Nat \ {0} : n = j.n /\ c = TileColumns(j)
    BY <1>1, ColumnsOfTile
  <2>2. UpDiv(n, c) \in Nat
    BY UpDivFacts
  <2>. QED  BY <2>1, <2>2, ColumnsOfTile
<1>3. TileM(j, rows) = j.bm /\ TileN(j, rows) = TileColumns(j)
  BY DEF TileM, TileN
<1>4. j.scheduler # "expand" /\ j.scheduler # "builders"
  BY DEF IsDynamic
<1>5. GroupNBlocks(j, rows) = ColumnBlocks(j) /\ SwizzleColumns(j, rows) = ColumnBlocks(j)
  BY <1>4 DEF GroupNBlocks, SwizzleColumns, IsDynamic
<1>6. GroupMBlocks(j, rows) = UpDiv(rows, j.bm)
  BY <1>3, <1>4 DEF GroupMBlocks
<1>7. BlockCols(j, rows) = ColumnBlocks(j)
  BY <1>3, <1>4, ColumnsOfTile DEF BlockCols, HalvesOdd
<1>. QED  BY <1>1, <1>2, <1>3, <1>4, <1>5, <1>6, <1>7, ColumnsOfTile DEF GroupCovered, GroupTiles, BlockRows

\* A group of DynamicTileScheduler: blocks counted by its own builder, swizzled by
\* the columns of the largest.
LEMMA BuildersGroup ==
  ASSUME NEW j, Sized(j), j.scheduler = "builders", InUnits(j), NEW rows \in Nat
  PROVE  GroupCovered(j, rows)
<1>0. IsDynamic(j) /\ j.n \in Nat
  BY DEF IsDynamic, Sized
<1>1. PICK s \in 1 .. 5 : s = SelectBuilder(j, rows) /\ (s # 5 => rows <= BlockMs(j)[s])
  BY <1>0, Selected
<1>2. /\ BlockMs(j)[s] \in Nat \ {0} /\ BlockNs(j)[s] \in Nat \ {0} /\ BlockNs(j)[5] \in Nat \ {0}
      /\ BlockNs(j)[5] <= BlockNs(j)[s]
  BY <1>0, BlocksInUnits, ComparedInUnits
<1>3. TileM(j, rows) = BlockMs(j)[s] /\ TileN(j, rows) = BlockNs(j)[s]
  BY <1>0, <1>1 DEF TileM, TileN
<1>4. /\ GroupMBlocks(j, rows) = BlockRows(j, rows) /\ GroupNBlocks(j, rows) = BlockCols(j, rows)
      /\ GroupTiles(j, rows) = BlockRows(j, rows) * BlockCols(j, rows)
  BY DEF GroupMBlocks, GroupNBlocks, GroupTiles, BlockRows, BlockCols, HalvesOdd
<1>5. PICK nb \in Nat, columns \in Nat :
         /\ nb = UpDiv(j.n, BlockNs(j)[s]) /\ columns = UpDiv(j.n, BlockNs(j)[5]) /\ nb <= columns
  <2>1. PICK n \in Nat, c \in Nat \ {0}, d \in Nat \ {0} :
          n = j.n /\ c = BlockNs(j)[s] /\ d = BlockNs(j)[5]
    BY <1>0, <1>2
  <2>2. UpDiv(n, c) \in Nat /\ UpDiv(n, d) \in Nat
    BY UpDivFacts
  <2>3. UpDiv(n, c) <= UpDiv(n, d)
    BY <1>2, <2>1, UpDivAntitone
  <2>. QED  BY <2>1, <2>2, <2>3
<1>6. SwizzleColumns(j, rows) = columns
  <2>1. columns \div 1 = columns
    OBVIOUS
  <2>. QED  BY <1>0, <1>5, <2>1 DEF SwizzleColumns
<1>7. BlockCols(j, rows) = nb
  BY <1>3, <1>5 DEF BlockCols, HalvesOdd
<1>8. s = 5 => nb = columns
  BY <1>5
<1>9. s # 5 => BlockRows(j, rows) <= 1
  BY <1>1, <1>2, <1>3, OneBlock DEF BlockRows
<1>. QED  BY <1>2, <1>3, <1>4, <1>5, <1>6, <1>7, <1>8, <1>9 DEF GroupCovered

\* A group of the int8 kernel: blocks counted by the largest builder and halved,
\* rounding down, where the tile is twice as wide.
LEMMA ExpandGroup ==
  ASSUME NEW j, Sized(j), j.scheduler = "expand", InUnits(j), NEW rows \in Nat
  PROVE  GroupCovered(j, rows)
<1>0. IsDynamic(j) /\ j.n \in Nat
  BY DEF IsDynamic, Sized
<1>1. PICK s \in 1 .. 5 : s = SelectBuilder(j, rows) /\ (s # 5 => rows <= BlockMs(j)[s])
  BY <1>0, Selected
<1>2. PICK a \in Nat \ {0}, b \in Nat \ {0}, c \in Nat \ {0}, d \in Nat \ {0} :
         /\ a = BlockMs(j)[s] /\ b = BlockMs(j)[5] /\ a <= b
         /\ c = BlockNs(j)[s] /\ d = BlockNs(j)[5]
         /\ c = IF j.tiles = "LargeK" /\ s = 3 THEN 2 * d ELSE d
  <2>1. /\ BlockMs(j)[s] \in Nat \ {0} /\ BlockNs(j)[s] \in Nat \ {0}
        /\ BlockMs(j)[5] \in Nat \ {0} /\ BlockNs(j)[5] \in Nat \ {0}
    BY <1>0, BlocksInUnits
  <2>2. /\ BlockMs(j)[s] <= BlockMs(j)[5]
        /\ BlockNs(j)[s] = IF j.tiles = "LargeK" /\ s = 3 THEN 2 * BlockNs(j)[5] ELSE BlockNs(j)[5]
    BY <1>0, ComparedInUnits
  <2>3. PICK a \in Nat \ {0}, b \in Nat \ {0} : a = BlockMs(j)[s] /\ b = BlockMs(j)[5]
    BY <2>1
  <2>4. PICK c \in Nat \ {0}, d \in Nat \ {0} : c = BlockNs(j)[s] /\ d = BlockNs(j)[5]
    BY <2>1
  <2>. QED  BY <2>2, <2>3, <2>4
<1>3. TileM(j, rows) = a /\ TileN(j, rows) = c
  BY <1>0, <1>1, <1>2 DEF TileM, TileN
<1>4. PICK x \in {1, 2} : /\ x = GroupExpand(j, rows)
                          /\ x = IF j.tiles = "LargeK" /\ s = 3 THEN 2 ELSE 1
  BY <1>1, ExpandOfGroup
<1>5. PICK mb \in Nat, nb \in Nat, columns \in Nat :
         mb = UpDiv(rows, a) /\ columns = UpDiv(j.n, d) /\ nb = columns \div x
  <2>1. UpDiv(rows, a) \in Nat /\ UpDiv(j.n, d) \in Nat
    BY <1>0, <1>2, UpDivFacts
  <2>2. PICK columns \in Nat : columns = UpDiv(j.n, d)
    BY <2>1
  <2>3. columns \div x \in Nat
    BY <1>4
  <2>. QED  BY <2>1, <2>2, <2>3
<1>6. UpDiv(rows, b) = mb
  <2>1. CASE s = 5
    BY <1>2, <1>5, <2>1
  <2>2. CASE s # 5
    <3>1. rows <= a
      BY <1>1, <1>2, <2>2
    <3>. QED  BY <1>2, <1>5, <3>1, OneBlock
  <2>. QED  BY <2>1, <2>2
<1>7. BlockCols(j, rows) = nb
  <2>0. HalvesOdd(j, rows) <=> x = 2 /\ columns % 2 = 1
    BY <1>2, <1>4, <1>5 DEF HalvesOdd
  <2>1. CASE x = 2
    <3>1. c = 2 * d /\ (columns % 2 = 0 \/ columns % 2 = 1)
      BY <1>2, <1>4, <2>1
    <3>2. CASE columns % 2 = 0
      <4>1. UpDiv(j.n, c) = nb
        BY <1>0, <1>2, <1>5, <2>1, <3>1, <3>2, DoubleBlocks
      <4>. QED  BY <1>3, <2>0, <3>2, <4>1 DEF BlockCols
    <3>3. CASE columns % 2 = 1
      <4>1. UpDiv(j.n, c) = nb + 1
        BY <1>0, <1>2, <1>5, <2>1, <3>1, <3>3, OddBlocks
      <4>. QED  BY <1>3, <2>0, <2>1, <3>3, <4>1 DEF BlockCols
    <3>. QED  BY <3>1, <3>2, <3>3
  <2>2. CASE x = 1
    <3>1. c = d /\ columns \div 1 = columns
      BY <1>2, <1>4, <2>2
    <3>. QED  BY <1>3, <1>5, <2>0, <2>2, <3>1 DEF BlockCols
  <2>. QED  BY <2>1, <2>2
<1>8. (mb * columns) \div x = mb * nb
  <2>1. CASE x = 2
    <3>1. rows <= a
      BY <1>1, <1>2, <1>4, <2>1
    <3>2. mb = 0 \/ mb = 1
      BY <1>2, <1>5, <3>1, OneBlock
    <3>3. 0 * columns = 0 /\ 0 \div 2 = 0 /\ 0 * nb = 0 /\ 1 * columns = columns /\ 1 * nb = nb
      OBVIOUS
    <3>. QED  BY <1>5, <2>1, <3>2, <3>3
  <2>2. CASE x = 1
    <3>1. nb = columns
      BY <1>5, <2>2
    <3>. QED  BY <2>2, <3>1
  <2>. QED  BY <2>1, <2>2
<1>9. GroupMBlocks(j, rows) = mb /\ BlockRows(j, rows) = mb
  BY <1>2, <1>3, <1>5, <1>6 DEF GroupMBlocks, BlockRows
<1>10. GroupTiles(j, rows) = mb * nb
  BY <1>2, <1>4, <1>5, <1>8, <1>9 DEF GroupTiles
<1>11. SwizzleColumns(j, rows) = nb
  BY <1>0, <1>2, <1>4, <1>5 DEF SwizzleColumns
<1>. QED  BY <1>2, <1>3, <1>5, <1>7, <1>9, <1>10, <1>11 DEF GroupCovered

\* Whatever its rows, a group gets as many indices as it has blocks, and its
\* swizzle fits.
LEMMA EveryGroupCovered ==
  ASSUME NEW j, Sized(j), IsDynamic(j) => InUnits(j), NEW rows \in Nat
  PROVE  GroupCovered(j, rows)
BY PlainGroup, BuildersGroup, ExpandGroup DEF IsDynamic

-----------------------------------------------------------------------------
(* The swizzle of a covered group runs through its blocks.                       *)

SwizzleFits(mb, nb, columns) == columns = nb \/ (mb <= 1 /\ nb <= columns)

\* In a single row of blocks the index is the column.
LEMMA OneRowSwizzle ==
  ASSUME NEW j, j.width \in Nat \ {0}, NEW group \in Nat,
         NEW columns \in Nat, NEW idx \in Nat, idx < columns
  PROVE  Swizzled(j, 1, columns, group, idx).m = 0 /\ Swizzled(j, 1, columns, group, idx).n = idx
<1>0. PICK w \in Nat \ {0} : w = j.width
  OBVIOUS
<1>1. PICK q, band, n, e : Swizzles(j, 1, columns, group, idx, q, band, n, e)
  <2>1. idx < 1 * columns
    OBVIOUS
  <2>. QED  BY <2>1, SwizzledIs
<1>2. PICK first \in Nat : first = q * w
  BY <1>1 DEF Swizzles
<1>3. first = 0 /\ band = 1 /\ e = 0 /\ n \in Nat
  BY <1>0, <1>1, <1>2 DEF Swizzles
<1>4. n = idx
  <2>1. idx = first * columns + (n * 1 + 0)
    BY <1>0, <1>1, <1>2, <1>3 DEF Swizzles
  <2>2. 0 * columns = 0
    OBVIOUS
  <2>. QED  BY <1>3, <2>1, <2>2
<1>5. Turned(j, 1, n, group, 0) = 0
  <2>1. 1 \in Nat \ {0} /\ 0 \in 0 .. 1 - 1
    OBVIOUS
  <2>2. Turned(j, 1, n, group, 0) \in 0 .. 1 - 1
    BY <1>3, <2>1, TurnedInBand
  <2>. QED  BY <2>2
<1>6. /\ Swizzled(j, 1, columns, group, idx).n = n
      /\ Swizzled(j, 1, columns, group, idx).m = q * w + Turned(j, band, n, group, e)
  BY <1>0, <1>1 DEF Swizzles
<1>. QED  BY <1>2, <1>3, <1>4, <1>5, <1>6

\* A swizzle that fits sends the indices of a group to its blocks,
LEMMA FitInRange ==
  ASSUME NEW j, j.width \in Nat \ {0}, NEW group \in Nat,
         NEW mb \in Nat, NEW nb \in Nat, NEW columns \in Nat, SwizzleFits(mb, nb, columns),
         NEW idx \in Nat, idx < mb * nb
  PROVE  /\ Swizzled(j, mb, columns, group, idx).m \in 0 .. mb - 1
         /\ Swizzled(j, mb, columns, group, idx).n \in 0 .. nb - 1
<1>1. CASE columns = nb
  BY <1>1, SwizzledInRange
<1>2. CASE mb <= 1 /\ nb <= columns
  <2>1. mb = 1
    <3>1. 0 * nb = 0
      OBVIOUS
    <3>. QED  BY <1>2, <3>1
  <2>2. idx < nb
    BY <2>1
  <2>. QED  BY <1>2, <2>1, <2>2, OneRowSwizzle
<1>. QED  BY <1>1, <1>2 DEF SwizzleFits

\* no two of them to the same,
LEMMA FitInjective ==
  ASSUME NEW j, j.width \in Nat \ {0}, NEW group \in Nat,
         NEW mb \in Nat, NEW nb \in Nat, NEW columns \in Nat, SwizzleFits(mb, nb, columns),
         NEW x \in Nat, x < mb * nb, NEW y \in Nat, y < mb * nb,
         Swizzled(j, mb, columns, group, x).m = Swizzled(j, mb, columns, group, y).m,
         Swizzled(j, mb, columns, group, x).n = Swizzled(j, mb, columns, group, y).n
  PROVE  x = y
<1>1. CASE columns = nb
  BY <1>1, SwizzledInjective
<1>2. CASE mb <= 1 /\ nb <= columns
  <2>1. mb = 1
    <3>1. 0 * nb = 0
      OBVIOUS
    <3>. QED  BY <1>2, <3>1
  <2>2. x < columns /\ y < columns
    BY <1>2, <2>1
  <2>. QED  BY <2>1, <2>2, OneRowSwizzle
<1>. QED  BY <1>1, <1>2 DEF SwizzleFits

\* and leaves no block out.
LEMMA FitOnto ==
  ASSUME NEW j, j.width \in Nat \ {0}, NEW group \in Nat,
         NEW mb \in Nat, NEW nb \in Nat, NEW columns \in Nat, SwizzleFits(mb, nb, columns),
         NEW m \in 0 .. mb - 1, NEW n \in 0 .. nb - 1
  PROVE  Indexed(j, mb, columns, group, m, n, mb * nb)
<1>1. CASE columns = nb
  BY <1>1, SwizzledOnto
<1>2. CASE mb <= 1 /\ nb <= columns
  <2>1. mb = 1 /\ m = 0 /\ n \in Nat
    BY <1>2
  <2>2. n < columns /\ n < mb * nb
    BY <1>2, <2>1
  <2>3. Swizzled(j, 1, columns, group, n).m = 0 /\ Swizzled(j, 1, columns, group, n).n = n
    BY <2>1, <2>2, OneRowSwizzle
  <2>. QED  BY <2>1, <2>2, <2>3, IndexedBy
<1>. QED  BY <1>1, <1>2 DEF SwizzleFits

-----------------------------------------------------------------------------
(* Sums that rise. *)

\* Sums is defined by its recursion.
LEMMA SumsAre ==
  ASSUME NEW K \in Nat, NEW a \in [0 .. K - 1 -> Nat]
  PROVE  /\ Sums(K, a) \in [0 .. K -> Nat] /\ Sums(K, a)[0] = 0
         /\ \A e \in 0 .. K - 1 : Sums(K, a)[e + 1] = Sums(K, a)[e] + a[e]
BY PrefixSums DEF Sums

\* Sums of natural numbers rise.
LEMMA SumsRise ==
  ASSUME NEW K \in Nat, NEW a \in [0 .. K - 1 -> Nat], NEW i \in 0 .. K, NEW k \in i .. K
  PROVE  Sums(K, a)[i] <= Sums(K, a)[k]
<1>1. PICK f \in [0 .. K -> Nat] : f = Sums(K, a) /\ \A e \in 0 .. K - 1 : f[e + 1] = f[e] + a[e]
  <2>1. PICK f : f = Sums(K, a)
    OBVIOUS
  <2>2. f \in [0 .. K -> Nat] /\ \A e \in 0 .. K - 1 : f[e + 1] = f[e] + a[e]
    BY <2>1, SumsAre
  <2>. QED  BY <2>1, <2>2
<1>. DEFINE S == {d \in 0 .. K - i : f[i] <= f[i + d]}
<1>2. 0 \in S
  BY <1>1
<1>3. ASSUME NEW d \in 0 .. (k - i) - 1, d \in S  PROVE d + 1 \in S
  <2>1. PICK e \in 0 .. K - 1 : e = i + d
    OBVIOUS
  <2>2. f[i] <= f[e] /\ f[e + 1] = f[e] + a[e] /\ a[e] \in Nat /\ f[e] \in Nat /\ f[i] \in Nat
    BY <1>1, <1>3, <2>1
  <2>3. f[i] <= f[e + 1] /\ e + 1 = i + (d + 1) /\ d + 1 \in 0 .. K - i
    BY <2>1, <2>2
  <2>. QED  BY <2>3
<1>4. k - i \in S
  <2>1. k - i \in Nat
    OBVIOUS
  <2>. HIDE DEF S
  <2>. QED  BY <1>2, <1>3, <2>1, UpTo
<1>5. i + (k - i) = k
  OBVIOUS
<1>. QED  BY <1>1, <1>4, <1>5

\* An index below the last sum lies in one of the parts.
LEMMA SumsReach ==
  ASSUME NEW K \in Nat, NEW a \in [0 .. K - 1 -> Nat], NEW x \in Nat, x < Sums(K, a)[K]
  PROVE  \E e \in 0 .. K - 1 : Sums(K, a)[e] <= x /\ x < Sums(K, a)[e + 1]
<1>1. PICK f \in [0 .. K -> Nat] : f = Sums(K, a) /\ f[0] = 0
  BY SumsAre
<1>. DEFINE T == {k \in 0 .. K : x < f[k]}
<1>2. T \subseteq Nat /\ K \in T
  BY <1>1
<1>3. PICK k \in T : \A y \in T : k <= y
  <2>. HIDE DEF T
  <2>. QED  BY <1>2, LeastMember
<1>4. k # 0
  BY <1>1, <1>3
<1>5. k - 1 \in 0 .. K - 1 /\ ~(x < f[k - 1]) /\ (k - 1) + 1 = k
  BY <1>3, <1>4
<1>6. f[k - 1] \in Nat
  BY <1>5
<1>. QED  BY <1>1, <1>3, <1>5, <1>6

-----------------------------------------------------------------------------
(* The tiles of a launch. *)

\* What a host launches without a list of blocks.
Listless(j) ==
  /\ j.scheduler \in {"walk", "expand", "builders"}
  /\ j.kind \in {"normal", "batched", "contiguous", "masked", "nopad"}
  /\ Sized(j)
  /\ IsDynamic(j) => InUnits(j)

\* The groups, their rows and the rows of the output before them.
Parts(j) == IF j.kind \in {"normal", "contiguous"} THEN {0} ELSE GroupIds(j)
Height(j, g) == IF Walks(j) THEN j.sizes[g] ELSE j.shapeM
Ahead(j, g) == IF Walks(j) THEN RowsBefore(j, g) ELSE 0

Rows(j, g) == BlockRows(j, Height(j, g))
Cols(j, g) == BlockCols(j, Height(j, g))

\* The tile of an index, and how many there are.
GroupAt(j, x) == CHOOSE g \in GroupIds(j) : TilesBefore(j, g) <= x /\ x < TilesBefore(j, g + 1)

TileOf(j, g, x) ==
  Tile(j, g, j.sizes[g], RowsBefore(j, g),
       Swizzled(j, GroupMBlocks(j, j.sizes[g]), SwizzleColumns(j, j.sizes[g]), g, x - TilesBefore(j, g)))

TileAt(j, x) ==
  IF Walks(j) THEN TileOf(j, GroupAt(j, x), x)
  ELSE IF j.kind = "batched" THEN BatchedTile(j, x) ELSE FlatTile(j, x)

Total(j) == IF Walks(j) THEN TilesBefore(j, j.groups) ELSE TileCount(j, <<>>)

Block(j, t, g, m, n) ==
  t.group = g /\ t.rows = Height(j, g) /\ t.before = Ahead(j, g) /\ t.m = m /\ t.n = n

InJob(j, g, m, n) == g \in Parts(j) /\ m \in 0 .. Rows(j, g) - 1 /\ n \in 0 .. Cols(j, g) - 1

TilesAreBlocks(j) ==
  \A x \in 0 .. Total(j) - 1 : \E g, m, n : InJob(j, g, m, n) /\ Block(j, TileAt(j, x), g, m, n)
TilesDiffer(j) ==
  \A x, y \in 0 .. Total(j) - 1 :
    /\ TileAt(j, x).group = TileAt(j, y).group
    /\ TileAt(j, x).m = TileAt(j, y).m /\ TileAt(j, x).n = TileAt(j, y).n
    => x = y
BlocksHaveTiles(j) ==
  \A g, m, n : InJob(j, g, m, n) => \E x \in 0 .. Total(j) - 1 : Block(j, TileAt(j, x), g, m, n)
Enumerates(j) == Total(j) \in Nat /\ TilesAreBlocks(j) /\ TilesDiffer(j) /\ BlocksHaveTiles(j)

\* The numbers of a part.
LEMMA PartNumbers ==
  ASSUME NEW j, Listless(j), NEW g \in Parts(j)
  PROVE  /\ g \in Nat /\ Height(j, g) \in Nat
         /\ GroupCovered(j, Height(j, g))
         /\ Rows(j, g) \in Nat /\ Cols(j, g) \in Nat
         /\ j.n \in Nat \ {0} /\ j.width \in Nat \ {0}
         /\ TileM(j, Height(j, g)) \in Nat \ {0} /\ TileN(j, Height(j, g)) \in Nat \ {0}
         /\ g \in 0 .. j.groups - 1 /\ j.groups \in Nat \ {0}
<1>1. /\ j.n \in Nat \ {0} /\ j.width \in Nat \ {0} /\ j.shapeM \in Nat /\ j.groups \in Nat \ {0}
      /\ Walks(j) => j.sizes \in [GroupIds(j) -> Nat]
  BY DEF Listless, Sized, Walks
<1>2. g \in GroupIds(j)
  BY <1>1 DEF Parts, GroupIds
<1>3. Height(j, g) \in Nat
  BY <1>1, <1>2 DEF Height
<1>4. GroupCovered(j, Height(j, g))
  BY <1>3, EveryGroupCovered DEF Listless
<1>5. TileM(j, Height(j, g)) \in Nat \ {0} /\ TileN(j, Height(j, g)) \in Nat \ {0}
  BY <1>4 DEF GroupCovered
<1>6. PICK h \in Nat, a \in Nat \ {0}, b \in Nat \ {0}, n \in Nat \ {0} :
         h = Height(j, g) /\ a = TileM(j, Height(j, g)) /\ b = TileN(j, Height(j, g)) /\ n = j.n
  BY <1>1, <1>3, <1>5
<1>7. UpDiv(h, a) \in Nat /\ UpDiv(n, b) \in Nat \ {0}
  BY <1>6, UpDivFacts
<1>8. Rows(j, g) = UpDiv(h, a) /\ Cols(j, g) \in {UpDiv(n, b), UpDiv(n, b) - 1}
  BY <1>6 DEF Rows, Cols, BlockRows, BlockCols
<1>. QED  BY <1>1, <1>2, <1>3, <1>4, <1>5, <1>7, <1>8 DEF GroupIds

-----------------------------------------------------------------------------
(* Walked groups. *)

TilesOf(j) == [h \in GroupIds(j) |-> GroupTiles(j, j.sizes[h])]

\* The numbers of a job whose groups are walked.
LEMMA WalkedNumbers ==
  ASSUME NEW j, Listless(j), Walks(j)
  PROVE  /\ j.groups \in Nat \ {0} /\ GroupIds(j) = 0 .. j.groups - 1 /\ Parts(j) = GroupIds(j)
         /\ j.sizes \in [0 .. j.groups - 1 -> Nat] /\ TilesOf(j) \in [0 .. j.groups - 1 -> Nat]
         /\ \A g \in GroupIds(j) : TilesOf(j)[g] = Rows(j, g) * Cols(j, g) /\ Height(j, g) = j.sizes[g]
<1>1. /\ j.groups \in Nat \ {0} /\ GroupIds(j) = 0 .. j.groups - 1 /\ Parts(j) = GroupIds(j)
      /\ j.sizes \in [0 .. j.groups - 1 -> Nat]
  BY DEF Listless, Sized, Walks, GroupIds, Parts
<1>2. ASSUME NEW g \in GroupIds(j)
      PROVE  /\ TilesOf(j)[g] = Rows(j, g) * Cols(j, g) /\ Height(j, g) = j.sizes[g]
             /\ TilesOf(j)[g] \in Nat
  <2>1. Height(j, g) = j.sizes[g]
    BY DEF Height
  <2>2. Rows(j, g) \in Nat /\ Cols(j, g) \in Nat /\ GroupCovered(j, Height(j, g))
    BY <1>1, PartNumbers
  <2>3. GroupTiles(j, j.sizes[g]) = Rows(j, g) * Cols(j, g)
    BY <2>1, <2>2 DEF GroupCovered, Rows, Cols
  <2>4. TilesOf(j)[g] = GroupTiles(j, j.sizes[g])
    BY DEF TilesOf
  <2>5. PICK a \in Nat, b \in Nat : a = Rows(j, g) /\ b = Cols(j, g)
    BY <2>2
  <2>. QED  BY <2>1, <2>3, <2>4, <2>5
<1>3. TilesOf(j) = [h \in GroupIds(j) |-> TilesOf(j)[h]]
  BY DEF TilesOf
<1>4. TilesOf(j) \in [0 .. j.groups - 1 -> Nat]
  BY <1>1, <1>2, <1>3
<1>. QED  BY <1>1, <1>2, <1>4

\* The tiles and rows before a group add up those of the groups before it.
LEMMA SumsOfWalk ==
  ASSUME NEW j, Listless(j), Walks(j)
  PROVE  /\ \A g \in 0 .. j.groups : TilesBefore(j, g) \in Nat /\ RowsBefore(j, g) \in Nat
         /\ TilesBefore(j, 0) = 0 /\ RowsBefore(j, 0) = 0
         /\ \A g \in GroupIds(j) : TilesBefore(j, g + 1) = TilesBefore(j, g) + Rows(j, g) * Cols(j, g)
         /\ \A g \in GroupIds(j) : RowsBefore(j, g + 1) = RowsBefore(j, g) + j.sizes[g]
<1>1. PICK K \in Nat \ {0} : K = j.groups /\ GroupIds(j) = 0 .. K - 1
  BY WalkedNumbers
<1>2. PICK a \in [0 .. K - 1 -> Nat], b \in [0 .. K - 1 -> Nat] : a = TilesOf(j) /\ b = j.sizes
  BY <1>1, WalkedNumbers
<1>3. \A g : TilesBefore(j, g) = Sums(K, a)[g] /\ RowsBefore(j, g) = Sums(K, b)[g]
  BY <1>1, <1>2 DEF TilesBefore, RowsBefore, TilesOf
<1>4. \A g \in GroupIds(j) : a[g] = Rows(j, g) * Cols(j, g) /\ b[g] = j.sizes[g]
  BY <1>2, WalkedNumbers
<1>5. /\ Sums(K, a) \in [0 .. K -> Nat] /\ Sums(K, a)[0] = 0
      /\ \A e \in 0 .. K - 1 : Sums(K, a)[e + 1] = Sums(K, a)[e] + a[e]
  BY SumsAre
<1>6. /\ Sums(K, b) \in [0 .. K -> Nat] /\ Sums(K, b)[0] = 0
      /\ \A e \in 0 .. K - 1 : Sums(K, b)[e + 1] = Sums(K, b)[e] + b[e]
  BY SumsAre
<1>7. ASSUME NEW g \in GroupIds(j)
      PROVE  /\ TilesBefore(j, g + 1) = TilesBefore(j, g) + Rows(j, g) * Cols(j, g)
             /\ RowsBefore(j, g + 1) = RowsBefore(j, g) + j.sizes[g]
  <2>1. g \in 0 .. K - 1
    BY <1>1
  <2>2. Sums(K, a)[g + 1] = Sums(K, a)[g] + a[g] /\ Sums(K, b)[g + 1] = Sums(K, b)[g] + b[g]
    BY <1>5, <1>6, <2>1
  <2>3. a[g] = Rows(j, g) * Cols(j, g) /\ b[g] = j.sizes[g]
    BY <1>4
  <2>4. TilesBefore(j, g + 1) = Sums(K, a)[g + 1] /\ RowsBefore(j, g + 1) = Sums(K, b)[g + 1]
    BY <1>3, Zenon
  <2>5. TilesBefore(j, g) = Sums(K, a)[g] /\ RowsBefore(j, g) = Sums(K, b)[g]
    BY <1>3, Zenon
  <2>. QED  BY <2>2, <2>3, <2>4, <2>5, Zenon
<1>8. ASSUME NEW g \in 0 .. j.groups
      PROVE  TilesBefore(j, g) \in Nat /\ RowsBefore(j, g) \in Nat
  <2>1. g \in 0 .. K
    BY <1>1
  <2>2. Sums(K, a)[g] \in Nat /\ Sums(K, b)[g] \in Nat
    BY <1>5, <1>6, <2>1
  <2>3. TilesBefore(j, g) = Sums(K, a)[g] /\ RowsBefore(j, g) = Sums(K, b)[g]
    BY <1>3, Zenon
  <2>. QED  BY <2>2, <2>3
<1>9. TilesBefore(j, 0) = 0 /\ RowsBefore(j, 0) = 0
  BY <1>3, <1>5, <1>6, Zenon
<1>. QED  BY <1>7, <1>8, <1>9

\* They rise from group to group.
LEMMA WalkRises ==
  ASSUME NEW j, Listless(j), Walks(j), NEW g \in 0 .. j.groups, NEW h \in g .. j.groups
  PROVE  TilesBefore(j, g) <= TilesBefore(j, h) /\ RowsBefore(j, g) <= RowsBefore(j, h)
<1>1. PICK K \in Nat \ {0} : K = j.groups
  BY WalkedNumbers
<1>2. PICK a \in [0 .. K - 1 -> Nat], b \in [0 .. K - 1 -> Nat] : a = TilesOf(j) /\ b = j.sizes
  BY <1>1, WalkedNumbers
<1>3. \A e : TilesBefore(j, e) = Sums(K, a)[e] /\ RowsBefore(j, e) = Sums(K, b)[e]
  BY <1>1, <1>2 DEF TilesBefore, RowsBefore, TilesOf
<1>4. Sums(K, a)[g] <= Sums(K, a)[h] /\ Sums(K, b)[g] <= Sums(K, b)[h]
  <2>1. g \in 0 .. K /\ h \in g .. K
    BY <1>1
  <2>. QED  BY <2>1, SumsRise
<1>. QED  BY <1>3, <1>4

\* The group of an index.
LEMMA GroupOfIndex ==
  ASSUME NEW j, Listless(j), Walks(j), NEW x \in Nat, x < TilesBefore(j, j.groups)
  PROVE  /\ GroupAt(j, x) \in GroupIds(j)
         /\ TilesBefore(j, GroupAt(j, x)) <= x /\ x < TilesBefore(j, GroupAt(j, x) + 1)
<1>1. PICK K \in Nat \ {0} : K = j.groups /\ GroupIds(j) = 0 .. K - 1
  BY WalkedNumbers
<1>2. PICK a \in [0 .. K - 1 -> Nat] : a = TilesOf(j)
  BY <1>1, WalkedNumbers
<1>3. \A e : TilesBefore(j, e) = Sums(K, a)[e]
  BY <1>1, <1>2 DEF TilesBefore, TilesOf
<1>4. \E e \in 0 .. K - 1 : Sums(K, a)[e] <= x /\ x < Sums(K, a)[e + 1]
  <2>1. x < Sums(K, a)[K]
    BY <1>1, <1>3
  <2>. QED  BY <2>1, SumsReach
<1>5. \E g \in GroupIds(j) : TilesBefore(j, g) <= x /\ x < TilesBefore(j, g + 1)
  BY <1>1, <1>3, <1>4
<1>. QED  BY <1>5 DEF GroupAt

\* The group an index lies in is the only one.
LEMMA GroupOfIndexIs ==
  ASSUME NEW j, Listless(j), Walks(j), NEW x \in Nat, NEW g \in GroupIds(j),
         TilesBefore(j, g) <= x, x < TilesBefore(j, g + 1)
  PROVE  x < TilesBefore(j, j.groups) /\ GroupAt(j, x) = g
<1>1. PICK K \in Nat \ {0} : K = j.groups /\ GroupIds(j) = 0 .. K - 1
  BY WalkedNumbers
<1>2. PICK f : f = [e \in 0 .. K |-> TilesBefore(j, e)]
  OBVIOUS
<1>3. f \in [0 .. K -> Nat] /\ \A e \in 0 .. K : f[e] = TilesBefore(j, e)
  BY <1>1, <1>2, SumsOfWalk
<1>4. \A e \in 0 .. K, h \in 0 .. K : e <= h => f[e] <= f[h]
  <2>1. SUFFICES ASSUME NEW e \in 0 .. K, NEW h \in 0 .. K, e <= h  PROVE f[e] <= f[h]
    OBVIOUS
  <2>2. e \in 0 .. j.groups /\ h \in e .. j.groups
    BY <1>1, <2>1
  <2>. QED  BY <1>3, <2>2, WalkRises
<1>5. g \in 0 .. K - 1 /\ f[g] <= x /\ x < f[g + 1]
  BY <1>1, <1>3
<1>6. x < f[K]
  <2>1. f[g + 1] <= f[K] /\ f[g + 1] \in Nat /\ f[K] \in Nat
    BY <1>3, <1>4, <1>5
  <2>. QED  BY <1>5, <2>1
<1>7. x < TilesBefore(j, j.groups)
  BY <1>1, <1>3, <1>6
<1>8. PICK h \in 0 .. K - 1 : h = GroupAt(j, x) /\ f[h] <= x /\ x < f[h + 1]
  <2>1. PICK h : h = GroupAt(j, x)
    OBVIOUS
  <2>2. h \in GroupIds(j) /\ TilesBefore(j, h) <= x /\ x < TilesBefore(j, h + 1)
    BY <1>7, <2>1, GroupOfIndex
  <2>3. h \in 0 .. K - 1
    BY <1>1, <2>2
  <2>. QED  BY <1>3, <2>1, <2>2, <2>3
<1>9. ~(h + 1 <= g)
  <2>1. h + 1 <= g => f[h + 1] <= f[g] /\ f[h + 1] \in Nat /\ f[g] \in Nat
    BY <1>3, <1>4, <1>5
  <2>. QED  BY <1>5, <1>8, <2>1
<1>10. ~(g + 1 <= h)
  <2>1. g + 1 <= h => f[g + 1] <= f[h] /\ f[g + 1] \in Nat /\ f[h] \in Nat
    BY <1>3, <1>4, <1>5
  <2>. QED  BY <1>5, <1>8, <2>1
<1>. QED  BY <1>5, <1>7, <1>8, <1>9, <1>10

\* What the tile of an index is.
LEMMA WalkedTileIs ==
  ASSUME NEW j, Listless(j), Walks(j), NEW g \in GroupIds(j), NEW x \in Nat,
         TilesBefore(j, g) <= x, x < TilesBefore(j, g + 1)
  PROVE  LET at == Swizzled(j, Rows(j, g), SwizzleColumns(j, j.sizes[g]), g, x - TilesBefore(j, g))
         IN  /\ x - TilesBefore(j, g) \in Nat /\ x - TilesBefore(j, g) < Rows(j, g) * Cols(j, g)
             /\ SwizzleColumns(j, j.sizes[g]) \in Nat
             /\ SwizzleFits(Rows(j, g), Cols(j, g), SwizzleColumns(j, j.sizes[g]))
             /\ TileAt(j, x) = Tile(j, g, j.sizes[g], RowsBefore(j, g), at)
             /\ Block(j, TileAt(j, x), g, at.m, at.n)
<1>1. GroupAt(j, x) = g
  BY GroupOfIndexIs
<1>2. Height(j, g) = j.sizes[g] /\ Ahead(j, g) = RowsBefore(j, g)
  BY DEF Height, Ahead
<1>3. GroupCovered(j, j.sizes[g]) /\ Rows(j, g) \in Nat /\ Cols(j, g) \in Nat
  BY <1>2, WalkedNumbers, PartNumbers
<1>4. /\ GroupMBlocks(j, j.sizes[g]) = Rows(j, g)
      /\ SwizzleColumns(j, j.sizes[g]) \in Nat
      /\ SwizzleFits(Rows(j, g), Cols(j, g), SwizzleColumns(j, j.sizes[g]))
  BY <1>2, <1>3 DEF GroupCovered, SwizzleFits, Rows, Cols
<1>5. g \in 0 .. j.groups /\ TilesBefore(j, g) \in Nat
  <2>1. j.groups \in Nat \ {0} /\ g \in 0 .. j.groups - 1
    BY WalkedNumbers
  <2>2. g \in 0 .. j.groups
    BY <2>1
  <2>. QED  BY <2>2, SumsOfWalk
<1>6. TilesBefore(j, g + 1) = TilesBefore(j, g) + Rows(j, g) * Cols(j, g)
  BY SumsOfWalk
<1>7. x - TilesBefore(j, g) \in Nat /\ x - TilesBefore(j, g) < Rows(j, g) * Cols(j, g)
  <2>1. PICK t \in Nat, a \in Nat, b \in Nat : t = TilesBefore(j, g) /\ a = Rows(j, g) /\ b = Cols(j, g)
    BY <1>3, <1>5
  <2>2. PICK p \in Nat : p = a * b
    OBVIOUS
  <2>. QED  BY <1>6, <2>1, <2>2
<1>8. TileAt(j, x) = TileOf(j, g, x)
  BY <1>1 DEF TileAt
<1>. QED  BY <1>2, <1>4, <1>7, <1>8 DEF TileOf, Tile, Block

\* The walk numbers the blocks of all groups, one index each.
LEMMA WalkEnumerates ==
  ASSUME NEW j, Listless(j), Walks(j)
  PROVE  Enumerates(j)
<1>0. PICK K \in Nat \ {0} : K = j.groups /\ GroupIds(j) = 0 .. K - 1 /\ Parts(j) = 0 .. K - 1
  BY WalkedNumbers
<1>1. PICK T \in Nat : T = Total(j) /\ T = TilesBefore(j, j.groups)
  <2>1. K \in 0 .. j.groups
    BY <1>0
  <2>. QED  BY <1>0, <2>1, SumsOfWalk DEF Total
<1>2. j.width \in Nat \ {0}
  BY DEF Listless, Sized
<1>3. ASSUME NEW x \in 0 .. T - 1
      PROVE  /\ GroupAt(j, x) \in 0 .. K - 1
             /\ TilesBefore(j, GroupAt(j, x)) <= x /\ x < TilesBefore(j, GroupAt(j, x) + 1)
  BY <1>0, <1>1, GroupOfIndex
<1>4. TilesAreBlocks(j)
  <2>1. SUFFICES ASSUME NEW x \in 0 .. T - 1
                 PROVE  \E g, m, n : InJob(j, g, m, n) /\ Block(j, TileAt(j, x), g, m, n)
    BY <1>1 DEF TilesAreBlocks
  <2>2. PICK g \in 0 .. K - 1 : g = GroupAt(j, x) /\ TilesBefore(j, g) <= x /\ x < TilesBefore(j, g + 1)
    BY <1>3
  <2>3. PICK at : at = Swizzled(j, Rows(j, g), SwizzleColumns(j, j.sizes[g]), g, x - TilesBefore(j, g))
    OBVIOUS
  <2>4. /\ x - TilesBefore(j, g) \in Nat /\ x - TilesBefore(j, g) < Rows(j, g) * Cols(j, g)
        /\ SwizzleColumns(j, j.sizes[g]) \in Nat
        /\ SwizzleFits(Rows(j, g), Cols(j, g), SwizzleColumns(j, j.sizes[g]))
        /\ Block(j, TileAt(j, x), g, at.m, at.n)
    BY <1>0, <2>2, <2>3, WalkedTileIs
  <2>5. Rows(j, g) \in Nat /\ Cols(j, g) \in Nat /\ g \in Nat
    BY <1>0, PartNumbers
  <2>6. at.m \in 0 .. Rows(j, g) - 1 /\ at.n \in 0 .. Cols(j, g) - 1
    BY <1>2, <2>3, <2>4, <2>5, FitInRange
  <2>7. InJob(j, g, at.m, at.n)
    BY <1>0, <2>6 DEF InJob
  <2>. QED  BY <2>4, <2>7
<1>5. TilesDiffer(j)
  <2>1. SUFFICES ASSUME NEW x \in 0 .. T - 1, NEW y \in 0 .. T - 1,
                        TileAt(j, x).group = TileAt(j, y).group,
                        TileAt(j, x).m = TileAt(j, y).m, TileAt(j, x).n = TileAt(j, y).n
                 PROVE  x = y
    BY <1>1 DEF TilesDiffer
  <2>2. PICK g \in 0 .. K - 1 : g = GroupAt(j, x) /\ TilesBefore(j, g) <= x /\ x < TilesBefore(j, g + 1)
    BY <1>3
  <2>3. PICK h \in 0 .. K - 1 : h = GroupAt(j, y) /\ TilesBefore(j, h) <= y /\ y < TilesBefore(j, h + 1)
    BY <1>3
  <2>4. PICK a : a = Swizzled(j, Rows(j, g), SwizzleColumns(j, j.sizes[g]), g, x - TilesBefore(j, g))
    OBVIOUS
  <2>5. PICK b : b = Swizzled(j, Rows(j, h), SwizzleColumns(j, j.sizes[h]), h, y - TilesBefore(j, h))
    OBVIOUS
  <2>6. /\ x - TilesBefore(j, g) \in Nat /\ x - TilesBefore(j, g) < Rows(j, g) * Cols(j, g)
        /\ SwizzleColumns(j, j.sizes[g]) \in Nat
        /\ SwizzleFits(Rows(j, g), Cols(j, g), SwizzleColumns(j, j.sizes[g]))
        /\ Block(j, TileAt(j, x), g, a.m, a.n)
    BY <1>0, <2>2, <2>4, WalkedTileIs
  <2>7. /\ y - TilesBefore(j, h) \in Nat /\ y - TilesBefore(j, h) < Rows(j, h) * Cols(j, h)
        /\ Block(j, TileAt(j, y), h, b.m, b.n)
    BY <1>0, <2>3, <2>5, WalkedTileIs
  <2>8. g = h /\ a.m = b.m /\ a.n = b.n
    BY <2>1, <2>6, <2>7 DEF Block
  <2>9. Rows(j, g) \in Nat /\ Cols(j, g) \in Nat /\ g \in Nat
    BY <1>0, PartNumbers
  <2>10. x - TilesBefore(j, g) = y - TilesBefore(j, g)
    <3>1. PICK d, e : d = x - TilesBefore(j, g) /\ e = y - TilesBefore(j, g)
      OBVIOUS
    <3>2. PICK mb \in Nat, nb \in Nat, columns \in Nat :
            mb = Rows(j, g) /\ nb = Cols(j, g) /\ columns = SwizzleColumns(j, j.sizes[g])
      BY <2>6, <2>9
    <3>3. d \in Nat /\ d < mb * nb /\ e \in Nat /\ e < mb * nb
      BY <2>6, <2>7, <2>8, <3>1, <3>2
    <3>4. a = Swizzled(j, mb, columns, g, d) /\ b = Swizzled(j, mb, columns, g, e)
      BY <2>4, <2>5, <2>8, <3>1, <3>2
    <3>5. SwizzleFits(mb, nb, columns)
      BY <2>6, <3>2
    <3>6. d = e
      <4>1. /\ Swizzled(j, mb, columns, g, d).m = Swizzled(j, mb, columns, g, e).m
            /\ Swizzled(j, mb, columns, g, d).n = Swizzled(j, mb, columns, g, e).n
        BY <2>8, <3>4
      <4>. QED  BY <1>2, <2>9, <3>3, <3>5, <4>1, FitInjective
    <3>. QED  BY <3>1, <3>6
  <2>11. TilesBefore(j, g) \in Nat
    <3>1. g \in 0 .. j.groups
      BY <1>0
    <3>. QED  BY <3>1, SumsOfWalk
  <2>. QED  BY <2>10, <2>11
<1>6. BlocksHaveTiles(j)
  <2>1. SUFFICES ASSUME NEW g, NEW m, NEW n, InJob(j, g, m, n)
                 PROVE  \E x \in 0 .. T - 1 : Block(j, TileAt(j, x), g, m, n)
    BY <1>1 DEF BlocksHaveTiles
  <2>2. g \in 0 .. K - 1 /\ m \in 0 .. Rows(j, g) - 1 /\ n \in 0 .. Cols(j, g) - 1
    BY <1>0, <2>1 DEF InJob
  <2>3. PICK mb \in Nat, nb \in Nat : mb = Rows(j, g) /\ nb = Cols(j, g)
    BY <1>0, <2>2, PartNumbers
  <2>4. PICK columns \in Nat : columns = SwizzleColumns(j, j.sizes[g]) /\ SwizzleFits(mb, nb, columns)
    <3>1. GroupCovered(j, Height(j, g)) /\ Height(j, g) = j.sizes[g]
      BY <1>0, <2>2, PartNumbers DEF Height
    <3>. QED  BY <2>3, <3>1 DEF GroupCovered, SwizzleFits, Rows, Cols
  <2>5. PICK idx : idx = IndexOf(j, mb, columns, g, m, n, mb * nb)
    OBVIOUS
  <2>6. /\ idx \in Nat /\ idx < mb * nb
        /\ Swizzled(j, mb, columns, g, idx).m = m /\ Swizzled(j, mb, columns, g, idx).n = n
    <3>1. g \in Nat /\ m \in 0 .. mb - 1 /\ n \in 0 .. nb - 1
      BY <2>2, <2>3
    <3>2. Indexed(j, mb, columns, g, m, n, mb * nb)
      BY <1>2, <2>4, <3>1, FitOnto
    <3>. QED  BY <2>5, <3>2 DEF Indexed
  <2>7. PICK t \in Nat, u \in Nat : t = TilesBefore(j, g) /\ u = TilesBefore(j, g + 1) /\ u = t + mb * nb
    <3>1. g \in 0 .. j.groups /\ g + 1 \in 0 .. j.groups
      BY <1>0, <2>2
    <3>2. TilesBefore(j, g) \in Nat /\ TilesBefore(j, g + 1) \in Nat
      BY <3>1, SumsOfWalk
    <3>3. TilesBefore(j, g + 1) = TilesBefore(j, g) + mb * nb
      BY <1>0, <2>2, <2>3, SumsOfWalk
    <3>. QED  BY <3>2, <3>3
  <2>8. PICK x \in Nat : x = t + idx /\ x - t = idx /\ t <= x /\ x < u
    <3>1. PICK p \in Nat : p = mb * nb
      OBVIOUS
    <3>. QED  BY <2>6, <2>7, <3>1
  <2>9. x < T
    <3>1. g \in GroupIds(j) /\ TilesBefore(j, g) <= x /\ x < TilesBefore(j, g + 1)
      BY <1>0, <2>2, <2>7, <2>8
    <3>2. x < TilesBefore(j, j.groups)
      BY <3>1, GroupOfIndexIs
    <3>. QED  BY <1>1, <3>2
  <2>10. Block(j, TileAt(j, x), g, m, n)
    BY <1>0, <2>2, <2>3, <2>4, <2>6, <2>7, <2>8, WalkedTileIs
  <2>. QED  BY <2>8, <2>9, <2>10
<1>. QED  BY <1>1, <1>4, <1>5, <1>6 DEF Enumerates

-----------------------------------------------------------------------------
(* One matrix, and batches. *)

\* The numbers of a job without groups to walk.
LEMMA FlatNumbers ==
  ASSUME NEW j, Listless(j), ~Walks(j)
  PROVE  /\ j.kind \in {"normal", "batched", "contiguous"}
         /\ ~IsDynamic(j) /\ j.shapeM \in Nat /\ j.groups \in Nat \ {0}
         /\ \A g \in Parts(j) : Height(j, g) = j.shapeM /\ Ahead(j, g) = 0
         /\ \E mb \in Nat, nb \in Nat \ {0} :
              /\ mb = UpDiv(j.shapeM, j.bm) /\ nb = ColumnBlocks(j) /\ FlatBlocks(j) = mb * nb
              /\ \A g \in Parts(j) : Rows(j, g) = mb /\ Cols(j, g) = nb
<1>1. j.kind \in {"normal", "batched", "contiguous"}
  BY DEF Listless, Walks
<1>2. ~IsDynamic(j)
  <2>1. IsDynamic(j) => InUnits(j)
    BY DEF Listless
  <2>2. InUnits(j) => j.kind \in {"masked", "nopad"}
    BY Zenon DEF InUnits
  <2>. QED  BY <1>1, <2>1, <2>2
<1>3. j.shapeM \in Nat /\ j.groups \in Nat \ {0} /\ j.bm \in Nat \ {0} /\ j.n \in Nat \ {0}
  BY DEF Listless, Sized
<1>4. \A g \in Parts(j) : Height(j, g) = j.shapeM /\ Ahead(j, g) = 0
  BY DEF Height, Ahead
<1>5. PICK s \in Nat, b \in Nat \ {0}, n \in Nat \ {0}, c \in Nat \ {0} :
         s = j.shapeM /\ b = j.bm /\ n = j.n /\ c = TileColumns(j) /\ ColumnBlocks(j) = UpDiv(j.n, TileColumns(j))
  <2>1. TileColumns(j) \in Nat \ {0} /\ ColumnBlocks(j) = UpDiv(j.n, TileColumns(j))
    BY ColumnsOfTile DEF Listless
  <2>. QED  BY <1>3, <2>1
<1>6. PICK mb \in Nat, nb \in Nat \ {0} : mb = UpDiv(s, b) /\ nb = UpDiv(n, c)
  BY UpDivFacts
<1>7. mb = UpDiv(j.shapeM, j.bm) /\ nb = ColumnBlocks(j) /\ FlatBlocks(j) = mb * nb
  BY <1>5, <1>6 DEF FlatBlocks
<1>8. ASSUME NEW g \in Parts(j)  PROVE Rows(j, g) = mb /\ Cols(j, g) = nb
  BY <1>2, <1>4, <1>5, <1>6 DEF Rows, Cols, BlockRows, BlockCols, HalvesOdd, IsDynamic, TileM, TileN
<1>. QED  BY <1>1, <1>2, <1>3, <1>4, <1>7, <1>8

\* A dense or contiguous job numbers its blocks by the swizzle alone.
LEMMA FlatEnumerates ==
  ASSUME NEW j, Listless(j), j.kind \in {"normal", "contiguous"}
  PROVE  Enumerates(j)
<1>0. ~Walks(j) /\ Parts(j) = {0} /\ j.width \in Nat \ {0} /\ j.scheduler \notin {"table", "fused"}
  BY DEF Walks, Parts, Listless, Sized
<1>1. PICK mb \in Nat, nb \in Nat \ {0} :
         /\ mb = UpDiv(j.shapeM, j.bm) /\ nb = ColumnBlocks(j) /\ FlatBlocks(j) = mb * nb
         /\ \A g \in Parts(j) : Rows(j, g) = mb /\ Cols(j, g) = nb
  BY <1>0, FlatNumbers
<1>2. PICK T \in Nat : T = Total(j) /\ T = mb * nb
  BY <1>0, <1>1 DEF Total, TileCount
<1>3. ASSUME NEW x
      PROVE  Block(j, TileAt(j, x), 0, Swizzled(j, mb, nb, 0, x).m, Swizzled(j, mb, nb, 0, x).n)
  <2>1. Height(j, 0) = j.shapeM /\ Ahead(j, 0) = 0
    BY <1>0, FlatNumbers
  <2>. QED  BY <1>0, <1>1, <2>1 DEF TileAt, FlatTile, Tile, Block
<1>4. \A m, n : InJob(j, 0, m, n) <=> m \in 0 .. mb - 1 /\ n \in 0 .. nb - 1
  BY <1>0, <1>1 DEF InJob
<1>5. TilesAreBlocks(j)
  <2>1. SUFFICES ASSUME NEW x \in 0 .. T - 1
                 PROVE  \E g, m, n : InJob(j, g, m, n) /\ Block(j, TileAt(j, x), g, m, n)
    BY <1>2 DEF TilesAreBlocks
  <2>2. Swizzled(j, mb, nb, 0, x).m \in 0 .. mb - 1 /\ Swizzled(j, mb, nb, 0, x).n \in 0 .. nb - 1
    BY <1>0, <1>2, SwizzledInRange
  <2>3. InJob(j, 0, Swizzled(j, mb, nb, 0, x).m, Swizzled(j, mb, nb, 0, x).n)
    BY <1>4, <2>2
  <2>. QED  BY <1>3, <2>3
<1>6. TilesDiffer(j)
  <2>1. SUFFICES ASSUME NEW x \in 0 .. T - 1, NEW y \in 0 .. T - 1,
                        TileAt(j, x).m = TileAt(j, y).m, TileAt(j, x).n = TileAt(j, y).n
                 PROVE  x = y
    BY <1>2 DEF TilesDiffer
  <2>2. /\ Swizzled(j, mb, nb, 0, x).m = Swizzled(j, mb, nb, 0, y).m
        /\ Swizzled(j, mb, nb, 0, x).n = Swizzled(j, mb, nb, 0, y).n
    BY <1>3, <2>1 DEF Block
  <2>. QED  BY <1>0, <1>2, <2>2, SwizzledInjective
<1>7. BlocksHaveTiles(j)
  <2>1. SUFFICES ASSUME NEW g, NEW m, NEW n, InJob(j, g, m, n)
                 PROVE  \E x \in 0 .. T - 1 : Block(j, TileAt(j, x), g, m, n)
    BY <1>2 DEF BlocksHaveTiles
  <2>2. g = 0 /\ m \in 0 .. mb - 1 /\ n \in 0 .. nb - 1
    BY <1>0, <1>4, <2>1 DEF InJob
  <2>3. Indexed(j, mb, nb, 0, m, n, mb * nb)
    BY <1>0, <2>2, SwizzledOnto
  <2>4. PICK x : x = IndexOf(j, mb, nb, 0, m, n, mb * nb)
    OBVIOUS
  <2>5. x \in Nat /\ x < T /\ Swizzled(j, mb, nb, 0, x).m = m /\ Swizzled(j, mb, nb, 0, x).n = n
    BY <1>2, <2>3, <2>4 DEF Indexed
  <2>6. Block(j, TileAt(j, x), g, m, n)
    BY <1>3, <2>2, <2>5
  <2>. QED  BY <2>5, <2>6
<1>. QED  BY <1>2, <1>5, <1>6, <1>7 DEF Enumerates

\* An index of a batch and the digits it is made of.
LEMMA Digits ==
  ASSUME NEW mb \in Nat, NEW nb \in Nat \ {0}, NEW g \in Nat, NEW m \in 0 .. mb - 1, NEW n \in 0 .. nb - 1
  PROVE  /\ m * nb + n \in 0 .. mb * nb - 1
         /\ (g * (mb * nb) + (m * nb + n)) \div (mb * nb) = g
         /\ (g * (mb * nb) + (m * nb + n)) % (mb * nb) = m * nb + n
         /\ (m * nb + n) \div nb = m /\ (m * nb + n) % nb = n
<1>1. (m * nb + n) \div nb = m /\ (m * nb + n) % nb = n
  BY Remainder
<1>2. PICK i \in Nat : i = m * nb + n
  OBVIOUS
<1>3. i < mb * nb
  BY <1>1, <1>2, RowOfCell
<1>4. PICK fb \in Nat : fb = mb * nb
  OBVIOUS
<1>5. i \in 0 .. fb - 1 /\ fb > 0
  BY <1>3, <1>4
<1>6. (g * fb + i) \div fb = g /\ (g * fb + i) % fb = i
  BY <1>5, Remainder
<1>. QED  BY <1>1, <1>2, <1>4, <1>5, <1>6

HasDigits(mb, nb, gs, x) ==
  \E g \in 0 .. gs - 1, m \in 0 .. mb - 1, n \in 0 .. nb - 1 :
    /\ x = g * (mb * nb) + (m * nb + n)
    /\ x \div (mb * nb) = g /\ x % (mb * nb) = m * nb + n

\* Every index has the three digits of a batched job.
LEMMA DigitsOf ==
  ASSUME NEW mb \in Nat, NEW nb \in Nat \ {0}, NEW gs \in Nat, NEW x \in Nat, x < gs * (mb * nb)
  PROVE  HasDigits(mb, nb, gs, x)
<1>1. PICK fb \in Nat : fb = mb * nb
  OBVIOUS
<1>2. fb > 0
  <2>1. gs * 0 = 0
    OBVIOUS
  <2>. QED  BY <1>1, <2>1
<1>3. PICK g \in Nat, i \in 0 .. fb - 1 : x = g * fb + i /\ x \div fb = g /\ x % fb = i
  BY <1>2, DivMod
<1>4. g < gs
  BY <1>1, <1>2, <1>3, RowOfCell
<1>5. PICK m \in Nat, n \in 0 .. nb - 1 : i = m * nb + n /\ i \div nb = m
  <2>1. nb > 0 /\ i \in Nat
    BY <1>3
  <2>. QED  BY <2>1, DivMod
<1>6. m < mb
  <2>1. i < mb * nb /\ i \in Nat
    BY <1>1, <1>3
  <2>. QED  BY <1>5, <2>1, RowOfCell
<1>7. g \in 0 .. gs - 1 /\ m \in 0 .. mb - 1
  BY <1>4, <1>6
<1>. QED  BY <1>1, <1>3, <1>5, <1>7 DEF HasDigits

\* A batched job numbers its blocks by these digits.
LEMMA BatchesEnumerate ==
  ASSUME NEW j, Listless(j), j.kind = "batched"
  PROVE  Enumerates(j)
<1>0. ~Walks(j) /\ Parts(j) = GroupIds(j) /\ j.scheduler \notin {"table", "fused"}
  BY DEF Walks, Parts, Listless
<1>1. PICK mb \in Nat, nb \in Nat \ {0} :
         /\ mb = UpDiv(j.shapeM, j.bm) /\ nb = ColumnBlocks(j) /\ FlatBlocks(j) = mb * nb
         /\ \A g \in Parts(j) : Rows(j, g) = mb /\ Cols(j, g) = nb
  BY <1>0, FlatNumbers
<1>2. PICK K \in Nat : K = j.groups /\ Parts(j) = 0 .. K - 1
  BY <1>0, FlatNumbers DEF GroupIds
<1>3. PICK T \in Nat : T = Total(j) /\ T = K * (mb * nb)
  <2>1. Total(j) = (mb * nb) * K
    BY <1>0, <1>1, <1>2 DEF Total, TileCount
  <2>. QED  BY <2>1
<1>4. ASSUME NEW x, NEW g \in Parts(j), NEW m \in 0 .. mb - 1, NEW n \in 0 .. nb - 1,
             x \div (mb * nb) = g /\ x % (mb * nb) = m * nb + n
      PROVE  Block(j, TileAt(j, x), g, m, n)
  <2>1. Height(j, g) = j.shapeM /\ Ahead(j, g) = 0
    BY <1>0, <1>4, FlatNumbers
  <2>2. m \in Nat /\ n \in 0 .. nb - 1 /\ nb > 0
    OBVIOUS
  <2>3. (m * nb + n) \div nb = m /\ (m * nb + n) % nb = n
    BY <2>2, Remainder
  <2>. QED  BY <1>0, <1>1, <1>4, <2>1, <2>3 DEF TileAt, BatchedTile, Tile, Block
<1>5. ASSUME NEW x \in 0 .. T - 1
      PROVE  \E g \in Parts(j), m \in 0 .. mb - 1, n \in 0 .. nb - 1 :
               /\ x = g * (mb * nb) + (m * nb + n)
               /\ Block(j, TileAt(j, x), g, m, n)
  <2>1. x \in Nat /\ x < K * (mb * nb)
    BY <1>3
  <2>2. PICK g \in 0 .. K - 1, m \in 0 .. mb - 1, n \in 0 .. nb - 1 :
           /\ x = g * (mb * nb) + (m * nb + n)
           /\ x \div (mb * nb) = g /\ x % (mb * nb) = m * nb + n
    <3>1. HasDigits(mb, nb, K, x)
      BY <2>1, DigitsOf
    <3>. QED  BY <3>1 DEF HasDigits
  <2>3. g \in Parts(j)
    BY <1>2
  <2>. QED  BY <1>4, <2>2, <2>3
<1>6. \A g, m, n : InJob(j, g, m, n) <=> g \in Parts(j) /\ m \in 0 .. mb - 1 /\ n \in 0 .. nb - 1
  BY <1>1 DEF InJob
<1>7. TilesAreBlocks(j)
  BY <1>3, <1>5, <1>6 DEF TilesAreBlocks
<1>8. TilesDiffer(j)
  <2>1. SUFFICES ASSUME NEW x \in 0 .. T - 1, NEW y \in 0 .. T - 1,
                        TileAt(j, x).group = TileAt(j, y).group,
                        TileAt(j, x).m = TileAt(j, y).m, TileAt(j, x).n = TileAt(j, y).n
                 PROVE  x = y
    BY <1>3 DEF TilesDiffer
  <2>2. PICK g \in Parts(j), m \in 0 .. mb - 1, n \in 0 .. nb - 1 :
          x = g * (mb * nb) + (m * nb + n) /\ Block(j, TileAt(j, x), g, m, n)
    BY <1>5
  <2>3. PICK h \in Parts(j), o \in 0 .. mb - 1, p \in 0 .. nb - 1 :
          y = h * (mb * nb) + (o * nb + p) /\ Block(j, TileAt(j, y), h, o, p)
    BY <1>5
  <2>4. g = h /\ m = o /\ n = p
    BY <2>1, <2>2, <2>3 DEF Block
  <2>. QED  BY <2>2, <2>3, <2>4
<1>9. BlocksHaveTiles(j)
  <2>1. SUFFICES ASSUME NEW g, NEW m, NEW n, InJob(j, g, m, n)
                 PROVE  \E x \in 0 .. T - 1 : Block(j, TileAt(j, x), g, m, n)
    BY <1>3 DEF BlocksHaveTiles
  <2>2. g \in 0 .. K - 1 /\ m \in 0 .. mb - 1 /\ n \in 0 .. nb - 1
    BY <1>2, <1>6, <2>1
  <2>3. PICK x \in Nat : x = g * (mb * nb) + (m * nb + n)
    BY <2>2
  <2>4. m * nb + n \in 0 .. mb * nb - 1 /\ x \div (mb * nb) = g /\ x % (mb * nb) = m * nb + n
    <3>1. g \in Nat
      BY <2>2
    <3>2. /\ m * nb + n \in 0 .. mb * nb - 1
          /\ (g * (mb * nb) + (m * nb + n)) \div (mb * nb) = g
          /\ (g * (mb * nb) + (m * nb + n)) % (mb * nb) = m * nb + n
      BY <2>2, <3>1, Digits
    <3>. QED  BY <2>3, <3>2, Zenon
  <2>5. x < K * (mb * nb)
    <3>1. PICK fb \in Nat : fb = mb * nb /\ fb > 0 /\ x \div fb = g /\ g < K
      BY <2>2, <2>4
    <3>. QED  BY <3>1, RowOfCell
  <2>6. Block(j, TileAt(j, x), g, m, n)
    BY <1>2, <1>4, <2>2, <2>4
  <2>. QED  BY <1>3, <2>3, <2>5, <2>6
<1>. QED  BY <1>3, <1>7, <1>8, <1>9 DEF Enumerates

\* The indices below the total and the blocks of the job are in bijection, for
\* every job without a list.
LEMMA EveryLaunchEnumerates ==
  ASSUME NEW j, Listless(j)
  PROVE  Enumerates(j)
<1>1. CASE Walks(j)
  BY <1>1, WalkEnumerates
<1>2. CASE ~Walks(j)
  BY <1>2, FlatNumbers, FlatEnumerates, BatchesEnumerate
<1>. QED  BY <1>1, <1>2

-----------------------------------------------------------------------------
(* The cells of a tile. *)

Cells(j, x) == Stored(j, <<>>, TileAt(j, x))

\* Where the rows of a part are, and the weights of row r.
Base(j, g) ==
  CASE j.kind \in {"masked", "batched"} -> g * j.shapeM
    [] j.kind = "nopad" -> j.base + RowsBefore(j, g)
    [] OTHER -> 0

\* A cell of block (m, n) of part g.
CellOf(j, g, m, n, cell) ==
  \E r \in 0 .. Height(j, g) - 1, c \in 0 .. j.n - 1 :
    /\ r \div TileM(j, Height(j, g)) = m /\ c \div TileN(j, Height(j, g)) = n
    /\ cell = <<Base(j, g) + r, c, Base(j, g) + r,
                IF j.kind = "contiguous" THEN LayoutAt(j, m * j.bm) ELSE g>>

\* The tile of a block stores the rows and columns of the block and nothing else.
LEMMA CellsOfBlock ==
  ASSUME NEW j, Listless(j), NEW g, NEW m, NEW n, InJob(j, g, m, n), NEW t, Block(j, t, g, m, n),
         NEW b
  PROVE  /\ \A cell \in Stored(j, b, t) : CellOf(j, g, m, n, cell)
         /\ \A cell : CellOf(j, g, m, n, cell) => cell \in Stored(j, b, t)
<1>1. g \in Parts(j) /\ m \in Nat /\ n \in Nat
  <2>1. g \in Parts(j) /\ Rows(j, g) \in Nat /\ Cols(j, g) \in Nat
    BY PartNumbers DEF InJob
  <2>. QED  BY <2>1 DEF InJob
<1>2. PICK h \in Nat, a \in Nat \ {0}, d \in Nat \ {0}, K \in Nat :
         /\ h = Height(j, g) /\ a = TileM(j, Height(j, g)) /\ d = TileN(j, Height(j, g)) /\ K = j.n
  BY <1>1, PartNumbers
<1>3. t.group = g /\ t.rows = h /\ t.before = Ahead(j, g) /\ t.m = m /\ t.n = n
  BY <1>2 DEF Block
<1>4. FirstRow(j, t) = Base(j, g)
  <2>1. j.kind \in {"normal", "batched", "contiguous", "masked", "nopad"}
    BY DEF Listless
  <2>2. j.kind = "nopad" => Ahead(j, g) = RowsBefore(j, g)
    BY DEF Ahead, Walks, Listless
  <2>3. CASE j.kind = "nopad"
    BY <1>3, <2>2, <2>3 DEF FirstRow, Base
  <2>4. CASE j.kind \in {"masked", "batched"}
    BY <1>3, <2>4 DEF FirstRow, Base
  <2>5. CASE j.kind \in {"normal", "contiguous"}
    BY <2>5 DEF FirstRow, Base
  <2>. QED  BY <2>1, <2>3, <2>4, <2>5
<1>5. \A r : SourceRow(j, b, t, r) = Base(j, g) + r
  BY <1>4 DEF SourceRow, Listless
<1>6. Weights(j, t) = IF j.kind = "contiguous" THEN LayoutAt(j, m * j.bm) ELSE g
  BY <1>3 DEF Weights
<1>7. TileRows(j, t) = {r \in 0 .. h - 1 : r \div a = m}
  <2>1. TileRows(j, t) = {r \in m * a .. (m + 1) * a - 1 : r < h}
    BY <1>2, <1>3 DEF TileRows
  <2>2. \A r \in Nat : r \in m * a .. (m + 1) * a - 1 <=> r \div a = m
    BY <1>1, BlockOfRow
  <2>3. m * a \in Nat
    BY <1>1
  <2>4. \A r \in m * a .. (m + 1) * a - 1 : r \in Nat
    BY <2>3
  <2>. QED  BY <2>1, <2>2, <2>4
<1>8. TileCols(j, t) = {c \in 0 .. K - 1 : c \div d = n}
  <2>1. TileCols(j, t) = {c \in n * d .. (n + 1) * d - 1 : c < K}
    BY <1>2, <1>3 DEF TileCols
  <2>2. \A c \in Nat : c \in n * d .. (n + 1) * d - 1 <=> c \div d = n
    BY <1>1, BlockOfRow
  <2>3. n * d \in Nat
    BY <1>1
  <2>4. \A c \in n * d .. (n + 1) * d - 1 : c \in Nat
    BY <2>3
  <2>. QED  BY <2>1, <2>2, <2>4
<1>9. PICK w : w = IF j.kind = "contiguous" THEN LayoutAt(j, m * j.bm) ELSE g
  OBVIOUS
<1>10. Stored(j, b, t) =
         {<<Base(j, g) + r, c, Base(j, g) + r, w>> : r \in {r \in 0 .. h - 1 : r \div a = m},
                                                     c \in {c \in 0 .. K - 1 : c \div d = n}}
  BY <1>4, <1>5, <1>6, <1>7, <1>8, <1>9 DEF Stored
<1>11. \A cell : CellOf(j, g, m, n, cell) <=>
         \E r \in 0 .. h - 1, c \in 0 .. K - 1 :
            r \div a = m /\ c \div d = n /\ cell = <<Base(j, g) + r, c, Base(j, g) + r, w>>
  BY <1>2, <1>9 DEF CellOf
<1>. QED  BY <1>10, <1>11

-----------------------------------------------------------------------------
(* Rows of different parts are different rows of the output.                      *)

\* The parts of a sum do not overlap.
LEMMA SumsApart ==
  ASSUME NEW K \in Nat, NEW a \in [0 .. K - 1 -> Nat], NEW x \in Nat,
         NEW e \in 0 .. K - 1, Sums(K, a)[e] <= x, x < Sums(K, a)[e + 1],
         NEW h \in 0 .. K - 1, Sums(K, a)[h] <= x, x < Sums(K, a)[h + 1]
  PROVE  e = h
<1>1. PICK f : f = Sums(K, a)
  OBVIOUS
<1>2. f \in [0 .. K -> Nat]
  BY <1>1, SumsAre
<1>3. ~(e + 1 <= h)
  <2>1. SUFFICES ASSUME e + 1 <= h  PROVE FALSE
    OBVIOUS
  <2>2. e + 1 \in 0 .. K /\ h \in e + 1 .. K
    BY <2>1
  <2>3. Sums(K, a)[e + 1] <= Sums(K, a)[h]
    BY <2>2, SumsRise
  <2>4. f[e + 1] \in Nat /\ f[h] \in Nat
    BY <1>2, <2>2
  <2>. QED  BY <1>1, <2>3, <2>4
<1>4. ~(h + 1 <= e)
  <2>1. SUFFICES ASSUME h + 1 <= e  PROVE FALSE
    OBVIOUS
  <2>2. h + 1 \in 0 .. K /\ e \in h + 1 .. K
    BY <2>1
  <2>3. Sums(K, a)[h + 1] <= Sums(K, a)[e]
    BY <2>2, SumsRise
  <2>4. f[h + 1] \in Nat /\ f[e] \in Nat
    BY <1>2, <2>2
  <2>. QED  BY <1>1, <2>3, <2>4
<1>. QED  BY <1>3, <1>4

\* Rows of different groups are different rows of the output.
LEMMA RowsApart ==
  ASSUME NEW j, Listless(j), NEW g \in Parts(j), NEW h \in Parts(j),
         NEW r \in 0 .. Height(j, g) - 1, NEW s \in 0 .. Height(j, h) - 1,
         Base(j, g) + r = Base(j, h) + s
  PROVE  g = h /\ r = s
<1>0. /\ g \in Nat /\ h \in Nat /\ Height(j, g) \in Nat /\ Height(j, h) \in Nat
      /\ j.shapeM \in Nat /\ j.base \in Nat
  BY PartNumbers DEF Listless, Sized
<1>1. CASE j.kind \in {"masked", "batched"}
  <2>1. PICK S \in Nat : S = j.shapeM
    BY <1>0
  <2>2. Base(j, g) = g * S /\ Base(j, h) = h * S
    BY <1>1, <2>1 DEF Base
  <2>3. Height(j, g) <= S /\ Height(j, h) <= S
    <3>1. CASE j.kind = "batched"
      BY <2>1, <3>1 DEF Height, Walks
    <3>2. CASE j.kind = "masked"
      <4>1. g \in GroupIds(j) /\ h \in GroupIds(j)
        BY <3>2 DEF Parts
      <4>2. Height(j, g) = j.sizes[g] /\ Height(j, h) = j.sizes[h]
        BY <3>2 DEF Height, Walks, Listless
      <4>3. \A e \in GroupIds(j) : j.sizes[e] <= S
        BY <2>1, <3>2 DEF Listless, Sized
      <4>. QED  BY <4>1, <4>2, <4>3
    <3>. QED  BY <1>1, <3>1, <3>2
  <2>4. r \in 0 .. S - 1 /\ s \in 0 .. S - 1 /\ S > 0
    BY <1>0, <2>1, <2>3
  <2>5. g * S + r = h * S + s
    BY <2>2
  <2>6. (g * S + r) \div S = g /\ (g * S + r) % S = r
    BY <1>0, <2>4, Remainder
  <2>7. (h * S + s) \div S = h /\ (h * S + s) % S = s
    BY <1>0, <2>4, Remainder
  <2>. QED  BY <2>5, <2>6, <2>7
<1>2. CASE j.kind = "nopad"
  <2>1. Walks(j) /\ Base(j, g) = j.base + RowsBefore(j, g) /\ Base(j, h) = j.base + RowsBefore(j, h)
    BY <1>2 DEF Walks, Listless, Base
  <2>2. PICK K \in Nat \ {0} : K = j.groups /\ GroupIds(j) = 0 .. K - 1 /\ Parts(j) = 0 .. K - 1
    BY <2>1, WalkedNumbers
  <2>3. PICK b \in [0 .. K - 1 -> Nat] : b = j.sizes
    BY <2>1, <2>2, WalkedNumbers
  <2>4. \A e : RowsBefore(j, e) = Sums(K, b)[e]
    BY <2>2, <2>3 DEF RowsBefore
  <2>5. Height(j, g) = b[g] /\ Height(j, h) = b[h]
    BY <2>1, <2>3 DEF Height
  <2>6. PICK f \in [0 .. K -> Nat] : f = Sums(K, b) /\ \A e \in 0 .. K - 1 : f[e + 1] = f[e] + b[e]
    <3>1. PICK f : f = Sums(K, b)
      OBVIOUS
    <3>2. f \in [0 .. K -> Nat] /\ \A e \in 0 .. K - 1 : f[e + 1] = f[e] + b[e]
      BY <3>1, SumsAre
    <3>. QED  BY <3>1, <3>2
  <2>7. PICK p \in Nat, q \in Nat, u \in Nat, v \in Nat : p = f[g] /\ q = f[h] /\ u = b[g] /\ v = b[h]
    <3>1. g \in 0 .. K - 1 /\ h \in 0 .. K - 1 /\ g \in 0 .. K /\ h \in 0 .. K
      BY <2>2
    <3>2. f[g] \in Nat /\ f[h] \in Nat /\ b[g] \in Nat /\ b[h] \in Nat
      BY <3>1
    <3>. QED  BY <3>2
  <2>8. f[g + 1] = p + u /\ f[h + 1] = q + v
    BY <2>2, <2>6, <2>7
  <2>9. r \in 0 .. u - 1 /\ s \in 0 .. v - 1
    BY <2>5, <2>7
  <2>10. p + r = q + s
    <3>1. PICK base \in Nat : base = j.base
      BY <1>0
    <3>2. Base(j, g) = base + p /\ Base(j, h) = base + q
      BY <2>1, <2>4, <2>6, <2>7, <3>1
    <3>3. (base + p) + r = (base + q) + s
      BY <3>2
    <3>. QED  BY <2>9, <3>3
  <2>11. PICK x \in Nat : x = p + r
    BY <2>9
  <2>12. p <= x /\ x < p + u /\ q <= x /\ x < q + v
    BY <2>9, <2>10, <2>11
  <2>13. /\ Sums(K, b)[g] <= x /\ x < Sums(K, b)[g + 1]
         /\ Sums(K, b)[h] <= x /\ x < Sums(K, b)[h + 1]
    BY <2>6, <2>7, <2>8, <2>12, Zenon
  <2>14. g \in 0 .. K - 1 /\ h \in 0 .. K - 1
    BY <2>2
  <2>15. g = h
    BY <2>13, <2>14, SumsApart
  <2>16. p = q
    BY <2>7, <2>15
  <2>17. r = s
    BY <2>9, <2>10, <2>16
  <2>. QED  BY <2>15, <2>17
<1>3. CASE j.kind \in {"normal", "contiguous"}
  <2>1. g = 0 /\ h = 0 /\ Base(j, 0) = 0
    BY <1>3 DEF Parts, Base
  <2>. QED  BY <2>1
<1>. QED  BY <1>1, <1>2, <1>3 DEF Listless

\* The tiles of two indices store at different positions.
LEMMA CellsApart ==
  ASSUME NEW j, Listless(j), NEW x \in 0 .. Total(j) - 1, NEW y \in 0 .. Total(j) - 1, x # y
  PROVE  Positions(Cells(j, x)) \cap Positions(Cells(j, y)) = {}
<1>1. TilesAreBlocks(j) /\ TilesDiffer(j)
  BY EveryLaunchEnumerates DEF Enumerates
<1>2. PICK g, m, n : InJob(j, g, m, n) /\ Block(j, TileAt(j, x), g, m, n)
  BY <1>1 DEF TilesAreBlocks
<1>3. PICK h, o, p : InJob(j, h, o, p) /\ Block(j, TileAt(j, y), h, o, p)
  BY <1>1 DEF TilesAreBlocks
<1>4. SUFFICES ASSUME NEW u \in Cells(j, x), NEW v \in Cells(j, y), <<u[1], u[2]>> = <<v[1], v[2]>>
               PROVE  FALSE
  BY DEF Positions
<1>5. CellOf(j, g, m, n, u) /\ CellOf(j, h, o, p, v)
  BY <1>2, <1>3, CellsOfBlock DEF Cells
<1>6. PICK r \in 0 .. Height(j, g) - 1, c \in 0 .. j.n - 1 :
        /\ r \div TileM(j, Height(j, g)) = m /\ c \div TileN(j, Height(j, g)) = n
        /\ u[1] = Base(j, g) + r /\ u[2] = c
  BY <1>5 DEF CellOf
<1>7. PICK s \in 0 .. Height(j, h) - 1, d \in 0 .. j.n - 1 :
        /\ s \div TileM(j, Height(j, h)) = o /\ d \div TileN(j, Height(j, h)) = p
        /\ v[1] = Base(j, h) + s /\ v[2] = d
  BY <1>5 DEF CellOf
<1>8. Base(j, g) + r = Base(j, h) + s /\ c = d
  BY <1>4, <1>6, <1>7
<1>9. g = h /\ r = s
  BY <1>2, <1>3, <1>8, RowsApart DEF InJob
<1>10. m = o /\ n = p
  BY <1>6, <1>7, <1>8, <1>9
<1>11. x = y
  BY <1>1, <1>2, <1>3, <1>9, <1>10 DEF TilesDiffer, Block
<1>. QED  BY <1>11

-----------------------------------------------------------------------------
(* The contiguous layout: the first row of a block names the group of its rows.   *)

Aligned(j) == [h \in GroupIds(j) |-> RoundUp(j.sizes[h], j.bm)]

\* The numbers of the contiguous layout.
LEMMA AlignedNumbers ==
  ASSUME NEW j, Listless(j), j.kind = "contiguous"
  PROVE  /\ j.groups \in Nat \ {0} /\ GroupIds(j) = 0 .. j.groups - 1 /\ j.bm \in Nat \ {0}
         /\ j.sizes \in [0 .. j.groups - 1 -> Nat] /\ Aligned(j) \in [0 .. j.groups - 1 -> Nat]
         /\ \A g \in 0 .. j.groups - 1 : Aligned(j)[g] = UpDiv(j.sizes[g], j.bm) * j.bm
         /\ \A e : AlignedBefore(j, e) = Sums(j.groups, Aligned(j))[e]
         /\ j.shapeM = Sums(j.groups, Aligned(j))[j.groups]
<1>1. PICK K \in Nat \ {0}, b \in Nat \ {0} : K = j.groups /\ b = j.bm
  BY DEF Listless, Sized
<1>2. GroupIds(j) = 0 .. K - 1
  BY <1>1 DEF GroupIds
<1>3. PICK s \in [0 .. K - 1 -> Nat] : s = j.sizes
  BY <1>2 DEF Listless, Sized
<1>4. PICK a : a = Aligned(j)
  OBVIOUS
<1>5. ASSUME NEW g \in 0 .. K - 1
      PROVE  RoundUp(j.sizes[g], j.bm) = UpDiv(s[g], b) * b /\ UpDiv(s[g], b) * b \in Nat
  <2>1. UpDiv(s[g], b) \in Nat
    BY UpDivFacts
  <2>. QED  BY <1>1, <1>3, <2>1 DEF RoundUp
<1>6. a = [g \in 0 .. K - 1 |-> RoundUp(j.sizes[g], j.bm)]
  BY <1>2, <1>4 DEF Aligned
<1>7. a \in [0 .. K - 1 -> Nat] /\ \A g \in 0 .. K - 1 : a[g] = UpDiv(s[g], b) * b
  BY <1>5, <1>6
<1>8. \A e : AlignedBefore(j, e) = Sums(K, a)[e]
  BY <1>1, <1>4 DEF AlignedBefore, Aligned
<1>9. j.shapeM = Sums(K, a)[K]
  BY <1>1, <1>8 DEF Listless, Sized
<1>. QED  BY <1>1, <1>2, <1>3, <1>4, <1>7, <1>8, <1>9

\* Its groups start at multiples of a block.
LEMMA AlignedMultiples ==
  ASSUME NEW j, Listless(j), j.kind = "contiguous", NEW e \in 0 .. j.groups
  PROVE  \E k \in Nat : AlignedBefore(j, e) = k * j.bm
<1>0. PICK K \in Nat \ {0}, b \in Nat \ {0} : K = j.groups /\ b = j.bm /\ e \in 0 .. K
  BY AlignedNumbers
<1>a. PICK s \in [0 .. K - 1 -> Nat], a \in [0 .. K - 1 -> Nat] : s = j.sizes /\ a = Aligned(j)
  BY <1>0, AlignedNumbers
<1>b. /\ \A i \in 0 .. K - 1 : a[i] = UpDiv(s[i], b) * b
      /\ AlignedBefore(j, e) = Sums(K, a)[e]
  BY <1>0, <1>a, AlignedNumbers
<1>. DEFINE S == {i \in 0 .. K : \E k \in Nat : Sums(K, a)[i] = k * b}
<1>1. 0 \in S
  <2>1. 0 * b = 0 /\ 0 \in 0 .. K
    OBVIOUS
  <2>2. Sums(K, a)[0] = 0
    BY SumsAre
  <2>. QED  BY <2>1, <2>2
<1>2. ASSUME NEW i \in 0 .. e - 1, i \in S  PROVE i + 1 \in S
  <2>1. PICK k \in Nat : Sums(K, a)[i] = k * b
    BY <1>2
  <2>2. i \in 0 .. K - 1 /\ i + 1 \in 0 .. K
    BY <1>0
  <2>3. Sums(K, a)[i + 1] = Sums(K, a)[i] + a[i] /\ a[i] = UpDiv(s[i], b) * b
    BY <1>b, <2>2, SumsAre
  <2>4. PICK u \in Nat : u = UpDiv(s[i], b)
    BY <2>2, UpDivFacts
  <2>5. Sums(K, a)[i + 1] = k * b + u * b /\ k * b + u * b = (k + u) * b
    BY <2>1, <2>3, <2>4
  <2>6. k + u \in Nat
    OBVIOUS
  <2>. QED  BY <2>2, <2>5, <2>6
<1>3. e \in S
  <2>1. e \in Nat
    BY <1>0
  <2>. HIDE DEF S
  <2>. QED  BY <1>1, <1>2, <2>1, UpTo
<1>. QED  BY <1>0, <1>b, <1>3

\* The first row of the block of a row, padding included, is a row of the group
\* itself.
LEMMA BlockStartsInGroup ==
  ASSUME NEW k \in Nat, NEW b \in Nat \ {0}, NEW size \in Nat, NEW r \in Nat,
         k * b <= r, r < k * b + UpDiv(size, b) * b
  PROVE  /\ k * b <= (r \div b) * b /\ (r \div b) * b < k * b + size
         /\ (r \div b) * b \in Nat
<1>1. PICK m \in Nat, i \in 0 .. b - 1 : r = m * b + i /\ r \div b = m
  <2>1. b \in Nat /\ b > 0
    OBVIOUS
  <2>. QED  BY <2>1, DivMod
<1>2. PICK u \in Nat : u = UpDiv(size, b) /\ u * b < size + b
  BY UpDivFacts
<1>3. PICK p \in Nat, q \in Nat, t \in Nat : p = k * b /\ q = m * b /\ t = u * b
  OBVIOUS
<1>4. k <= m
  <2>1. m + 1 <= k => (m + 1) * b <= k * b /\ (m + 1) * b = m * b + b
    OBVIOUS
  <2>2. m + 1 <= k => q + b <= p
    BY <1>3, <2>1
  <2>. QED  BY <1>1, <1>3, <2>2
<1>5. p <= q
  BY <1>3, <1>4
<1>6. m + 1 <= k + u
  <2>1. k + u <= m => (k + u) * b <= m * b /\ (k + u) * b = k * b + u * b
    OBVIOUS
  <2>2. k + u <= m => p + t <= q
    BY <1>3, <2>1
  <2>3. r < p + t /\ q <= r
    BY <1>1, <1>2, <1>3
  <2>. QED  BY <1>3, <2>2, <2>3
<1>7. q + b <= p + t
  <2>1. (m + 1) * b <= (k + u) * b /\ (m + 1) * b = m * b + b /\ (k + u) * b = k * b + u * b
    BY <1>6
  <2>. QED  BY <1>3, <2>1
<1>. QED  BY <1>1, <1>2, <1>3, <1>5, <1>7

\* So the layout read at the first row of a block names the group of all its rows.
LEMMA LayoutOfRow ==
  ASSUME NEW j, Listless(j), j.kind = "contiguous", NEW g \in GroupIds(j),
         NEW r \in Nat, AlignedBefore(j, g) <= r, r < AlignedBefore(j, g + 1)
  PROVE  r < j.shapeM /\ LayoutAt(j, (r \div j.bm) * j.bm) = g
<1>0. PICK K \in Nat \ {0}, b \in Nat \ {0} : K = j.groups /\ b = j.bm /\ GroupIds(j) = 0 .. K - 1
  BY AlignedNumbers
<1>a. PICK s \in [0 .. K - 1 -> Nat], a \in [0 .. K - 1 -> Nat] : s = j.sizes /\ a = Aligned(j)
  BY <1>0, AlignedNumbers
<1>1. /\ K = j.groups /\ GroupIds(j) = 0 .. K - 1 /\ b = j.bm /\ s = j.sizes /\ a = Aligned(j)
      /\ \A e \in 0 .. K - 1 : a[e] = UpDiv(s[e], b) * b
      /\ \A e : AlignedBefore(j, e) = Sums(K, a)[e]
      /\ j.shapeM = Sums(K, a)[K]
  BY <1>0, <1>a, AlignedNumbers
<1>2. PICK f \in [0 .. K -> Nat] : f = Sums(K, a) /\ \A e \in 0 .. K - 1 : f[e + 1] = f[e] + a[e]
  <2>1. PICK f : f = Sums(K, a)
    OBVIOUS
  <2>2. f \in [0 .. K -> Nat] /\ \A e \in 0 .. K - 1 : f[e + 1] = f[e] + a[e]
    BY <2>1, SumsAre
  <2>. QED  BY <2>1, <2>2
<1>3. g \in 0 .. K - 1 /\ g + 1 \in 0 .. K
  BY <1>1
<1>4. r < f[K]
  <2>1. K \in g + 1 .. K
    BY <1>3
  <2>2. Sums(K, a)[g + 1] <= Sums(K, a)[K]
    BY <1>3, <2>1, SumsRise
  <2>3. f[g + 1] \in Nat /\ f[K] \in Nat
    BY <1>3
  <2>4. r < f[g + 1]
    BY <1>1, <1>2
  <2>. QED  BY <1>2, <2>2, <2>3, <2>4
<1>5. PICK k \in Nat : f[g] = k * b
  <2>1. g \in 0 .. j.groups
    BY <1>1, <1>3
  <2>2. PICK k \in Nat : AlignedBefore(j, g) = k * j.bm
    BY <2>1, AlignedMultiples
  <2>. QED  BY <1>1, <1>2, <2>2
<1>6. PICK x \in Nat : x = (r \div b) * b /\ f[g] <= x /\ x < f[g] + s[g]
  <2>1. PICK size \in Nat : size = s[g]
    BY <1>3
  <2>2. f[g + 1] = k * b + UpDiv(size, b) * b
    BY <1>1, <1>2, <1>3, <1>5, <2>1
  <2>3. k * b <= r /\ r < k * b + UpDiv(size, b) * b
    <3>1. AlignedBefore(j, g) = f[g] /\ AlignedBefore(j, g + 1) = f[g + 1]
      BY <1>1, <1>2, Zenon
    <3>2. f[g] <= r /\ r < f[g + 1]
      BY <3>1
    <3>. QED  BY <1>5, <2>2, <3>2
  <2>4. /\ k * b <= (r \div b) * b /\ (r \div b) * b < k * b + size
        /\ (r \div b) * b \in Nat
    BY <2>3, BlockStartsInGroup
  <2>. QED  BY <1>5, <2>1, <2>4
<1>7. \A e \in 0 .. K - 1 : f[e + 1] \in Nat /\ f[e] \in Nat /\ s[e] \in Nat /\ f[e] + s[e] <= f[e + 1]
  <2>1. SUFFICES ASSUME NEW e \in 0 .. K - 1
                 PROVE  f[e + 1] \in Nat /\ f[e] \in Nat /\ s[e] \in Nat /\ f[e] + s[e] <= f[e + 1]
    OBVIOUS
  <2>2. s[e] \in Nat /\ f[e] \in Nat /\ f[e + 1] \in Nat
    OBVIOUS
  <2>3. s[e] <= UpDiv(s[e], b) * b /\ UpDiv(s[e], b) \in Nat
    BY <2>2, UpDivFacts
  <2>4. f[e + 1] = f[e] + UpDiv(s[e], b) * b
    BY <1>1, <1>2
  <2>5. PICK p \in Nat : p = UpDiv(s[e], b) * b
    <3>1. PICK u \in Nat : u = UpDiv(s[e], b)
      BY <2>3
    <3>. QED  BY <3>1
  <2>6. PICK y \in Nat, z \in Nat : y = f[e] /\ z = s[e]
    BY <2>2
  <2>7. z <= p /\ f[e + 1] = y + p
    BY <2>3, <2>4, <2>5, <2>6
  <2>8. y + z <= y + p
    BY <2>7
  <2>. QED  BY <2>2, <2>6, <2>7, <2>8
<1>8. ASSUME NEW e \in 0 .. K - 1  PROVE x \in f[e] .. f[e] + s[e] - 1 <=> e = g
  <2>1. PICK p \in Nat, q \in Nat, t \in Nat : p = f[e] /\ q = s[e] /\ t = f[e + 1] /\ p + q <= t
    BY <1>7
  <2>2. PICK u \in Nat, v \in Nat, w \in Nat : u = f[g] /\ v = s[g] /\ w = f[g + 1] /\ u + v <= w
    BY <1>3, <1>7
  <2>3. u <= x /\ x < u + v
    BY <1>6, <2>2
  <2>4. ASSUME e = g  PROVE x \in p .. p + q - 1
    <3>1. p = u /\ q = v
      BY <2>1, <2>2, <2>4
    <3>. QED  BY <2>3, <3>1
  <2>5. ASSUME x \in p .. p + q - 1  PROVE e = g
    <3>0. p + q <= t /\ u + v <= w
      BY <2>1, <2>2
    <3>1. p <= x /\ x < t
      BY <2>5, <3>0
    <3>2. u <= x /\ x < w
      BY <2>3, <3>0
    <3>3. /\ Sums(K, a)[e] <= x /\ x < Sums(K, a)[e + 1]
          /\ Sums(K, a)[g] <= x /\ x < Sums(K, a)[g + 1]
      BY <1>2, <2>1, <2>2, <3>1, <3>2, Zenon
    <3>. QED  BY <1>3, <3>3, SumsApart
  <2>. QED  BY <2>1, <2>4, <2>5
<1>9. \A e \in GroupIds(j) :
        x \in AlignedBefore(j, e) .. AlignedBefore(j, e) + j.sizes[e] - 1 <=> e = g
  BY <1>1, <1>2, <1>8
<1>10. LayoutAt(j, x) = g
  BY <1>9 DEF LayoutAt
<1>. QED  BY <1>1, <1>2, <1>4, <1>6, <1>10

-----------------------------------------------------------------------------
(* The tiles of a launch cover what it is meant to write.                         *)

WeightsOf(j, g, r) == IF j.kind = "contiguous" THEN LayoutAt(j, (r \div j.bm) * j.bm) ELSE g

RowOf(j, row) ==
  \E g \in Parts(j) : \E r \in 0 .. Height(j, g) - 1 :
    row = <<Base(j, g) + r, Base(j, g) + r, WeightsOf(j, g, r)>>

\* The rows a dense job means,
LEMMA MeantNormal ==
  ASSUME NEW j, Listless(j), j.kind = "normal"
  PROVE  \A row : row \in MeantRows(j) <=> RowOf(j, row)
<1>1. MeantRows(j) = {<<r, r, 0>> : r \in 0 .. j.shapeM - 1}
  BY DEF MeantRows
<1>2. Parts(j) = {0} /\ Height(j, 0) = j.shapeM /\ Base(j, 0) = 0
  BY DEF Parts, Height, Walks, Base
<1>3. \A r \in 0 .. j.shapeM - 1 : Base(j, 0) + r = r /\ WeightsOf(j, 0, r) = 0
  BY <1>2 DEF WeightsOf
<1>. QED  BY <1>1, <1>2, <1>3 DEF RowOf

\* those of separate matrices,
LEMMA MeantMatrices ==
  ASSUME NEW j, Listless(j), j.kind \in {"masked", "batched"}
  PROVE  \A row : row \in MeantRows(j) <=> RowOf(j, row)
<1>1. Parts(j) = GroupIds(j)
  BY DEF Parts
<1>2. MeantRows(j) =
        UNION {{<<g * j.shapeM + r, g * j.shapeM + r, g>> : r \in 0 .. Height(j, g) - 1} : g \in GroupIds(j)}
  <2>1. CASE j.kind = "masked"
    <3>1. \A g : Height(j, g) = j.sizes[g]
      BY <2>1 DEF Height, Walks, Listless
    <3>. QED  BY <2>1, <3>1 DEF MeantRows
  <2>2. CASE j.kind = "batched"
    <3>1. \A g : Height(j, g) = j.shapeM
      BY <2>2 DEF Height, Walks
    <3>. QED  BY <2>2, <3>1 DEF MeantRows
  <2>. QED  BY <2>1, <2>2
<1>3. \A g : Base(j, g) = g * j.shapeM
  BY DEF Base
<1>4. \A g, r : WeightsOf(j, g, r) = g
  BY DEF WeightsOf
<1>. QED  BY <1>1, <1>2, <1>3, <1>4 DEF RowOf

\* of groups end to end,
LEMMA MeantNoPad ==
  ASSUME NEW j, Listless(j), j.kind = "nopad"
  PROVE  \A row : row \in MeantRows(j) <=> RowOf(j, row)
<1>0. Walks(j)
  BY DEF Walks, Listless
<1>1. PICK K \in Nat \ {0} : K = j.groups /\ GroupIds(j) = 0 .. K - 1 /\ Parts(j) = 0 .. K - 1
  BY <1>0, WalkedNumbers
<1>2. PICK base \in Nat : base = j.base
  BY DEF Listless, Sized
<1>3. ASSUME NEW g \in 0 .. K - 1
      PROVE  /\ Height(j, g) \in Nat /\ Base(j, g) = base + RowsBefore(j, g) /\ Base(j, g) \in Nat
             /\ j.base + RowsBefore(j, g + 1) = Base(j, g) + Height(j, g)
  <2>1. g \in 0 .. j.groups
    BY <1>1
  <2>2. RowsBefore(j, g) \in Nat /\ RowsBefore(j, g + 1) = RowsBefore(j, g) + j.sizes[g]
    BY <1>0, <1>1, <2>1, SumsOfWalk
  <2>3. Height(j, g) = j.sizes[g] /\ Height(j, g) \in Nat
    BY <1>0, <1>1, WalkedNumbers DEF Height
  <2>4. Base(j, g) = base + RowsBefore(j, g)
    BY <1>2 DEF Base
  <2>5. PICK p \in Nat, h \in Nat : p = RowsBefore(j, g) /\ h = j.sizes[g]
    BY <2>2, <2>3
  <2>6. RowsBefore(j, g + 1) = p + h /\ Base(j, g) = base + p
    BY <2>2, <2>4, <2>5
  <2>. QED  BY <1>2, <2>3, <2>4, <2>5, <2>6
<1>4. MeantRows(j) =
        UNION {{<<x, x, g>> : x \in j.base + RowsBefore(j, g) .. j.base + RowsBefore(j, g + 1) - 1} :
                  g \in GroupIds(j)}
  BY DEF MeantRows
<1>5. \A g \in 0 .. K - 1 :
        j.base + RowsBefore(j, g) .. j.base + RowsBefore(j, g + 1) - 1 =
          {Base(j, g) + r : r \in 0 .. Height(j, g) - 1}
  <2>1. SUFFICES ASSUME NEW g \in 0 .. K - 1
                 PROVE  j.base + RowsBefore(j, g) .. j.base + RowsBefore(j, g + 1) - 1 =
                          {Base(j, g) + r : r \in 0 .. Height(j, g) - 1}
    OBVIOUS
  <2>2. PICK p \in Nat, h \in Nat : p = Base(j, g) /\ h = Height(j, g)
    BY <1>3
  <2>. DEFINE lo == j.base + RowsBefore(j, g)
              hi == j.base + RowsBefore(j, g + 1) - 1
  <2>4. lo = p /\ hi = p + h - 1
    <3>1. RowsBefore(j, g + 1) \in Nat
      <4>1. g + 1 \in 0 .. j.groups
        BY <1>1
      <4>. QED  BY <1>0, <4>1, SumsOfWalk
    <3>2. PICK q \in Nat : q = RowsBefore(j, g + 1)
      BY <3>1
    <3>3. base + q = p + h
      BY <1>2, <1>3, <2>2, <3>2
    <3>. QED  BY <1>2, <1>3, <2>2, <3>2, <3>3
  <2>. HIDE DEF lo, hi
  <2>5. p .. p + h - 1 = {p + r : r \in 0 .. h - 1}
    <3>1. \A x \in p .. p + h - 1 : x - p \in 0 .. h - 1 /\ x = p + (x - p)
      OBVIOUS
    <3>2. \A r \in 0 .. h - 1 : p + r \in p .. p + h - 1
      OBVIOUS
    <3>. QED  BY <3>1, <3>2
  <2>6. {p + r : r \in 0 .. h - 1} = {Base(j, g) + r : r \in 0 .. Height(j, g) - 1}
    BY <2>2
  <2>7. lo .. hi = {Base(j, g) + r : r \in 0 .. Height(j, g) - 1}
    BY <2>4, <2>5, <2>6
  <2>. QED  BY <2>7 DEF lo, hi
<1>6. \A g, r : WeightsOf(j, g, r) = g
  BY DEF WeightsOf
<1>7. ASSUME NEW row, row \in MeantRows(j)  PROVE RowOf(j, row)
  <2>1. PICK g \in 0 .. K - 1 :
          \E x \in j.base + RowsBefore(j, g) .. j.base + RowsBefore(j, g + 1) - 1 : row = <<x, x, g>>
    BY <1>1, <1>4, <1>7
  <2>2. PICK r \in 0 .. Height(j, g) - 1 : row = <<Base(j, g) + r, Base(j, g) + r, g>>
    BY <1>5, <2>1
  <2>. QED  BY <1>1, <1>6, <2>2 DEF RowOf
<1>8. ASSUME NEW row, RowOf(j, row)  PROVE row \in MeantRows(j)
  <2>1. PICK g \in 0 .. K - 1 : \E r \in 0 .. Height(j, g) - 1 :
          row = <<Base(j, g) + r, Base(j, g) + r, WeightsOf(j, g, r)>>
    BY <1>1, <1>8 DEF RowOf
  <2>2. PICK r \in 0 .. Height(j, g) - 1 : row = <<Base(j, g) + r, Base(j, g) + r, g>>
    BY <1>6, <2>1
  <2>3. Base(j, g) + r \in j.base + RowsBefore(j, g) .. j.base + RowsBefore(j, g + 1) - 1
    BY <1>5
  <2>. QED  BY <1>1, <1>4, <2>2, <2>3
<1>. QED  BY <1>7, <1>8

\* and of aligned groups
LEMMA MeantContiguous ==
  ASSUME NEW j, Listless(j), j.kind = "contiguous"
  PROVE  \A row : row \in MeantRows(j) <=> RowOf(j, row)
<1>0. PICK K \in Nat \ {0} : K = j.groups /\ GroupIds(j) = 0 .. K - 1
  BY AlignedNumbers
<1>a. PICK a \in [0 .. K - 1 -> Nat] : a = Aligned(j)
  BY <1>0, AlignedNumbers
<1>1. /\ GroupIds(j) = 0 .. K - 1
      /\ \A e : AlignedBefore(j, e) = Sums(K, a)[e]
      /\ j.shapeM = Sums(K, a)[K]
  BY <1>0, <1>a, AlignedNumbers
<1>2. \A e \in 0 .. K : AlignedBefore(j, e) \in Nat
  BY <1>1, SumsAre
<1>3. Parts(j) = {0} /\ Height(j, 0) = j.shapeM /\ Base(j, 0) = 0 /\ j.shapeM \in Nat
  BY DEF Parts, Height, Walks, Base, Listless, Sized
<1>4. \A r : WeightsOf(j, 0, r) = LayoutAt(j, (r \div j.bm) * j.bm)
  BY DEF WeightsOf
<1>5. MeantRows(j) =
        UNION {{<<r, r, g>> : r \in AlignedBefore(j, g) .. AlignedBefore(j, g + 1) - 1} : g \in GroupIds(j)}
  BY DEF MeantRows
<1>6. ASSUME NEW g \in 0 .. K - 1, NEW r \in AlignedBefore(j, g) .. AlignedBefore(j, g + 1) - 1
      PROVE  r \in 0 .. j.shapeM - 1 /\ WeightsOf(j, 0, r) = g
  <2>1. AlignedBefore(j, g) \in Nat /\ AlignedBefore(j, g + 1) \in Nat
    BY <1>2
  <2>2. r \in Nat /\ AlignedBefore(j, g) <= r /\ r < AlignedBefore(j, g + 1)
    BY <2>1
  <2>3. r < j.shapeM /\ LayoutAt(j, (r \div j.bm) * j.bm) = g
    BY <1>1, <2>2, LayoutOfRow
  <2>. QED  BY <1>3, <1>4, <2>2, <2>3
<1>7. ASSUME NEW r \in 0 .. j.shapeM - 1
      PROVE  \E g \in 0 .. K - 1 : r \in AlignedBefore(j, g) .. AlignedBefore(j, g + 1) - 1
  <2>1. r \in Nat /\ r < Sums(K, a)[K]
    BY <1>1, <1>3
  <2>2. PICK g \in 0 .. K - 1 : Sums(K, a)[g] <= r /\ r < Sums(K, a)[g + 1]
    BY <2>1, SumsReach
  <2>3. AlignedBefore(j, g) \in Nat /\ AlignedBefore(j, g + 1) \in Nat
    BY <1>2
  <2>. QED  BY <1>1, <2>1, <2>2, <2>3
<1>8. ASSUME NEW row, row \in MeantRows(j)  PROVE RowOf(j, row)
  <2>1. PICK g \in 0 .. K - 1 : \E r \in AlignedBefore(j, g) .. AlignedBefore(j, g + 1) - 1 : row = <<r, r, g>>
    BY <1>1, <1>5, <1>8
  <2>2. PICK r \in AlignedBefore(j, g) .. AlignedBefore(j, g + 1) - 1 : row = <<r, r, g>>
    BY <2>1
  <2>3. r \in 0 .. j.shapeM - 1 /\ WeightsOf(j, 0, r) = g /\ 0 + r = r
    BY <1>6
  <2>. QED  BY <1>3, <2>2, <2>3 DEF RowOf
<1>9. ASSUME NEW row, RowOf(j, row)  PROVE row \in MeantRows(j)
  <2>1. PICK r \in 0 .. j.shapeM - 1 : row = <<0 + r, 0 + r, WeightsOf(j, 0, r)>>
    BY <1>3, <1>9 DEF RowOf
  <2>2. PICK g \in 0 .. K - 1 : r \in AlignedBefore(j, g) .. AlignedBefore(j, g + 1) - 1
    BY <1>7
  <2>3. row = <<r, r, g>>
    BY <1>6, <2>1, <2>2
  <2>. QED  BY <1>1, <1>5, <2>2, <2>3
<1>. QED  BY <1>8, <1>9

\* are the rows of the parts, each with its weights.
LEMMA MeantIs ==
  ASSUME NEW j, Listless(j)
  PROVE  \A row : row \in MeantRows(j) <=> RowOf(j, row)
BY MeantNormal, MeantMatrices, MeantNoPad, MeantContiguous DEF Listless

\* The cells that are meant, by part, row and column.
LEMMA MeantByRows ==
  ASSUME NEW j, Listless(j), NEW cell
  PROVE  cell \in MeantCells(j) <=>
           \E g \in Parts(j) : \E r \in 0 .. Height(j, g) - 1, c \in 0 .. j.n - 1 :
             cell = <<Base(j, g) + r, c, Base(j, g) + r, WeightsOf(j, g, r)>>
<1>1. \A row : row \in MeantRows(j) <=> RowOf(j, row)
  BY MeantIs
<1>2. ASSUME cell \in MeantCells(j)
      PROVE  \E g \in Parts(j) : \E r \in 0 .. Height(j, g) - 1, c \in 0 .. j.n - 1 :
               cell = <<Base(j, g) + r, c, Base(j, g) + r, WeightsOf(j, g, r)>>
  <2>1. PICK x \in MeantRows(j), c \in 0 .. j.n - 1 : cell = <<x[1], c, x[2], x[3]>>
    BY <1>2 DEF MeantCells
  <2>2. PICK g \in Parts(j) : \E r \in 0 .. Height(j, g) - 1 :
          x = <<Base(j, g) + r, Base(j, g) + r, WeightsOf(j, g, r)>>
    BY <1>1, <2>1 DEF RowOf
  <2>. QED  BY <2>1, <2>2
<1>3. ASSUME NEW g \in Parts(j), NEW r \in 0 .. Height(j, g) - 1, NEW c \in 0 .. j.n - 1,
             cell = <<Base(j, g) + r, c, Base(j, g) + r, WeightsOf(j, g, r)>>
      PROVE  cell \in MeantCells(j)
  <2>1. PICK x : x = <<Base(j, g) + r, Base(j, g) + r, WeightsOf(j, g, r)>>
    OBVIOUS
  <2>2. x \in MeantRows(j)
    BY <1>1, <2>1 DEF RowOf
  <2>3. cell = <<x[1], c, x[2], x[3]>>
    BY <1>3, <2>1
  <2>. QED  BY <2>2, <2>3 DEF MeantCells
<1>. QED  BY <1>2, <1>3

\* A column is in a block of its part unless it is dropped.
LEMMA ColumnsInBlocks ==
  ASSUME NEW j, Listless(j), NEW g \in Parts(j), NEW c \in 0 .. j.n - 1
  PROVE  c \div TileN(j, Height(j, g)) \in 0 .. Cols(j, g) - 1 <=> ~Dropped(j, Height(j, g), c)
<1>1. PICK h \in Nat, d \in Nat \ {0}, K \in Nat \ {0} : h = Height(j, g) /\ d = TileN(j, h) /\ K = j.n
  BY PartNumbers
<1>3. c \div d \in 0 .. UpDiv(K, d) - 1 /\ UpDiv(K, d) \in Nat
  BY <1>1, BlocksHoldRows, UpDivFacts
<1>4. CASE ~HalvesOdd(j, h)
  BY <1>1, <1>3, <1>4 DEF Cols, BlockCols, Dropped
<1>2. CASE HalvesOdd(j, h)
  <2>1. /\ j.scheduler = "expand" /\ IsDynamic(j) /\ InUnits(j) /\ GroupExpand(j, h) = 2
        /\ UpDiv(K, BlockNs(j)[5]) % 2 = 1
    BY <1>1, <1>2 DEF HalvesOdd, IsDynamic, Listless
  <2>2. j.tiles = "LargeK" /\ SelectBuilder(j, h) = 3
    BY <2>1, ExpandOfGroup
  <2>3. PICK b \in Nat \ {0} : b = BlockNs(j)[5]
    BY <2>1, BlocksInUnits
  <2>4. d = 2 * b
    BY <1>1, <2>1, <2>2, <2>3, ComparedInUnits DEF TileN
  <2>5. c \div b = UpDiv(K, b) - 1 <=> c \div d = UpDiv(K, d) - 1
    BY <1>1, <2>1, <2>3, <2>4, OddBlocks
  <2>6. Cols(j, g) = UpDiv(K, d) - 1
    BY <1>1, <1>2 DEF Cols, BlockCols
  <2>. QED  BY <1>1, <1>3, <1>2, <2>3, <2>5, <2>6 DEF Dropped
<1>. QED  BY <1>4, <1>2

\* The tiles below the total store exactly the cells that are meant and not dropped.
LEMMA CellsCover ==
  ASSUME NEW j, Listless(j)
  PROVE  \A cell : (\E x \in 0 .. Total(j) - 1 : cell \in Cells(j, x)) <=>
                      cell \in MeantCells(j) /\ ~Dropped(j, j.sizes[cell[4]], cell[2])
<1>0. TilesAreBlocks(j) /\ BlocksHaveTiles(j)
  BY EveryLaunchEnumerates DEF Enumerates
<1>1. ASSUME NEW g \in Parts(j), NEW r \in 0 .. Height(j, g) - 1
      PROVE  WeightsOf(j, g, r) =
               IF j.kind = "contiguous" THEN LayoutAt(j, (r \div TileM(j, Height(j, g))) * j.bm) ELSE g
  <2>1. CASE j.kind = "contiguous"
    <3>1. ~IsDynamic(j)
      BY <2>1, FlatNumbers DEF Walks
    <3>2. TileM(j, Height(j, g)) = j.bm
      BY <3>1 DEF TileM
    <3>. QED  BY <3>2 DEF WeightsOf
  <2>2. CASE j.kind # "contiguous"
    BY <2>2 DEF WeightsOf
  <2>. QED  BY <2>1, <2>2
<1>2. ASSUME NEW g \in Parts(j), NEW r \in 0 .. Height(j, g) - 1, NEW c \in 0 .. j.n - 1, NEW cell,
             cell = <<Base(j, g) + r, c, Base(j, g) + r, WeightsOf(j, g, r)>>
      PROVE  Dropped(j, j.sizes[cell[4]], cell[2]) <=> Dropped(j, Height(j, g), c)
  <2>1. CASE j.scheduler = "expand"
    <3>1. j.kind \in {"masked", "nopad"}
      BY <2>1 DEF Listless, IsDynamic, InUnits
    <3>2. WeightsOf(j, g, r) = g /\ Height(j, g) = j.sizes[g]
      BY <2>1, <3>1 DEF WeightsOf, Height, Walks
    <3>. QED  BY <1>2, <3>2
  <2>2. CASE j.scheduler # "expand"
    BY <2>2 DEF Dropped, HalvesOdd
  <2>. QED  BY <2>1, <2>2
<1>3. ASSUME NEW cell, NEW x \in 0 .. Total(j) - 1, cell \in Cells(j, x)
      PROVE  cell \in MeantCells(j) /\ ~Dropped(j, j.sizes[cell[4]], cell[2])
  <2>1. PICK g, m, n : InJob(j, g, m, n) /\ Block(j, TileAt(j, x), g, m, n)
    BY <1>0 DEF TilesAreBlocks
  <2>2. g \in Parts(j) /\ CellOf(j, g, m, n, cell)
    BY <1>3, <2>1, CellsOfBlock DEF Cells, InJob
  <2>3. PICK r \in 0 .. Height(j, g) - 1, c \in 0 .. j.n - 1 :
          /\ r \div TileM(j, Height(j, g)) = m /\ c \div TileN(j, Height(j, g)) = n
          /\ cell = <<Base(j, g) + r, c, Base(j, g) + r,
                      IF j.kind = "contiguous" THEN LayoutAt(j, m * j.bm) ELSE g>>
    BY <2>2 DEF CellOf
  <2>4. cell = <<Base(j, g) + r, c, Base(j, g) + r, WeightsOf(j, g, r)>>
    BY <1>1, <2>2, <2>3
  <2>5. ~Dropped(j, Height(j, g), c)
    BY <2>1, <2>2, <2>3, ColumnsInBlocks DEF InJob
  <2>. QED  BY <1>2, <2>2, <2>4, <2>5, MeantByRows
<1>4. ASSUME NEW cell, cell \in MeantCells(j), ~Dropped(j, j.sizes[cell[4]], cell[2])
      PROVE  \E x \in 0 .. Total(j) - 1 : cell \in Cells(j, x)
  <2>1. PICK g \in Parts(j) : \E r \in 0 .. Height(j, g) - 1, c \in 0 .. j.n - 1 :
          cell = <<Base(j, g) + r, c, Base(j, g) + r, WeightsOf(j, g, r)>>
    BY <1>4, MeantByRows
  <2>2. PICK r \in 0 .. Height(j, g) - 1, c \in 0 .. j.n - 1 :
          cell = <<Base(j, g) + r, c, Base(j, g) + r, WeightsOf(j, g, r)>>
    BY <2>1
  <2>3. PICK h \in Nat, a \in Nat \ {0}, d \in Nat \ {0}, K \in Nat :
         /\ h = Height(j, g) /\ a = TileM(j, Height(j, g)) /\ d = TileN(j, Height(j, g)) /\ K = j.n
    BY PartNumbers
  <2>4. PICK m \in Nat, n \in Nat : m = r \div a /\ n = c \div d
    BY <2>2, <2>3
  <2>5. m \in 0 .. UpDiv(h, a) - 1 /\ n \in 0 .. Cols(j, g) - 1
    <3>1. m \in 0 .. UpDiv(h, a) - 1
      BY <2>2, <2>3, <2>4, BlocksHoldRows
    <3>2. ~Dropped(j, Height(j, g), c)
      BY <1>4, <1>2, <2>2
    <3>. QED  BY <2>3, <2>4, <3>1, <3>2, ColumnsInBlocks
  <2>6. InJob(j, g, m, n)
    BY <2>3, <2>5 DEF InJob, Rows, BlockRows
  <2>7. PICK x \in 0 .. Total(j) - 1 : Block(j, TileAt(j, x), g, m, n)
    BY <1>0, <2>6 DEF BlocksHaveTiles
  <2>8. CellOf(j, g, m, n, cell)
    BY <1>1, <2>2, <2>3, <2>4 DEF CellOf
  <2>9. cell \in Cells(j, x)
    BY <2>6, <2>7, <2>8, CellsOfBlock DEF Cells
  <2>. QED  BY <2>9
<1>. QED  BY <1>3, <1>4

-----------------------------------------------------------------------------
(* One fetch: a cursor that is not past the index finds its tile.                 *)

Cursors == [iter : Nat, group : Nat, tiles : Nat, rows : Nat, done : BOOLEAN]

\* The cursor stands at a group that starts at the index or before it.
CursorAt(j, at, x) ==
  Walks(j) => /\ at.group \in 0 .. j.groups
              /\ at.tiles = TilesBefore(j, at.group) /\ at.rows = RowsBefore(j, at.group)
              /\ TilesBefore(j, at.group) <= x

WalkOf(j, at, x) == IF Walks(j) THEN Walked(j, at, x) ELSE at

\* A walk from an earlier cursor stops at the group of the index.
LEMMA StopIs ==
  ASSUME NEW j, Listless(j), Walks(j), NEW at \in Cursors, NEW x \in Nat, CursorAt(j, at, x)
  PROVE  StopGroup(j, at, x) = IF x < TilesBefore(j, j.groups) THEN GroupAt(j, x) ELSE j.groups
<1>1. PICK K \in Nat \ {0} : K = j.groups /\ GroupIds(j) = 0 .. K - 1
  BY WalkedNumbers
<1>2. PICK f \in [0 .. K -> Nat] : \A e \in 0 .. K : f[e] = TilesBefore(j, e)
  <2>1. PICK f : f = [e \in 0 .. K |-> TilesBefore(j, e)]
    OBVIOUS
  <2>2. \A e \in 0 .. K : TilesBefore(j, e) \in Nat
    BY <1>1, SumsOfWalk
  <2>. QED  BY <2>1, <2>2
<1>3. PICK h \in 0 .. K : h = at.group /\ at.tiles = f[h] /\ f[h] <= x
  BY <1>1, <1>2 DEF CursorAt
<1>. DEFINE reach == {g \in h .. K - 1 : x < f[g + 1]}
<1>4. StopGroup(j, at, x) = IF reach = {} THEN K ELSE Min(reach)
  <2>1. ASSUME NEW g \in h .. K - 1
        PROVE  at.tiles + TilesBefore(j, g + 1) - TilesBefore(j, at.group) = f[g + 1]
    <3>1. g + 1 \in 0 .. K
      OBVIOUS
    <3>2. PICK p \in Nat, q \in Nat : p = f[g + 1] /\ q = f[h]
      BY <3>1
    <3>3. TilesBefore(j, g + 1) = p /\ TilesBefore(j, at.group) = q /\ at.tiles = q
      BY <1>2, <1>3, <3>1, <3>2
    <3>4. q + p - q = p
      OBVIOUS
    <3>. QED  BY <3>2, <3>3, <3>4
  <2>2. {g \in at.group .. j.groups - 1 : x < at.tiles + TilesBefore(j, g + 1) - TilesBefore(j, at.group)}
          = reach
    BY <1>1, <1>3, <2>1
  <2>. HIDE DEF reach
  <2>. QED  BY <1>1, <2>2 DEF StopGroup
<1>5. CASE x < TilesBefore(j, j.groups)
  <2>1. PICK g \in 0 .. K - 1 : g = GroupAt(j, x) /\ f[g] <= x /\ x < f[g + 1]
    <3>1. PICK g : g = GroupAt(j, x)
      OBVIOUS
    <3>2. g \in 0 .. K - 1 /\ TilesBefore(j, g) <= x /\ x < TilesBefore(j, g + 1)
      BY <1>1, <1>5, <3>1, GroupOfIndex
    <3>3. g \in 0 .. K /\ g + 1 \in 0 .. K
      BY <3>2
    <3>. QED  BY <1>2, <3>1, <3>2, <3>3
  <2>2. \A e \in 0 .. K, k \in 0 .. K : e <= k => f[e] <= f[k]
    <3>1. SUFFICES ASSUME NEW e \in 0 .. K, NEW k \in 0 .. K, e <= k  PROVE f[e] <= f[k]
      OBVIOUS
    <3>2. e \in 0 .. j.groups /\ k \in e .. j.groups
      BY <1>1, <3>1
    <3>. QED  BY <1>2, <3>2, WalkRises
  <2>3. h <= g
    <3>1. SUFFICES ASSUME g + 1 <= h  PROVE FALSE
      OBVIOUS
    <3>2. g + 1 \in 0 .. K /\ f[g + 1] <= f[h]
      BY <2>2, <3>1
    <3>3. PICK p \in Nat, q \in Nat : p = f[g + 1] /\ q = f[h]
      BY <3>2
    <3>. QED  BY <1>3, <2>1, <3>2, <3>3
  <2>4. g \in reach
    BY <2>1, <2>3
  <2>5. \A k \in reach : g <= k
    <3>1. SUFFICES ASSUME NEW k \in h .. K - 1, x < f[k + 1], k + 1 <= g  PROVE FALSE
      OBVIOUS
    <3>2. k + 1 \in 0 .. K /\ f[k + 1] <= f[g]
      BY <2>2, <3>1
    <3>3. PICK p \in Nat, q \in Nat : p = f[k + 1] /\ q = f[g]
      BY <3>2
    <3>. QED  BY <2>1, <3>1, <3>2, <3>3
  <2>6. Min(reach) = g
    <3>1. \A k \in reach : k \in Nat
      OBVIOUS
    <3>. HIDE DEF reach
    <3>2. Min(reach) \in reach /\ \A k \in reach : Min(reach) <= k
      BY <2>4, <2>5 DEF Min
    <3>3. Min(reach) <= g /\ g <= Min(reach)
      BY <2>4, <2>5, <3>2
    <3>. QED  BY <3>1, <3>2, <3>3
  <2>. HIDE DEF reach
  <2>. QED  BY <1>4, <1>5, <2>1, <2>4, <2>6
<1>6. CASE ~(x < TilesBefore(j, j.groups))
  <2>1. f[K] <= x
    <3>1. K \in 0 .. K
      OBVIOUS
    <3>2. PICK q \in Nat : q = f[K] /\ q = TilesBefore(j, j.groups)
      BY <1>1, <1>2, <3>1
    <3>. QED  BY <1>6, <3>2
  <2>2. reach = {}
    <3>1. SUFFICES ASSUME NEW k \in h .. K - 1, x < f[k + 1]  PROVE FALSE
      OBVIOUS
    <3>2. k + 1 \in 0 .. j.groups /\ K \in k + 1 .. j.groups
      BY <1>1
    <3>3. TilesBefore(j, k + 1) <= TilesBefore(j, K)
      BY <3>2, WalkRises
    <3>4. PICK p \in Nat, q \in Nat : p = f[k + 1] /\ q = f[K] /\ p <= q
      <4>1. k + 1 \in 0 .. K /\ K \in 0 .. K
        OBVIOUS
      <4>. QED  BY <1>2, <3>3, <4>1
    <3>. QED  BY <2>1, <3>1, <3>4
  <2>. HIDE DEF reach
  <2>. QED  BY <1>1, <1>4, <1>6, <2>2
<1>. QED  BY <1>5, <1>6

\* The cursor after a walk, and what the fetch returns.
LEMMA WalkIs ==
  ASSUME NEW j, Listless(j), NEW at \in Cursors, NEW x \in Nat, CursorAt(j, at, x)
  PROVE  /\ WalkOf(j, at, x) \in Cursors
         /\ WalkOf(j, at, x).iter = at.iter
         /\ CursorAt(j, WalkOf(j, at, x), x)
         /\ Walks(j) => WalkOf(j, at, x).group = IF x < Total(j) THEN GroupAt(j, x) ELSE j.groups
<1>1. CASE ~Walks(j)
  BY <1>1 DEF WalkOf, CursorAt
<1>2. CASE Walks(j)
  <2>1. PICK stop : stop = StopGroup(j, at, x) /\ stop = IF x < Total(j) THEN GroupAt(j, x) ELSE j.groups
    BY <1>2, StopIs DEF Total
  <2>2. PICK K \in Nat \ {0} : K = j.groups /\ GroupIds(j) = 0 .. K - 1
    BY <1>2, WalkedNumbers
  <2>3. PICK T \in Nat : T = Total(j) /\ T = TilesBefore(j, K)
    <3>1. K \in 0 .. j.groups
      BY <2>2
    <3>. QED  BY <1>2, <2>2, <3>1, SumsOfWalk DEF Total
  <2>4. stop \in 0 .. K /\ TilesBefore(j, stop) <= x
    <3>1. CASE x < T
      <4>1. stop = GroupAt(j, x) /\ x < TilesBefore(j, j.groups)
        BY <2>1, <2>2, <2>3, <3>1
      <4>2. stop \in GroupIds(j) /\ TilesBefore(j, stop) <= x
        BY <1>2, <4>1, GroupOfIndex
      <4>. QED  BY <2>2, <4>2
    <3>2. CASE ~(x < T)
      BY <2>1, <2>2, <2>3, <3>2
    <3>. QED  BY <3>1, <3>2
  <2>5. PICK h \in 0 .. K, p \in Nat, q \in Nat :
          /\ h = at.group /\ p = TilesBefore(j, h) /\ q = RowsBefore(j, h)
          /\ at.tiles = p /\ at.rows = q
    <3>1. at.group \in 0 .. K /\ at.tiles = TilesBefore(j, at.group) /\ at.rows = RowsBefore(j, at.group)
      BY <1>2, <2>2 DEF CursorAt
    <3>2. TilesBefore(j, at.group) \in Nat /\ RowsBefore(j, at.group) \in Nat
      BY <1>2, <2>2, <3>1, SumsOfWalk
    <3>. QED  BY <3>1, <3>2
  <2>6. PICK u \in Nat, v \in Nat : u = TilesBefore(j, stop) /\ v = RowsBefore(j, stop)
    BY <1>2, <2>2, <2>4, SumsOfWalk
  <2>7. Walked(j, at, x) = [at EXCEPT !.group = stop, !.tiles = p + u - p, !.rows = q + v - q]
    BY <2>1, <2>5, <2>6 DEF Walked
  <2>8. p + u - p = u /\ q + v - q = v
    OBVIOUS
  <2>9. Walked(j, at, x) = [at EXCEPT !.group = stop, !.tiles = u, !.rows = v]
    BY <2>7, <2>8
  <2>10. stop \in Nat
    BY <2>4
  <2>11. PICK w : w = [at EXCEPT !.group = stop, !.tiles = u, !.rows = v]
    OBVIOUS
  <2>12. w \in Cursors /\ w.iter = at.iter /\ w.group = stop /\ w.tiles = u /\ w.rows = v
    BY <2>10, <2>11 DEF Cursors
  <2>13. WalkOf(j, at, x) = w
    BY <1>2, <2>9, <2>11 DEF WalkOf
  <2>14. CursorAt(j, w, x)
    BY <2>2, <2>4, <2>6, <2>12 DEF CursorAt
  <2>. QED  BY <2>1, <2>12, <2>13, <2>14
<1>. QED  BY <1>1, <1>2

\* A fetch returns the tile of its index, or the end of the work past the total.
LEMMA FetchIs ==
  ASSUME NEW j, Listless(j), NEW at \in Cursors, NEW x \in Nat, CursorAt(j, at, x), NEW b
  PROVE  FetchNextWork(j, b, WalkOf(j, at, x), x) = IF x < Total(j) THEN TileAt(j, x) ELSE NoTile
<1>0. Total(j) \in Nat
  BY EveryLaunchEnumerates DEF Enumerates
<1>1. CASE Walks(j)
  <2>1. PICK w \in Cursors : w = WalkOf(j, at, x) /\ CursorAt(j, w, x)
                             /\ w.group = IF x < Total(j) THEN GroupAt(j, x) ELSE j.groups
    BY <1>1, WalkIs
  <2>2. CASE x < Total(j)
    <3>1. w.group = GroupAt(j, x)
      BY <2>1, <2>2
    <3>2. GroupAt(j, x) \in GroupIds(j)
      BY <1>1, <2>2, GroupOfIndex DEF Total
    <3>3. w.group # j.groups
      BY <1>1, <3>1, <3>2, WalkedNumbers
    <3>4. w.tiles = TilesBefore(j, w.group) /\ w.rows = RowsBefore(j, w.group)
      BY <1>1, <2>1 DEF CursorAt
    <3>5. FetchNextWork(j, b, w, x) = WalkedTile(j, w, x)
      BY <1>1, <3>3 DEF FetchNextWork
    <3>6. WalkedTile(j, w, x) = TileOf(j, GroupAt(j, x), x)
      BY <3>1, <3>4 DEF WalkedTile, TileOf
    <3>. QED  BY <1>1, <2>1, <2>2, <3>5, <3>6 DEF TileAt
  <2>3. CASE ~(x < Total(j))
    BY <1>1, <2>1, <2>3 DEF FetchNextWork
  <2>. QED  BY <2>2, <2>3
<1>2. CASE ~Walks(j)
  <2>1. j.scheduler \notin {"table", "fused"}
    BY DEF Listless
  <2>2. TileCount(j, b) = Total(j)
    BY <1>2, <2>1 DEF Total, TileCount
  <2>3. x >= TileCount(j, b) <=> ~(x < Total(j))
    BY <1>0, <2>2
  <2>4. FetchNextWork(j, b, WalkOf(j, at, x), x) =
          IF ~(x < Total(j)) THEN NoTile ELSE IF j.kind = "batched" THEN BatchedTile(j, x) ELSE FlatTile(j, x)
    BY <1>2, <2>1, <2>3 DEF FetchNextWork
  <2>. QED  BY <1>2, <2>4 DEF TileAt
<1>. QED  BY <1>1, <1>2

\* A tile is not the end of the work.
LEMMA TileIsWork ==
  ASSUME NEW j, Listless(j), NEW x
  PROVE  TileAt(j, x) # NoTile
<1>1. \A g, rows, before, at : "group" \in DOMAIN Tile(j, g, rows, before, at)
  BY DEF Tile
<1>2. DOMAIN NoTile = {}
  BY DEF NoTile
<1>. QED  BY <1>1, <1>2 DEF TileAt, TileOf, BatchedTile, FlatTile

-----------------------------------------------------------------------------
(* The launch: what the CTAs have taken, and what the output holds.               *)

\* CTA x % grid has come past its index x.
Taken(j, at, x) == x \div j.grid < at[x % j.grid].iter

\* Every cursor stands where its next index can be found; a CTA that ended has taken
\* all of its tiles.
Stand(j, at) ==
  /\ at \in [Ctas(j) -> Cursors]
  /\ \A c \in Ctas(j) : CursorAt(j, at[c], NextIndex(j, at[c], c))
  /\ \A c \in Ctas(j) : at[c].done =>
       \A x \in 0 .. Total(j) - 1 : x % j.grid = c => Taken(j, at, x)

TakenCells(j, at) == UNION {Cells(j, x) : x \in {y \in 0 .. Total(j) - 1 : Taken(j, at, y)}}

\* The numbers of the next index of a CTA.
LEMMA NextIs ==
  ASSUME NEW j, Listless(j), NEW c \in Ctas(j), NEW at \in Cursors
  PROVE  /\ j.grid \in Nat \ {0} /\ NextIndex(j, at, c) \in Nat
         /\ NextIndex(j, at, c) \div j.grid = at.iter /\ NextIndex(j, at, c) % j.grid = c
<1>1. PICK K \in Nat \ {0} : K = j.grid
  BY DEF Listless, Sized
<1>2. PICK i \in Nat : i = at.iter
  BY DEF Cursors
<1>3. c \in 0 .. K - 1
  BY <1>1 DEF Ctas
<1>4. (i * K + c) % K = c /\ (i * K + c) \div K = i /\ i * K + c \in Nat
  BY <1>3, Remainder
<1>. QED  BY <1>1, <1>2, <1>4 DEF NextIndex

\* Among the indices of CTA c, one step of its iteration adds the next one.
LEMMA OneMore ==
  ASSUME NEW K \in Nat \ {0}, NEW c \in 0 .. K - 1, NEW i \in Nat, NEW y \in Nat, y % K = c
  PROVE  y \div K \in Nat /\ (y \div K < i + 1 <=> y \div K < i \/ y = i * K + c)
<1>1. PICK q \in Nat, d \in 0 .. K - 1 : y = q * K + d /\ y \div K = q /\ y % K = d
  BY DivMod
<1>2. d = c
  BY <1>1
<1>3. q < i + 1 <=> q < i \/ q = i
  OBVIOUS
<1>4. y = i * K + c => q = i
  <2>1. (i * K + c) \div K = i
    BY Remainder
  <2>. QED  BY <1>1, <2>1
<1>. QED  BY <1>1, <1>2, <1>3, <1>4

\* The cursor a fetch leaves behind.
Fetched(j, at, c) ==
  LET x == NextIndex(j, at[c], c)
      w == WalkOf(j, at[c], x)
  IN  [w EXCEPT !.iter = @ + 1, !.done = FetchNextWork(j, <<>>, w, x) = NoTile]
After(j, at, c) == [at EXCEPT ![c] = Fetched(j, at, c)]

\* It stands at the next index of its CTA, or is done past the total.
LEMMA FetchedIs ==
  ASSUME NEW j, Listless(j), NEW at, Stand(j, at), NEW c \in Ctas(j)
  PROVE  /\ Fetched(j, at, c) \in Cursors
         /\ Fetched(j, at, c).iter = at[c].iter + 1
         /\ Fetched(j, at, c).done <=> ~(NextIndex(j, at[c], c) < Total(j))
         /\ CursorAt(j, Fetched(j, at, c), NextIndex(j, Fetched(j, at, c), c))
<1>1. PICK a \in Cursors : a = at[c] /\ CursorAt(j, a, NextIndex(j, a, c))
  BY DEF Stand
<1>2. PICK x \in Nat, K \in Nat \ {0} : x = NextIndex(j, a, c) /\ K = j.grid
  BY NextIs
<1>3. PICK w \in Cursors : w = WalkOf(j, a, x) /\ w.iter = a.iter /\ CursorAt(j, w, x)
  BY <1>1, <1>2, WalkIs
<1>4. PICK d \in BOOLEAN : d <=> FetchNextWork(j, <<>>, w, x) = NoTile
  OBVIOUS
<1>5. d <=> ~(x < Total(j))
  <2>1. FetchNextWork(j, <<>>, w, x) = IF x < Total(j) THEN TileAt(j, x) ELSE NoTile
    BY <1>1, <1>2, <1>3, FetchIs
  <2>. QED  BY <1>4, <2>1, TileIsWork
<1>6. PICK f : f = [w EXCEPT !.iter = w.iter + 1, !.done = d]
  OBVIOUS
<1>7. f = Fetched(j, at, c)
  <2>1. Fetched(j, at, c) = [w EXCEPT !.iter = w.iter + 1, !.done = FetchNextWork(j, <<>>, w, x) = NoTile]
    BY <1>1, <1>2, <1>3 DEF Fetched
  <2>2. (FetchNextWork(j, <<>>, w, x) = NoTile) = d
    BY <1>4, Zenon
  <2>. QED  BY <1>6, <2>1, <2>2, Zenon
<1>8. f \in Cursors /\ f.iter = w.iter + 1 /\ (f.done <=> d) /\ f.group = w.group /\ f.tiles = w.tiles
      /\ f.rows = w.rows
  <2>1. DOMAIN w = {"iter", "group", "tiles", "rows", "done"} /\ w.iter \in Nat
    BY <1>3 DEF Cursors
  <2>2. f.iter = w.iter + 1 /\ f.group = w.group /\ f.tiles = w.tiles /\ f.rows = w.rows
    BY <1>6, <2>1
  <2>3. f.done = d
    BY <1>6, <2>1, Zenon
  <2>4. f.iter \in Nat /\ f.group \in Nat /\ f.tiles \in Nat /\ f.rows \in Nat /\ f.done \in BOOLEAN
    BY <1>3, <1>4, <2>1, <2>2, <2>3 DEF Cursors
  <2>5. f = [iter |-> f.iter, group |-> f.group, tiles |-> f.tiles, rows |-> f.rows, done |-> f.done]
    BY <1>6, <2>1
  <2>6. f \in Cursors
    BY <2>4, <2>5 DEF Cursors
  <2>. QED  BY <2>2, <2>3, <2>6
<1>9. NextIndex(j, f, c) \in Nat /\ x <= NextIndex(j, f, c)
  <2>1. PICK i \in Nat, k \in Nat : i = a.iter /\ k = c
    BY <1>1, <1>2 DEF Cursors, Ctas
  <2>2. x = i * K + k /\ NextIndex(j, f, c) = (i + 1) * K + k
    BY <1>2, <1>3, <1>8, <2>1 DEF NextIndex
  <2>3. (i + 1) * K = i * K + K /\ i * K \in Nat
    OBVIOUS
  <2>. QED  BY <2>2, <2>3
<1>10. CursorAt(j, f, NextIndex(j, f, c))
  <2>1. SUFFICES ASSUME Walks(j)
                 PROVE  TilesBefore(j, w.group) <= NextIndex(j, f, c)
    BY <1>3, <1>8 DEF CursorAt
  <2>2. w.tiles = TilesBefore(j, w.group) /\ TilesBefore(j, w.group) <= x /\ w.tiles \in Nat
    BY <1>3, <2>1 DEF CursorAt, Cursors
  <2>. QED  BY <1>9, <2>2
<1>. QED  BY <1>1, <1>2, <1>3, <1>5, <1>7, <1>8, <1>10

\* A fetch takes its index and no other, once.
LEMMA TakenAfter ==
  ASSUME NEW j, Listless(j), NEW at, Stand(j, at), NEW c \in Ctas(j)
  PROVE  /\ ~Taken(j, at, NextIndex(j, at[c], c))
         /\ \A y \in 0 .. Total(j) - 1 :
              Taken(j, After(j, at, c), y) <=> Taken(j, at, y) \/ y = NextIndex(j, at[c], c)
<1>1. at \in [Ctas(j) -> Cursors] /\ at[c] \in Cursors
  BY DEF Stand
<1>2. PICK K \in Nat \ {0}, x \in Nat, i \in Nat :
        K = j.grid /\ x = NextIndex(j, at[c], c) /\ i = at[c].iter
  BY <1>1, NextIs DEF Cursors
<1>3. x \div K = i /\ x % K = c
  BY <1>1, <1>2, NextIs
<1>4. ~Taken(j, at, x)
  BY <1>2, <1>3 DEF Taken
<1>5. PICK new : new = After(j, at, c)
  OBVIOUS
<1>6. \A e \in Ctas(j) : new[e] = IF e = c THEN Fetched(j, at, c) ELSE at[e]
  BY <1>1, <1>5 DEF After
<1>7. Fetched(j, at, c).iter = i + 1
  BY <1>2, FetchedIs
<1>8. ASSUME NEW y \in Nat
      PROVE  Taken(j, new, y) <=> Taken(j, at, y) \/ y = x
  <2>1. y % K \in Ctas(j)
    <3>1. y % K \in 0 .. K - 1
      OBVIOUS
    <3>. QED  BY <1>2, <3>1 DEF Ctas
  <2>2. CASE y % K = c
    <3>1. Taken(j, new, y) <=> y \div K < i + 1
      BY <1>2, <1>6, <1>7, <2>1, <2>2 DEF Taken
    <3>2. Taken(j, at, y) <=> y \div K < i
      BY <1>2, <2>2 DEF Taken
    <3>3. x = i * K + c
      BY <1>2 DEF NextIndex
    <3>4. c \in 0 .. K - 1
      BY <1>2 DEF Ctas
    <3>. QED  BY <2>2, <3>1, <3>2, <3>3, <3>4, OneMore
  <2>3. CASE y % K # c
    <3>1. new[y % K] = at[y % K]
      BY <1>6, <2>1, <2>3
    <3>2. y # x
      BY <1>3, <2>3
    <3>. QED  BY <1>2, <3>1, <3>2 DEF Taken
  <2>. QED  BY <2>2, <2>3
<1>9. \A y \in 0 .. Total(j) - 1 : y \in Nat
  <2>1. Total(j) \in Nat
    BY EveryLaunchEnumerates DEF Enumerates
  <2>. QED  BY <2>1
<1>. QED  BY <1>2, <1>4, <1>5, <1>8, <1>9

\* After a fetch all cursors stand as they should.
LEMMA StandAfter ==
  ASSUME NEW j, Listless(j), NEW at, Stand(j, at), NEW c \in Ctas(j)
  PROVE  Stand(j, After(j, at, c))
<1>1. at \in [Ctas(j) -> Cursors] /\ at[c] \in Cursors
  BY DEF Stand
<1>2. PICK new : new = After(j, at, c)
  OBVIOUS
<1>3. new \in [Ctas(j) -> Cursors]
  BY <1>1, <1>2, FetchedIs DEF After
<1>4. \A e \in Ctas(j) : new[e] = IF e = c THEN Fetched(j, at, c) ELSE at[e]
  BY <1>1, <1>2 DEF After
<1>5. \A e \in Ctas(j) : CursorAt(j, new[e], NextIndex(j, new[e], e))
  BY <1>4, FetchedIs DEF Stand
<1>6. ASSUME NEW e \in Ctas(j), new[e].done, NEW y \in 0 .. Total(j) - 1, y % j.grid = e
      PROVE  Taken(j, new, y)
  <2>1. CASE e # c
    <3>1. Taken(j, at, y)
      BY <1>4, <1>6, <2>1 DEF Stand
    <3>. QED  BY <1>2, <3>1, TakenAfter
  <2>2. CASE e = c
    <3>1. PICK K \in Nat \ {0}, x \in Nat, i \in Nat, T \in Nat :
            /\ K = j.grid /\ x = NextIndex(j, at[c], c) /\ i = at[c].iter /\ T = Total(j)
      BY <1>1, NextIs, EveryLaunchEnumerates DEF Cursors, Enumerates
    <3>2. x \div K = i
      BY <1>1, <3>1, NextIs
    <3>3. ~(x < T)
      BY <1>4, <1>6, <2>2, <3>1, FetchedIs
    <3>4. y \in Nat /\ y <= x
      BY <3>1, <3>3
    <3>5. y \div K \in Nat /\ y \div K <= i
      BY <3>2, <3>4, DivMonotone
    <3>6. new[y % K].iter = i + 1
      BY <1>4, <1>6, <2>2, <3>1, FetchedIs
    <3>. QED  BY <3>1, <3>5, <3>6 DEF Taken
  <2>. QED  BY <2>1, <2>2
<1>. QED  BY <1>2, <1>3, <1>5, <1>6 DEF Stand

\* What the output holds after a fetch.
LEMMA CellsAfter ==
  ASSUME NEW j, Listless(j), NEW at, Stand(j, at), NEW c \in Ctas(j),
         NEW x, x = NextIndex(j, at[c], c)
  PROVE  TakenCells(j, After(j, at, c)) =
           TakenCells(j, at) \cup (IF x < Total(j) THEN Cells(j, x) ELSE {})
<1>1. PICK T \in Nat : T = Total(j)
  BY EveryLaunchEnumerates DEF Enumerates
<1>2. x \in Nat
  BY NextIs DEF Stand
<1>3. \A y \in 0 .. T - 1 : Taken(j, After(j, at, c), y) <=> Taken(j, at, y) \/ y = x
  BY <1>1, TakenAfter
<1>4. CASE x < T
  <2>1. x \in 0 .. T - 1
    BY <1>2, <1>4
  <2>2. \A cell : (\E y \in 0 .. T - 1 : Taken(j, After(j, at, c), y) /\ cell \in Cells(j, y)) <=>
                  (\E y \in 0 .. T - 1 : Taken(j, at, y) /\ cell \in Cells(j, y)) \/ cell \in Cells(j, x)
    BY <1>3, <2>1
  <2>. QED  BY <1>1, <1>4, <2>2 DEF TakenCells
<1>5. CASE ~(x < T)
  <2>1. x \notin 0 .. T - 1
    BY <1>2, <1>5
  <2>2. \A cell : (\E y \in 0 .. T - 1 : Taken(j, After(j, at, c), y) /\ cell \in Cells(j, y)) <=>
                  (\E y \in 0 .. T - 1 : Taken(j, at, y) /\ cell \in Cells(j, y))
    BY <1>3, <2>1
  <2>. QED  BY <1>1, <1>5, <2>2 DEF TakenCells
<1>. QED  BY <1>4, <1>5

\* A fetch stores at no position that the output holds.
LEMMA NothingTwice ==
  ASSUME NEW j, Listless(j), NEW at, Stand(j, at), NEW c \in Ctas(j),
         NEW x, x = NextIndex(j, at[c], c)
  PROVE  Positions(TakenCells(j, at)) \cap Positions(IF x < Total(j) THEN Cells(j, x) ELSE {}) = {}
<1>1. PICK T \in Nat : T = Total(j)
  BY EveryLaunchEnumerates DEF Enumerates
<1>2. x \in Nat /\ ~Taken(j, at, x)
  BY NextIs, TakenAfter DEF Stand
<1>3. CASE ~(x < T)
  BY <1>1, <1>3 DEF Positions
<1>4. CASE x < T
  <2>1. x \in 0 .. T - 1
    BY <1>2, <1>4
  <2>2. ASSUME NEW p \in Positions(TakenCells(j, at)), p \in Positions(Cells(j, x))
        PROVE  FALSE
    <3>1. PICK cell \in TakenCells(j, at) : p = <<cell[1], cell[2]>>
      BY DEF Positions
    <3>2. PICK y \in 0 .. T - 1 : Taken(j, at, y) /\ cell \in Cells(j, y)
      BY <1>1, <3>1 DEF TakenCells
    <3>3. p \in Positions(Cells(j, y)) /\ x # y
      BY <1>2, <3>1, <3>2 DEF Positions
    <3>4. Positions(Cells(j, x)) \cap Positions(Cells(j, y)) = {}
      BY <1>1, <2>1, <3>2, <3>3, CellsApart
    <3>. QED  BY <2>2, <3>3, <3>4
  <2>. QED  BY <1>1, <1>4, <2>2
<1>. QED  BY <1>3, <1>4

-----------------------------------------------------------------------------
(* The theorem: a launch without a list writes every cell of its output once.      *)

ListFree(j) == j.scheduler \in {"walk", "expand", "builders"}

\* The inductive invariant.
Launch ==
  /\ job \in Jobs
  /\ ListFree(job) =>
       /\ stage = "run" /\ buf = <<>>
       /\ Stand(job, cursor)
       /\ output = TakenCells(job, cursor) /\ twice = {}

\* The assumption on the jobs says so.
LEMMA ListFreeIsListless ==
  ASSUME NEW j \in Jobs, ListFree(j)
  PROVE  Listless(j)
BY JobsAssumption DEF Listless, ListFree

\* Nothing is taken before the first fetch.
LEMMA LaunchInit == TileInit => Launch
<1>1. SUFFICES ASSUME TileInit, ListFree(job)
               PROVE  Launch
  BY DEF TileInit, Launch
<1>2. job \in Jobs /\ Listless(job)
  BY <1>1, ListFreeIsListless DEF TileInit
<1>3. stage = "run" /\ buf = <<>>
  BY <1>1 DEF TileInit, ListFree
<1>4. PICK at : at = cursor /\ at = [c \in Ctas(job) |-> FirstCursor] /\ output = {} /\ twice = {}
  BY <1>1 DEF TileInit
<1>5. FirstCursor \in Cursors /\ FirstCursor.iter = 0 /\ FirstCursor.group = 0 /\ FirstCursor.tiles = 0
      /\ FirstCursor.rows = 0 /\ FirstCursor.done = FALSE
  BY DEF FirstCursor, Cursors
<1>6. at \in [Ctas(job) -> Cursors] /\ \A c \in Ctas(job) : at[c] = FirstCursor
  BY <1>4, <1>5
<1>7. ASSUME NEW c \in Ctas(job)
      PROVE  CursorAt(job, FirstCursor, NextIndex(job, FirstCursor, c))
  <2>1. SUFFICES ASSUME Walks(job)
                 PROVE  CursorAt(job, FirstCursor, NextIndex(job, FirstCursor, c))
    BY DEF CursorAt
  <2>2. TilesBefore(job, 0) = 0 /\ RowsBefore(job, 0) = 0 /\ job.groups \in Nat
    BY <1>2, <2>1, WalkedNumbers, SumsOfWalk
  <2>3. NextIndex(job, FirstCursor, c) \in Nat
    BY <1>2, <1>5, NextIs
  <2>. QED  BY <1>5, <2>2, <2>3 DEF CursorAt
<1>8. Stand(job, at)
  BY <1>5, <1>6, <1>7 DEF Stand
<1>9. TakenCells(job, at) = {}
  <2>1. ASSUME NEW y \in 0 .. Total(job) - 1
        PROVE  ~Taken(job, at, y)
    <3>1. PICK K \in Nat \ {0} : K = job.grid
      BY <1>2 DEF Listless, Sized
    <3>2. y \in Nat
      <4>1. Total(job) \in Nat
        BY <1>2, EveryLaunchEnumerates DEF Enumerates
      <4>. QED  BY <4>1
    <3>3. y % K \in 0 .. K - 1 /\ y \div K \in Nat
      BY <3>2
    <3>4. at[y % K].iter = 0
      BY <1>5, <1>6, <3>1, <3>3 DEF Ctas
    <3>. QED  BY <3>1, <3>3, <3>4 DEF Taken
  <2>. QED  BY <2>1 DEF TakenCells
<1>. QED  BY <1>2, <1>3, <1>4, <1>8, <1>9 DEF Launch

\* A fetch of a CTA of such a launch.
LEMMA LaunchTakes ==
  ASSUME Launch, ListFree(job), NEW c \in Ctas(job), Take(c)
  PROVE  Launch'
<1>1. job \in Jobs /\ Listless(job) /\ Stand(job, cursor) /\ buf = <<>> /\ stage = "run"
      /\ output = TakenCells(job, cursor) /\ twice = {}
  BY ListFreeIsListless DEF Launch
<1>2. PICK x \in Nat : x = NextIndex(job, cursor[c], c)
  BY <1>1, NextIs DEF Stand
<1>3. cursor[c] \in Cursors /\ CursorAt(job, cursor[c], x)
  BY <1>1, <1>2 DEF Stand
<1>4. PICK w : w = WalkOf(job, cursor[c], x)
  OBVIOUS
<1>5. PICK tile : tile = FetchNextWork(job, <<>>, w, x)
  OBVIOUS
<1>6. PICK cells : cells = IF tile = NoTile THEN {} ELSE Stored(job, buf, tile)
  OBVIOUS
<1>7. cells = IF x < Total(job) THEN Cells(job, x) ELSE {}
  <2>1. tile = IF x < Total(job) THEN TileAt(job, x) ELSE NoTile
    BY <1>1, <1>3, <1>4, <1>5, FetchIs
  <2>2. TileAt(job, x) # NoTile
    BY <1>1, TileIsWork
  <2>. QED  BY <1>1, <1>6, <2>1, <2>2 DEF Cells
<1>8. /\ cursor' = After(job, cursor, c)
      /\ output' = output \cup cells
      /\ twice' = twice \cup (Positions(output) \cap Positions(cells))
      /\ UNCHANGED <<job, stage, buf>>
  BY <1>1, <1>2, <1>4, <1>5, <1>6 DEF Take, After, Fetched, WalkOf
<1>9. Stand(job, cursor')
  BY <1>1, <1>8, StandAfter
<1>10. output' = TakenCells(job, cursor')
  BY <1>1, <1>2, <1>7, <1>8, CellsAfter
<1>11. twice' = {}
  BY <1>1, <1>2, <1>7, <1>8, NothingTwice
<1>. QED  BY <1>1, <1>8, <1>9, <1>10, <1>11 DEF Launch

\* Every step keeps the invariant: without a list no kernel runs before, and
\* signals change no cell.
LEMMA LaunchStays == Launch /\ [TileNext]_tileVars => Launch'
<1>1. SUFFICES ASSUME Launch, [TileNext]_tileVars
               PROVE  Launch'
  OBVIOUS
<1>2. CASE ListFree(job)
  <2>1. job \in Jobs /\ stage = "run"
    BY <1>1, <1>2 DEF Launch
  <2>2. ASSUME NEW c \in Ctas(job), Take(c)
        PROVE  Launch'
    BY <1>1, <1>2, <2>2, LaunchTakes
  <2>3. ASSUME NEW c \in Ctas(job), Signal(c)
        PROVE  Launch'
    BY <1>1, <2>3 DEF Launch, Signal
  <2>4. CASE UNCHANGED tileVars
    BY <1>1, <2>4 DEF Launch, tileVars
  <2>5. CASE TilesFinished
    BY <2>4, <2>5 DEF TilesFinished
  <2>6. ~(AlignWarpOrdered \/ Count \/ Scan \/ Cumsum \/ Scatter \/ ListBlocks)
    BY <2>1 DEF AlignWarpOrdered, Count, Scan, Cumsum, Scatter, ListBlocks, Kernel
  <2>. QED  BY <1>1, <2>2, <2>3, <2>4, <2>5, <2>6 DEF TileNext
<1>3. CASE ~ListFree(job)
  <2>1. job' = job
    BY <1>1 DEF TileNext, AlignWarpOrdered, Count, Scan, Cumsum, Scatter, ListBlocks, Kernel, Take, Signal,
                TilesFinished, tileVars
  <2>. QED  BY <1>1, <1>3, <2>1 DEF Launch
<1>. QED  BY <1>2, <1>3

\* When every CTA has ended, every index is taken, and their tiles cover the output.
LEMMA LaunchDone ==
  ASSUME Launch, ListFree(job)
  PROVE  EveryCellOnce
<1>1. Listless(job) /\ Stand(job, cursor) /\ output = TakenCells(job, cursor) /\ twice = {}
  BY ListFreeIsListless DEF Launch
<1>2. SUFFICES ASSUME JobDone
               PROVE  output = {x \in MeantCells(job) : ~Dropped(job, job.sizes[x[4]], x[2])}
  BY <1>1 DEF EveryCellOnce
<1>3. ASSUME NEW y \in 0 .. Total(job) - 1
      PROVE  Taken(job, cursor, y)
  <2>1. PICK K \in Nat \ {0} : K = job.grid
    BY <1>1 DEF Listless, Sized
  <2>2. y \in Nat
    <3>1. Total(job) \in Nat
      BY <1>1, EveryLaunchEnumerates DEF Enumerates
    <3>. QED  BY <3>1
  <2>3. y % K \in 0 .. K - 1
    BY <2>2
  <2>4. y % job.grid \in Ctas(job)
    BY <2>1, <2>3 DEF Ctas
  <2>. QED  BY <1>1, <1>2, <2>4 DEF JobDone, Stand
<1>4. \A cell : cell \in TakenCells(job, cursor) <=> \E y \in 0 .. Total(job) - 1 : cell \in Cells(job, y)
  BY <1>3 DEF TakenCells
<1>5. \A cell : cell \in output <=>
                  cell \in MeantCells(job) /\ ~Dropped(job, job.sizes[cell[4]], cell[2])
  BY <1>1, <1>4, CellsCover
<1>. QED  BY <1>5

\* For every job without a list, every width of the output, every number of CTAs and
\* every order in which they fetch: no position of the output is written by two tiles,
\* and when all CTAs have ended the output holds the cells of the job, each from the
\* row of A and the weights it is meant for, and no other. All of them, but where int8
\* halves an odd number of column blocks (HalvesOdd, scheduler_cutlass3.cuh:257-261):
\* there the last block of the group is missing, and nothing else is
\* (DeepGemmScheduler, DenseGemmScheduler, fetch_next_work_dynamic_tile and
\* DynamicTileScheduler).
THEOREM AlwaysEveryCellOnce == TileSpec => [](ListFree(job) => EveryCellOnce)
<1>1. Launch => (ListFree(job) => EveryCellOnce)
  BY LaunchDone
<1>. QED  BY LaunchInit, LaunchStays, <1>1, PTL DEF TileSpec

-----------------------------------------------------------------------------
(* Signals: the launches with SBO overlap whose tiles are one column block wide.   *)

Signalling(j) ==
  /\ Listless(j) /\ j.kind = "masked" /\ j.scheduler = "walk"
  /\ j.sbo /\ KernelSignals(j) /\ NExpand(j) = 1

PerGroup(j) == UpDiv(j.shapeM, j.bm)

\* The indices whose tiles signal a word, and whether there are any.
OfWord(j, w) == {x \in 0 .. Total(j) - 1 : SignalWord(j, TileAt(j, x)) = w}
Used(j, w) == (w % PerGroup(j)) * j.bm < j.sizes[w \div PerGroup(j)]

\* The numbers of such a launch.
LEMMA SignallingNumbers ==
  ASSUME NEW j, Signalling(j)
  PROVE  /\ Walks(j) /\ Parts(j) = GroupIds(j) /\ GroupIds(j) = 0 .. j.groups - 1
         /\ j.groups \in Nat \ {0} /\ j.bm \in Nat \ {0} /\ j.n \in Nat \ {0} /\ j.bn \in Nat \ {0}
         /\ j.shapeM \in Nat /\ PerGroup(j) \in Nat /\ Threshold(j) \in Nat
         /\ \A g \in GroupIds(j) :
              /\ j.sizes[g] \in Nat /\ j.sizes[g] <= j.shapeM
              /\ Height(j, g) = j.sizes[g]
              /\ TileM(j, j.sizes[g]) = j.bm /\ TileN(j, j.sizes[g]) = j.bn
              /\ Rows(j, g) = UpDiv(j.sizes[g], j.bm) /\ Rows(j, g) \in Nat /\ Rows(j, g) <= PerGroup(j)
              /\ Cols(j, g) = Threshold(j)
<1>1. /\ Walks(j) /\ Parts(j) = GroupIds(j) /\ GroupIds(j) = 0 .. j.groups - 1
      /\ j.groups \in Nat \ {0} /\ j.bm \in Nat \ {0} /\ j.n \in Nat \ {0} /\ j.bn \in Nat \ {0}
      /\ j.shapeM \in Nat /\ ~IsDynamic(j)
      /\ \A g \in GroupIds(j) : j.sizes[g] \in Nat /\ j.sizes[g] <= j.shapeM
  BY DEF Signalling, Listless, Sized, Walks, Parts, GroupIds, IsDynamic
<1>2. PerGroup(j) \in Nat /\ Threshold(j) \in Nat
  BY <1>1, UpDivFacts DEF PerGroup, Threshold
<1>3. ASSUME NEW g \in GroupIds(j)
      PROVE  /\ Height(j, g) = j.sizes[g]
             /\ TileM(j, j.sizes[g]) = j.bm /\ TileN(j, j.sizes[g]) = j.bn
             /\ Rows(j, g) = UpDiv(j.sizes[g], j.bm) /\ Rows(j, g) \in Nat /\ Rows(j, g) <= PerGroup(j)
             /\ Cols(j, g) = Threshold(j)
  <2>1. Height(j, g) = j.sizes[g]
    BY <1>1 DEF Height
  <2>2. TileM(j, j.sizes[g]) = j.bm /\ TileN(j, j.sizes[g]) = TileColumns(j)
    BY <1>1 DEF TileM, TileN
  <2>3. TileColumns(j) = j.bn
    BY <1>1 DEF TileColumns, Signalling
  <2>4. Rows(j, g) = UpDiv(j.sizes[g], j.bm) /\ Cols(j, g) = UpDiv(j.n, j.bn)
    BY <2>1, <2>2, <2>3 DEF Rows, Cols, BlockRows, BlockCols, HalvesOdd, Signalling
  <2>5. PICK a \in Nat, s \in Nat, b \in Nat \ {0} : a = j.sizes[g] /\ s = j.shapeM /\ b = j.bm /\ a <= s
    BY <1>1
  <2>6. (a + b - 1) \div b <= (s + b - 1) \div b /\ (a + b - 1) \div b \in Nat
    <3>1. a + b - 1 \in Nat /\ s + b - 1 \in Nat /\ a + b - 1 <= s + b - 1
      BY <2>5
    <3>. QED  BY <2>5, <3>1, DivMonotone
  <2>7. Rows(j, g) = (a + b - 1) \div b /\ PerGroup(j) = (s + b - 1) \div b
    BY <2>4, <2>5 DEF UpDiv, PerGroup
  <2>8. Rows(j, g) \in Nat /\ Rows(j, g) <= PerGroup(j)
    BY <2>6, <2>7
  <2>. QED  BY <2>1, <2>2, <2>3, <2>4, <2>8 DEF Threshold
<1>. QED  BY <1>1, <1>2, <1>3

\* A word is a group and a row of blocks.
LEMMA WordDigits ==
  ASSUME NEW j, Signalling(j), NEW w \in SignalWords(j)
  PROVE  /\ w \div PerGroup(j) \in GroupIds(j) /\ w % PerGroup(j) \in 0 .. PerGroup(j) - 1
         /\ w = (w \div PerGroup(j)) * PerGroup(j) + (w % PerGroup(j))
<1>1. PICK p \in Nat, gs \in Nat : p = PerGroup(j) /\ gs = j.groups /\ GroupIds(j) = 0 .. gs - 1
  BY SignallingNumbers
<1>2. w \in 0 .. gs * p - 1
  BY <1>1 DEF SignalWords, Signalling, PerGroup
<1>3. p > 0 /\ w \in Nat /\ w < gs * p
  <2>1. PICK k \in Nat : k = gs * p
    OBVIOUS
  <2>2. w \in Nat /\ w < k /\ k # 0
    BY <1>2, <2>1
  <2>3. p = 0 => k = 0
    BY <2>1
  <2>. QED  BY <2>1, <2>2, <2>3
<1>4. PICK q \in Nat, m \in 0 .. p - 1 : w = q * p + m /\ w \div p = q /\ w % p = m
  BY <1>3, DivMod
<1>5. q < gs
  BY <1>3, <1>4, RowOfCell
<1>6. w \div PerGroup(j) = q /\ w % PerGroup(j) = m
  BY <1>1, <1>4
<1>7. q \in GroupIds(j)
  <2>1. q \in 0 .. gs - 1
    BY <1>5
  <2>. QED  BY <1>1, <2>1
<1>8. m \in 0 .. PerGroup(j) - 1 /\ w = q * PerGroup(j) + m
  BY <1>1, <1>4, Zenon
<1>. QED  BY <1>6, <1>7, <1>8

\* The word of a block.
LEMMA WordOfBlock ==
  ASSUME NEW j, Signalling(j), NEW g, NEW m, NEW n, InJob(j, g, m, n), NEW t, Block(j, t, g, m, n)
  PROVE  /\ SignalWord(j, t) \in SignalWords(j)
         /\ SignalWord(j, t) \div PerGroup(j) = g /\ SignalWord(j, t) % PerGroup(j) = m
<1>1. PICK p \in Nat, gs \in Nat : p = PerGroup(j) /\ gs = j.groups /\ GroupIds(j) = 0 .. gs - 1
  BY SignallingNumbers
<1>2. g \in 0 .. gs - 1 /\ g \in GroupIds(j) /\ Rows(j, g) \in Nat /\ Rows(j, g) <= p
  BY <1>1, SignallingNumbers DEF InJob
<1>3. m \in 0 .. p - 1 /\ p > 0
  BY <1>2 DEF InJob
<1>4. PICK w : w = g * p + m
  OBVIOUS
<1>5. SignalWord(j, t) = w
  BY <1>1, <1>4 DEF SignalWord, Block, PerGroup
<1>6. w \div p = g /\ w % p = m
  BY <1>2, <1>3, <1>4, Remainder
<1>7. w \in Nat /\ w < gs * p
  <2>1. w \in Nat
    BY <1>2, <1>3, <1>4
  <2>. QED  BY <1>2, <1>3, <1>6, <2>1, RowOfCell
<1>8. w \in 0 .. gs * p - 1
  <2>1. gs * p \in Nat
    OBVIOUS
  <2>. QED  BY <1>7, <2>1
<1>9. SignalWords(j) = 0 .. gs * p - 1
  BY <1>1 DEF SignalWords, Signalling, PerGroup
<1>. QED  BY <1>1, <1>5, <1>6, <1>8, <1>9

\* A row below the size of its group is in one of its blocks.
LEMMA RowsOfWord ==
  ASSUME NEW a \in Nat, NEW b \in Nat \ {0}, NEW m \in Nat
  PROVE  m * b < a <=> m < UpDiv(a, b)
<1>1. PICK u \in Nat : u = UpDiv(a, b) /\ a <= u * b /\ u * b < a + b
  BY UpDivFacts
<1>2. m < u => m * b + b <= u * b
  <2>1. m < u => (m + 1) * b <= u * b
    OBVIOUS
  <2>2. (m + 1) * b = m * b + b
    OBVIOUS
  <2>. QED  BY <2>1, <2>2
<1>3. u <= m => u * b <= m * b
  OBVIOUS
<1>4. PICK x \in Nat, y \in Nat : x = m * b /\ y = u * b
  OBVIOUS
<1>. QED  BY <1>1, <1>2, <1>3, <1>4

\* A word is signalled by one tile for each column block, or by none.
LEMMA TilesOfWord ==
  ASSUME NEW j, Signalling(j), NEW w \in SignalWords(j)
  PROVE  /\ IsFiniteSet(OfWord(j, w))
         /\ Cardinality(OfWord(j, w)) = IF Used(j, w) THEN Threshold(j) ELSE 0
<1>1. TilesAreBlocks(j) /\ TilesDiffer(j) /\ BlocksHaveTiles(j) /\ Listless(j)
  BY EveryLaunchEnumerates DEF Enumerates, Signalling
<1>2. PICK g \in GroupIds(j), m \in Nat : g = w \div PerGroup(j) /\ m = w % PerGroup(j)
  <2>1. PerGroup(j) \in Nat
    BY SignallingNumbers
  <2>. QED  BY <2>1, WordDigits
<1>3. PICK cols \in Nat : cols = Threshold(j) /\ cols = Cols(j, g)
  BY SignallingNumbers
<1>4. ASSUME NEW x \in OfWord(j, w)
      PROVE  /\ InJob(j, g, m, TileAt(j, x).n)
             /\ TileAt(j, x).group = g /\ TileAt(j, x).m = m /\ TileAt(j, x).n \in 0 .. cols - 1
  <2>1. x \in 0 .. Total(j) - 1 /\ SignalWord(j, TileAt(j, x)) = w
    BY DEF OfWord
  <2>2. PICK h, k, n : InJob(j, h, k, n) /\ Block(j, TileAt(j, x), h, k, n)
    BY <1>1, <2>1 DEF TilesAreBlocks
  <2>3. h = g /\ k = m
    BY <1>2, <2>1, <2>2, WordOfBlock
  <2>. QED  BY <1>3, <2>2, <2>3 DEF Block, InJob
<1>5. ASSUME NEW n, InJob(j, g, m, n)
      PROVE  \E x \in OfWord(j, w) : TileAt(j, x).n = n
  <2>1. PICK x \in 0 .. Total(j) - 1 : Block(j, TileAt(j, x), g, m, n)
    BY <1>1, <1>5 DEF BlocksHaveTiles
  <2>2. SignalWord(j, TileAt(j, x)) = g * PerGroup(j) + m
    BY <2>1 DEF Block, SignalWord, PerGroup
  <2>3. SignalWord(j, TileAt(j, x)) = w
    BY <1>2, <2>2, WordDigits
  <2>. QED  BY <2>1, <2>3 DEF OfWord, Block
<1>6. Used(j, w) <=> m < Rows(j, g)
  <2>1. /\ j.sizes[g] \in Nat /\ j.bm \in Nat \ {0} /\ Rows(j, g) = UpDiv(j.sizes[g], j.bm)
    BY SignallingNumbers
  <2>. QED  BY <1>2, <2>1, RowsOfWord DEF Used
<1>7. CASE m < Rows(j, g)
  <2>1. \A n \in 0 .. cols - 1 : InJob(j, g, m, n)
    <3>1. Rows(j, g) \in Nat /\ g \in Parts(j)
      BY SignallingNumbers
    <3>. QED  BY <1>3, <1>7, <3>1 DEF InJob
  <2>2. PICK f : f = [x \in OfWord(j, w) |-> TileAt(j, x).n]
    OBVIOUS
  <2>3. f \in [OfWord(j, w) -> 0 .. cols - 1]
    BY <1>4, <2>2
  <2>4. \A n \in 0 .. cols - 1 : \E x \in OfWord(j, w) : f[x] = n
    BY <1>5, <2>1, <2>2
  <2>5. \A x, y \in OfWord(j, w) : f[x] = f[y] => x = y
    <3>1. SUFFICES ASSUME NEW x \in OfWord(j, w), NEW y \in OfWord(j, w), f[x] = f[y]
                   PROVE  x = y
      OBVIOUS
    <3>2. TileAt(j, x).n = TileAt(j, y).n
      BY <2>2, <3>1
    <3>3. x \in 0 .. Total(j) - 1 /\ y \in 0 .. Total(j) - 1
      BY DEF OfWord
    <3>. QED  BY <1>1, <1>4, <3>2, <3>3 DEF TilesDiffer
  <2>6. f \in Injection(OfWord(j, w), 0 .. cols - 1) /\ f \in Surjection(OfWord(j, w), 0 .. cols - 1)
    BY <2>3, <2>4, <2>5 DEF Injection, Surjection, IsInjective
  <2>7. IsFiniteSet(0 .. cols - 1) /\ Cardinality(0 .. cols - 1) = cols
    <3>1. 0 \in Int /\ cols - 1 \in Int
      OBVIOUS
    <3>2. IsFiniteSet(0 .. cols - 1) /\ Cardinality(0 .. cols - 1) = IF 0 > cols - 1 THEN 0 ELSE cols - 1 - 0 + 1
      BY <3>1, FS_Interval
    <3>. QED  BY <3>2
  <2>8. IsFiniteSet(OfWord(j, w)) /\ Cardinality(OfWord(j, w)) = Cardinality(0 .. cols - 1)
    BY <2>6, <2>7, FS_Injection
  <2>. QED  BY <1>3, <1>6, <1>7, <2>7, <2>8
<1>8. CASE ~(m < Rows(j, g))
  <2>1. ASSUME NEW x \in OfWord(j, w)
        PROVE  FALSE
    <3>1. InJob(j, g, m, TileAt(j, x).n)
      BY <1>4
    <3>2. Rows(j, g) \in Nat
      BY SignallingNumbers
    <3>. QED  BY <1>8, <3>1, <3>2 DEF InJob
  <2>2. OfWord(j, w) = {}
    BY <2>1
  <2>. QED  BY <1>6, <1>8, <2>2, FS_EmptySet
<1>. QED  BY <1>7, <1>8

\* The index of the tile a CTA took last; an index is held while its tile waits for
\* its signal; the indices whose tiles have signalled a word.
LastOf(j, at, c) == (at[c].iter - 1) * j.grid + c
Held(j, at, st, x) == st[x % j.grid] # NoTile /\ x = LastOf(j, at, x % j.grid)
Signalled(j, at, st, w) == {x \in OfWord(j, w) : Taken(j, at, x) /\ ~Held(j, at, st, x)}

\* The tile that waits in a CTA is the one it took last.
Holds(j, at, st) ==
  /\ DOMAIN st = Ctas(j)
  /\ \A c \in Ctas(j) : st[c] # NoTile =>
       /\ at[c].iter > 0 /\ LastOf(j, at, c) \in 0 .. Total(j) - 1
       /\ st[c] = TileAt(j, LastOf(j, at, c))

\* The tiles that wait after a fetch and after a signal.
Kept(j, at, st, c) ==
  [st EXCEPT ![c] = IF NextIndex(j, at[c], c) < Total(j) THEN TileAt(j, NextIndex(j, at[c], c)) ELSE NoTile]
Freed(st, c) == [st EXCEPT ![c] = NoTile]

\* The numbers of an index of a launch.
LEMMA IndexNumbers ==
  ASSUME NEW j, Listless(j), NEW x \in 0 .. Total(j) - 1
  PROVE  x \in Nat /\ j.grid \in Nat \ {0} /\ x % j.grid \in Ctas(j)
<1>1. PICK K \in Nat \ {0}, T \in Nat : K = j.grid /\ T = Total(j)
  BY EveryLaunchEnumerates DEF Listless, Sized, Enumerates
<1>2. x \in Nat
  BY <1>1
<1>3. x % K \in 0 .. K - 1
  BY <1>2
<1>. QED  BY <1>1, <1>2, <1>3 DEF Ctas

\* A fetch signals nothing: the index it takes is held until the signal.
LEMMA TakingSignalsNothing ==
  ASSUME NEW j, Listless(j), NEW at, Stand(j, at), NEW c \in Ctas(j),
         NEW st, Holds(j, at, st), st[c] = NoTile
  PROVE  /\ Holds(j, After(j, at, c), Kept(j, at, st, c))
         /\ \A w : Signalled(j, After(j, at, c), Kept(j, at, st, c), w) = Signalled(j, at, st, w)
<1>1. PICK x, to : /\ x = NextIndex(j, at[c], c) /\ to = Kept(j, at, st, c)
                    /\ to = [st EXCEPT ![c] = IF x < Total(j) THEN TileAt(j, x) ELSE NoTile]
  BY DEF Kept
<1>2. PICK K \in Nat \ {0}, T \in Nat, i \in Nat :
        K = j.grid /\ T = Total(j) /\ i = at[c].iter /\ x = i * K + c
  BY <1>1, NextIs, EveryLaunchEnumerates DEF Stand, Enumerates, Cursors, NextIndex
<1>3. x \in Nat /\ x % K = c /\ c \in Nat
  <2>1. x \in Nat /\ x % j.grid = c
    BY <1>1, NextIs DEF Stand
  <2>. QED  BY <1>2, <2>1 DEF Ctas
<1>4. PICK new : new = After(j, at, c)
  OBVIOUS
<1>5. \A e \in Ctas(j) : e # c => new[e] = at[e] /\ to[e] = st[e]
  BY <1>4, <1>1 DEF After, Stand, Holds
<1>6. new[c].iter = i + 1
  BY <1>2, <1>4, FetchedIs DEF After, Stand
<1>7. LastOf(j, new, c) = x
  BY <1>2, <1>6 DEF LastOf
<1>8. DOMAIN to = Ctas(j) /\ to[c] = IF x < T THEN TileAt(j, x) ELSE NoTile
  BY <1>2, <1>1 DEF Holds
<1>9. Holds(j, new, to)
  <2>1. ASSUME NEW e \in Ctas(j), to[e] # NoTile
        PROVE  /\ new[e].iter > 0 /\ LastOf(j, new, e) \in 0 .. Total(j) - 1
               /\ to[e] = TileAt(j, LastOf(j, new, e))
    <3>1. CASE e = c
      <4>1. x < T /\ x \in 0 .. T - 1
        BY <1>3, <1>8, <2>1, <3>1
      <4>. QED  BY <1>2, <1>6, <1>7, <1>8, <3>1, <4>1
    <3>2. CASE e # c
      <4>1. new[e] = at[e] /\ to[e] = st[e] /\ LastOf(j, new, e) = LastOf(j, at, e)
        BY <1>5, <3>2 DEF LastOf
      <4>. QED  BY <2>1, <4>1 DEF Holds
    <3>. QED  BY <3>1, <3>2
  <2>. QED  BY <1>8, <2>1 DEF Holds
<1>10. ~Taken(j, at, x)
  BY <1>1, TakenAfter
<1>11. \A y \in 0 .. Total(j) - 1 : Taken(j, new, y) <=> Taken(j, at, y) \/ y = x
  BY <1>4, <1>1, TakenAfter
<1>12. ASSUME NEW y \in 0 .. Total(j) - 1
      PROVE  Taken(j, new, y) /\ ~Held(j, new, to, y) <=> Taken(j, at, y) /\ ~Held(j, at, st, y)
  <2>1. y % K \in Ctas(j)
    BY <1>2, IndexNumbers
  <2>2. CASE y = x
    <3>1. ~Taken(j, at, y)
      BY <1>10, <2>2
    <3>2. to[c] # NoTile
      BY <1>2, <1>8, <2>2, TileIsWork
    <3>3. Held(j, new, to, y)
      BY <1>2, <1>3, <1>7, <2>2, <3>2 DEF Held
    <3>. QED  BY <3>1, <3>3
  <2>3. CASE y # x /\ y % K = c
    <3>1. Taken(j, new, y) <=> Taken(j, at, y)
      BY <1>11, <2>3
    <3>2. ~Held(j, new, to, y)
      BY <1>2, <1>7, <2>3 DEF Held
    <3>3. ~Held(j, at, st, y)
      BY <1>2, <2>3 DEF Held
    <3>. QED  BY <3>1, <3>2, <3>3
  <2>4. CASE y # x /\ y % K # c
    <3>1. Taken(j, new, y) <=> Taken(j, at, y)
      BY <1>11, <2>4
    <3>2. Held(j, new, to, y) <=> Held(j, at, st, y)
      BY <1>2, <1>5, <2>1, <2>4 DEF Held, LastOf
    <3>. QED  BY <3>1, <3>2
  <2>. QED  BY <2>2, <2>3, <2>4
<1>13. \A w : Signalled(j, new, to, w) = Signalled(j, at, st, w)
  BY <1>2, <1>12 DEF Signalled, OfWord
<1>. QED  BY <1>4, <1>9, <1>13, <1>1

\* A signal counts the index of the tile that waited, once, in the word of its block.
LEMMA SignallingCounts ==
  ASSUME NEW j, Signalling(j), NEW at, Stand(j, at), NEW c \in Ctas(j),
         NEW st, Holds(j, at, st), st[c] # NoTile
  PROVE  /\ Holds(j, at, Freed(st, c))
         /\ SignalWord(j, st[c]) \in SignalWords(j)
         /\ LastOf(j, at, c) \notin Signalled(j, at, st, SignalWord(j, st[c]))
         /\ \A w : Signalled(j, at, Freed(st, c), w) =
              IF w = SignalWord(j, st[c]) THEN Signalled(j, at, st, w) \cup {LastOf(j, at, c)}
              ELSE Signalled(j, at, st, w)
<1>1. PICK l, to : l = LastOf(j, at, c) /\ to = Freed(st, c) /\ to = [st EXCEPT ![c] = NoTile]
  BY DEF Freed
<1>2. Listless(j) /\ st[c] = TileAt(j, l) /\ l \in 0 .. Total(j) - 1 /\ at[c].iter > 0
  BY <1>1 DEF Signalling, Holds
<1>3. PICK K \in Nat \ {0} : K = j.grid /\ c \in 0 .. K - 1
  BY <1>2 DEF Listless, Sized, Ctas
<1>4. PICK i \in Nat : i = at[c].iter - 1 /\ at[c].iter = i + 1 /\ K = j.grid
  <2>1. at[c].iter \in Nat
    BY DEF Stand, Cursors
  <2>. QED  BY <1>2, <1>3, <2>1
<1>5. l = i * K + c
  BY <1>4, <1>1 DEF LastOf
<1>6. l % K = c /\ l \div K = i
  <2>1. PICK k \in 0 .. K - 1 : k = c
    BY <1>3
  <2>2. (i * K + k) % K = k /\ (i * K + k) \div K = i
    <3>1. K > 0
      BY <1>3
    <3>2. i \in Nat
      BY <1>4
    <3>. QED  BY <2>1, <3>1, <3>2, Remainder
  <2>. QED  BY <1>5, <2>1, <2>2
<1>7. Taken(j, at, l) /\ Held(j, at, st, l)
  <2>1. i < i + 1
    BY <1>4
  <2>2. l % j.grid = c /\ l \div j.grid = i
    BY <1>4, <1>6
  <2>3. Taken(j, at, l)
    BY <1>4, <2>1, <2>2 DEF Taken
  <2>4. Held(j, at, st, l)
    BY <1>1, <2>2 DEF Held
  <2>. QED  BY <2>3, <2>4
<1>8. DOMAIN to = Ctas(j) /\ to[c] = NoTile /\ \A e \in Ctas(j) : e # c => to[e] = st[e]
  BY <1>1 DEF Holds
<1>9. Holds(j, at, to)
  BY <1>8 DEF Holds
<1>10. PICK word : word = SignalWord(j, st[c])
  OBVIOUS
<1>11. word \in SignalWords(j)
  <2>1. TilesAreBlocks(j)
    BY <1>2, EveryLaunchEnumerates DEF Enumerates
  <2>2. PICK g, m, n : InJob(j, g, m, n) /\ Block(j, TileAt(j, l), g, m, n)
    BY <1>2, <2>1 DEF TilesAreBlocks
  <2>. QED  BY <1>2, <1>10, <2>2, WordOfBlock
<1>12. ASSUME NEW y \in 0 .. Total(j) - 1
      PROVE  Held(j, at, to, y) <=> Held(j, at, st, y) /\ y # l
  <2>1. y % K \in Ctas(j)
    BY <1>2, <1>4, IndexNumbers
  <2>2. CASE y % K = c
    <3>1. ~Held(j, at, to, y)
      BY <1>4, <1>8, <2>2 DEF Held
    <3>2. Held(j, at, st, y) => y = l
      BY <1>4, <1>1, <2>2 DEF Held
    <3>. QED  BY <3>1, <3>2
  <2>3. CASE y % K # c
    BY <1>4, <1>6, <1>8, <2>1, <2>3 DEF Held
  <2>. QED  BY <2>2, <2>3
<1>13. l \in OfWord(j, word) /\ \A w : l \in OfWord(j, w) => w = word
  BY <1>2, <1>10 DEF OfWord
<1>14. ASSUME NEW w, NEW y
       PROVE  y \in Signalled(j, at, to, w) <=> y \in Signalled(j, at, st, w) \/ (w = word /\ y = l)
  <2>1. y \in Signalled(j, at, to, w) <=> y \in OfWord(j, w) /\ Taken(j, at, y) /\ ~Held(j, at, to, y)
    BY DEF Signalled
  <2>2. y \in Signalled(j, at, st, w) <=> y \in OfWord(j, w) /\ Taken(j, at, y) /\ ~Held(j, at, st, y)
    BY DEF Signalled
  <2>3. y \in OfWord(j, w) => y \in 0 .. Total(j) - 1
    BY DEF OfWord
  <2>. QED  BY <1>7, <1>12, <1>13, <2>1, <2>2, <2>3
<1>15. ASSUME NEW w
       PROVE  Signalled(j, at, to, w) =
                IF w = word THEN Signalled(j, at, st, w) \cup {l} ELSE Signalled(j, at, st, w)
  <2>1. CASE w = word
    BY <1>14, <2>1
  <2>2. CASE w # word
    <3>1. \A y : y \in Signalled(j, at, to, w) <=> y \in Signalled(j, at, st, w)
      BY <1>14, <2>2
    <3>. QED  BY <2>2, <3>1 DEF Signalled
  <2>. QED  BY <2>1, <2>2
<1>16. l \notin Signalled(j, at, st, word)
  BY <1>7 DEF Signalled
<1>. QED  BY <1>9, <1>10, <1>11, <1>15, <1>16, <1>1

\* When every index is taken and none is held, every tile of a word has signalled it.
LEMMA AllSignalled ==
  ASSUME NEW j, Listless(j), NEW at, Stand(j, at), NEW st,
         \A c \in Ctas(j) : at[c].done /\ st[c] = NoTile, NEW w
  PROVE  Signalled(j, at, st, w) = OfWord(j, w)
<1>1. ASSUME NEW x \in 0 .. Total(j) - 1
      PROVE  Taken(j, at, x) /\ ~Held(j, at, st, x)
  <2>1. x % j.grid \in Ctas(j)
    BY IndexNumbers
  <2>. QED  BY <2>1 DEF Stand, Held
<1>. QED  BY <1>1 DEF Signalled, OfWord

\* A row and a column of the block of a word whose tiles are all taken.
LEMMA BlockIsStored ==
  ASSUME NEW j, Signalling(j), NEW at, NEW w \in SignalWords(j),
         \A x \in OfWord(j, w) : Taken(j, at, x),
         NEW g, g = w \div PerGroup(j), NEW first, first = (w % PerGroup(j)) * j.bm,
         NEW r \in first .. first + j.bm - 1, r < j.sizes[g], NEW n \in 0 .. j.n - 1
  PROVE  <<g * j.shapeM + r, n>> \in Positions(TakenCells(j, at))
<1>1. Listless(j) /\ j.kind = "masked" /\ BlocksHaveTiles(j)
  BY EveryLaunchEnumerates DEF Signalling, Enumerates
<1>2. g \in GroupIds(j) /\ g \in Parts(j) /\ PerGroup(j) \in Nat
  BY SignallingNumbers, WordDigits
<1>3. PICK m \in Nat, b \in Nat \ {0}, d \in Nat \ {0}, a \in Nat, K \in Nat :
        m = w % PerGroup(j) /\ b = j.bm /\ d = j.bn /\ a = j.sizes[g] /\ K = j.n
  <2>1. w % PerGroup(j) \in Nat
    BY <1>2, WordDigits
  <2>. QED  BY <1>2, <2>1, SignallingNumbers
<1>4. /\ Height(j, g) = a /\ TileM(j, Height(j, g)) = b /\ TileN(j, Height(j, g)) = d
      /\ Rows(j, g) = UpDiv(a, b) /\ Cols(j, g) = UpDiv(K, d)
  BY <1>2, <1>3, SignallingNumbers DEF Threshold
<1>5. r \in Nat /\ r \div b = m /\ r \in 0 .. a - 1
  <2>1. PICK f \in Nat : f = m * b
    OBVIOUS
  <2>2. r \in f .. f + b - 1 /\ r < a /\ (m + 1) * b = f + b
    BY <1>3, <2>1
  <2>3. r \in Nat
    BY <1>3, <2>1, <2>2
  <2>4. r \in m * b .. (m + 1) * b - 1
    BY <2>1, <2>2
  <2>5. r \div b = m
    BY <1>3, <2>3, <2>4, BlockOfRow
  <2>6. r \in 0 .. a - 1
    BY <1>3, <2>2, <2>3
  <2>. QED  BY <2>3, <2>5, <2>6
<1>6. PICK k : k = n \div d
  OBVIOUS
<1>7. m \in 0 .. Rows(j, g) - 1 /\ k \in 0 .. Cols(j, g) - 1
  <2>1. r \div b \in 0 .. UpDiv(a, b) - 1
    BY <1>3, <1>5, BlocksHoldRows
  <2>2. n \div d \in 0 .. UpDiv(K, d) - 1
    BY <1>3, BlocksHoldRows
  <2>. QED  BY <1>4, <1>5, <1>6, <2>1, <2>2
<1>8. InJob(j, g, m, k)
  BY <1>2, <1>7 DEF InJob
<1>9. PICK x \in 0 .. Total(j) - 1 : Block(j, TileAt(j, x), g, m, k)
  BY <1>1, <1>8 DEF BlocksHaveTiles
<1>10. x \in OfWord(j, w)
  <2>1. SignalWord(j, TileAt(j, x)) = g * PerGroup(j) + m
    BY <1>9 DEF Block, SignalWord, PerGroup
  <2>2. w = g * PerGroup(j) + m
    BY <1>3, WordDigits
  <2>. QED  BY <2>1, <2>2 DEF OfWord
<1>11. PICK cell : cell = <<g * j.shapeM + r, n, g * j.shapeM + r, g>>
  OBVIOUS
<1>12. CellOf(j, g, m, k, cell)
  <2>1. Base(j, g) = g * j.shapeM
    BY <1>1 DEF Base
  <2>2. cell = <<Base(j, g) + r, n, Base(j, g) + r, IF j.kind = "contiguous" THEN LayoutAt(j, m * j.bm) ELSE g>>
    BY <1>1, <1>11, <2>1
  <2>3. r \in 0 .. Height(j, g) - 1 /\ r \div TileM(j, Height(j, g)) = m
        /\ n \div TileN(j, Height(j, g)) = k
    BY <1>4, <1>5, <1>6
  <2>. QED  BY <2>2, <2>3 DEF CellOf
<1>13. cell \in Cells(j, x)
  BY <1>1, <1>8, <1>9, <1>12, CellsOfBlock DEF Cells
<1>14. cell \in TakenCells(j, at)
  BY <1>10, <1>13 DEF TakenCells
<1>. QED  BY <1>11, <1>14 DEF Positions

-----------------------------------------------------------------------------
(* The theorem: what a consumer of the words may rely on.                         *)

\* The inductive invariant.
WordsCount ==
  Signalling(job) =>
    /\ Holds(job, cursor, stored)
    /\ DOMAIN signals = SignalWords(job)
    /\ \A w \in SignalWords(job) : signals[w] = Cardinality(Signalled(job, cursor, stored, w))

\* At the start no tile waits and no word counts anything.
LEMMA WordsInit == TileInit => WordsCount
<1>1. SUFFICES ASSUME TileInit, Signalling(job)
               PROVE  WordsCount
  BY DEF WordsCount
<1>2. Listless(job) /\ \A c \in Ctas(job) : cursor[c] = FirstCursor /\ stored[c] = NoTile
  BY <1>1 DEF TileInit, Signalling
<1>3. Holds(job, cursor, stored)
  BY <1>1, <1>2 DEF Holds, TileInit
<1>4. ASSUME NEW x \in 0 .. Total(job) - 1
      PROVE  ~Taken(job, cursor, x)
  <2>1. PICK K \in Nat \ {0}, y \in Nat : K = job.grid /\ y = x /\ x % job.grid \in Ctas(job)
    BY <1>2, IndexNumbers
  <2>2. y \div K \in Nat
    BY <2>1
  <2>3. cursor[x % job.grid].iter = 0
    BY <1>2, <2>1 DEF FirstCursor
  <2>. QED  BY <2>1, <2>2, <2>3 DEF Taken
<1>5. \A w : Signalled(job, cursor, stored, w) = {}
  BY <1>4 DEF Signalled, OfWord
<1>6. signals = [w \in SignalWords(job) |-> 0]
  BY <1>1 DEF TileInit
<1>. QED  BY <1>3, <1>5, <1>6, FS_EmptySet DEF WordsCount

\* A fetch.
LEMMA WordsTake ==
  ASSUME Launch, Signalling(job), WordsCount, NEW c \in Ctas(job), Take(c)
  PROVE  WordsCount'
<1>1. job \in Jobs /\ Listless(job) /\ Stand(job, cursor) /\ buf = <<>> /\ KernelSignals(job)
      /\ Holds(job, cursor, stored) /\ stored[c] = NoTile
  BY DEF Launch, WordsCount, Signalling, Listless, ListFree, Take
<1>2. PICK x \in Nat : x = NextIndex(job, cursor[c], c)
  BY <1>1, NextIs DEF Stand
<1>3. cursor[c] \in Cursors /\ CursorAt(job, cursor[c], x)
  BY <1>1, <1>2 DEF Stand
<1>4. PICK v : v = WalkOf(job, cursor[c], x)
  OBVIOUS
<1>5. FetchNextWork(job, <<>>, v, x) = IF x < Total(job) THEN TileAt(job, x) ELSE NoTile
  BY <1>1, <1>3, <1>4, FetchIs
<1>6. /\ cursor' = After(job, cursor, c)
      /\ stored' = [stored EXCEPT ![c] = IF KernelSignals(job) THEN FetchNextWork(job, <<>>, v, x) ELSE NoTile]
      /\ UNCHANGED <<job, signals>>
  BY <1>1, <1>2, <1>4 DEF Take, After, Fetched, WalkOf
<1>7. stored' = [stored EXCEPT ![c] = IF x < Total(job) THEN TileAt(job, x) ELSE NoTile]
  BY <1>1, <1>5, <1>6
<1>8. /\ Holds(job, cursor', stored')
      /\ \A w : Signalled(job, cursor', stored', w) = Signalled(job, cursor, stored, w)
  <2>1. PICK at, st : at = cursor /\ st = stored
    OBVIOUS
  <2>2. Stand(job, at) /\ Holds(job, at, st) /\ st[c] = NoTile /\ x = NextIndex(job, at[c], c)
    BY <1>1, <1>2, <2>1
  <2>3. /\ Holds(job, After(job, at, c), Kept(job, at, st, c))
        /\ \A w : Signalled(job, After(job, at, c), Kept(job, at, st, c), w) = Signalled(job, at, st, w)
    BY <1>1, <2>2, TakingSignalsNothing
  <2>4. stored' = Kept(job, at, st, c) /\ cursor' = After(job, at, c)
    BY <1>6, <1>7, <2>1, <2>2 DEF Kept
  <2>. QED  BY <2>1, <2>3, <2>4
<1>. QED  BY <1>6, <1>8 DEF WordsCount

\* A signal.
LEMMA WordsSignal ==
  ASSUME Launch, Signalling(job), WordsCount, NEW c \in Ctas(job), Signal(c)
  PROVE  WordsCount'
<1>1. Listless(job) /\ Stand(job, cursor) /\ Holds(job, cursor, stored) /\ stored[c] # NoTile
  BY DEF Launch, WordsCount, Signalling, Listless, ListFree, Signal
<1>2. PICK word, l : word = SignalWord(job, stored[c]) /\ l = LastOf(job, cursor, c)
  OBVIOUS
<1>3. /\ stored' = [stored EXCEPT ![c] = NoTile]
      /\ signals' = [signals EXCEPT ![word] = @ + 1]
      /\ UNCHANGED <<job, cursor>>
  BY <1>2 DEF Signal
<1>4. /\ Holds(job, cursor, stored') /\ word \in SignalWords(job)
      /\ l \notin Signalled(job, cursor, stored, word)
      /\ \A w : Signalled(job, cursor, stored', w) =
           IF w = word THEN Signalled(job, cursor, stored, w) \cup {l} ELSE Signalled(job, cursor, stored, w)
  <2>1. PICK at, st : at = cursor /\ st = stored
    OBVIOUS
  <2>2. Stand(job, at) /\ Holds(job, at, st) /\ st[c] # NoTile /\ word = SignalWord(job, st[c])
        /\ l = LastOf(job, at, c)
    BY <1>1, <1>2, <2>1
  <2>3. /\ Holds(job, at, Freed(st, c)) /\ word \in SignalWords(job) /\ l \notin Signalled(job, at, st, word)
        /\ \A w : Signalled(job, at, Freed(st, c), w) =
             IF w = word THEN Signalled(job, at, st, w) \cup {l} ELSE Signalled(job, at, st, w)
    BY <2>2, SignallingCounts
  <2>4. stored' = Freed(st, c)
    BY <1>3, <2>1 DEF Freed
  <2>. QED  BY <2>1, <2>3, <2>4
<1>5. ASSUME NEW w \in SignalWords(job)
      PROVE  signals'[w] = Cardinality(Signalled(job, cursor, stored', w))
  <2>1. IsFiniteSet(Signalled(job, cursor, stored, w))
    <3>1. Signalled(job, cursor, stored, w) \in SUBSET OfWord(job, w)
      BY DEF Signalled
    <3>. QED  BY <3>1, TilesOfWord, FS_Subset
  <2>2. signals[w] = Cardinality(Signalled(job, cursor, stored, w)) /\ w \in DOMAIN signals
    BY DEF WordsCount
  <2>3. CASE w = word
    <3>1. PICK S : S = Signalled(job, cursor, stored, w)
      OBVIOUS
    <3>2. Cardinality(S \cup {l}) = Cardinality(S) + 1
      BY <1>4, <2>1, <2>3, <3>1, FS_AddElement
    <3>3. signals'[w] = signals[w] + 1
      BY <1>3, <2>2, <2>3
    <3>. QED  BY <1>4, <2>2, <2>3, <3>1, <3>2, <3>3
  <2>4. CASE w # word
    BY <1>3, <1>4, <2>2, <2>4
  <2>. QED  BY <2>3, <2>4
<1>6. DOMAIN signals' = SignalWords(job)
  BY <1>3 DEF WordsCount
<1>. QED  BY <1>3, <1>4, <1>5, <1>6 DEF WordsCount

\* Every step keeps the words.
LEMMA WordsStay == Launch /\ WordsCount /\ [TileNext]_tileVars => WordsCount'
<1>1. SUFFICES ASSUME Launch, WordsCount, [TileNext]_tileVars
               PROVE  WordsCount'
  OBVIOUS
<1>2. CASE Signalling(job)
  <2>1. stage = "run"
    BY <1>1, <1>2 DEF Launch, Signalling, Listless, ListFree
  <2>2. ASSUME NEW c \in Ctas(job), Take(c)
        PROVE  WordsCount'
    BY <1>1, <1>2, <2>2, WordsTake
  <2>3. ASSUME NEW c \in Ctas(job), Signal(c)
        PROVE  WordsCount'
    BY <1>1, <1>2, <2>3, WordsSignal
  <2>4. CASE UNCHANGED tileVars
    BY <1>1, <2>4 DEF WordsCount, tileVars
  <2>5. CASE TilesFinished
    BY <2>4, <2>5 DEF TilesFinished
  <2>6. ~(AlignWarpOrdered \/ Count \/ Scan \/ Cumsum \/ Scatter \/ ListBlocks)
    BY <2>1 DEF AlignWarpOrdered, Count, Scan, Cumsum, Scatter, ListBlocks, Kernel
  <2>. QED  BY <1>1, <2>2, <2>3, <2>4, <2>5, <2>6 DEF TileNext
<1>3. CASE ~Signalling(job)
  <2>1. job' = job
    <3>1. TileNext => job' = job
      BY DEF TileNext, AlignWarpOrdered, Count, Scan, Cumsum, Scatter, ListBlocks, Kernel, Take, Signal,
             TilesFinished, tileVars
    <3>. QED  BY <1>1, <3>1, SMTT(30) DEF tileVars
  <2>. QED  BY <1>3, <2>1 DEF WordsCount
<1>. QED  BY <1>2, <1>3

\* A word at the threshold has counted all of its tiles, and their cells are stored.
LEMMA WordsSuffice ==
  ASSUME Launch, WordsCount, KernelSignals(job), NExpand(job) = 1
  PROVE  SignalsMatchBlocks
<1>1. ListFree(job) /\ Listless(job) /\ Signalling(job)
  <2>1. ListFree(job) /\ job.kind = "masked" /\ job.scheduler = "walk" /\ job.sbo
    BY JobsAssumption DEF Launch, ListFree, KernelSignals
  <2>. QED  BY <2>1, ListFreeIsListless DEF Launch, Signalling
<1>2. /\ Stand(job, cursor) /\ output = TakenCells(job, cursor)
      /\ \A w \in SignalWords(job) : signals[w] = Cardinality(Signalled(job, cursor, stored, w))
  BY <1>1 DEF Launch, WordsCount
<1>3. ASSUME NEW w \in SignalWords(job), JobDone
      PROVE  signals[w] = IF Used(job, w) THEN Threshold(job) ELSE 0
  <2>1. Signalled(job, cursor, stored, w) = OfWord(job, w)
    BY <1>1, <1>2, <1>3, AllSignalled DEF JobDone
  <2>. QED  BY <1>1, <1>2, <2>1, TilesOfWord
<1>4. ASSUME NEW w \in SignalWords(job), signals[w] >= Threshold(job), Used(job, w)
      PROVE  \A x \in OfWord(job, w) : Taken(job, cursor, x)
  <2>1. IsFiniteSet(OfWord(job, w)) /\ Cardinality(OfWord(job, w)) = Threshold(job)
    BY <1>1, <1>4, TilesOfWord
  <2>2. PICK S \in SUBSET OfWord(job, w) : S = Signalled(job, cursor, stored, w)
    BY DEF Signalled
  <2>3. Cardinality(S) \in Nat /\ Cardinality(S) <= Threshold(job) /\ Threshold(job) \in Nat
    BY <1>1, <2>1, <2>2, FS_Subset, FS_CardinalityType, SignallingNumbers
  <2>4. Cardinality(S) = Cardinality(OfWord(job, w))
    BY <1>2, <1>4, <2>1, <2>2, <2>3
  <2>5. S = OfWord(job, w)
    BY <2>1, <2>2, <2>4, FS_Subset
  <2>. QED  BY <2>2, <2>5 DEF Signalled
<1>5. ASSUME NEW w \in SignalWords(job), signals[w] >= Threshold(job),
             NEW g, g = w \div PerGroup(job), NEW first, first = (w % PerGroup(job)) * job.bm,
             NEW r \in first .. first + job.bm - 1, r < job.sizes[g], NEW n \in 0 .. job.n - 1
      PROVE  <<g * job.shapeM + r, n>> \in Positions(output)
  <2>1. Used(job, w)
    <3>1. PICK f \in Nat, b \in Nat, a \in Nat : f = first /\ b = job.bm /\ a = job.sizes[g]
      <4>1. g \in GroupIds(job) /\ w % PerGroup(job) \in Nat
        <5>1. PerGroup(job) \in Nat
          BY <1>1, SignallingNumbers
        <5>. QED  BY <1>1, <1>5, <5>1, WordDigits
      <4>2. PICK m \in Nat, b \in Nat : m = w % PerGroup(job) /\ b = job.bm
        BY <1>1, <4>1, SignallingNumbers
      <4>3. m * b \in Nat /\ first = m * b
        BY <1>5, <4>2
      <4>. QED  BY <1>1, <4>1, <4>2, <4>3, SignallingNumbers
    <3>2. f < a
      BY <1>5, <3>1
    <3>. QED  BY <1>5, <3>1, <3>2 DEF Used
  <2>. QED  BY <1>1, <1>2, <1>4, <1>5, <2>1, BlockIsStored
<1>6. WordsReachThreshold
  BY <1>3 DEF WordsReachThreshold, Used, PerGroup
<1>7. ASSUME NEW w \in SignalWords(job)
      PROVE  LET perGroup == UpDiv(job.shapeM, job.bm)
                 g == w \div perGroup
                 first == (w % perGroup) * job.bm
             IN  signals[w] >= Threshold(job) =>
                     \A r \in {r \in first .. first + job.bm - 1 : r < job.sizes[g]}, n \in 0 .. job.n - 1 :
                         <<g * job.shapeM + r, n>> \in Positions(output)
  BY <1>5 DEF PerGroup
<1>. QED  BY <1>6, <1>7 DEF SignalsMatchBlocks

\* Whatever the sizes of the groups, the number of CTAs and the order in which they
\* fetch and signal, for every masked launch with SBO overlap of a kernel that has the
\* signal (bf16, int8 and fp8; none of fp4) and whose tiles are one column block wide: a
\* word is at the threshold only when all rows of its block are written, and ends there,
\* or at zero for a block without rows (the atomic addition behind the epilogue, and
\* the threshold ceil_div(n, block_n) that the host returns).
THEOREM AlwaysSignalsMatchBlocks == TileSpec => [](KernelSignals(job) /\ NExpand(job) = 1 => SignalsMatchBlocks)
<1>1. TileInit => Launch /\ WordsCount
  BY LaunchInit, WordsInit
<1>2. Launch /\ WordsCount /\ [TileNext]_tileVars => (Launch /\ WordsCount)'
  BY LaunchStays, WordsStay
<1>3. Launch /\ WordsCount => (KernelSignals(job) /\ NExpand(job) = 1 => SignalsMatchBlocks)
  BY WordsSuffice
<1>. QED  BY <1>1, <1>2, <1>3, PTL DEF TileSpec
=============================================================================
