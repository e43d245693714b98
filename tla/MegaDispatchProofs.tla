-------------------------- MODULE MegaDispatchProofs --------------------------
(***************************************************************************)
(* Proofs about MegaDispatch for every number of ranks, experts, tokens,   *)
(* CTAs and rounds: an owner that builds its metadata reads the counts,    *)
(* entries, scales and rows of its round, all CTAs agree on generations,   *)
(* and the counters start every round at zero.                             *)
(*                                                                         *)
(* What a rank has pushed is read off the program counters of its CTAs,    *)
(* and every cell it owns is described by the rank's own state alone; the  *)
(* arrival words connect an owner to its sources.                          *)
(***************************************************************************)
EXTENDS MegaDispatch, NatFacts, FiniteSetTheorems

\* The generations of the rounds, and the half of the double buffers that rank q uses
\* in its current round.
Gen == Generations(FirstGeneration)
Bank(q) == Parity(Gen[round[q]])

\* The token CTA whose stride reaches a token.
TokenCta == [t \in Nat |-> LocalExperts + (t % TokenBlocks)]

\* The CTAs of rank q that have taken their retirement ticket.
Retired(q) == {c \in Ctas : pc[q][c] \in {"clear", "arrive", "done"}}
AllRetired(q) == \A c \in Ctas : pc[q][c] \in {"clear", "arrive", "done"}

\* Token t of rank q has been pushed in this round; its slot for expert e is claimed.
Pushed(q, t) ==
  LET c == TokenCta[t] IN pc[q][c] # "begin" /\ (pc[q][c] = "claim" => t < token[q][c])
Holding(q, c, e) == pc[q][c] = "claim" /\ e \in DOMAIN slot[q][c]
Claimed(q, e) ==
  {t \in RoutedTo(q, e) :
     Pushed(q, t) \/ (Holding(q, TokenCta[t], e) /\ token[q][TokenCta[t]] = t)}

\* Slot s of expert e is claimed, and nothing is written to it yet.
InProgress(q, e, s) == \E c \in Ctas : Holding(q, c, e) /\ slot[q][c][e] = s

PcNames == {"begin", "count", "claim", "fence", "retire", "clear", "arrive", "done"}
Cells == [round : Nat, value : Nat, writer : {Landed} \cup (Ranks \X Ctas)]
Slots == UNION {[S -> Nat] : S \in SUBSET Experts}

TypeOK ==
  /\ setup \in Setups
  /\ round \in [Ranks -> 0 .. MaxRounds]
  /\ stage \in [Ranks -> {"pre", "reading", "released"}]
  /\ route \in [Ranks -> [Rows -> SUBSET Experts]]
  /\ ready \in [Ranks -> [gen : Nat, metadata : BOOLEAN]]
  /\ counts \in [Ranks -> [0 .. 1 -> [Experts -> Nat]]]
  /\ retire \in [Ranks -> [0 .. 1 -> Nat]]
  /\ arrivals \in [Ranks -> [0 .. 1 -> [Ranks -> Nat]]]
  /\ countCell \in [Ranks -> [0 .. 1 -> [Experts \X Ranks -> Cells]]]
  /\ entryCell \in [Ranks -> [0 .. 1 -> [Experts \X Ranks \X (0 .. SourceCapacity - 1) -> Cells]]]
  /\ scaleCell \in [Ranks -> [0 .. 1 -> [Ranks \X Rows -> Cells]]]
  /\ row \in [Ranks -> [Rows -> Cells]]
  /\ pc \in [Ranks -> [Ctas -> PcNames]]
  /\ generation \in [Ranks -> [Ctas -> Nat]]
  /\ token \in [Ranks -> [Ctas -> Int]]
  /\ slot \in [Ranks -> [Ctas -> Slots]]

\* Ranks are at most one round apart, and an owner reads when every rank has retired.
Stages == \A r \in Ranks :
  /\ stage[r] # "pre" => \A c \in Ctas : pc[r][c] = "done"
  /\ round[r] = 0 => stage[r] = "released"
  /\ \A q \in Ranks : round[q] < round[r] => round[r] = round[q] + 1 /\ stage[q] = "released"
  /\ stage[r] = "reading" => \A q \in Ranks : round[q] = round[r] /\ AllRetired(q)

\* The generation word of rank q steps forward with its last retirement.
Words(q) ==
  /\ \A c \in Ctas : pc[q][c] # "begin" /\ round[q] > 0 =>
       generation[q][c] = Gen[round[q]]
  /\ ready[q].gen = IF AllRetired(q) THEN Gen[round[q]]
                                     ELSE Gen[round[q] - 1]

\* Tickets count the retired CTAs; only the last has more to do.
Tickets(q) ==
  /\ retire[q][Bank(q)] = IF AllRetired(q) THEN 0 ELSE Cardinality(Retired(q))
  /\ retire[q][1 - Bank(q)] = 0
  /\ \A c \in Ctas : pc[q][c] \in {"clear", "arrive"} =>
       \A d \in Ctas : d # c => pc[q][d] = "done"

\* An arrival word tells that its rank has retired in that round.
Arrivals(q) == \A p \in Ranks :
  /\ arrivals[p][Bank(q)][q] = Gen[round[q]] => AllRetired(q)
  /\ (\A c \in Ctas : pc[q][c] = "done") => arrivals[p][Bank(q)][q] = Gen[round[q]]
  /\ arrivals[p][1 - Bank(q)][q] # Advance(Gen[round[q]])

\* A token CTA works on what its stride reaches.
Strides(q) == \A c \in Ctas :
  /\ pc[q][c] = "count" => c \in CountCtas
  /\ pc[q][c] = "claim" =>
       /\ token[q][c] \in Rows /\ TokenCta[token[q][c]] = c
       /\ DOMAIN slot[q][c] \subseteq route[q][token[q][c]]

\* The slot counters count the claims until they are cleared.
Cleared(q) == AllRetired(q) /\ \A c \in Ctas : pc[q][c] # "clear"
Claims(q) == \A e \in Experts :
  /\ counts[q][1 - Bank(q)][e] = 0
  /\ counts[q][Bank(q)][e] =
       IF Cleared(q) THEN 0 ELSE Cardinality(Claimed(q, e))
  /\ \A c \in Ctas : Holding(q, c, e) =>
       /\ slot[q][c][e] < Cardinality(Claimed(q, e))
       /\ \A d \in Ctas : d # c /\ Holding(q, d, e) => slot[q][d][e] # slot[q][c][e]

\* A store in flight is one of a CTA of the rank that has not reached its fence.
Pending(cell, q) == cell.writer = Landed \/
  \E c \in Ctas : cell.writer = <<q, c>> /\ pc[q][c] \in {"claim", "fence"}
Writers(q) ==
  /\ \A p \in Ranks, f \in 0 .. 1, e \in Experts : Pending(countCell[p][f][<<e, q>>], q)
  /\ \A p \in Ranks, f \in 0 .. 1, e \in Experts, s \in 0 .. SourceCapacity - 1 :
       Pending(entryCell[p][f][<<e, q, s>>], q)
  /\ \A p \in Ranks, f \in 0 .. 1, t \in Rows : Pending(scaleCell[p][f][<<q, t>>], q)
  /\ \A t \in Rows : Pending(row[q][t], q)

\* The counts, scales and rows that rank q has pushed.
Pushes(q) ==
  /\ \A c \in CountCtas, p \in Ranks : pc[q][c] \notin {"begin", "count"} =>
       LET cell == countCell[p][Bank(q)][<<p * LocalExperts + c, q>>]
       IN  /\ cell.round = round[q]
           /\ cell.value = Cardinality(RoutedTo(q, p * LocalExperts + c))
  /\ \A t \in Rows : Pushed(q, t) => row[q][t].round = round[q]
  /\ \A t \in Rows, e \in Experts : Pushed(q, t) /\ e \in route[q][t] =>
       scaleCell[Owner(e)][Bank(q)][<<q, t>>].round = round[q]

\* The entries below the claims: in progress, or a token of the expert; and each pushed
\* token has one of its own.
Entry(q, e, s) == entryCell[Owner(e)][Bank(q)][<<e, q, s>>]
Entries(q) == \A e \in Experts :
  /\ \A s \in 0 .. Cardinality(Claimed(q, e)) - 1 : InProgress(q, e, s) \/
       (Entry(q, e, s).round = round[q] /\ Entry(q, e, s).value \in RoutedTo(q, e))
  /\ \A t \in RoutedTo(q, e) : Pushed(q, t) =>
       \E s \in 0 .. Cardinality(Claimed(q, e)) - 1 : ~InProgress(q, e, s)
         /\ Entry(q, e, s).round = round[q] /\ Entry(q, e, s).value = t

RankInv(q) ==
  /\ Words(q) /\ Tickets(q) /\ Arrivals(q) /\ Strides(q)
  /\ Claims(q) /\ Writers(q) /\ Pushes(q) /\ Entries(q)

IInv == TypeOK /\ Stages /\ \A q \in Ranks : RankInv(q)
-----------------------------------------------------------------------------
(* The deployment, its generations and its strides. *)

LEMMA SetupFacts ==
  ASSUME setup \in Setups
  PROVE  /\ R \in Nat /\ R > 0 /\ LocalExperts \in Nat /\ LocalExperts > 0
         /\ TokenBlocks \in Nat /\ TokenBlocks > 0
         /\ SourceCapacity \in Nat /\ SourceCapacity > 0
         /\ Tokens \in Nat /\ Tokens <= SourceCapacity
         /\ FirstGeneration \in 0 .. GenerationLimit
         /\ Routings \subseteq [Rows -> SUBSET Experts]
         /\ GenerationLimit \in Nat /\ GenerationLimit >= 5 /\ GenerationLimit % 2 = 1
         /\ MaxRounds \in Nat
<1>1. PICK s \in Setups : s = setup
  OBVIOUS
<1>2. /\ s.ranks \in {1, 2, 4, 8, 16, 32, 64}
      /\ {s.localExperts, s.tokenBlocks, s.sourceCapacity} \subseteq Nat \ {0}
      /\ s.tokens \in 0 .. s.sourceCapacity
      /\ s.firstGeneration \in 0 .. GenerationLimit
      /\ s.routings \subseteq [0 .. s.tokens - 1 -> SUBSET (0 .. s.ranks * s.localExperts - 1)]
      /\ GenerationLimit \in Nat /\ GenerationLimit % 2 = 1 /\ GenerationLimit >= 5
      /\ MaxRounds \in Nat
  BY DispatchAssumption
<1>3. /\ R = s.ranks /\ LocalExperts = s.localExperts /\ TokenBlocks = s.tokenBlocks
      /\ SourceCapacity = s.sourceCapacity /\ Tokens = s.tokens
      /\ FirstGeneration = s.firstGeneration /\ Routings = s.routings
  BY <1>1 DEF R, LocalExperts, TokenBlocks, SourceCapacity, Tokens, FirstGeneration, Routings
<1>4. Rows = 0 .. s.tokens - 1 /\ Experts = 0 .. s.ranks * s.localExperts - 1
  BY <1>3 DEF Rows, Experts
<1>. QED  BY SMTT(30), <1>2, <1>3, <1>4

LEMMA AdvanceFacts ==
  ASSUME NEW g \in 0 .. GenerationLimit
  PROVE  /\ Advance(g) \in 1 .. GenerationLimit
         /\ Parity(g) \in 0 .. 1 /\ Parity(Advance(g)) = 1 - Parity(g)
         /\ Advance(Advance(g)) # g
         /\ LastOfParity(g, Parity(g)) = g
         /\ LastOfParity(g, 1 - Parity(g)) # Advance(g)
BY DispatchAssumption DEF Advance, Parity, LastOfParity

LEMMA GenerationsFacts ==
  ASSUME NEW g \in 0 .. GenerationLimit
  PROVE  /\ \A n \in 0 .. MaxRounds : Generations(g)[n] \in 0 .. GenerationLimit
         /\ Generations(g)[0] = g
         /\ \A n \in 0 .. MaxRounds : n > 0 => Generations(g)[n] = Advance(Generations(g)[n - 1])
<1>0. MaxRounds \in Nat
  BY DispatchAssumption
<1>. DEFINE G == 0 .. GenerationLimit
            Is(s) == s = [n \in 0 .. MaxRounds |-> IF n = 0 THEN g ELSE Advance(s[n - 1])]
<1>1. PICK F : F = [n \in 1 .. MaxRounds |-> [v \in G |-> Advance(v)]]
  OBVIOUS
<1>2. F \in [1 .. MaxRounds -> [G -> G]]
  <2>1. \A v \in G : Advance(v) \in G
    BY AdvanceFacts
  <2>. QED  BY <1>1, <2>1
<1>3. PICK s \in [0 .. MaxRounds -> G] :
        s[0] = g /\ \A n \in 1 .. MaxRounds : s[n] = F[n][s[n - 1]]
  <2>1. \E s : Follows(s, MaxRounds, G, g, F)
    BY <1>0, <1>2, Recursion
  <2>. QED  BY <2>1 DEF Follows
<1>4. ASSUME NEW n \in 1 .. MaxRounds  PROVE s[n] = Advance(s[n - 1])
  <2>1. s[n] = F[n][s[n - 1]] /\ s[n - 1] \in G
    BY <1>0, <1>3
  <2>2. F[n] = [v \in G |-> Advance(v)]
    BY <1>1
  <2>. QED  BY <2>1, <2>2
<1>5. Is(s)
  BY <1>3, <1>4
<1>6. PICK r : r = CHOOSE x : Is(x)
  OBVIOUS
<1>7. Is(r)
  BY <1>5, <1>6
<1>8. r[0] = g /\ \A n \in 1 .. MaxRounds : r[n] = Advance(r[n - 1])
  BY <1>0, <1>7
<1>9. ASSUME NEW n \in 0 .. MaxRounds  PROVE r[n] \in G
  <2>. DEFINE S == {i \in 0 .. n : r[i] \in G}
  <2>1. 0 \in S
    BY <1>8
  <2>2. ASSUME NEW i \in 0 .. n - 1, i \in S  PROVE i + 1 \in S
    <3>1. r[i + 1] = Advance(r[i]) /\ r[i] \in G
      BY <1>0, <1>8, <2>2
    <3>2. Advance(r[i]) \in G
      BY <3>1, AdvanceFacts
    <3>. QED  BY <3>1, <3>2
  <2>. HIDE DEF S
  <2>3. n \in S
    BY <1>0, <2>1, <2>2, UpTo
  <2>. QED  BY <2>3 DEF S
<1>10. Generations(g) = r
  BY <1>6 DEF Generations
<1>. QED  BY <1>0, <1>8, <1>9, <1>10

LEMMA GenFacts ==
  ASSUME setup \in Setups
  PROVE  /\ \A n \in 0 .. MaxRounds : Gen[n] \in 0 .. GenerationLimit
         /\ Gen[0] = FirstGeneration
         /\ \A n \in 0 .. MaxRounds : n > 0 => Gen[n] = Advance(Gen[n - 1])
<1>1. PICK g \in 0 .. GenerationLimit : g = FirstGeneration
  BY SetupFacts
<1>2. Gen = Generations(g)
  BY <1>1 DEF Gen
<1>. QED  BY <1>1, <1>2, GenerationsFacts

\* What depends on the deployment only.
LEMMA Same ==
  ASSUME setup' = setup
  PROVE  /\ Ranks' = Ranks /\ Experts' = Experts /\ Rows' = Rows /\ Ctas' = Ctas
         /\ CountCtas' = CountCtas /\ LocalExperts' = LocalExperts
         /\ SourceCapacity' = SourceCapacity /\ R' = R
         /\ Gen' = Gen /\ TokenCta' = TokenCta
<1>1. /\ R' = R /\ LocalExperts' = LocalExperts /\ Tokens' = Tokens /\ TokenBlocks' = TokenBlocks
      /\ SourceCapacity' = SourceCapacity /\ FirstGeneration' = FirstGeneration
  BY DEF R, LocalExperts, Tokens, TokenBlocks, SourceCapacity, FirstGeneration
<1>. QED  BY <1>1 DEF Ranks, Experts, Rows, Ctas, CountCtas, Gen, TokenCta

LEMMA CtaFacts ==
  ASSUME setup \in Setups
  PROVE  /\ CountCtas \subseteq Ctas /\ 0 \in CountCtas
         /\ IsFiniteSet(Ctas) /\ Cardinality(Ctas) \in Nat /\ Cardinality(Ctas) > 1
         /\ \A c \in Ctas \ CountCtas :
              c - LocalExperts \in Nat /\ TokenCta[c - LocalExperts] = c
              /\ \A t \in Nat : TokenCta[t] = c => c - LocalExperts <= t
         /\ \A t \in Nat : TokenCta[t] \in Ctas \ CountCtas
<1>1. PICK L \in Nat \ {0} : L = LocalExperts
  BY SetupFacts
<1>2. PICK B \in Nat \ {0} : B = TokenBlocks
  BY SetupFacts
<1>3. CountCtas = 0 .. L - 1 /\ Ctas = 0 .. L + B - 1
  BY <1>1, <1>2 DEF CountCtas, Ctas
<1>4. IsFiniteSet(0 .. L + B - 1) /\ Cardinality(0 .. L + B - 1) = L + B
  <2>1. PICK a \in Int, b \in Int : a = 0 /\ b = L + B - 1
    OBVIOUS
  <2>2. IsFiniteSet(a .. b) /\ Cardinality(a .. b) = IF a > b THEN 0 ELSE b - a + 1
    BY FS_Interval
  <2>3. ~(a > b) /\ b - a + 1 = L + B
    BY <2>1
  <2>. QED  BY <2>1, <2>2, <2>3
<1>5. \A t \in Nat : TokenCta[t] = L + (t % B)
  BY <1>1, <1>2 DEF TokenCta
<1>6. ASSUME NEW t \in Nat  PROVE t % B \in 0 .. B - 1 /\ t % B <= t
  <2>1. PICK q \in Nat, j \in 0 .. B - 1 : t = q * B + j /\ t % B = j
    BY DivMod
  <2>2. PICK m \in Nat : m = q * B
    OBVIOUS
  <2>. QED  BY <2>1, <2>2
<1>7. ASSUME NEW c \in Ctas \ CountCtas
      PROVE  /\ c - LocalExperts \in Nat /\ TokenCta[c - LocalExperts] = c
             /\ \A t \in Nat : TokenCta[t] = c => c - LocalExperts <= t
  <2>1. PICK j \in 0 .. B - 1 : j = c - L
    BY <1>3
  <2>2. j % B = j
    <3>1. PICK z \in Nat : z = 0
      OBVIOUS
    <3>2. (z * B + j) % B = j
      BY Remainder
    <3>3. z * B + j = j
      BY <3>1
    <3>. QED  BY <3>2, <3>3
  <2>3. TokenCta[j] = L + j
    BY <1>5, <2>2
  <2>4. c = L + j
    BY <1>3, <2>1
  <2>5. ASSUME NEW t \in Nat, TokenCta[t] = c  PROVE j <= t
    <3>1. PICK i \in 0 .. B - 1 : i = t % B
      BY <1>6
    <3>2. i <= t /\ TokenCta[t] = L + i
      BY <1>5, <1>6, <3>1
    <3>. QED  BY <2>4, <2>5, <3>2
  <2>. QED  BY <1>1, <2>1, <2>3, <2>4, <2>5
<1>8. ASSUME NEW t \in Nat  PROVE TokenCta[t] \in Ctas \ CountCtas
  <2>1. PICK i \in 0 .. B - 1 : i = t % B
    BY <1>6
  <2>2. TokenCta[t] = L + i
    BY <1>5, <2>1
  <2>. QED  BY <1>3, <2>2
<1>. QED  BY <1>3, <1>4, <1>7, <1>8

\* The stride of a token CTA.
LEMMA StrideFacts ==
  ASSUME setup \in Setups, NEW t \in Nat
  PROVE  /\ t + TokenBlocks \in Nat /\ TokenCta[t + TokenBlocks] = TokenCta[t]
         /\ \A u \in Nat : TokenCta[u] = TokenCta[t] /\ u < t + TokenBlocks => u <= t
<1>1. PICK L \in Nat \ {0} : L = LocalExperts
  BY SetupFacts
<1>2. PICK B \in Nat \ {0} : B = TokenBlocks
  BY SetupFacts
<1>5. \A u \in Nat : TokenCta[u] = L + (u % B) /\ u % B \in Int
  BY <1>1, <1>2 DEF TokenCta
<1>6. TokenCta[t + B] = TokenCta[t]
  <2>1. B > 0 /\ t + B \in Nat
    OBVIOUS
  <2>2. (t + B) % B = t % B
    BY <2>1, NextInClass
  <2>3. TokenCta[t + B] = L + ((t + B) % B) /\ TokenCta[t] = L + (t % B)
    BY <1>5, <2>1
  <2>. QED  BY <2>2, <2>3
<1>7. ASSUME NEW u \in Nat, TokenCta[u] = TokenCta[t], u < t + B, t <= u
      PROVE  u = t
  <2>1. t % B = u % B
    BY <1>5, <1>7
  <2>. QED  BY <1>7, <2>1, ClassApart
<1>. QED  BY <1>2, <1>6, <1>7

LEMMA OwnerFacts ==
  ASSUME setup \in Setups
  PROVE  /\ \A e \in Experts : Owner(e) \in Ranks
              /\ \E c \in CountCtas : e = Owner(e) * LocalExperts + c
         /\ \A p \in Ranks, c \in CountCtas :
              p * LocalExperts + c \in Experts /\ Owner(p * LocalExperts + c) = p
         /\ \A p, q \in Ranks, c, d \in CountCtas :
              p * LocalExperts + c = q * LocalExperts + d => p = q /\ c = d
<1>1. PICK L \in Nat \ {0} : L = LocalExperts
  BY SetupFacts
<1>2. PICK n \in Nat \ {0} : n = R
  BY SetupFacts
<1>3. Experts = 0 .. n * L - 1 /\ Ranks = 0 .. n - 1 /\ CountCtas = 0 .. L - 1
  BY <1>1, <1>2 DEF Experts, Ranks, CountCtas
<1>4. ASSUME NEW e \in Experts
      PROVE  Owner(e) \in Ranks /\ \E c \in CountCtas : e = Owner(e) * LocalExperts + c
  <2>1. PICK m \in Nat : m = n * L
    OBVIOUS
  <2>2. e \in Nat /\ e < n * L
    BY <1>3, <2>1
  <2>3. PICK q \in Nat, j \in 0 .. L - 1 : e = q * L + j /\ e \div L = q
    BY <2>2, DivMod
  <2>4. q < n
    BY <2>2, <2>3, RowOfCell
  <2>5. Owner(e) = q
    BY <1>1, <2>3 DEF Owner
  <2>6. Owner(e) \in Ranks /\ j \in CountCtas
    BY <1>3, <2>4, <2>5
  <2>. QED  BY <1>1, <2>3, <2>5, <2>6
<1>5. ASSUME NEW p \in Ranks, NEW c \in CountCtas
      PROVE  p * LocalExperts + c \in Experts /\ Owner(p * LocalExperts + c) = p
                /\ (p * LocalExperts + c) % L = c
  <2>1. PICK q \in Nat, j \in 0 .. L - 1 : q = p /\ j = c
    BY <1>3
  <2>2. (q * L + j) % L = j /\ (q * L + j) \div L = q
    BY Remainder
  <2>3. PICK k \in Nat : k = q * L + j
    OBVIOUS
  <2>4. k \div L = q /\ q < n
    BY <1>3, <2>1, <2>2, <2>3
  <2>5. k < n * L
    BY <2>4, RowOfCell
  <2>6. PICK m \in Nat : m = n * L
    OBVIOUS
  <2>7. k \in Experts
    BY <1>3, <2>5, <2>6
  <2>. QED  BY <1>1, <2>1, <2>2, <2>3, <2>7 DEF Owner
<1>6. ASSUME NEW p \in Ranks, NEW q \in Ranks, NEW c \in CountCtas, NEW d \in CountCtas,
             p * LocalExperts + c = q * LocalExperts + d
      PROVE  p = q /\ c = d
  <2>1. Owner(p * LocalExperts + c) = p /\ (p * LocalExperts + c) % L = c
    BY <1>5
  <2>2. Owner(q * LocalExperts + d) = q /\ (q * LocalExperts + d) % L = d
    BY <1>5
  <2>. QED  BY <1>6, <2>1, <2>2
<1>. QED  BY <1>4, <1>5, <1>6
-----------------------------------------------------------------------------
(* Steps that leave a rank, or a part of its state, alone. *)

\* Nothing of what belongs to rank q changes, here and at its owners.
OwnUntouched(q) ==
  /\ round'[q] = round[q] /\ route'[q] = route[q] /\ ready'[q].gen = ready[q].gen
  /\ counts'[q] = counts[q] /\ retire'[q] = retire[q] /\ row'[q] = row[q]
  /\ pc'[q] = pc[q] /\ generation'[q] = generation[q]
  /\ token'[q] = token[q] /\ slot'[q] = slot[q]
CellsUntouched(q) == \A p \in Ranks, f \in 0 .. 1 :
  /\ \A e \in Experts : countCell'[p][f][<<e, q>>] = countCell[p][f][<<e, q>>]
  /\ \A e \in Experts, s \in 0 .. SourceCapacity - 1 :
       entryCell'[p][f][<<e, q, s>>] = entryCell[p][f][<<e, q, s>>]
  /\ \A t \in Rows : scaleCell'[p][f][<<q, t>>] = scaleCell[p][f][<<q, t>>]
SentUntouched(q) ==
  /\ CellsUntouched(q)
  /\ \A p \in Ranks, f \in 0 .. 1 : arrivals'[p][f][q] = arrivals[p][f][q]

\* A parity is a half of the buffers.
LEMMA BankFacts ==
  ASSUME TypeOK, NEW q \in Ranks
  PROVE  /\ Bank(q) \in 0 .. 1 /\ round[q] \in 0 .. MaxRounds
         /\ Gen[round[q]] \in 0 .. GenerationLimit
<1>1. round[q] \in 0 .. MaxRounds /\ setup \in Setups
  BY DEF TypeOK
<1>2. PICK g \in 0 .. GenerationLimit : g = Gen[round[q]]
  BY <1>1, GenFacts
<1>3. Parity(g) \in 0 .. 1
  BY AdvanceFacts
<1>. QED  BY <1>1, <1>2, <1>3 DEF Bank

LEMMA BankSame ==
  ASSUME setup' = setup, NEW q, round'[q] = round[q]
  PROVE  Bank(q)' = Bank(q)
BY Same DEF Bank

\* What the program counters say of the CTAs that have retired.
SameProgress(q) == \A c \in Ctas :
  /\ pc'[q][c] = "begin" <=> pc[q][c] = "begin"
  /\ pc'[q][c] \in {"clear", "arrive", "done"} <=> pc[q][c] \in {"clear", "arrive", "done"}
  /\ pc'[q][c] \in {"clear", "arrive"} => pc[q][c] \in {"clear", "arrive"}
  /\ pc[q][c] = "done" => pc'[q][c] = "done"

LEMMA ProgressFacts ==
  ASSUME setup' = setup, NEW q, SameProgress(q)
  PROVE  (AllRetired(q)' <=> AllRetired(q)) /\ Retired(q)' = Retired(q)
BY Same DEF SameProgress, AllRetired, Retired

LEMMA ControlStill ==
  ASSUME setup' = setup, NEW q, SameProgress(q),
         round'[q] = round[q], generation'[q] = generation[q],
         ready'[q].gen = ready[q].gen, retire'[q] = retire[q],
         Words(q), Tickets(q)
  PROVE  Words(q)' /\ Tickets(q)'
<1>1. (AllRetired(q)' <=> AllRetired(q)) /\ Retired(q)' = Retired(q) /\ Bank(q)' = Bank(q)
  BY ProgressFacts, BankSame
<1>2. Words(q)'
  BY <1>1, Same DEF Words, SameProgress
<1>3. retire[q]' = retire[q]
  OBVIOUS
<1>4. Tickets(q)'
  BY <1>1, <1>3, Same DEF Tickets, SameProgress
<1>. QED  BY <1>2, <1>4

LEMMA ArrivalsStill ==
  ASSUME setup' = setup, NEW q, SameProgress(q), round'[q] = round[q],
         \A p \in Ranks, f \in 0 .. 1 : arrivals'[p][f][q] = arrivals[p][f][q],
         (\A c \in Ctas : pc'[q][c] = "done") => \A c \in Ctas : pc[q][c] = "done",
         Bank(q) \in 0 .. 1, Arrivals(q)
  PROVE  Arrivals(q)'
<1>1. (AllRetired(q)' <=> AllRetired(q)) /\ Bank(q)' = Bank(q)
  BY ProgressFacts, BankSame
<1>2. 1 - Bank(q) \in 0 .. 1
  OBVIOUS
<1>. QED  BY <1>1, <1>2, Same DEF Arrivals

\* The claims of a rank are the same.
SameClaims(q) ==
  /\ \A t \in Rows : Pushed(q, t)' <=> Pushed(q, t)
  /\ \A c \in Ctas :
       /\ \A e \in Experts : Holding(q, c, e)' <=> Holding(q, c, e)
       /\ \A e \in Experts : Holding(q, c, e) =>
            slot'[q][c][e] = slot[q][c][e] /\ token'[q][c] = token[q][c]

LEMMA ClaimsSame ==
  ASSUME setup' = setup, setup \in Setups, NEW q \in Ranks, route'[q] = route[q], SameClaims(q)
  PROVE  /\ \A e \in Experts : RoutedTo(q, e)' = RoutedTo(q, e)
         /\ \A e \in Experts : Claimed(q, e)' = Claimed(q, e)
         /\ \A e \in Experts, s \in Nat : InProgress(q, e, s)' <=> InProgress(q, e, s)
<1>1. ASSUME NEW e \in Experts  PROVE RoutedTo(q, e)' = RoutedTo(q, e)
  BY Same DEF RoutedTo
<1>2. ASSUME NEW e \in Experts  PROVE Claimed(q, e)' = Claimed(q, e)
  <2>1. ASSUME NEW t \in Rows
        PROVE  (Holding(q, TokenCta[t], e)' /\ token'[q][TokenCta'[t]] = t)
                 <=> (Holding(q, TokenCta[t], e) /\ token[q][TokenCta[t]] = t)
    <3>1. t \in Nat
      BY SetupFacts DEF Rows
    <3>2. PICK c \in Ctas : c = TokenCta[t]
      BY <3>1, CtaFacts
    <3>3. (Holding(q, c, e)' <=> Holding(q, c, e))
             /\ (Holding(q, c, e) => token'[q][c] = token[q][c])
      BY DEF SameClaims
    <3>. QED  BY <3>2, <3>3, Same DEF Holding
  <2>2. \A t \in Rows : Pushed(q, t)' <=> Pushed(q, t)
    BY DEF SameClaims
  <2>3. RoutedTo(q, e) \subseteq Rows
    BY DEF RoutedTo
  <2>. QED  BY <1>1, <2>1, <2>2, <2>3 DEF Claimed
<1>3. ASSUME NEW e \in Experts, NEW s \in Nat
      PROVE  InProgress(q, e, s)' <=> InProgress(q, e, s)
  <2>1. \A c \in Ctas : (Holding(q, c, e)' <=> Holding(q, c, e))
          /\ (Holding(q, c, e) => slot'[q][c][e] = slot[q][c][e])
    BY DEF SameClaims
  <2>. QED  BY <2>1, Same DEF InProgress
<1>. QED  BY <1>1, <1>2, <1>3

LEMMA ClaimedFacts ==
  ASSUME setup \in Setups, NEW q \in Ranks, NEW e \in Experts
  PROVE  /\ RoutedTo(q, e) \subseteq Rows /\ Claimed(q, e) \subseteq RoutedTo(q, e)
         /\ IsFiniteSet(RoutedTo(q, e)) /\ IsFiniteSet(Claimed(q, e))
         /\ Cardinality(RoutedTo(q, e)) \in Nat /\ Cardinality(Claimed(q, e)) \in Nat
         /\ Cardinality(Claimed(q, e)) <= SourceCapacity
<1>1. PICK n \in Nat : n = Tokens
  BY SetupFacts
<1>2. IsFiniteSet(Rows) /\ Cardinality(Rows) = n
  <2>1. PICK a \in Int, b \in Int : a = 0 /\ b = n - 1
    OBVIOUS
  <2>2. IsFiniteSet(a .. b) /\ Cardinality(a .. b) = IF a > b THEN 0 ELSE b - a + 1
    BY FS_Interval
  <2>3. Cardinality(a .. b) = n
    BY <2>1, <2>2
  <2>. QED  BY <1>1, <2>1, <2>2, <2>3 DEF Rows
<1>3. RoutedTo(q, e) \subseteq Rows /\ Claimed(q, e) \subseteq RoutedTo(q, e)
  BY DEF RoutedTo, Claimed
<1>4. IsFiniteSet(RoutedTo(q, e)) /\ Cardinality(RoutedTo(q, e)) <= n
  BY <1>2, <1>3, FS_Subset
<1>5. IsFiniteSet(Claimed(q, e)) /\ Cardinality(Claimed(q, e)) <= Cardinality(RoutedTo(q, e))
  BY <1>3, <1>4, FS_Subset
<1>6. Cardinality(RoutedTo(q, e)) \in Nat /\ Cardinality(Claimed(q, e)) \in Nat
  BY <1>4, <1>5, FS_CardinalityType
<1>7. PICK s \in Nat : s = SourceCapacity
  BY SetupFacts
<1>8. n <= s
  BY <1>1, <1>7, SetupFacts
<1>. QED  BY <1>3, <1>4, <1>5, <1>6, <1>7, <1>8

LEMMA ClaimsStill ==
  ASSUME setup' = setup, setup \in Setups, NEW q \in Ranks, SameClaims(q),
         round'[q] = round[q], route'[q] = route[q], counts'[q] = counts[q],
         Cleared(q)' <=> Cleared(q), Claims(q)
  PROVE  Claims(q)'
<1>1. Bank(q)' = Bank(q)
  BY BankSame
<1>2. \A e \in Experts : Claimed(q, e)' = Claimed(q, e)
  BY ClaimsSame
<1>3. \A c \in Ctas, e \in Experts : (Holding(q, c, e)' <=> Holding(q, c, e))
        /\ (Holding(q, c, e) => slot'[q][c][e] = slot[q][c][e])
  BY DEF SameClaims
<1>. QED  BY <1>1, <1>2, <1>3, Same DEF Claims

\* What was sent, apart from the writers of the cells.
SameValues(q) == \A p \in Ranks, f \in 0 .. 1 :
  /\ \A e \in Experts : /\ countCell'[p][f][<<e, q>>].round = countCell[p][f][<<e, q>>].round
                        /\ countCell'[p][f][<<e, q>>].value = countCell[p][f][<<e, q>>].value
  /\ \A e \in Experts, s \in 0 .. SourceCapacity - 1 :
       /\ entryCell'[p][f][<<e, q, s>>].round = entryCell[p][f][<<e, q, s>>].round
       /\ entryCell'[p][f][<<e, q, s>>].value = entryCell[p][f][<<e, q, s>>].value
  /\ \A t \in Rows : /\ scaleCell'[p][f][<<q, t>>].round = scaleCell[p][f][<<q, t>>].round
                     /\ row'[q][t].round = row[q][t].round

LEMMA EntriesStill ==
  ASSUME setup' = setup, TypeOK, NEW q \in Ranks, SameClaims(q),
         round'[q] = round[q], route'[q] = route[q],
         \A p \in Ranks, f \in 0 .. 1, e \in Experts, s \in 0 .. SourceCapacity - 1 :
           /\ entryCell'[p][f][<<e, q, s>>].round = entryCell[p][f][<<e, q, s>>].round
           /\ entryCell'[p][f][<<e, q, s>>].value = entryCell[p][f][<<e, q, s>>].value,
         Entries(q)
  PROVE  Entries(q)'
<1>0. setup \in Setups
  BY DEF TypeOK
<1>1. Bank(q)' = Bank(q) /\ Bank(q) \in 0 .. 1
  BY BankSame, BankFacts
<1>2. ASSUME NEW e \in Experts
      PROVE  /\ \A s \in 0 .. Cardinality(Claimed(q, e)') - 1 : InProgress(q, e, s)' \/
                  (Entry(q, e, s)'.round = round'[q] /\ Entry(q, e, s)'.value \in RoutedTo(q, e)')
             /\ \A t \in RoutedTo(q, e)' : Pushed(q, t)' =>
                  \E s \in 0 .. Cardinality(Claimed(q, e)') - 1 : ~InProgress(q, e, s)'
                    /\ Entry(q, e, s)'.round = round'[q] /\ Entry(q, e, s)'.value = t
  <2>1. RoutedTo(q, e)' = RoutedTo(q, e) /\ Claimed(q, e)' = Claimed(q, e)
          /\ \A s \in Nat : InProgress(q, e, s)' <=> InProgress(q, e, s)
    BY <1>0, ClaimsSame
  <2>2. PICK n \in Nat : n = Cardinality(Claimed(q, e))
    BY <1>0, ClaimedFacts
  <2>3. n <= SourceCapacity /\ RoutedTo(q, e) \subseteq Rows /\ SourceCapacity \in Nat
    BY <1>0, <2>2, ClaimedFacts, SetupFacts
  <2>4. PICK b \in 0 .. 1 : b = Bank(q)
    BY <1>1
  <2>5. PICK p \in Ranks : p = Owner(e)
    BY <1>0, OwnerFacts
  <2>6. Owner(e)' = p
    BY <2>5, Same DEF Owner
  <2>7. ASSUME NEW s \in 0 .. n - 1
        PROVE  /\ Entry(q, e, s)'.round = Entry(q, e, s).round
               /\ Entry(q, e, s)'.value = Entry(q, e, s).value
    <3>1. s \in 0 .. SourceCapacity - 1
      BY <2>3
    <3>2. /\ entryCell'[p][b][<<e, q, s>>].round = entryCell[p][b][<<e, q, s>>].round
          /\ entryCell'[p][b][<<e, q, s>>].value = entryCell[p][b][<<e, q, s>>].value
      BY <3>1
    <3>. QED  BY <1>1, <2>4, <2>5, <2>6, <3>2 DEF Entry
  <2>8. \A t \in Rows : Pushed(q, t)' <=> Pushed(q, t)
    BY DEF SameClaims
  <2>9. /\ \A s \in 0 .. n - 1 : InProgress(q, e, s) \/
             (Entry(q, e, s).round = round[q] /\ Entry(q, e, s).value \in RoutedTo(q, e))
        /\ \A t \in RoutedTo(q, e) : Pushed(q, t) =>
             \E s \in 0 .. n - 1 : ~InProgress(q, e, s)
               /\ Entry(q, e, s).round = round[q] /\ Entry(q, e, s).value = t
    BY <2>2 DEF Entries
  <2>. QED  BY <2>1, <2>2, <2>3, <2>7, <2>8, <2>9
<1>. QED  BY <1>2, Same DEF Entries

\* The store is still pending, or has landed, after the step.
PendingNext(cell, q) == cell.writer = Landed \/
  \E c \in Ctas : cell.writer = <<q, c>> /\ pc'[q][c] \in {"claim", "fence"}

LEMMA WritersPrimed ==
  ASSUME setup' = setup, NEW q,
         \A p \in Ranks, f \in 0 .. 1, e \in Experts : PendingNext(countCell'[p][f][<<e, q>>], q),
         \A p \in Ranks, f \in 0 .. 1, e \in Experts, s \in 0 .. SourceCapacity - 1 :
           PendingNext(entryCell'[p][f][<<e, q, s>>], q),
         \A p \in Ranks, f \in 0 .. 1, t \in Rows : PendingNext(scaleCell'[p][f][<<q, t>>], q),
         \A t \in Rows : PendingNext(row'[q][t], q)
  PROVE  Writers(q)'
<1>1. /\ \A p \in Ranks', f \in 0 .. 1, e \in Experts' : Pending(countCell[p][f][<<e, q>>], q)'
      /\ \A p \in Ranks', f \in 0 .. 1, t \in Rows' : Pending(scaleCell[p][f][<<q, t>>], q)'
      /\ \A t \in Rows' : Pending(row[q][t], q)'
  BY Same DEF Pending, PendingNext
<1>2. \A p \in Ranks', f \in 0 .. 1, e \in Experts', s \in 0 .. SourceCapacity' - 1 :
        Pending(entryCell[p][f][<<e, q, s>>], q)'
  BY SMTT(30), Same DEF Pending, PendingNext
<1>. QED  BY <1>1, <1>2 DEF Writers

LEMMA WritersStill ==
  ASSUME setup' = setup, NEW q, CellsUntouched(q), row'[q] = row[q],
         \A c \in Ctas : pc[q][c] \in {"claim", "fence"} => pc'[q][c] \in {"claim", "fence"},
         Writers(q)
  PROVE  Writers(q)'
<1>1. \A cell : Pending(cell, q) => PendingNext(cell, q)
  BY DEF Pending, PendingNext
<1>2. \A p \in Ranks, f \in 0 .. 1, e \in Experts : PendingNext(countCell'[p][f][<<e, q>>], q)
  BY <1>1 DEF Writers, CellsUntouched
<1>3. \A p \in Ranks, f \in 0 .. 1, e \in Experts, s \in 0 .. SourceCapacity - 1 :
        PendingNext(entryCell'[p][f][<<e, q, s>>], q)
  BY <1>1 DEF Writers, CellsUntouched
<1>4. \A p \in Ranks, f \in 0 .. 1, t \in Rows : PendingNext(scaleCell'[p][f][<<q, t>>], q)
  BY <1>1 DEF Writers, CellsUntouched
<1>5. \A t \in Rows : PendingNext(row'[q][t], q)
  BY <1>1 DEF Writers
<1>. QED  BY <1>2, <1>3, <1>4, <1>5, WritersPrimed

LEMMA PushesStill ==
  ASSUME setup' = setup, TypeOK, NEW q \in Ranks, SameValues(q), round'[q] = round[q],
         route'[q] = route[q],
         \A t \in Rows : Pushed(q, t)' <=> Pushed(q, t),
         \A c \in CountCtas : pc'[q][c] \notin {"begin", "count"} => pc[q][c] \notin {"begin", "count"},
         Pushes(q)
  PROVE  Pushes(q)'
<1>0. setup \in Setups
  BY DEF TypeOK
<1>1. PICK b \in 0 .. 1 : b = Bank(q) /\ b = Bank(q)'
  BY BankSame, BankFacts
<1>2. ASSUME NEW c \in CountCtas, NEW p \in Ranks, pc'[q][c] \notin {"begin", "count"}
      PROVE  LET cell == countCell'[p][b][<<p * LocalExperts + c, q>>]
             IN  /\ cell.round = round'[q]
                 /\ cell.value = Cardinality({t \in Rows : p * LocalExperts + c \in route'[q][t]})
  <2>1. PICK e \in Experts : e = p * LocalExperts + c
    BY <1>0, OwnerFacts
  <2>2. countCell[p][b][<<e, q>>].round = round[q]
          /\ countCell[p][b][<<e, q>>].value = Cardinality(RoutedTo(q, e))
    BY <1>1, <1>2, <2>1 DEF Pushes
  <2>3. RoutedTo(q, e) = {t \in Rows : e \in route'[q][t]}
    BY DEF RoutedTo
  <2>4. /\ countCell'[p][b][<<e, q>>].round = countCell[p][b][<<e, q>>].round
        /\ countCell'[p][b][<<e, q>>].value = countCell[p][b][<<e, q>>].value
    BY <1>1, <2>1 DEF SameValues
  <2>. QED  BY <2>1, <2>2, <2>3, <2>4
<1>3. ASSUME NEW t \in Rows, Pushed(q, t)'
      PROVE  /\ row'[q][t].round = round'[q]
             /\ \A e \in Experts : e \in route'[q][t] =>
                  scaleCell'[Owner(e)][b][<<q, t>>].round = round'[q]
  <2>1. Pushed(q, t)
    BY <1>3
  <2>2. \A e \in Experts : Owner(e) \in Ranks
    BY <1>0, OwnerFacts
  <2>3. 0 \in Ranks
    BY <1>0, SetupFacts DEF Ranks
  <2>4. row'[q][t].round = row[q][t].round
    BY <2>3 DEF SameValues
  <2>. QED  BY <1>1, <2>1, <2>2, <2>4 DEF Pushes, SameValues
<1>4. \A e : Owner(e)' = Owner(e)
  BY Same DEF Owner
<1>5. \A c \in CountCtas, p \in Ranks : pc'[q][c] \notin {"begin", "count"} =>
        /\ countCell'[p][b][<<p * LocalExperts + c, q>>].round = round'[q]
        /\ countCell'[p][b][<<p * LocalExperts + c, q>>].value =
             Cardinality({t \in Rows : p * LocalExperts + c \in route'[q][t]})
  BY <1>2
<1>6. \A t \in Rows : Pushed(q, t)' => row'[q][t].round = round'[q]
  BY <1>3
<1>7. \A t \in Rows, e \in Experts : Pushed(q, t)' /\ e \in route'[q][t] =>
        scaleCell'[Owner(e)'][b][<<q, t>>].round = round'[q]
  BY <1>3, <1>4
<1>. QED  BY <1>1, <1>5, <1>6, <1>7, Same DEF Pushes, RoutedTo

LEMMA UntouchedValues ==
  ASSUME NEW q, CellsUntouched(q), row'[q] = row[q]
  PROVE  SameValues(q)
BY DEF CellsUntouched, SameValues

LEMMA Elsewhere ==
  ASSUME setup' = setup, TypeOK, NEW q \in Ranks, OwnUntouched(q), SentUntouched(q), RankInv(q)
  PROVE  RankInv(q)'
<1>. USE DEF OwnUntouched
<1>0. setup \in Setups /\ Bank(q) \in 0 .. 1
  BY BankFacts DEF TypeOK
<1>1. SameProgress(q) /\ ((\A c \in Ctas : pc'[q][c] = "done") => \A c \in Ctas : pc[q][c] = "done")
  BY DEF SameProgress
<1>2. Words(q)' /\ Tickets(q)'
  BY <1>1, ControlStill DEF RankInv
<1>3. Arrivals(q)'
  BY <1>0, <1>1, ArrivalsStill DEF RankInv, SentUntouched
<1>4. Strides(q)'
  <2>1. Strides(q)
    BY DEF RankInv
  <2>. QED  BY <2>1, Same DEF Strides
<1>5. SameClaims(q)
  <2>1. \A t \in Rows : Pushed(q, t)' <=> Pushed(q, t)
    BY Same DEF Pushed
  <2>2. \A c \in Ctas, e \in Experts : Holding(q, c, e)' <=> Holding(q, c, e)
    BY DEF Holding
  <2>. QED  BY <2>1, <2>2 DEF SameClaims
<1>6. Claims(q)'
  <2>1. Cleared(q)' <=> Cleared(q)
    BY Same DEF Cleared, AllRetired
  <2>. QED  BY <1>0, <1>5, <2>1, ClaimsStill DEF RankInv
<1>7. Writers(q)'
  BY WritersStill DEF RankInv, SentUntouched
<1>8. SameValues(q)
  BY UntouchedValues DEF SentUntouched
<1>9. Pushes(q)'
  <2>1. \A t \in Rows : Pushed(q, t)' <=> Pushed(q, t)
    BY <1>5 DEF SameClaims
  <2>. QED  BY <1>8, <2>1, PushesStill DEF RankInv
<1>10. Entries(q)'
  <2>1. \A p \in Ranks, f \in 0 .. 1, e \in Experts, s \in 0 .. SourceCapacity - 1 :
           /\ entryCell'[p][f][<<e, q, s>>].round = entryCell[p][f][<<e, q, s>>].round
           /\ entryCell'[p][f][<<e, q, s>>].value = entryCell[p][f][<<e, q, s>>].value
    BY <1>8 DEF SameValues
  <2>. QED  BY <1>5, <2>1, EntriesStill DEF RankInv
<1>. QED  BY <1>2, <1>3, <1>4, <1>6, <1>7, <1>9, <1>10 DEF RankInv
-----------------------------------------------------------------------------
(* Types and stages. *)

\* What one CTA's step does to the stages of the ranks.
LEMMA CtaStages ==
  ASSUME setup' = setup, TypeOK, Stages, NEW r \in Ranks, NEW c \in Ctas, NEW label,
         round' = round, stage' = stage, pc'[r][c] = label,
         \A q \in Ranks, d \in Ctas : q # r \/ d # c => pc'[q][d] = pc[q][d],
         pc[r][c] # "done",
         pc[r][c] \in {"clear", "arrive"} => label \in {"clear", "arrive", "done"}
  PROVE  Stages'
<1>1. stage[r] \in {"pre", "reading", "released"} /\ round[r] \in Nat
  BY DEF TypeOK
<1>4. stage[r] = "pre" /\ round[r] > 0
  BY <1>1 DEF Stages
<1>5. ASSUME NEW q \in Ranks, stage[q] # "pre"
      PROVE  /\ \A d \in Ctas : pc'[q][d] = "done"
             /\ stage[q] = "reading" =>
                  \A p \in Ranks : round[p] = round[q] /\ AllRetired(p)'
  <2>1. \A d \in Ctas : pc'[q][d] = "done"
    BY <1>4, <1>5 DEF Stages
  <2>2. ASSUME stage[q] = "reading", NEW p \in Ranks
        PROVE  round[p] = round[q] /\ AllRetired(p)'
    <3>1. round[p] = round[q] /\ AllRetired(p) /\ AllRetired(r)
      BY <2>2 DEF Stages
    <3>2. \A d \in Ctas : pc'[p][d] \in {"clear", "arrive", "done"}
      BY <3>1 DEF AllRetired
    <3>. QED  BY <3>1, <3>2, Same DEF AllRetired
  <2>. QED  BY <2>1, <2>2
<1>6. Stages'
  <2>1. \A q \in Ranks :
          /\ stage[q] # "pre" => \A d \in Ctas : pc'[q][d] = "done"
          /\ round[q] = 0 => stage[q] = "released"
          /\ \A p \in Ranks : round[p] < round[q] => round[q] = round[p] + 1 /\ stage[p] = "released"
          /\ stage[q] = "reading" => \A p \in Ranks : round[p] = round[q] /\ AllRetired(p)'
    BY <1>5 DEF Stages
  <2>. QED  BY <2>1, Same DEF Stages
<1>. QED  BY <1>6

LEMMA GridTypes ==
  ASSUME NEW S, NEW T, NEW V, NEW f \in [S -> [T -> V]], NEW s \in S, NEW t \in T, NEW v \in V
  PROVE  /\ [f EXCEPT ![s][t] = v] \in [S -> [T -> V]]
         /\ [f EXCEPT ![s][t] = v][s][t] = v
         /\ \A x \in S, y \in T : x # s \/ y # t => [f EXCEPT ![s][t] = v][x][y] = f[x][y]
         /\ \A x \in S : x # s => [f EXCEPT ![s][t] = v][x] = f[x]
<1>1. [f[s] EXCEPT ![t] = v] \in [T -> V]
  OBVIOUS
<1>. QED  BY <1>1

LEMMA TypesPrimed ==
  ASSUME setup' = setup, setup \in Setups,
         round' \in [Ranks -> 0 .. MaxRounds],
         stage' \in [Ranks -> {"pre", "reading", "released"}],
         route' \in [Ranks -> [Rows -> SUBSET Experts]],
         ready' \in [Ranks -> [gen : Nat, metadata : BOOLEAN]],
         counts' \in [Ranks -> [0 .. 1 -> [Experts -> Nat]]],
         retire' \in [Ranks -> [0 .. 1 -> Nat]],
         arrivals' \in [Ranks -> [0 .. 1 -> [Ranks -> Nat]]],
         countCell' \in [Ranks -> [0 .. 1 -> [Experts \X Ranks -> Cells]]],
         entryCell' \in [Ranks -> [0 .. 1 -> [Experts \X Ranks \X (0 .. SourceCapacity - 1) -> Cells]]],
         scaleCell' \in [Ranks -> [0 .. 1 -> [Ranks \X Rows -> Cells]]],
         row' \in [Ranks -> [Rows -> Cells]],
         pc' \in [Ranks -> [Ctas -> PcNames]],
         generation' \in [Ranks -> [Ctas -> Nat]],
         token' \in [Ranks -> [Ctas -> Int]],
         slot' \in [Ranks -> [Ctas -> Slots]]
  PROVE  TypeOK'
<1>1. Cells' = Cells
  BY Same DEF Cells
<1>2. Slots' = Slots
  BY Same DEF Slots
<1>. QED  BY <1>1, <1>2, Same DEF TypeOK

\* The state in which a CTA acts.
LEMMA ActingFacts ==
  ASSUME IInv, NEW r \in Ranks, NEW c \in Ctas, pc[r][c] # "done"
  PROVE  /\ setup \in Setups /\ stage[r] = "pre"
         /\ round[r] \in 1 .. MaxRounds
         /\ Bank(r) \in 0 .. 1 /\ Bank(r) = Parity(Gen[round[r]])
         /\ Gen[round[r]] \in Nat /\ Gen[round[r]] = Advance(Gen[round[r] - 1])
         /\ pc[r][c] # "begin" => generation[r][c] = Gen[round[r]]
<1>1. setup \in Setups /\ round[r] \in 0 .. MaxRounds /\ stage[r] \in {"pre", "reading", "released"}
  BY DEF IInv, TypeOK
<1>2. stage[r] = "pre" /\ round[r] # 0
  BY <1>1 DEF IInv, Stages
<1>3. Bank(r) \in 0 .. 1 /\ Bank(r) = Parity(Gen[round[r]])
  BY BankFacts DEF IInv, Bank
<1>4. PICK n \in 1 .. MaxRounds : n = round[r]
  BY <1>1, <1>2
<1>5. Gen[n] \in 0 .. GenerationLimit /\ Gen[n] = Advance(Gen[n - 1])
  BY <1>1, <1>4, GenFacts
<1>6. pc[r][c] # "begin" => generation[r][c] = Gen[round[r]]
  BY <1>4 DEF IInv, RankInv, Words
<1>. QED  BY <1>1, <1>2, <1>3, <1>4, <1>5, <1>6

LEMMA EmptySlots ==
  <<>> \in Slots /\ DOMAIN <<>> = {}
<1>1. <<>> \in [{} -> Nat]
  OBVIOUS
<1>2. {} \in SUBSET Experts
  OBVIOUS
<1>. QED  BY <1>1, <1>2 DEF Slots
-----------------------------------------------------------------------------
(* A CTA starts. *)

LEMMA BeginStep ==
  ASSUME IInv, setup' = setup, NEW r \in Ranks, NEW c \in Ctas, Begin(r, c)
  PROVE  IInv'
<1>0. PICK label \in PcNames : label = IF c \in CountCtas THEN "count"
                                     ELSE IF c - LocalExperts < Tokens THEN "claim" ELSE "fence"
  BY DEF PcNames
<1>1. /\ pc[r][c] = "begin"
      /\ generation' = [generation EXCEPT ![r][c] = Advance(ready[r].gen)]
      /\ token' = [token EXCEPT ![r][c] = c - LocalExperts]
      /\ slot' = [slot EXCEPT ![r][c] = <<>>]
      /\ pc' = [pc EXCEPT ![r][c] = label]
      /\ round' = round /\ stage' = stage /\ route' = route
      /\ ready' = ready /\ counts' = counts /\ retire' = retire /\ arrivals' = arrivals
      /\ countCell' = countCell /\ entryCell' = entryCell /\ scaleCell' = scaleCell /\ row' = row
  BY <1>0 DEF Begin, Goto, control, header, staging
<1>2. /\ setup \in Setups /\ round[r] \in 1 .. MaxRounds /\ Bank(r) \in 0 .. 1
      /\ Gen[round[r]] \in Nat /\ Gen[round[r]] = Advance(Gen[round[r] - 1])
  BY <1>1, ActingFacts
<1>3. TypeOK /\ Stages /\ RankInv(r)
  BY DEF IInv
<1>4. Advance(ready[r].gen) = Gen[round[r]]
  <2>1. ready[r].gen = Gen[round[r] - 1]
    BY <1>1, <1>3 DEF RankInv, Words, AllRetired
  <2>. QED  BY <1>2, <2>1
<1>5. /\ pc' = [pc EXCEPT ![r][c] = label] /\ round' = round /\ stage' = stage
      /\ pc[r][c] # "done"
      /\ pc[r][c] \in {"clear", "arrive"} => label \in {"clear", "arrive", "done"}
  BY <1>1
<1>6. /\ Stages' /\ pc' \in [Ranks -> [Ctas -> PcNames]] /\ pc'[r][c] = label
      /\ \A q \in Ranks, d \in Ctas : q # r \/ d # c => pc'[q][d] = pc[q][d]
  <2>1. pc \in [Ranks -> [Ctas -> PcNames]]
    BY <1>3 DEF TypeOK
  <2>2. /\ pc' \in [Ranks -> [Ctas -> PcNames]] /\ pc'[r][c] = label
        /\ \A q \in Ranks, d \in Ctas : q # r \/ d # c => pc'[q][d] = pc[q][d]
    BY <1>1, <2>1, GridTypes
  <2>. QED  BY <1>3, <1>5, <2>2, CtaStages
<1>7. /\ generation' \in [Ranks -> [Ctas -> Nat]] /\ generation'[r][c] = Gen[round[r]]
      /\ \A q \in Ranks, d \in Ctas : q # r \/ d # c => generation'[q][d] = generation[q][d]
      /\ \A q \in Ranks : q # r => generation'[q] = generation[q]
  <2>1. PICK g \in Nat : g = Gen[round[r]]
    BY <1>2
  <2>2. generation \in [Ranks -> [Ctas -> Nat]]
    BY <1>3 DEF TypeOK
  <2>. QED  BY <1>1, <1>4, <2>1, <2>2, GridTypes
<1>8. /\ token' \in [Ranks -> [Ctas -> Int]] /\ token'[r][c] = c - LocalExperts
      /\ \A q \in Ranks, d \in Ctas : q # r \/ d # c => token'[q][d] = token[q][d]
      /\ \A q \in Ranks : q # r => token'[q] = token[q]
  <2>1. PICK t \in Int : t = c - LocalExperts
    BY <1>2, SetupFacts DEF Ctas
  <2>2. token \in [Ranks -> [Ctas -> Int]]
    BY <1>3 DEF TypeOK
  <2>. QED  BY <1>1, <2>1, <2>2, GridTypes
<1>9. /\ slot' \in [Ranks -> [Ctas -> Slots]] /\ DOMAIN slot'[r][c] = {}
      /\ \A q \in Ranks, d \in Ctas : q # r \/ d # c => slot'[q][d] = slot[q][d]
      /\ \A q \in Ranks : q # r => slot'[q] = slot[q]
  <2>1. PICK v \in Slots : v = <<>> /\ DOMAIN v = {}
    BY EmptySlots
  <2>2. slot \in [Ranks -> [Ctas -> Slots]]
    BY <1>3 DEF TypeOK
  <2>. QED  BY <1>1, <2>1, <2>2, GridTypes
<1>10. TypeOK'
  BY <1>1, <1>3, <1>6, <1>7, <1>8, <1>9, TypesPrimed DEF TypeOK
<1>11. ASSUME NEW q \in Ranks, q # r  PROVE RankInv(q)'
  <2>1. pc'[q] = pc[q]
    BY <1>1, <1>3, <1>11 DEF TypeOK
  <2>2. OwnUntouched(q) /\ SentUntouched(q)
    BY <1>1, <1>7, <1>8, <1>9, <1>11, <2>1 DEF OwnUntouched, SentUntouched, CellsUntouched
  <2>. QED  BY <1>3, <2>2, Elsewhere DEF IInv
<1>12. RankInv(r)'
  <2>1. /\ pc'[r][c] = label /\ label \in {"count", "claim", "fence"}
        /\ \A d \in Ctas : d # c => pc'[r][d] = pc[r][d]
    BY <1>0, <1>6
  <2>2. ~AllRetired(r) /\ ~AllRetired(r)' /\ Retired(r)' = Retired(r) /\ Bank(r)' = Bank(r)
    <3>1. ~AllRetired(r) /\ ~AllRetired(r)'
      BY <1>1, <2>1, Same DEF AllRetired
    <3>2. Retired(r)' = Retired(r)
      BY <1>1, <2>1, Same DEF Retired
    <3>. QED  BY <1>1, <3>1, <3>2, BankSame
  <2>3. Words(r)'
    <3>1. Words(r)
      BY <1>3 DEF RankInv
    <3>. QED  BY <1>1, <1>7, <2>1, <2>2, <3>1, Same DEF Words
  <2>4. Tickets(r)'
    <3>1. Tickets(r)
      BY <1>3 DEF RankInv
    <3>2. \A d \in Ctas : pc[r][d] \notin {"clear", "arrive"}
      BY <1>1, <3>1 DEF Tickets
    <3>3. \A d \in Ctas : pc'[r][d] \notin {"clear", "arrive"}
      BY <2>1, <3>2
    <3>. QED  BY <1>1, <2>2, <3>1, <3>3, Same DEF Tickets
  <2>5. Arrivals(r)'
    <3>1. Arrivals(r)
      BY <1>3 DEF RankInv
    <3>2. ~\A d \in Ctas : pc'[r][d] = "done"
      BY <2>1
    <3>. QED  BY <1>1, <2>2, <3>1, <3>2, Same DEF Arrivals
  <2>6. ASSUME NEW t \in Rows, TokenCta[t] = c
        PROVE  c \in Ctas \ CountCtas /\ c - LocalExperts <= t /\ t < Tokens /\ t \in Int
                 /\ Tokens \in Int
    <3>1. t \in Nat /\ t < Tokens /\ Tokens \in Int
      BY <1>2, SetupFacts DEF Rows
    <3>. QED  BY <1>2, <2>6, <3>1, CtaFacts
  <2>7. Strides(r)'
    <3>1. Strides(r)
      BY <1>3 DEF RankInv
    <3>2. pc'[r][c] = "count" => c \in CountCtas
      BY <1>0, <2>1
    <3>3. pc'[r][c] = "claim" =>
            /\ token'[r][c] \in Rows /\ TokenCta[token'[r][c]] = c
            /\ DOMAIN slot'[r][c] \subseteq route'[r][token'[r][c]]
      <4>1. ASSUME pc'[r][c] = "claim"
            PROVE  token'[r][c] \in Rows /\ TokenCta[token'[r][c]] = c
        <5>1. c \notin CountCtas /\ c - LocalExperts < Tokens
          BY <1>0, <2>1, <4>1
        <5>2. PICK j \in Nat : j = c - LocalExperts /\ TokenCta[j] = c
          BY <1>2, <5>1, CtaFacts
        <5>3. j \in Rows
          BY <1>2, <5>1, <5>2, SetupFacts DEF Rows
        <5>. QED  BY <1>8, <5>2, <5>3
      <4>. QED  BY <1>9, <4>1
    <3>4. ASSUME NEW d \in Ctas, d # c
          PROVE  /\ pc'[r][d] = "count" => d \in CountCtas
                 /\ pc'[r][d] = "claim" =>
                      /\ token'[r][d] \in Rows /\ TokenCta[token'[r][d]] = d
                      /\ DOMAIN slot'[r][d] \subseteq route'[r][token'[r][d]]
      BY <1>1, <1>8, <1>9, <2>1, <3>1, <3>4 DEF Strides
    <3>. QED  BY <3>2, <3>3, <3>4, Same DEF Strides
  <2>8. SameClaims(r)
    <3>1. ASSUME NEW t \in Rows  PROVE Pushed(r, t)' <=> Pushed(r, t)
      <4>1. PICK d \in Ctas : d = TokenCta[t]
        BY SMTT(30), <1>2, CtaFacts, SetupFacts DEF Rows
      <4>2. CASE d = c
        <5>1. ~Pushed(r, t)
          BY <1>1, <4>1, <4>2 DEF Pushed
        <5>2. c - LocalExperts <= t /\ t < Tokens /\ c \notin CountCtas /\ t \in Int /\ Tokens \in Int
          BY <2>6, <4>1, <4>2
        <5>3. PICK j \in Int : j = c - LocalExperts
          BY <1>8
        <5>4. label = "claim" /\ ~(t < token'[r][c])
          BY <1>0, <1>8, <5>2, <5>3
        <5>. QED  BY <2>1, <4>1, <4>2, <5>1, <5>4, Same DEF Pushed
      <4>3. CASE d # c
        BY <1>8, <2>1, <4>1, <4>3, Same DEF Pushed
      <4>. QED  BY <4>2, <4>3
    <3>2. ASSUME NEW d \in Ctas, NEW e \in Experts
          PROVE  /\ Holding(r, d, e)' <=> Holding(r, d, e)
                 /\ Holding(r, d, e) => slot'[r][d][e] = slot[r][d][e] /\ token'[r][d] = token[r][d]
      BY <1>1, <1>8, <1>9, <2>1 DEF Holding
    <3>. QED  BY <3>1, <3>2 DEF SameClaims
  <2>9. Claims(r)'
    <3>1. Cleared(r)' <=> Cleared(r)
      BY <2>2 DEF Cleared
    <3>. QED  BY <1>1, <1>2, <1>3, <2>8, <3>1, ClaimsStill DEF RankInv
  <2>10. SentUntouched(r) /\ row'[r] = row[r]
    BY <1>1 DEF SentUntouched, CellsUntouched
  <2>11. Writers(r)'
    <3>1. \A d \in Ctas : pc[r][d] \in {"claim", "fence"} => pc'[r][d] \in {"claim", "fence"}
      BY <1>1, <2>1
    <3>. QED  BY <1>3, <2>10, <3>1, WritersStill DEF RankInv, SentUntouched
  <2>12. SameValues(r)
    BY <2>10, UntouchedValues DEF SentUntouched
  <2>13. Pushes(r)'
    <3>1. \A t \in Rows : Pushed(r, t)' <=> Pushed(r, t)
      BY <2>8 DEF SameClaims
    <3>2. \A d \in CountCtas : d \in Ctas
      BY <1>2, CtaFacts
    <3>3. \A d \in CountCtas : pc'[r][d] \notin {"begin", "count"} => pc[r][d] \notin {"begin", "count"}
      BY <1>0, <2>1, <3>2
    <3>. QED  BY <1>1, <1>3, <2>12, <3>1, <3>3, PushesStill DEF RankInv
  <2>14. Entries(r)'
    <3>1. \A p \in Ranks, f \in 0 .. 1, e \in Experts, s \in 0 .. SourceCapacity - 1 :
             /\ entryCell'[p][f][<<e, r, s>>].round = entryCell[p][f][<<e, r, s>>].round
             /\ entryCell'[p][f][<<e, r, s>>].value = entryCell[p][f][<<e, r, s>>].value
      BY <1>1
    <3>. QED  BY <1>1, <1>3, <2>8, <3>1, EntriesStill DEF RankInv
  <2>. QED  BY <2>3, <2>4, <2>5, <2>7, <2>9, <2>11, <2>13, <2>14 DEF RankInv
<1>. QED  BY <1>6, <1>10, <1>11, <1>12, Same DEF IInv
-----------------------------------------------------------------------------
(* Steps of a CTA that is past its claims. *)

LEMMA PcBase ==
  ASSUME IInv, setup' = setup, NEW r \in Ranks, NEW c \in Ctas, NEW label \in PcNames,
         pc' = [pc EXCEPT ![r][c] = label],
         pc[r][c] \notin {"begin", "claim", "done"}, label \notin {"begin", "claim", "count"},
         pc[r][c] \in {"clear", "arrive"} => label \in {"clear", "arrive", "done"},
         round' = round, stage' = stage, route' = route,
         generation' = generation, token' = token, slot' = slot
  PROVE  /\ pc' \in [Ranks -> [Ctas -> PcNames]] /\ Stages'
         /\ pc'[r][c] = label /\ \A d \in Ctas : d # c => pc'[r][d] = pc[r][d]
         /\ \A q \in Ranks : q # r => pc'[q] = pc[q]
         /\ SameClaims(r) /\ Strides(r)'
<1>1. TypeOK /\ Stages /\ RankInv(r)
  BY DEF IInv
<1>2. /\ pc' \in [Ranks -> [Ctas -> PcNames]] /\ pc'[r][c] = label
      /\ \A q \in Ranks, d \in Ctas : q # r \/ d # c => pc'[q][d] = pc[q][d]
      /\ \A q \in Ranks : q # r => pc'[q] = pc[q]
  <2>1. pc \in [Ranks -> [Ctas -> PcNames]]
    BY <1>1 DEF TypeOK
  <2>. QED  BY <2>1, GridTypes
<1>3. Stages'
  <2>1. pc[r][c] # "done" /\ (pc[r][c] \in {"clear", "arrive"} => label \in {"clear", "arrive", "done"})
    OBVIOUS
  <2>. QED  BY <1>1, <1>2, <2>1, CtaStages
<1>4. Strides(r)'
  <2>1. Strides(r)
    BY <1>1 DEF RankInv
  <2>2. ASSUME NEW d \in Ctas
        PROVE  /\ pc'[r][d] = "count" => d \in CountCtas
               /\ pc'[r][d] = "claim" =>
                    /\ token'[r][d] \in Rows /\ TokenCta[token'[r][d]] = d
                    /\ DOMAIN slot'[r][d] \subseteq route'[r][token'[r][d]]
    BY <1>2, <2>1 DEF Strides
  <2>. QED  BY <2>2, Same DEF Strides
<1>5. SameClaims(r)
  <2>1. ASSUME NEW t \in Rows  PROVE Pushed(r, t)' <=> Pushed(r, t)
    <3>0. setup \in Setups
      BY <1>1 DEF TypeOK
    <3>1. PICK d \in Ctas : d = TokenCta[t]
      BY <3>0, CtaFacts, SetupFacts DEF Rows
    <3>. QED  BY <1>2, <3>1, Same DEF Pushed
  <2>2. \A d \in Ctas, e \in Experts : Holding(r, d, e)' <=> Holding(r, d, e)
    BY <1>2 DEF Holding
  <2>. QED  BY <2>1, <2>2 DEF SameClaims
<1>. QED  BY <1>2, <1>3, <1>4, <1>5

LEMMA PcStep ==
  ASSUME IInv, setup' = setup, NEW r \in Ranks, NEW c \in Ctas, NEW label \in PcNames,
         pc' = [pc EXCEPT ![r][c] = label],
         pc[r][c] \notin {"begin", "claim", "done"}, label \notin {"begin", "claim", "count"},
         pc[r][c] \in {"clear", "arrive"} <=> label \in {"clear", "arrive", "done"},
         round' = round, stage' = stage, route' = route, ready' = ready, retire' = retire,
         generation' = generation, token' = token, slot' = slot
  PROVE  /\ pc' \in [Ranks -> [Ctas -> PcNames]] /\ Stages'
         /\ pc'[r][c] = label /\ \A d \in Ctas : d # c => pc'[r][d] = pc[r][d]
         /\ \A q \in Ranks : q # r => pc'[q] = pc[q]
         /\ SameProgress(r) /\ SameClaims(r)
         /\ Words(r)' /\ Tickets(r)' /\ Strides(r)'
<1>1. /\ pc' \in [Ranks -> [Ctas -> PcNames]] /\ Stages'
      /\ pc'[r][c] = label /\ \A d \in Ctas : d # c => pc'[r][d] = pc[r][d]
      /\ \A q \in Ranks : q # r => pc'[q] = pc[q]
      /\ SameClaims(r) /\ Strides(r)'
  BY PcBase
<1>2. SameProgress(r)
  BY <1>1 DEF SameProgress
<1>3. Words(r)' /\ Tickets(r)'
  BY <1>2, ControlStill DEF IInv, RankInv
<1>. QED  BY <1>1, <1>2, <1>3

LEMMA ClearCountsStep ==
  ASSUME IInv, setup' = setup, NEW r \in Ranks, NEW c \in Ctas, ClearCounts(r, c)
  PROVE  IInv'
<1>1. /\ pc[r][c] = "clear"
      /\ counts' = [counts EXCEPT ![r][Parity(generation[r][c])] = [e \in Experts |-> 0]]
      /\ pc' = [pc EXCEPT ![r][c] = "arrive"]
      /\ round' = round /\ stage' = stage /\ route' = route
      /\ ready' = ready /\ retire' = retire /\ arrivals' = arrivals
      /\ countCell' = countCell /\ entryCell' = entryCell /\ scaleCell' = scaleCell /\ row' = row
      /\ generation' = generation /\ token' = token /\ slot' = slot
  BY DEF ClearCounts, Goto, control, staging, cta
<1>2. /\ setup \in Setups /\ round[r] \in 1 .. MaxRounds /\ Bank(r) \in 0 .. 1
      /\ Parity(generation[r][c]) = Bank(r)
  BY <1>1, ActingFacts
<1>3. TypeOK /\ Stages /\ RankInv(r)
  BY DEF IInv
<1>4. /\ pc' \in [Ranks -> [Ctas -> PcNames]] /\ Stages'
      /\ pc'[r][c] = "arrive" /\ \A d \in Ctas : d # c => pc'[r][d] = pc[r][d]
      /\ \A q \in Ranks : q # r => pc'[q] = pc[q]
      /\ SameProgress(r) /\ SameClaims(r)
      /\ Words(r)' /\ Tickets(r)' /\ Strides(r)'
  <2>1. PICK label \in PcNames : label = "arrive"
    BY DEF PcNames
  <2>2. /\ pc' = [pc EXCEPT ![r][c] = label]
        /\ pc[r][c] \notin {"begin", "claim", "done"} /\ label \notin {"begin", "claim", "count"}
        /\ pc[r][c] \in {"clear", "arrive"} <=> label \in {"clear", "arrive", "done"}
    BY <1>1, <2>1
  <2>. QED  BY <1>1, <2>1, <2>2, PcStep
<1>5. /\ counts' \in [Ranks -> [0 .. 1 -> [Experts -> Nat]]]
      /\ counts'[r][Bank(r)] = [e \in Experts |-> 0]
      /\ counts'[r][1 - Bank(r)] = counts[r][1 - Bank(r)]
      /\ \A q \in Ranks : q # r => counts'[q] = counts[q]
  <2>1. counts \in [Ranks -> [0 .. 1 -> [Experts -> Nat]]]
    BY <1>3 DEF TypeOK
  <2>2. PICK z \in [Experts -> Nat] : z = [e \in Experts |-> 0]
    OBVIOUS
  <2>3. PICK f \in 0 .. 1 : f = Bank(r)
    BY <1>2
  <2>4. 1 - f \in 0 .. 1 /\ 1 - f # f
    OBVIOUS
  <2>. QED  BY <1>1, <1>2, <2>1, <2>2, <2>3, <2>4, GridTypes
<1>6. TypeOK'
  BY <1>1, <1>3, <1>4, <1>5, TypesPrimed DEF TypeOK
<1>7. ASSUME NEW q \in Ranks, q # r  PROVE RankInv(q)'
  <2>1. OwnUntouched(q) /\ SentUntouched(q)
    BY <1>1, <1>4, <1>5, <1>7 DEF OwnUntouched, SentUntouched, CellsUntouched
  <2>. QED  BY <1>3, <2>1, Elsewhere DEF IInv
<1>8. SentUntouched(r) /\ row'[r] = row[r] /\ SameValues(r)
  <2>1. SentUntouched(r) /\ row'[r] = row[r]
    BY <1>1 DEF SentUntouched, CellsUntouched
  <2>. QED  BY <2>1, UntouchedValues DEF SentUntouched
<1>9. Arrivals(r)'
  <2>1. (\A d \in Ctas : pc'[r][d] = "done") => \A d \in Ctas : pc[r][d] = "done"
    BY <1>4
  <2>. QED  BY <1>1, <1>2, <1>3, <1>4, <1>8, <2>1, ArrivalsStill DEF RankInv, SentUntouched
<1>10. Claims(r)'
  <2>1. Tickets(r) /\ Claims(r)
    BY <1>3 DEF RankInv
  <2>2. \A d \in Ctas : d # c => pc[r][d] = "done"
    BY <1>1, <2>1 DEF Tickets
  <2>3. Cleared(r)'
    BY <1>4, <2>2, Same DEF Cleared, AllRetired
  <2>4. \A d \in Ctas, e \in Experts : ~Holding(r, d, e)'
    BY <1>4, <2>2 DEF Holding
  <2>5. Bank(r)' = Bank(r)
    BY <1>1, BankSame
  <2>. QED  BY <1>5, <2>1, <2>3, <2>4, <2>5, Same DEF Claims
<1>11. Writers(r)'
  <2>1. \A d \in Ctas : pc[r][d] \in {"claim", "fence"} => pc'[r][d] \in {"claim", "fence"}
    BY <1>1, <1>4
  <2>. QED  BY <1>3, <1>8, <2>1, WritersStill DEF RankInv, SentUntouched
<1>12. Pushes(r)'
  <2>1. \A t \in Rows : Pushed(r, t)' <=> Pushed(r, t)
    BY <1>4 DEF SameClaims
  <2>2. \A d \in CountCtas : pc'[r][d] \notin {"begin", "count"} => pc[r][d] \notin {"begin", "count"}
    BY <1>1, <1>2, <1>4, CtaFacts
  <2>. QED  BY <1>1, <1>3, <1>8, <2>1, <2>2, PushesStill DEF RankInv
<1>13. Entries(r)'
  <2>1. \A p \in Ranks, f \in 0 .. 1, e \in Experts, s \in 0 .. SourceCapacity - 1 :
           /\ entryCell'[p][f][<<e, r, s>>].round = entryCell[p][f][<<e, r, s>>].round
           /\ entryCell'[p][f][<<e, r, s>>].value = entryCell[p][f][<<e, r, s>>].value
    BY <1>1
  <2>. QED  BY <1>1, <1>3, <1>4, <2>1, EntriesStill DEF RankInv
<1>14. RankInv(r)'
  BY <1>4, <1>9, <1>10, <1>11, <1>12, <1>13 DEF RankInv
<1>. QED  BY <1>4, <1>6, <1>7, <1>14, Same DEF IInv

LEMMA ArriveStep ==
  ASSUME IInv, setup' = setup, NEW r \in Ranks, NEW c \in Ctas, NEW k \in Ranks, Arrive(r, c, k)
  PROVE  IInv'
<1>1. /\ pc[r][c] \in {"clear", "arrive"}
      /\ arrivals' = [arrivals EXCEPT ![k][Parity(generation[r][c])][r] = generation[r][c]]
      /\ pc' = pc
      /\ round' = round /\ stage' = stage /\ route' = route
      /\ ready' = ready /\ counts' = counts /\ retire' = retire
      /\ countCell' = countCell /\ entryCell' = entryCell /\ scaleCell' = scaleCell /\ row' = row
      /\ generation' = generation /\ token' = token /\ slot' = slot
  BY DEF Arrive, control, staging, cta
<1>2. /\ setup \in Setups /\ round[r] \in 1 .. MaxRounds /\ Bank(r) \in 0 .. 1
      /\ Gen[round[r]] \in Nat /\ generation[r][c] = Gen[round[r]]
      /\ Parity(generation[r][c]) = Bank(r)
  BY <1>1, ActingFacts
<1>3. TypeOK /\ Stages /\ RankInv(r)
  BY DEF IInv
<1>4. PICK f \in 0 .. 1, g \in Nat : f = Bank(r) /\ g = Gen[round[r]]
  BY <1>2
<1>5. /\ arrivals' \in [Ranks -> [0 .. 1 -> [Ranks -> Nat]]]
      /\ arrivals'[k][f][r] = g
      /\ \A p \in Ranks, b \in 0 .. 1, q \in Ranks : p # k \/ b # f \/ q # r =>
           arrivals'[p][b][q] = arrivals[p][b][q]
  <2>1. arrivals \in [Ranks -> [0 .. 1 -> [Ranks -> Nat]]]
    BY <1>3 DEF TypeOK
  <2>2. arrivals' = [arrivals EXCEPT ![k][f] = [arrivals[k][f] EXCEPT ![r] = g]]
    BY <1>1, <1>2, <1>4, <2>1
  <2>3. PICK v \in [Ranks -> Nat] : v = [arrivals[k][f] EXCEPT ![r] = g]
    BY <2>1
  <2>4. v[r] = g /\ \A q \in Ranks : q # r => v[q] = arrivals[k][f][q]
    BY <2>1, <2>3
  <2>5. /\ arrivals' \in [Ranks -> [0 .. 1 -> [Ranks -> Nat]]]
        /\ arrivals'[k][f] = v
        /\ \A p \in Ranks, b \in 0 .. 1 : p # k \/ b # f => arrivals'[p][b] = arrivals[p][b]
    BY <2>1, <2>2, <2>3, GridTypes
  <2>. QED  BY <2>4, <2>5
<1>6. TypeOK'
  BY <1>1, <1>3, <1>5, TypesPrimed DEF TypeOK
<1>7. Stages'
  BY <1>1, <1>3, Same DEF Stages, AllRetired
<1>8. ASSUME NEW q \in Ranks, q # r  PROVE RankInv(q)'
  <2>1. OwnUntouched(q) /\ SentUntouched(q)
    BY <1>1, <1>5, <1>8 DEF OwnUntouched, SentUntouched, CellsUntouched
  <2>. QED  BY <1>3, <2>1, Elsewhere DEF IInv
<1>9. SameProgress(r) /\ SameClaims(r)
  <2>1. \A t \in Rows : Pushed(r, t)' <=> Pushed(r, t)
    BY <1>1, Same DEF Pushed
  <2>2. \A d \in Ctas, e \in Experts : Holding(r, d, e)' <=> Holding(r, d, e)
    BY <1>1 DEF Holding
  <2>. QED  BY <1>1, <2>1, <2>2 DEF SameClaims, SameProgress
<1>10. Words(r)' /\ Tickets(r)'
  BY <1>1, <1>3, <1>9, ControlStill DEF RankInv
<1>11. Arrivals(r)'
  <2>1. Arrivals(r) /\ Tickets(r)
    BY <1>3 DEF RankInv
  <2>2. AllRetired(r)'
    BY <1>1, <2>1, Same DEF Tickets, AllRetired
  <2>3. ~\A d \in Ctas : pc'[r][d] = "done"
    BY <1>1
  <2>4. Bank(r)' = f /\ round'[r] = round[r] /\ 1 - f \in 0 .. 1 /\ 1 - f # f
    BY <1>1, <1>4, BankSame
  <2>5. ASSUME NEW p \in Ranks  PROVE arrivals'[p][1 - f][r] # Advance(g)
    <3>1. arrivals'[p][1 - f][r] = arrivals[p][1 - f][r]
      BY <1>5, <2>4
    <3>. QED  BY <1>4, <2>1, <3>1 DEF Arrivals
  <2>. QED  BY <1>4, <2>2, <2>3, <2>4, <2>5, Same DEF Arrivals
<1>12. Strides(r)'
  <2>1. Strides(r)
    BY <1>3 DEF RankInv
  <2>. QED  BY <1>1, <2>1, Same DEF Strides
<1>13. Claims(r)'
  <2>1. Cleared(r)' <=> Cleared(r)
    BY <1>1, Same DEF Cleared, AllRetired
  <2>. QED  BY <1>1, <1>2, <1>3, <1>9, <2>1, ClaimsStill DEF RankInv
<1>14. Writers(r)'
  <2>1. CellsUntouched(r)
    BY <1>1 DEF CellsUntouched
  <2>. QED  BY <1>1, <1>3, <2>1, WritersStill DEF RankInv, SentUntouched
<1>15. Pushes(r)'
  <2>1. SameValues(r)
    BY <1>1 DEF SameValues
  <2>. QED  BY <1>1, <1>3, <1>9, <2>1, PushesStill DEF RankInv, SameClaims
<1>16. Entries(r)'
  <2>1. \A p \in Ranks, b \in 0 .. 1, e \in Experts, s \in 0 .. SourceCapacity - 1 :
           /\ entryCell'[p][b][<<e, r, s>>].round = entryCell[p][b][<<e, r, s>>].round
           /\ entryCell'[p][b][<<e, r, s>>].value = entryCell[p][b][<<e, r, s>>].value
    BY <1>1
  <2>. QED  BY <1>1, <1>3, <1>9, <2>1, EntriesStill DEF RankInv
<1>17. RankInv(r)'
  BY <1>10, <1>11, <1>12, <1>13, <1>14, <1>15, <1>16 DEF RankInv
<1>. QED  BY <1>6, <1>7, <1>8, <1>17, Same DEF IInv

LEMMA EndArriveStep ==
  ASSUME IInv, setup' = setup, NEW r \in Ranks, NEW c \in Ctas, EndArrive(r, c)
  PROVE  IInv'
<1>1. /\ pc[r][c] = "arrive"
      /\ \A p \in Ranks : arrivals[p][Parity(generation[r][c])][r] = generation[r][c]
      /\ pc' = [pc EXCEPT ![r][c] = "done"]
      /\ round' = round /\ stage' = stage /\ route' = route
      /\ ready' = ready /\ counts' = counts /\ retire' = retire /\ arrivals' = arrivals
      /\ countCell' = countCell /\ entryCell' = entryCell /\ scaleCell' = scaleCell /\ row' = row
      /\ generation' = generation /\ token' = token /\ slot' = slot
  BY DEF EndArrive, Goto, control, header, staging, cta
<1>2. /\ setup \in Setups /\ round[r] \in 1 .. MaxRounds /\ Bank(r) \in 0 .. 1
      /\ generation[r][c] = Gen[round[r]] /\ Parity(generation[r][c]) = Bank(r)
  BY <1>1, ActingFacts
<1>3. TypeOK /\ Stages /\ RankInv(r)
  BY DEF IInv
<1>4. /\ pc' \in [Ranks -> [Ctas -> PcNames]] /\ Stages'
      /\ pc'[r][c] = "done" /\ \A d \in Ctas : d # c => pc'[r][d] = pc[r][d]
      /\ \A q \in Ranks : q # r => pc'[q] = pc[q]
      /\ SameProgress(r) /\ SameClaims(r)
      /\ Words(r)' /\ Tickets(r)' /\ Strides(r)'
  <2>1. PICK label \in PcNames : label = "done"
    BY DEF PcNames
  <2>2. /\ pc' = [pc EXCEPT ![r][c] = label]
        /\ pc[r][c] \notin {"begin", "claim", "done"} /\ label \notin {"begin", "claim", "count"}
        /\ pc[r][c] \in {"clear", "arrive"} <=> label \in {"clear", "arrive", "done"}
    BY <1>1, <2>1
  <2>. QED  BY <1>1, <2>1, <2>2, PcStep
<1>6. TypeOK'
  BY <1>1, <1>3, <1>4, TypesPrimed DEF TypeOK
<1>7. ASSUME NEW q \in Ranks, q # r  PROVE RankInv(q)'
  <2>1. OwnUntouched(q) /\ SentUntouched(q)
    BY <1>1, <1>4, <1>7 DEF OwnUntouched, SentUntouched, CellsUntouched
  <2>. QED  BY <1>3, <2>1, Elsewhere DEF IInv
<1>8. SentUntouched(r) /\ row'[r] = row[r] /\ SameValues(r)
  <2>1. SentUntouched(r) /\ row'[r] = row[r]
    BY <1>1 DEF SentUntouched, CellsUntouched
  <2>. QED  BY <2>1, UntouchedValues DEF SentUntouched
<1>9. Arrivals(r)'
  <2>1. Arrivals(r) /\ Tickets(r)
    BY <1>3 DEF RankInv
  <2>2. AllRetired(r) /\ AllRetired(r)' /\ Bank(r)' = Bank(r)
    BY <1>1, <1>4, <2>1, ProgressFacts, BankSame DEF Tickets, AllRetired
  <2>3. \A p \in Ranks : arrivals[p][Bank(r)][r] = Gen[round[r]]
    BY <1>1, <1>2
  <2>. QED  BY <1>1, <2>1, <2>2, <2>3, Same DEF Arrivals
<1>10. Claims(r)'
  <2>1. Cleared(r)' <=> Cleared(r)
    <3>1. AllRetired(r)' <=> AllRetired(r)
      BY <1>4, ProgressFacts
    <3>. QED  BY <1>1, <1>4, <3>1, Same DEF Cleared
  <2>. QED  BY <1>1, <1>2, <1>3, <1>4, <2>1, ClaimsStill DEF RankInv
<1>11. Writers(r)'
  <2>1. \A d \in Ctas : pc[r][d] \in {"claim", "fence"} => pc'[r][d] \in {"claim", "fence"}
    BY <1>1, <1>4
  <2>. QED  BY <1>3, <1>8, <2>1, WritersStill DEF RankInv, SentUntouched
<1>12. Pushes(r)'
  <2>1. \A t \in Rows : Pushed(r, t)' <=> Pushed(r, t)
    BY <1>4 DEF SameClaims
  <2>2. \A d \in CountCtas : pc'[r][d] \notin {"begin", "count"} => pc[r][d] \notin {"begin", "count"}
    BY <1>1, <1>2, <1>4, CtaFacts
  <2>. QED  BY <1>1, <1>3, <1>8, <2>1, <2>2, PushesStill DEF RankInv
<1>13. Entries(r)'
  <2>1. \A p \in Ranks, f \in 0 .. 1, e \in Experts, s \in 0 .. SourceCapacity - 1 :
           /\ entryCell'[p][f][<<e, r, s>>].round = entryCell[p][f][<<e, r, s>>].round
           /\ entryCell'[p][f][<<e, r, s>>].value = entryCell[p][f][<<e, r, s>>].value
    BY <1>1
  <2>. QED  BY <1>1, <1>3, <1>4, <2>1, EntriesStill DEF RankInv
<1>14. RankInv(r)'
  BY <1>4, <1>9, <1>10, <1>11, <1>12, <1>13 DEF RankInv
<1>. QED  BY <1>4, <1>6, <1>7, <1>14, Same DEF IInv

LEMMA RetireStep ==
  ASSUME IInv, setup' = setup, NEW r \in Ranks, NEW c \in Ctas, Retire(r, c)
  PROVE  IInv'
<1>1. PICK ticket, f : ticket = retire[r][f] /\ f = Parity(generation[r][c])
  OBVIOUS
<1>2. PICK label \in PcNames : label = IF LastTicket(ticket) THEN "clear" ELSE "done"
  BY DEF PcNames
<1>3. /\ pc[r][c] = "retire"
      /\ retire' = [retire EXCEPT ![r][f] = NextTicket(ticket)]
      /\ ready' = IF LastTicket(ticket)
                  THEN [ready EXCEPT ![r] = [gen |-> generation[r][c], metadata |-> FALSE]]
                  ELSE ready
      /\ pc' = [pc EXCEPT ![r][c] = label]
      /\ round' = round /\ stage' = stage /\ route' = route
      /\ counts' = counts /\ arrivals' = arrivals
      /\ countCell' = countCell /\ entryCell' = entryCell /\ scaleCell' = scaleCell /\ row' = row
      /\ generation' = generation /\ token' = token /\ slot' = slot
  BY <1>1, <1>2 DEF Retire, Goto, control, staging, cta
<1>4. /\ setup \in Setups /\ round[r] \in 1 .. MaxRounds /\ Bank(r) \in 0 .. 1
      /\ Gen[round[r]] \in Nat /\ generation[r][c] = Gen[round[r]] /\ f = Bank(r)
  BY <1>1, <1>3, ActingFacts
<1>5. TypeOK /\ Stages /\ RankInv(r)
  BY DEF IInv
<1>6. /\ pc' \in [Ranks -> [Ctas -> PcNames]] /\ Stages'
      /\ pc'[r][c] = label /\ \A d \in Ctas : d # c => pc'[r][d] = pc[r][d]
      /\ \A q \in Ranks : q # r => pc'[q] = pc[q]
      /\ SameClaims(r) /\ Strides(r)'
  <2>1. /\ pc[r][c] \notin {"begin", "claim", "done"} /\ label \notin {"begin", "claim", "count"}
        /\ pc[r][c] \in {"clear", "arrive"} => label \in {"clear", "arrive", "done"}
    BY <1>2, <1>3
  <2>. QED  BY <1>3, <2>1, PcBase
\* What the ticket tells.
<1>7. /\ ~AllRetired(r) /\ ticket = Cardinality(Retired(r)) /\ ticket \in Nat
      /\ \A d \in Ctas : pc[r][d] \notin {"clear", "arrive"}
  <2>1. Tickets(r) /\ ~AllRetired(r)
    BY <1>3, <1>5 DEF RankInv, AllRetired
  <2>2. ticket \in Nat
    BY <1>1, <1>4, <1>5 DEF TypeOK
  <2>. QED  BY <1>1, <1>3, <1>4, <2>1, <2>2 DEF Tickets
<1>8. /\ Cardinality(Retired(r)') = ticket + 1
      /\ LastTicket(ticket) <=> AllRetired(r)'
      /\ NextTicket(ticket) = IF AllRetired(r)' THEN 0 ELSE ticket + 1
  <2>1. Retired(r)' = Retired(r) \cup {c} /\ c \notin Retired(r) /\ Retired(r) \subseteq Ctas
    BY <1>2, <1>3, <1>6, Same DEF Retired
  <2>2. PICK n \in Nat : n = Cardinality(Ctas)
    BY <1>4, CtaFacts
  <2>3. PICK S \in SUBSET Ctas : S = Retired(r)'
    BY <2>1
  <2>4. IsFiniteSet(Retired(r)) /\ IsFiniteSet(Ctas)
    BY <1>4, <2>1, CtaFacts, FS_Subset
  <2>5. Cardinality(S) = ticket + 1
    BY <1>7, <2>1, <2>3, <2>4, FS_AddElement
  <2>6. Cardinality(S) <= n /\ (n = Cardinality(S) => Ctas = S)
    BY <2>2, <2>4, FS_Subset
  <2>7. AllRetired(r)' <=> S = Ctas
    BY <2>3, Same DEF AllRetired, Retired
  <2>8. LastTicket(ticket) <=> AllRetired(r)'
    BY <1>7, <2>2, <2>5, <2>6, <2>7 DEF LastTicket
  <2>9. NextTicket(ticket) = IF AllRetired(r)' THEN 0 ELSE ticket + 1
    BY <1>7, <2>2, <2>5, <2>6, <2>8 DEF LastTicket, NextTicket
  <2>. QED  BY <2>3, <2>5, <2>8, <2>9
<1>9. /\ retire' \in [Ranks -> [0 .. 1 -> Nat]]
      /\ retire'[r][f] = NextTicket(ticket) /\ retire'[r][1 - f] = retire[r][1 - f]
      /\ \A q \in Ranks : q # r => retire'[q] = retire[q]
  <2>1. retire \in [Ranks -> [0 .. 1 -> Nat]]
    BY <1>5 DEF TypeOK
  <2>2. PICK v \in Nat : v = NextTicket(ticket)
    BY <1>7, <1>8
  <2>3. PICK b \in 0 .. 1 : b = f
    BY <1>4
  <2>4. 1 - b \in 0 .. 1 /\ 1 - b # b
    OBVIOUS
  <2>. QED  BY <1>3, <2>1, <2>2, <2>3, <2>4, GridTypes
<1>10. /\ ready' \in [Ranks -> [gen : Nat, metadata : BOOLEAN]]
       /\ ready'[r].gen = IF AllRetired(r)' THEN Gen[round[r]] ELSE ready[r].gen
       /\ \A q \in Ranks : q # r => ready'[q] = ready[q]
  BY <1>3, <1>4, <1>5, <1>8 DEF TypeOK
<1>11. TypeOK'
  BY <1>3, <1>5, <1>6, <1>9, <1>10, TypesPrimed DEF TypeOK
<1>12. ASSUME NEW q \in Ranks, q # r  PROVE RankInv(q)'
  <2>1. OwnUntouched(q) /\ SentUntouched(q)
    BY <1>3, <1>6, <1>9, <1>10, <1>12 DEF OwnUntouched, SentUntouched, CellsUntouched
  <2>. QED  BY <1>5, <2>1, Elsewhere DEF IInv
<1>13. Bank(r)' = Bank(r)
  BY <1>3, BankSame
<1>14. Words(r)'
  <2>1. Words(r)
    BY <1>5 DEF RankInv
  <2>2. \A d \in Ctas : pc'[r][d] # "begin" => pc[r][d] # "begin"
    BY <1>3, <1>6
  <2>. QED  BY <1>3, <1>7, <1>10, <2>1, <2>2, Same DEF Words
<1>15. Tickets(r)'
  <2>1. Tickets(r)
    BY <1>5 DEF RankInv
  <2>2. ASSUME NEW d \in Ctas, pc'[r][d] \in {"clear", "arrive"}, NEW e \in Ctas, e # d
        PROVE  pc'[r][e] = "done"
    <3>1. d = c /\ label = "clear"
      BY <1>2, <1>6, <1>7, <2>2
    <3>2. AllRetired(r)'
      BY <1>2, <1>8, <3>1
    <3>. QED  BY <1>6, <1>7, <2>2, <3>1, <3>2, Same DEF AllRetired
  <2>3. retire'[r][Bank(r)] = IF AllRetired(r)' THEN 0 ELSE Cardinality(Retired(r)')
    BY <1>4, <1>8, <1>9
  <2>4. retire'[r][1 - Bank(r)] = 0
    BY <1>4, <1>9, <2>1 DEF Tickets
  <2>. QED  BY <1>13, <2>2, <2>3, <2>4, Same DEF Tickets
<1>16. Arrivals(r)'
  <2>1. Arrivals(r)
    BY <1>5 DEF RankInv
  <2>2. ~\A d \in Ctas : pc'[r][d] = "done"
    <3>1. CASE AllRetired(r)'
      BY <1>2, <1>6, <1>8, <3>1
    <3>2. CASE ~AllRetired(r)'
      BY <3>2, Same DEF AllRetired
    <3>. QED  BY <3>1, <3>2
  <2>. QED  BY <1>3, <1>7, <1>13, <2>1, <2>2, Same DEF Arrivals
<1>17. Claims(r)'
  <2>1. ~Cleared(r)
    BY <1>7 DEF Cleared
  <2>2. ~Cleared(r)'
    <3>1. AllRetired(r)' => pc'[r][c] = "clear"
      BY <1>2, <1>6, <1>8
    <3>. QED  BY <3>1, Same DEF Cleared
  <2>. QED  BY <1>3, <1>4, <1>5, <1>6, <2>1, <2>2, ClaimsStill DEF RankInv
<1>18. CellsUntouched(r) /\ row'[r] = row[r]
  BY <1>3 DEF CellsUntouched
<1>19. Writers(r)'
  <2>1. \A d \in Ctas : pc[r][d] \in {"claim", "fence"} => pc'[r][d] \in {"claim", "fence"}
    BY <1>3, <1>6
  <2>. QED  BY <1>5, <1>18, <2>1, WritersStill DEF RankInv
<1>20. Pushes(r)'
  <2>1. \A t \in Rows : Pushed(r, t)' <=> Pushed(r, t)
    BY <1>6 DEF SameClaims
  <2>2. \A d \in CountCtas : pc'[r][d] \notin {"begin", "count"} => pc[r][d] \notin {"begin", "count"}
    BY <1>3, <1>4, <1>6, CtaFacts
  <2>3. SameValues(r)
    BY <1>18, UntouchedValues
  <2>. QED  BY <1>3, <1>5, <2>1, <2>2, <2>3, PushesStill DEF RankInv
<1>21. Entries(r)'
  <2>1. \A p \in Ranks, b \in 0 .. 1, e \in Experts, s \in 0 .. SourceCapacity - 1 :
           /\ entryCell'[p][b][<<e, r, s>>].round = entryCell[p][b][<<e, r, s>>].round
           /\ entryCell'[p][b][<<e, r, s>>].value = entryCell[p][b][<<e, r, s>>].value
    BY <1>3
  <2>. QED  BY <1>3, <1>5, <1>6, <2>1, EntriesStill DEF RankInv
<1>22. RankInv(r)'
  BY <1>6, <1>14, <1>15, <1>16, <1>17, <1>19, <1>20, <1>21 DEF RankInv
<1>. QED  BY <1>6, <1>11, <1>12, <1>22, Same DEF IInv
-----------------------------------------------------------------------------
(* Steps of the host and of GEMM1. *)

LEMMA ReleaseStep ==
  ASSUME IInv, setup' = setup, NEW r \in Ranks, Release(r)
  PROVE  IInv'
<1>1. /\ stage[r] = "reading" /\ stage' = [stage EXCEPT ![r] = "released"]
      /\ pc' = pc /\ round' = round /\ route' = route
      /\ ready' = ready /\ counts' = counts /\ retire' = retire /\ arrivals' = arrivals
      /\ countCell' = countCell /\ entryCell' = entryCell /\ scaleCell' = scaleCell /\ row' = row
      /\ generation' = generation /\ token' = token /\ slot' = slot
  BY DEF Release, header, staging, cta
<1>2. TypeOK /\ Stages
  BY DEF IInv
<1>3. /\ stage' \in [Ranks -> {"pre", "reading", "released"}] /\ stage'[r] = "released"
      /\ \A q \in Ranks : q # r => stage'[q] = stage[q]
  BY <1>1, <1>2 DEF TypeOK
<1>4. TypeOK'
  BY <1>1, <1>2, <1>3, TypesPrimed DEF TypeOK
<1>5. ASSUME NEW q \in Ranks  PROVE RankInv(q)'
  <2>1. OwnUntouched(q) /\ SentUntouched(q)
    BY <1>1 DEF OwnUntouched, SentUntouched, CellsUntouched
  <2>. QED  BY <1>2, <2>1, Elsewhere DEF IInv
<1>6. Stages'
  <2>1. \A q \in Ranks :
          /\ stage'[q] # "pre" => \A d \in Ctas : pc[q][d] = "done"
          /\ round[q] = 0 => stage'[q] = "released"
          /\ \A p \in Ranks : round[p] < round[q] => round[q] = round[p] + 1 /\ stage'[p] = "released"
          /\ stage'[q] = "reading" => \A p \in Ranks : round[p] = round[q] /\ AllRetired(p)
    BY <1>1, <1>2, <1>3 DEF Stages
  <2>2. \A p \in Ranks : AllRetired(p)' <=> AllRetired(p)
    BY <1>1, Same DEF AllRetired
  <2>. QED  BY <1>1, <2>1, <2>2, Same DEF Stages
<1>. QED  BY <1>4, <1>5, <1>6, Same DEF IInv

LEMMA GatherStep ==
  ASSUME IInv, setup' = setup, NEW r \in Ranks, Gather(r)
  PROVE  IInv'
<1>1. /\ stage[r] = "pre" /\ \A c \in Ctas : pc[r][c] = "done"
      /\ \A q \in Ranks : arrivals[r][Parity(ready[r].gen)][q] = ready[r].gen
      /\ ready' = [ready EXCEPT ![r].metadata = TRUE]
      /\ stage' = [stage EXCEPT ![r] = "reading"]
      /\ pc' = pc /\ round' = round /\ route' = route
      /\ counts' = counts /\ retire' = retire /\ arrivals' = arrivals
      /\ countCell' = countCell /\ entryCell' = entryCell /\ scaleCell' = scaleCell /\ row' = row
      /\ generation' = generation /\ token' = token /\ slot' = slot
  BY DEF Gather, staging, cta
<1>2. TypeOK /\ Stages /\ setup \in Setups
  BY DEF IInv, TypeOK
<1>3. /\ stage' \in [Ranks -> {"pre", "reading", "released"}] /\ stage'[r] = "reading"
      /\ \A q \in Ranks : q # r => stage'[q] = stage[q]
  BY <1>1, <1>2 DEF TypeOK
<1>4. /\ ready' \in [Ranks -> [gen : Nat, metadata : BOOLEAN]]
      /\ \A q \in Ranks : ready'[q].gen = ready[q].gen
  <2>1. ready \in [Ranks -> [gen : Nat, metadata : BOOLEAN]]
    BY <1>2 DEF TypeOK
  <2>2. PICK v \in [gen : Nat, metadata : BOOLEAN] : v = [ready[r] EXCEPT !.metadata = TRUE]
    BY <2>1
  <2>3. v.gen = ready[r].gen
    BY <2>1, <2>2
  <2>4. ready' = [ready EXCEPT ![r] = v]
    BY <1>1, <2>2
  <2>. QED  BY <2>1, <2>3, <2>4
<1>5. TypeOK'
  BY <1>1, <1>2, <1>3, <1>4, TypesPrimed DEF TypeOK
<1>6. ASSUME NEW q \in Ranks  PROVE RankInv(q)'
  <2>1. OwnUntouched(q) /\ SentUntouched(q)
    BY <1>1, <1>4 DEF OwnUntouched, SentUntouched, CellsUntouched
  <2>. QED  BY <1>2, <2>1, Elsewhere DEF IInv
\* Whoever has written this round's arrival is in this round and has retired in it.
<1>7. ASSUME NEW q \in Ranks  PROVE round[q] = round[r] /\ AllRetired(q)
  <2>1. PICK k \in 1 .. MaxRounds : k = round[r]
    BY <1>1, <1>2 DEF Stages, TypeOK
  <2>2. AllRetired(r) /\ RankInv(r) /\ RankInv(q)
    BY <1>1 DEF AllRetired, IInv
  <2>3. ready[r].gen = Gen[k]
    BY <2>1, <2>2 DEF RankInv, Words
  <2>4. arrivals[r][Parity(Gen[k])][q] = Gen[k]
    BY <1>1, <2>3
  <2>5. PICK j \in 0 .. MaxRounds : j = round[q]
    BY <1>2 DEF TypeOK
  <2>6. j = k \/ k = j + 1
    BY <1>1, <1>2, <2>1, <2>5 DEF Stages
  <2>7. k # j + 1
    <3>1. SUFFICES ASSUME k = j + 1  PROVE FALSE
      OBVIOUS
    <3>2. Gen[j] \in 0 .. GenerationLimit /\ Gen[k] = Advance(Gen[j])
      BY <1>2, <2>1, <2>5, <3>1, GenFacts
    <3>3. Parity(Gen[k]) = 1 - Bank(q)
      BY <2>5, <3>2, AdvanceFacts DEF Bank
    <3>4. arrivals[r][1 - Bank(q)][q] # Advance(Gen[j])
      BY <2>2, <2>5 DEF RankInv, Arrivals
    <3>. QED  BY <2>4, <3>2, <3>3, <3>4
  <2>8. Bank(q) = Parity(Gen[k]) /\ round[q] = k
    BY <2>5, <2>6, <2>7 DEF Bank
  <2>9. AllRetired(q)
    BY <2>2, <2>4, <2>8 DEF RankInv, Arrivals
  <2>. QED  BY <2>1, <2>8, <2>9
<1>8. Stages'
  <2>1. \A q \in Ranks :
          /\ stage'[q] # "pre" => \A d \in Ctas : pc[q][d] = "done"
          /\ round[q] = 0 => stage'[q] = "released"
          /\ \A p \in Ranks : round[p] < round[q] => round[q] = round[p] + 1 /\ stage'[p] = "released"
          /\ stage'[q] = "reading" => \A p \in Ranks : round[p] = round[q] /\ AllRetired(p)
    BY <1>1, <1>2, <1>3, <1>7 DEF Stages
  <2>2. \A p \in Ranks : AllRetired(p)' <=> AllRetired(p)
    BY <1>1, Same DEF AllRetired
  <2>. QED  BY <1>1, <2>1, <2>2, Same DEF Stages
<1>. QED  BY <1>5, <1>6, <1>8, Same DEF IInv

LEMMA LaunchStep ==
  ASSUME IInv, setup' = setup, NEW r \in Ranks, Launch(r)
  PROVE  IInv'
<1>1. /\ stage[r] = "released" /\ round[r] < MaxRounds
      /\ \A q \in Ranks : round[q] > round[r] \/ (round[q] = round[r] /\ stage[q] = "released")
      /\ round' = [round EXCEPT ![r] = @ + 1]
      /\ stage' = [stage EXCEPT ![r] = "pre"]
      /\ pc' = [pc EXCEPT ![r] = [c \in Ctas |-> "begin"]]
      /\ ready' = ready /\ counts' = counts /\ retire' = retire /\ arrivals' = arrivals
      /\ countCell' = countCell /\ entryCell' = entryCell /\ scaleCell' = scaleCell /\ row' = row
      /\ generation' = generation /\ token' = token /\ slot' = slot
  BY DEF Launch, header, staging, cta
<1>2. TypeOK /\ Stages /\ RankInv(r) /\ setup \in Setups
  BY DEF IInv, TypeOK
<1>3. PICK assignment \in [Rows -> SUBSET Experts] : route' = [route EXCEPT ![r] = assignment]
  <2>1. \E assignment \in Routings : route' = [route EXCEPT ![r] = assignment]
    BY DEF Launch
  <2>. QED  BY <1>2, <2>1, SetupFacts
<1>4. PICK k \in 0 .. MaxRounds : k = round[r] /\ k + 1 \in 0 .. MaxRounds
  BY <1>1, <1>2, SetupFacts DEF TypeOK
<1>5. /\ round' \in [Ranks -> 0 .. MaxRounds] /\ round'[r] = k + 1
      /\ stage' \in [Ranks -> {"pre", "reading", "released"}] /\ stage'[r] = "pre"
      /\ route' \in [Ranks -> [Rows -> SUBSET Experts]]
      /\ pc' \in [Ranks -> [Ctas -> PcNames]] /\ \A c \in Ctas : pc'[r][c] = "begin"
      /\ \A q \in Ranks : q # r => round'[q] = round[q] /\ stage'[q] = stage[q]
                                   /\ route'[q] = route[q] /\ pc'[q] = pc[q]
  <2>1. /\ round' \in [Ranks -> 0 .. MaxRounds] /\ round'[r] = k + 1
        /\ stage' \in [Ranks -> {"pre", "reading", "released"}] /\ stage'[r] = "pre"
        /\ \A q \in Ranks : q # r => round'[q] = round[q] /\ stage'[q] = stage[q]
    BY <1>1, <1>2, <1>4 DEF TypeOK
  <2>2. /\ route' \in [Ranks -> [Rows -> SUBSET Experts]]
        /\ \A q \in Ranks : q # r => route'[q] = route[q]
    BY <1>2, <1>3 DEF TypeOK
  <2>3. PICK v \in [Ctas -> PcNames] : v = [c \in Ctas |-> "begin"]
    BY DEF PcNames
  <2>4. /\ pc' \in [Ranks -> [Ctas -> PcNames]] /\ pc'[r] = v
        /\ \A q \in Ranks : q # r => pc'[q] = pc[q]
    BY <1>1, <1>2, <2>3 DEF TypeOK
  <2>. QED  BY <2>1, <2>2, <2>3, <2>4
<1>6. TypeOK'
  BY <1>1, <1>2, <1>5, TypesPrimed DEF TypeOK
<1>7. ASSUME NEW q \in Ranks, q # r  PROVE RankInv(q)'
  <2>1. OwnUntouched(q) /\ SentUntouched(q)
    BY <1>1, <1>5, <1>7 DEF OwnUntouched, SentUntouched, CellsUntouched
  <2>. QED  BY <1>2, <2>1, Elsewhere DEF IInv
<1>8. Stages'
  <2>0. \A q \in Ranks : round[q] \in Nat
    BY <1>2 DEF TypeOK
  <2>1. \A q \in Ranks : round[q] = k \/ round[q] = k + 1
    BY <1>1, <1>2, <1>4, <2>0 DEF Stages
  <2>2. \A q \in Ranks : stage[q] # "reading"
    BY <1>1, <1>2, <1>4 DEF Stages
  <2>3. ASSUME NEW q \in Ranks
        PROVE  /\ stage'[q] # "pre" => \A d \in Ctas : pc'[q][d] = "done"
               /\ round'[q] = 0 => stage'[q] = "released"
               /\ \A p \in Ranks : round'[p] < round'[q] =>
                    round'[q] = round'[p] + 1 /\ stage'[p] = "released"
               /\ stage'[q] # "reading"
    <3>1. stage'[q] # "pre" => \A d \in Ctas : pc'[q][d] = "done"
      BY SMTT(30), <1>2, <1>5 DEF Stages
    <3>2. round'[q] = 0 => stage'[q] = "released"
      BY <1>2, <1>4, <1>5 DEF Stages
    <3>3. ASSUME NEW p \in Ranks, round'[p] < round'[q]
          PROVE  round'[q] = round'[p] + 1 /\ stage'[p] = "released"
      <4>1. round'[p] = k /\ round'[q] = k + 1 /\ p # r
        BY SMTT(30), <1>4, <1>5, <2>1, <3>3
      <4>2. stage[p] = "released"
        BY <1>1, <1>4, <1>5, <4>1
      <4>. QED  BY <1>5, <4>1, <4>2
    <3>. QED  BY <1>5, <2>2, <3>1, <3>2, <3>3
  <2>. QED  BY <2>3, Same DEF Stages
\* The generation of the new round, and the half of the buffers it uses.
<1>9. /\ Gen[k] \in 0 .. GenerationLimit /\ Gen[k + 1] \in 0 .. GenerationLimit
      /\ Gen[k + 1] = Advance(Gen[k]) /\ Advance(Gen[k + 1]) # Gen[k]
      /\ Bank(r) \in 0 .. 1 /\ Bank(r)' = 1 - Bank(r) /\ 1 - Bank(r)' = Bank(r)
  <2>1. Gen[k] \in 0 .. GenerationLimit /\ Gen[k + 1] \in 0 .. GenerationLimit
          /\ Gen[k + 1] = Advance(Gen[k])
    <3>1. PICK n \in 0 .. MaxRounds : n = k + 1 /\ n > 0 /\ n - 1 = k
      BY <1>4
    <3>. QED  BY <1>2, <3>1, GenFacts
  <2>2. PICK g \in 0 .. GenerationLimit : g = Gen[k]
    BY <2>1
  <2>3. Parity(g) \in 0 .. 1 /\ Parity(Advance(g)) = 1 - Parity(g) /\ Advance(Advance(g)) # g
    BY AdvanceFacts
  <2>4. Bank(r) = Parity(g)
    BY <1>4, <2>2 DEF Bank
  <2>5. Bank(r)' = Parity(Gen[k + 1])
    BY <1>5, Same DEF Bank
  <2>. QED  BY <2>1, <2>2, <2>3, <2>4, <2>5
<1>10. /\ \A c \in Ctas : pc[r][c] = "done"
       /\ AllRetired(r) /\ Cleared(r) /\ ~AllRetired(r)' /\ ~Cleared(r)' /\ Retired(r)' = {}
  <2>1. \A c \in Ctas : pc[r][c] = "done"
    BY <1>1, <1>2 DEF Stages
  <2>2. AllRetired(r) /\ Cleared(r)
    BY <2>1 DEF AllRetired, Cleared
  <2>3. 0 \in Ctas
    BY <1>2, CtaFacts
  <2>4. ~AllRetired(r)'
    BY <1>5, <2>3, Same DEF AllRetired
  <2>5. Retired(r)' = {}
    BY <1>5, Same DEF Retired
  <2>. QED  BY <2>1, <2>2, <2>4, <2>5 DEF Cleared
<1>11. Words(r)'
  <2>1. ready[r].gen = Gen[k]
    BY <1>2, <1>4, <1>10 DEF RankInv, Words
  <2>2. ready'[r].gen = Gen[round'[r] - 1]
    BY <1>1, <1>4, <1>5, <2>1
  <2>. QED  BY <1>5, <1>10, <2>2, Same DEF Words
<1>12. Tickets(r)'
  <2>1. retire[r][Bank(r)] = 0 /\ retire[r][1 - Bank(r)] = 0
    BY <1>2, <1>10 DEF RankInv, Tickets
  <2>2. Cardinality(Retired(r)') = 0
    BY <1>10, FS_EmptySet
  <2>3. retire'[r][Bank(r)'] = 0 /\ retire'[r][1 - Bank(r)'] = 0
    BY <1>1, <1>9, <2>1
  <2>. QED  BY <1>5, <1>10, <2>2, <2>3, Same DEF Tickets
<1>13. Arrivals(r)'
  <2>1. Arrivals(r)
    BY <1>2 DEF RankInv
  <2>2. ASSUME NEW p \in Ranks
        PROVE  /\ arrivals'[p][Bank(r)'][r] # Gen[k + 1]
               /\ arrivals'[p][1 - Bank(r)'][r] # Advance(Gen[k + 1])
    <3>1. arrivals[p][Bank(r)][r] = Gen[k] /\ arrivals[p][1 - Bank(r)][r] # Advance(Gen[k])
      BY <1>4, <1>10, <2>1 DEF Arrivals
    <3>. QED  BY <1>1, <1>9, <3>1
  <2>3. ~\A c \in Ctas : pc'[r][c] = "done"
    BY <1>5, <1>10, Same DEF AllRetired
  <2>. QED  BY <1>5, <2>2, <2>3, Same DEF Arrivals
<1>14. Strides(r)'
  BY <1>5, Same DEF Strides
<1>15. /\ \A c \in Ctas, e \in Experts : ~Holding(r, c, e)'
       /\ \A t \in Rows : ~Pushed(r, t)'
       /\ \A e \in Experts : Claimed(r, e)' = {}
  <2>1. \A c \in Ctas, e \in Experts : ~Holding(r, c, e)'
    BY <1>5 DEF Holding
  <2>2. ASSUME NEW t \in Rows
        PROVE  ~Pushed(r, t)' /\ pc'[r][TokenCta'[t]] = "begin"
    <3>1. TokenCta[t] \in Ctas
      BY <1>2, CtaFacts, SetupFacts DEF Rows
    <3>. QED  BY <1>5, <3>1, Same DEF Pushed
  <2>3. \A e \in Experts : Claimed(r, e)' = {}
    <3>1. \A e : RoutedTo(r, e)' \subseteq Rows
      BY Same DEF RoutedTo
    <3>. QED  BY <2>2, <3>1 DEF Claimed, Holding
  <2>. QED  BY <2>1, <2>2, <2>3
<1>16. Claims(r)'
  <2>1. Claims(r)
    BY <1>2 DEF RankInv
  <2>2. \A e \in Experts : counts'[r][Bank(r)'][e] = 0 /\ counts'[r][1 - Bank(r)'][e] = 0
    BY <1>1, <1>9, <1>10, <2>1 DEF Claims
  <2>3. \A e \in Experts : Cardinality(Claimed(r, e)') = 0
    BY <1>15, FS_EmptySet
  <2>. QED  BY <1>15, <2>2, <2>3, Same DEF Claims
<1>17. Writers(r)'
  <2>1. CellsUntouched(r) /\ row'[r] = row[r]
    BY <1>1 DEF CellsUntouched
  <2>2. \A d \in Ctas : pc[r][d] \in {"claim", "fence"} => pc'[r][d] \in {"claim", "fence"}
    BY <1>10
  <2>. QED  BY <1>2, <2>1, <2>2, WritersStill DEF RankInv
<1>18. Pushes(r)'
  <2>1. \A c \in CountCtas : pc'[r][c] = "begin"
    BY <1>2, <1>5, CtaFacts
  <2>. QED  BY <1>15, <2>1, Same DEF Pushes
<1>19. Entries(r)'
  <2>1. \A e \in Experts : Cardinality(Claimed(r, e)') = 0
    BY <1>15, FS_EmptySet
  <2>2. \A e \in Experts : RoutedTo(r, e)' \subseteq Rows
    BY Same DEF RoutedTo
  <2>. QED  BY <1>15, <2>1, <2>2, Same DEF Entries
<1>20. RankInv(r)'
  BY <1>11, <1>12, <1>13, <1>14, <1>16, <1>17, <1>18, <1>19 DEF RankInv
<1>. QED  BY <1>6, <1>7, <1>8, <1>20, Same DEF IInv
-----------------------------------------------------------------------------
(* Stores and the fence behind them. *)

\* A cell with a pending store keeps it pending unless its writer reaches its fence.
LEMMA PendingStill ==
  ASSUME NEW r,
         \A d \in Ctas : pc[r][d] \in {"claim", "fence"} => pc'[r][d] \in {"claim", "fence"}
  PROVE  \A cell : Pending(cell, r) => PendingNext(cell, r)
BY DEF Pending, PendingNext

LEMMA NewCell ==
  ASSUME TypeOK, NEW r \in Ranks, NEW c \in Ctas, NEW v \in Nat
  PROVE  /\ Cell(round[r], v, <<r, c>>) \in Cells
         /\ Cell(round[r], v, <<r, c>>).round = round[r]
         /\ Cell(round[r], v, <<r, c>>).value = v
         /\ Cell(round[r], v, <<r, c>>).writer = <<r, c>>
<1>1. round[r] \in Nat
  BY DEF TypeOK
<1>. QED  BY <1>1 DEF Cell, Cells

LEMMA PushCountsStep ==
  ASSUME IInv, setup' = setup, NEW r \in Ranks, NEW c \in Ctas, PushCounts(r, c)
  PROVE  IInv'
<1>0. PICK f : f = Parity(generation[r][c])
  OBVIOUS
<1>. DEFINE cell(p) == Cell(round[r], Cardinality(RoutedTo(r, p * LocalExperts + c)), <<r, c>>)
<1>1. /\ pc[r][c] = "count"
      /\ countCell' = [p \in Ranks |->
           [countCell[p] EXCEPT ![f][<<p * LocalExperts + c, r>>] = cell(p)]]
      /\ pc' = [pc EXCEPT ![r][c] = "fence"]
      /\ round' = round /\ stage' = stage /\ route' = route
      /\ ready' = ready /\ counts' = counts /\ retire' = retire /\ arrivals' = arrivals
      /\ entryCell' = entryCell /\ scaleCell' = scaleCell /\ row' = row
      /\ generation' = generation /\ token' = token /\ slot' = slot
  BY <1>0 DEF PushCounts, Goto, control, header, cta
<1>. HIDE DEF cell
<1>2. /\ setup \in Setups /\ round[r] \in 1 .. MaxRounds /\ Bank(r) \in 0 .. 1 /\ f = Bank(r)
  BY <1>0, <1>1, ActingFacts
<1>3. TypeOK /\ Stages /\ RankInv(r) /\ c \in CountCtas
  BY <1>1 DEF IInv, RankInv, Strides
<1>4. /\ pc' \in [Ranks -> [Ctas -> PcNames]] /\ Stages'
      /\ pc'[r][c] = "fence" /\ \A d \in Ctas : d # c => pc'[r][d] = pc[r][d]
      /\ \A q \in Ranks : q # r => pc'[q] = pc[q]
      /\ SameProgress(r) /\ SameClaims(r)
      /\ Words(r)' /\ Tickets(r)' /\ Strides(r)'
  <2>1. PICK label \in PcNames : label = "fence"
    BY DEF PcNames
  <2>2. /\ pc' = [pc EXCEPT ![r][c] = label]
        /\ pc[r][c] \notin {"begin", "claim", "done"} /\ label \notin {"begin", "claim", "count"}
        /\ pc[r][c] \in {"clear", "arrive"} <=> label \in {"clear", "arrive", "done"}
    BY <1>1, <2>1
  <2>. QED  BY <1>1, <2>1, <2>2, PcStep
<1>5. \A p \in Ranks : p * LocalExperts + c \in Experts
  BY <1>2, <1>3, OwnerFacts
<1>6. \A p \in Ranks : /\ cell(p) \in Cells /\ cell(p).round = round[r] /\ cell(p).writer = <<r, c>>
                       /\ cell(p).value = Cardinality(RoutedTo(r, p * LocalExperts + c))
  <2>1. ASSUME NEW p \in Ranks
        PROVE  /\ cell(p) \in Cells /\ cell(p).round = round[r] /\ cell(p).writer = <<r, c>>
               /\ cell(p).value = Cardinality(RoutedTo(r, p * LocalExperts + c))
    <3>1. PICK v \in Nat : v = Cardinality(RoutedTo(r, p * LocalExperts + c))
      BY <1>2, <1>5, ClaimedFacts
    <3>. QED  BY <1>3, <3>1, NewCell DEF cell
  <2>. QED  BY <2>1
<1>7. /\ countCell' \in [Ranks -> [0 .. 1 -> [Experts \X Ranks -> Cells]]]
      /\ \A p \in Ranks : countCell'[p][f][<<p * LocalExperts + c, r>>] = cell(p)
      /\ \A p \in Ranks, b \in 0 .. 1, e \in Experts, q \in Ranks :
           b # f \/ e # p * LocalExperts + c \/ q # r =>
             countCell'[p][b][<<e, q>>] = countCell[p][b][<<e, q>>]
  <2>1. countCell \in [Ranks -> [0 .. 1 -> [Experts \X Ranks -> Cells]]]
    BY <1>3 DEF TypeOK
  <2>2. ASSUME NEW p \in Ranks
        PROVE  /\ countCell'[p] \in [0 .. 1 -> [Experts \X Ranks -> Cells]]
               /\ countCell'[p][f][<<p * LocalExperts + c, r>>] = cell(p)
               /\ \A b \in 0 .. 1, e \in Experts, q \in Ranks :
                    b # f \/ e # p * LocalExperts + c \/ q # r =>
                      countCell'[p][b][<<e, q>>] = countCell[p][b][<<e, q>>]
    <3>1. PICK g \in [0 .. 1 -> [Experts \X Ranks -> Cells]] : g = countCell[p]
      BY <2>1
    <3>2. PICK k \in Experts \X Ranks, v \in Cells, b \in 0 .. 1 :
            k = <<p * LocalExperts + c, r>> /\ v = cell(p) /\ b = f
      BY <1>2, <1>5, <1>6
    <3>3. countCell'[p] = [g EXCEPT ![b][k] = v]
      BY <1>1, <3>1, <3>2
    <3>4. /\ countCell'[p] \in [0 .. 1 -> [Experts \X Ranks -> Cells]]
          /\ countCell'[p][b][k] = v
          /\ \A x \in 0 .. 1, y \in Experts \X Ranks : x # b \/ y # k => countCell'[p][x][y] = g[x][y]
      BY <3>3, GridTypes
    <3>. QED  BY <3>1, <3>2, <3>4
  <2>3. countCell' = [p \in Ranks |-> countCell'[p]]
    BY <1>1
  <2>. QED  BY <2>2, <2>3
<1>8. TypeOK'
  BY <1>1, <1>3, <1>4, <1>7, TypesPrimed DEF TypeOK
<1>9. ASSUME NEW q \in Ranks, q # r  PROVE RankInv(q)'
  <2>1. OwnUntouched(q) /\ SentUntouched(q)
    BY <1>1, <1>4, <1>7, <1>9 DEF OwnUntouched, SentUntouched, CellsUntouched
  <2>. QED  BY <1>3, <2>1, Elsewhere DEF IInv
<1>10. Bank(r)' = Bank(r)
  BY <1>1, BankSame
<1>11. Arrivals(r)'
  <2>1. (\A d \in Ctas : pc'[r][d] = "done") => \A d \in Ctas : pc[r][d] = "done"
    BY <1>4
  <2>. QED  BY <1>1, <1>2, <1>3, <1>4, <2>1, ArrivalsStill DEF RankInv
<1>12. Claims(r)'
  <2>1. Cleared(r)' <=> Cleared(r)
    <3>1. ~AllRetired(r)
      BY <1>1 DEF AllRetired
    <3>2. ~AllRetired(r)'
      BY <1>4, <3>1, ProgressFacts
    <3>. QED  BY <3>1, <3>2 DEF Cleared
  <2>. QED  BY <1>1, <1>2, <1>3, <1>4, <2>1, ClaimsStill DEF RankInv
<1>13. \A x : Pending(x, r) => PendingNext(x, r)
  <2>1. \A d \in Ctas : pc[r][d] \in {"claim", "fence"} => pc'[r][d] \in {"claim", "fence"}
    BY <1>1, <1>4
  <2>. QED  BY <2>1, PendingStill
<1>14. Writers(r)'
  <2>1. Writers(r)
    BY <1>3 DEF RankInv
  <2>2. \A p \in Ranks, b \in 0 .. 1, e \in Experts : PendingNext(countCell'[p][b][<<e, r>>], r)
    <3>1. ASSUME NEW p \in Ranks, NEW b \in 0 .. 1, NEW e \in Experts
          PROVE  PendingNext(countCell'[p][b][<<e, r>>], r)
      <4>1. CASE b = f /\ e = p * LocalExperts + c
        <5>1. countCell'[p][b][<<e, r>>].writer = <<r, c>>
          BY <1>6, <1>7, <4>1
        <5>. QED  BY <1>4, <5>1 DEF PendingNext
      <4>2. CASE ~(b = f /\ e = p * LocalExperts + c)
        <5>1. countCell'[p][b][<<e, r>>] = countCell[p][b][<<e, r>>]
          BY <1>7, <4>2
        <5>2. Pending(countCell[p][b][<<e, r>>], r)
          BY <2>1 DEF Writers
        <5>. QED  BY <1>13, <5>1, <5>2
      <4>. QED  BY <4>1, <4>2
    <3>. QED  BY <3>1
  <2>3. \A p \in Ranks, b \in 0 .. 1, e \in Experts, s \in 0 .. SourceCapacity - 1 :
          PendingNext(entryCell'[p][b][<<e, r, s>>], r)
    BY <1>1, <1>13, <2>1 DEF Writers
  <2>4. \A p \in Ranks, b \in 0 .. 1, t \in Rows : PendingNext(scaleCell'[p][b][<<r, t>>], r)
    BY <1>1, <1>13, <2>1 DEF Writers
  <2>5. \A t \in Rows : PendingNext(row'[r][t], r)
    BY <1>1, <1>13, <2>1 DEF Writers
  <2>. QED  BY <2>2, <2>3, <2>4, <2>5, WritersPrimed
<1>15. Pushes(r)'
  <2>1. Pushes(r)
    BY <1>3 DEF RankInv
  <2>2. ASSUME NEW d \in CountCtas, NEW p \in Ranks, pc'[r][d] \notin {"begin", "count"}
        PROVE  /\ countCell'[p][Bank(r)][<<p * LocalExperts + d, r>>].round = round'[r]
               /\ countCell'[p][Bank(r)][<<p * LocalExperts + d, r>>].value =
                    Cardinality({t \in Rows : p * LocalExperts + d \in route'[r][t]})
    <3>1. RoutedTo(r, p * LocalExperts + d) = {t \in Rows : p * LocalExperts + d \in route'[r][t]}
      BY <1>1 DEF RoutedTo
    <3>2. CASE d = c
      <4>1. PICK e \in Experts : e = p * LocalExperts + c
        BY <1>5
      <4>2. countCell'[p][Bank(r)][<<e, r>>] = cell(p)
        BY <1>2, <1>7, <4>1
      <4>3. cell(p).round = round[r] /\ cell(p).value = Cardinality(RoutedTo(r, e))
        BY <1>6, <4>1
      <4>. QED  BY <1>1, <3>1, <3>2, <4>1, <4>2, <4>3
    <3>3. CASE d # c
      <4>1. PICK e \in Experts : e = p * LocalExperts + d
        BY <1>2, OwnerFacts
      <4>2. e # p * LocalExperts + c
        BY <1>2, <1>3, <3>3, <4>1, OwnerFacts
      <4>3. countCell'[p][Bank(r)][<<e, r>>] = countCell[p][Bank(r)][<<e, r>>]
        BY <1>2, <1>7, <4>2
      <4>4. pc[r][d] \notin {"begin", "count"}
        BY <1>2, <1>4, <2>2, <3>3, CtaFacts
      <4>5. countCell[p][Bank(r)][<<e, r>>].round = round[r]
              /\ countCell[p][Bank(r)][<<e, r>>].value = Cardinality(RoutedTo(r, e))
        BY <2>1, <4>1, <4>4 DEF Pushes
      <4>. QED  BY <1>1, <3>1, <4>1, <4>3, <4>5
    <3>. QED  BY <3>2, <3>3
  <2>3. \A t \in Rows : Pushed(r, t)' => row'[r][t].round = round'[r]
    BY <1>1, <1>4, <2>1 DEF Pushes, SameClaims
  <2>4. \A t \in Rows, e \in Experts : Pushed(r, t)' /\ e \in route'[r][t] =>
          scaleCell'[Owner(e)'][Bank(r)][<<r, t>>].round = round'[r]
    <3>1. \A e : Owner(e)' = Owner(e)
      BY Same DEF Owner
    <3>. QED  BY <1>1, <1>4, <2>1, <3>1 DEF Pushes, SameClaims
  <2>. QED  BY <1>10, <2>2, <2>3, <2>4, Same DEF Pushes, RoutedTo
<1>16. Entries(r)'
  <2>1. \A p \in Ranks, b \in 0 .. 1, e \in Experts, s \in 0 .. SourceCapacity - 1 :
           /\ entryCell'[p][b][<<e, r, s>>].round = entryCell[p][b][<<e, r, s>>].round
           /\ entryCell'[p][b][<<e, r, s>>].value = entryCell[p][b][<<e, r, s>>].value
    BY <1>1
  <2>. QED  BY <1>1, <1>3, <1>4, <2>1, EntriesStill DEF RankInv
<1>17. RankInv(r)'
  BY <1>4, <1>11, <1>12, <1>14, <1>15, <1>16 DEF RankInv
<1>. QED  BY <1>4, <1>8, <1>9, <1>17, Same DEF IInv

\* A cell after the fence of w, by what it was before.
Drained(new, old, w) ==
  /\ new.round = old.round /\ new.value = old.value
  /\ new.writer # w /\ new.writer \in {Landed, old.writer}
  /\ old.writer # w => new = old

LEMMA DrainFacts ==
  ASSUME NEW K, NEW cells \in [K -> Cells], NEW w \in Ranks \X Ctas,
         NEW new, new = Drain(cells, w)
  PROVE  new \in [K -> Cells] /\ \A k \in K : Drained(new[k], cells[k], w)
<1>1. Landed # w
  <2>1. PICK a, b : w = <<a, b>>
    OBVIOUS
  <2>. QED  BY <2>1 DEF Landed
<1>2. ASSUME NEW k \in K
      PROVE  LET cell == IF cells[k].writer = w THEN [cells[k] EXCEPT !.writer = Landed] ELSE cells[k]
             IN  cell \in Cells /\ Drained(cell, cells[k], w)
  <2>1. cells[k] \in Cells
    OBVIOUS
  <2>. QED  BY <1>1, <2>1 DEF Cells, Drained
<1>3. new = [k \in K |-> IF cells[k].writer = w
                        THEN [cells[k] EXCEPT !.writer = Landed] ELSE cells[k]]
  BY DEF Drain
<1>4. \A k \in K : new[k] = IF cells[k].writer = w
                            THEN [cells[k] EXCEPT !.writer = Landed] ELSE cells[k]
  BY <1>3
<1>5. \A k \in K : new[k] \in Cells /\ Drained(new[k], cells[k], w)
  BY <1>2, <1>4
<1>. QED  BY <1>3, <1>5

LEMMA DrainAllFacts ==
  ASSUME NEW K, NEW banks \in [Ranks -> [0 .. 1 -> [K -> Cells]]], NEW w \in Ranks \X Ctas,
         NEW new, new = DrainAll(banks, w)
  PROVE  /\ new \in [Ranks -> [0 .. 1 -> [K -> Cells]]]
         /\ \A p \in Ranks, f \in 0 .. 1, k \in K : Drained(new[p][f][k], banks[p][f][k], w)
<1>1. new = [p \in Ranks |-> [f \in 0 .. 1 |-> Drain(banks[p][f], w)]]
  BY DEF DrainAll
<1>2. \A p \in Ranks, f \in 0 .. 1 : new[p][f] = Drain(banks[p][f], w)
  BY <1>1
<1>3. ASSUME NEW p \in Ranks, NEW f \in 0 .. 1
      PROVE  /\ new[p][f] \in [K -> Cells]
             /\ \A k \in K : Drained(new[p][f][k], banks[p][f][k], w)
  <2>1. PICK cells \in [K -> Cells] : cells = banks[p][f]
    OBVIOUS
  <2>2. new[p][f] = Drain(cells, w)
    BY <1>2, <2>1
  <2>. QED  BY <2>1, <2>2, DrainFacts
<1>4. new \in [Ranks -> [0 .. 1 -> [K -> Cells]]]
  BY <1>1, <1>3
<1>. QED  BY <1>3, <1>4

LEMMA FenceStep ==
  ASSUME IInv, setup' = setup, NEW r \in Ranks, NEW c \in Ctas, Fence(r, c)
  PROVE  IInv'
<1>0. PICK w \in Ranks \X Ctas : w = <<r, c>>
  OBVIOUS
<1>1. /\ pc[r][c] = "fence"
      /\ countCell' = DrainAll(countCell, w) /\ entryCell' = DrainAll(entryCell, w)
      /\ scaleCell' = DrainAll(scaleCell, w) /\ row' = [row EXCEPT ![r] = Drain(@, w)]
      /\ pc' = [pc EXCEPT ![r][c] = "retire"]
      /\ round' = round /\ stage' = stage /\ route' = route
      /\ ready' = ready /\ counts' = counts /\ retire' = retire /\ arrivals' = arrivals
      /\ generation' = generation /\ token' = token /\ slot' = slot
  BY <1>0 DEF Fence, Goto, control, header, cta
<1>2. /\ setup \in Setups /\ round[r] \in 1 .. MaxRounds /\ Bank(r) \in 0 .. 1
  BY <1>1, ActingFacts
<1>3. TypeOK /\ Stages /\ RankInv(r)
  BY DEF IInv
<1>4. /\ pc' \in [Ranks -> [Ctas -> PcNames]] /\ Stages'
      /\ pc'[r][c] = "retire" /\ \A d \in Ctas : d # c => pc'[r][d] = pc[r][d]
      /\ \A q \in Ranks : q # r => pc'[q] = pc[q]
      /\ SameProgress(r) /\ SameClaims(r)
      /\ Words(r)' /\ Tickets(r)' /\ Strides(r)'
  <2>1. PICK label \in PcNames : label = "retire"
    BY DEF PcNames
  <2>2. /\ pc' = [pc EXCEPT ![r][c] = label]
        /\ pc[r][c] \notin {"begin", "claim", "done"} /\ label \notin {"begin", "claim", "count"}
        /\ pc[r][c] \in {"clear", "arrive"} <=> label \in {"clear", "arrive", "done"}
    BY <1>1, <2>1
  <2>. QED  BY <1>1, <2>1, <2>2, PcStep
<1>5. /\ countCell' \in [Ranks -> [0 .. 1 -> [Experts \X Ranks -> Cells]]]
      /\ \A p \in Ranks, f \in 0 .. 1, e \in Experts, q \in Ranks :
           Drained(countCell'[p][f][<<e, q>>], countCell[p][f][<<e, q>>], w)
  <2>1. PICK K : K = Experts \X Ranks
    OBVIOUS
  <2>2. PICK banks \in [Ranks -> [0 .. 1 -> [K -> Cells]]] : banks = countCell
    BY <1>3, <2>1 DEF TypeOK
  <2>3. /\ countCell' \in [Ranks -> [0 .. 1 -> [K -> Cells]]]
        /\ \A p \in Ranks, f \in 0 .. 1, k \in K : Drained(countCell'[p][f][k], countCell[p][f][k], w)
    <3>1. PICK new : new = countCell'
      OBVIOUS
    <3>2. new = DrainAll(banks, w)
      BY <1>1, <2>2, <3>1
    <3>3. /\ new \in [Ranks -> [0 .. 1 -> [K -> Cells]]]
          /\ \A p \in Ranks, f \in 0 .. 1, k \in K : Drained(new[p][f][k], banks[p][f][k], w)
      BY <3>2, DrainAllFacts
    <3>. QED  BY <2>2, <3>1, <3>3
  <2>. QED  BY <2>1, <2>3
<1>6. /\ entryCell' \in [Ranks -> [0 .. 1 -> [Experts \X Ranks \X (0 .. SourceCapacity - 1) -> Cells]]]
      /\ \A p \in Ranks, f \in 0 .. 1, e \in Experts, q \in Ranks, s \in 0 .. SourceCapacity - 1 :
           Drained(entryCell'[p][f][<<e, q, s>>], entryCell[p][f][<<e, q, s>>], w)
  <2>1. PICK K : K = Experts \X Ranks \X (0 .. SourceCapacity - 1)
    OBVIOUS
  <2>2. PICK banks \in [Ranks -> [0 .. 1 -> [K -> Cells]]] : banks = entryCell
    BY <1>3, <2>1 DEF TypeOK
  <2>3. /\ entryCell' \in [Ranks -> [0 .. 1 -> [K -> Cells]]]
        /\ \A p \in Ranks, f \in 0 .. 1, k \in K : Drained(entryCell'[p][f][k], entryCell[p][f][k], w)
    <3>1. PICK new : new = entryCell'
      OBVIOUS
    <3>2. new = DrainAll(banks, w)
      BY <1>1, <2>2, <3>1
    <3>3. /\ new \in [Ranks -> [0 .. 1 -> [K -> Cells]]]
          /\ \A p \in Ranks, f \in 0 .. 1, k \in K : Drained(new[p][f][k], banks[p][f][k], w)
      BY <3>2, DrainAllFacts
    <3>. QED  BY <2>2, <3>1, <3>3
  <2>4. ASSUME NEW e \in Experts, NEW q \in Ranks, NEW s \in 0 .. SourceCapacity - 1
        PROVE  <<e, q, s>> \in K
    BY <2>1
  <2>. QED  BY <2>1, <2>3, <2>4
<1>7. /\ scaleCell' \in [Ranks -> [0 .. 1 -> [Ranks \X Rows -> Cells]]]
      /\ \A p \in Ranks, f \in 0 .. 1, q \in Ranks, t \in Rows :
           Drained(scaleCell'[p][f][<<q, t>>], scaleCell[p][f][<<q, t>>], w)
  <2>1. PICK K : K = Ranks \X Rows
    OBVIOUS
  <2>2. PICK banks \in [Ranks -> [0 .. 1 -> [K -> Cells]]] : banks = scaleCell
    BY <1>3, <2>1 DEF TypeOK
  <2>3. /\ scaleCell' \in [Ranks -> [0 .. 1 -> [K -> Cells]]]
        /\ \A p \in Ranks, f \in 0 .. 1, k \in K : Drained(scaleCell'[p][f][k], scaleCell[p][f][k], w)
    <3>1. PICK new : new = scaleCell'
      OBVIOUS
    <3>2. new = DrainAll(banks, w)
      BY <1>1, <2>2, <3>1
    <3>3. /\ new \in [Ranks -> [0 .. 1 -> [K -> Cells]]]
          /\ \A p \in Ranks, f \in 0 .. 1, k \in K : Drained(new[p][f][k], banks[p][f][k], w)
      BY <3>2, DrainAllFacts
    <3>. QED  BY <2>2, <3>1, <3>3
  <2>. QED  BY <2>1, <2>3
<1>8. /\ row' \in [Ranks -> [Rows -> Cells]]
      /\ \A t \in Rows : Drained(row'[r][t], row[r][t], w)
      /\ \A q \in Ranks : q # r => row'[q] = row[q]
  <2>1. row \in [Ranks -> [Rows -> Cells]]
    BY <1>3 DEF TypeOK
  <2>2. PICK cells \in [Rows -> Cells] : cells = row[r]
    BY <2>1
  <2>3. PICK new : new = Drain(cells, w)
    OBVIOUS
  <2>4. new \in [Rows -> Cells] /\ \A t \in Rows : Drained(new[t], cells[t], w)
    BY <2>3, DrainFacts
  <2>5. row' = [row EXCEPT ![r] = new]
    BY <1>1, <2>1, <2>2, <2>3
  <2>6. row' \in [Ranks -> [Rows -> Cells]] /\ row'[r] = new
          /\ \A q \in Ranks : q # r => row'[q] = row[q]
    BY <2>1, <2>4, <2>5
  <2>. QED  BY <2>2, <2>4, <2>6
<1>9. TypeOK'
  BY <1>1, <1>3, <1>4, <1>5, <1>6, <1>7, <1>8, TypesPrimed DEF TypeOK
<1>10. ASSUME NEW q \in Ranks, q # r  PROVE RankInv(q)'
  <2>1. Writers(q)
    BY DEF IInv, RankInv
  <2>2. ASSUME NEW new, NEW old, Drained(new, old, w), Pending(old, q)  PROVE new = old
    <3>1. old.writer # w
      BY <1>0, <1>10, <2>2 DEF Pending, Landed, Drained
    <3>. QED  BY <2>2, <3>1 DEF Drained
  <2>3. CellsUntouched(q)
    <3>1. \A p \in Ranks, f \in 0 .. 1, e \in Experts :
            countCell'[p][f][<<e, q>>] = countCell[p][f][<<e, q>>]
      BY <1>5, <2>1, <2>2 DEF Writers
    <3>2. \A p \in Ranks, f \in 0 .. 1, e \in Experts, s \in 0 .. SourceCapacity - 1 :
            entryCell'[p][f][<<e, q, s>>] = entryCell[p][f][<<e, q, s>>]
      BY <1>6, <2>1, <2>2 DEF Writers
    <3>3. \A p \in Ranks, f \in 0 .. 1, t \in Rows :
            scaleCell'[p][f][<<q, t>>] = scaleCell[p][f][<<q, t>>]
      BY <1>7, <2>1, <2>2 DEF Writers
    <3>. QED  BY <3>1, <3>2, <3>3 DEF CellsUntouched
  <2>4. OwnUntouched(q) /\ SentUntouched(q)
    BY <1>1, <1>4, <1>8, <1>10, <2>3 DEF OwnUntouched, SentUntouched
  <2>. QED  BY <1>3, <2>4, Elsewhere DEF IInv
<1>11. Arrivals(r)'
  <2>1. (\A d \in Ctas : pc'[r][d] = "done") => \A d \in Ctas : pc[r][d] = "done"
    BY <1>4
  <2>. QED  BY <1>1, <1>2, <1>3, <1>4, <2>1, ArrivalsStill DEF RankInv
<1>12. Claims(r)'
  <2>1. Cleared(r)' <=> Cleared(r)
    <3>1. ~AllRetired(r)
      BY <1>1 DEF AllRetired
    <3>2. ~AllRetired(r)'
      BY <1>4, <3>1, ProgressFacts
    <3>. QED  BY <3>1, <3>2 DEF Cleared
  <2>. QED  BY <1>1, <1>2, <1>3, <1>4, <2>1, ClaimsStill DEF RankInv
<1>13. Writers(r)'
  <2>1. Writers(r)
    BY <1>3 DEF RankInv
  <2>2. ASSUME NEW new, NEW old, Drained(new, old, w), Pending(old, r)  PROVE PendingNext(new, r)
    BY <1>0, <1>4, <2>2 DEF Pending, PendingNext, Drained
  <2>3. \A p \in Ranks, f \in 0 .. 1, e \in Experts : PendingNext(countCell'[p][f][<<e, r>>], r)
    BY <1>5, <2>1, <2>2 DEF Writers
  <2>4. \A p \in Ranks, f \in 0 .. 1, e \in Experts, s \in 0 .. SourceCapacity - 1 :
          PendingNext(entryCell'[p][f][<<e, r, s>>], r)
    BY <1>6, <2>1, <2>2 DEF Writers
  <2>5. \A p \in Ranks, f \in 0 .. 1, t \in Rows : PendingNext(scaleCell'[p][f][<<r, t>>], r)
    BY <1>7, <2>1, <2>2 DEF Writers
  <2>6. \A t \in Rows : PendingNext(row'[r][t], r)
    BY <1>8, <2>1, <2>2 DEF Writers
  <2>. QED  BY <2>3, <2>4, <2>5, <2>6, WritersPrimed
<1>14. SameValues(r)
  <2>1. \A new, old : Drained(new, old, w) => new.round = old.round /\ new.value = old.value
    BY DEF Drained
  <2>2. \A p \in Ranks, f \in 0 .. 1, e \in Experts, s \in 0 .. SourceCapacity - 1 :
          /\ entryCell'[p][f][<<e, r, s>>].round = entryCell[p][f][<<e, r, s>>].round
          /\ entryCell'[p][f][<<e, r, s>>].value = entryCell[p][f][<<e, r, s>>].value
    BY <1>6, <2>1
  <2>3. \A p \in Ranks, f \in 0 .. 1, e \in Experts :
          /\ countCell'[p][f][<<e, r>>].round = countCell[p][f][<<e, r>>].round
          /\ countCell'[p][f][<<e, r>>].value = countCell[p][f][<<e, r>>].value
    BY <1>5, <2>1
  <2>4. \A p \in Ranks, f \in 0 .. 1, t \in Rows :
          /\ scaleCell'[p][f][<<r, t>>].round = scaleCell[p][f][<<r, t>>].round
          /\ row'[r][t].round = row[r][t].round
    BY <1>7, <1>8, <2>1
  <2>. QED  BY <2>2, <2>3, <2>4 DEF SameValues
<1>15. Pushes(r)'
  <2>1. \A t \in Rows : Pushed(r, t)' <=> Pushed(r, t)
    BY <1>4 DEF SameClaims
  <2>2. \A d \in CountCtas : pc'[r][d] \notin {"begin", "count"} => pc[r][d] \notin {"begin", "count"}
    BY <1>1, <1>2, <1>4, CtaFacts
  <2>. QED  BY <1>1, <1>3, <1>14, <2>1, <2>2, PushesStill DEF RankInv
<1>16. Entries(r)'
  <2>1. \A p \in Ranks, b \in 0 .. 1, e \in Experts, s \in 0 .. SourceCapacity - 1 :
           /\ entryCell'[p][b][<<e, r, s>>].round = entryCell[p][b][<<e, r, s>>].round
           /\ entryCell'[p][b][<<e, r, s>>].value = entryCell[p][b][<<e, r, s>>].value
    BY <1>14 DEF SameValues
  <2>. QED  BY <1>1, <1>3, <1>4, <2>1, EntriesStill DEF RankInv
<1>17. RankInv(r)'
  BY <1>4, <1>11, <1>12, <1>13, <1>15, <1>16 DEF RankInv
<1>. QED  BY <1>4, <1>9, <1>10, <1>17, Same DEF IInv
-----------------------------------------------------------------------------
(* A lane claims a slot. *)

\* The state of a CTA at its claims.
LEMMA ClaimingFacts ==
  ASSUME IInv, NEW r \in Ranks, NEW c \in Ctas, pc[r][c] = "claim"
  PROVE  /\ token[r][c] \in Rows /\ token[r][c] \in Nat /\ TokenCta[token[r][c]] = c
         /\ DOMAIN slot[r][c] \subseteq route[r][token[r][c]]
         /\ route[r][token[r][c]] \subseteq Experts
         /\ slot[r][c] \in [DOMAIN slot[r][c] -> Nat]
         /\ ~Pushed(r, token[r][c]) /\ ~Cleared(r) /\ ~AllRetired(r)
         /\ \A e \in Experts : counts[r][Bank(r)][e] = Cardinality(Claimed(r, e))
<1>1. TypeOK /\ Strides(r) /\ Claims(r) /\ setup \in Setups
  BY DEF IInv, RankInv, TypeOK
<1>2. /\ token[r][c] \in Rows /\ TokenCta[token[r][c]] = c
      /\ DOMAIN slot[r][c] \subseteq route[r][token[r][c]]
  BY <1>1 DEF Strides
<1>3. token[r][c] \in Nat
  BY <1>1, <1>2, SetupFacts DEF Rows
<1>4. route[r][token[r][c]] \subseteq Experts
  BY <1>1, <1>2 DEF TypeOK
<1>5. slot[r][c] \in [DOMAIN slot[r][c] -> Nat]
  <2>1. slot[r][c] \in Slots
    BY <1>1 DEF TypeOK
  <2>2. PICK S \in SUBSET Experts : slot[r][c] \in [S -> Nat]
    BY <2>1 DEF Slots
  <2>. QED  BY <2>2
<1>6. ~AllRetired(r) /\ ~Cleared(r)
  BY DEF AllRetired, Cleared
<1>7. ~Pushed(r, token[r][c])
  BY <1>2, <1>3 DEF Pushed
<1>8. \A e \in Experts : counts[r][Bank(r)][e] = Cardinality(Claimed(r, e))
  BY <1>1, <1>6 DEF Claims
<1>. QED  BY <1>2, <1>3, <1>4, <1>5, <1>6, <1>7, <1>8

LEMMA ClaimStep ==
  ASSUME IInv, setup' = setup, NEW r \in Ranks, NEW c \in Ctas, NEW e \in Experts, Claim(r, c, e)
  PROVE  IInv'
<1>0. PICK f, t, S : f = Parity(generation[r][c]) /\ t = token[r][c] /\ S = DOMAIN slot[r][c]
  OBVIOUS
<1>1. /\ pc[r][c] = "claim" /\ e \in route[r][t] /\ e \notin S
      /\ slot' = [slot EXCEPT ![r][c] =
                    [x \in DOMAIN slot[r][c] \cup {e} |->
                       IF x = e THEN counts[r][f][e] ELSE slot[r][c][x]]]
      /\ counts' = [counts EXCEPT ![r][f][e] = counts[r][f][e] + 1]
      /\ pc' = pc /\ round' = round /\ stage' = stage /\ route' = route
      /\ ready' = ready /\ retire' = retire /\ arrivals' = arrivals
      /\ countCell' = countCell /\ entryCell' = entryCell /\ scaleCell' = scaleCell /\ row' = row
      /\ generation' = generation /\ token' = token
  BY <1>0 DEF Claim, control, staging
<1>2. /\ setup \in Setups /\ round[r] \in 1 .. MaxRounds /\ Bank(r) \in 0 .. 1 /\ f = Bank(r)
  BY <1>0, <1>1, ActingFacts
<1>3. TypeOK /\ Stages /\ RankInv(r)
  BY DEF IInv
<1>4. /\ t \in Rows /\ t \in Nat /\ TokenCta[t] = c
      /\ S \subseteq route[r][t] /\ S \subseteq Experts /\ slot[r][c] \in [S -> Nat]
      /\ ~Pushed(r, t) /\ ~Cleared(r)
      /\ \A x \in Experts : counts[r][f][x] = Cardinality(Claimed(r, x))
  BY <1>0, <1>1, <1>2, ClaimingFacts
<1>5. PICK n \in Nat : n = counts[r][f][e] /\ n = Cardinality(Claimed(r, e))
  BY <1>2, <1>4, ClaimedFacts
<1>6. /\ slot' \in [Ranks -> [Ctas -> Slots]]
      /\ DOMAIN slot'[r][c] = S \cup {e} /\ slot'[r][c][e] = n
      /\ \A x \in S : slot'[r][c][x] = slot[r][c][x]
      /\ \A q \in Ranks, d \in Ctas : q # r \/ d # c => slot'[q][d] = slot[q][d]
      /\ \A q \in Ranks : q # r => slot'[q] = slot[q]
  <2>1. slot \in [Ranks -> [Ctas -> Slots]]
    BY <1>3 DEF TypeOK
  <2>0. PICK old \in [S -> Nat] : old = slot[r][c]
    BY <1>4
  <2>2. PICK v \in [S \cup {e} -> Nat] : v = [x \in S \cup {e} |-> IF x = e THEN n ELSE old[x]]
    <3>1. PICK T : T = S \cup {e}
      OBVIOUS
    <3>2. \A x \in T : (IF x = e THEN n ELSE old[x]) \in Nat
      BY <3>1
    <3>3. [x \in T |-> IF x = e THEN n ELSE old[x]] \in [T -> Nat]
      BY <3>2
    <3>. QED  BY <3>1, <3>3
  <2>3. v \in [S \cup {e} -> Nat] /\ DOMAIN v = S \cup {e} /\ v[e] = n
          /\ \A x \in S : v[x] = slot[r][c][x]
    BY <1>1, <2>0, <2>2
  <2>4. v \in Slots
    <3>1. S \cup {e} \in SUBSET Experts
      BY <1>4
    <3>. QED  BY <2>3, <3>1 DEF Slots
  <2>5. slot' = [slot EXCEPT ![r][c] = v]
    BY <1>0, <1>1, <1>5, <2>0, <2>2
  <2>. QED  BY <2>0, <2>1, <2>3, <2>4, <2>5, GridTypes
<1>7. /\ counts' \in [Ranks -> [0 .. 1 -> [Experts -> Nat]]]
      /\ counts'[r][f][e] = n + 1
      /\ \A x \in Experts : x # e => counts'[r][f][x] = counts[r][f][x]
      /\ counts'[r][1 - f] = counts[r][1 - f]
      /\ \A q \in Ranks : q # r => counts'[q] = counts[q]
  <2>1. counts \in [Ranks -> [0 .. 1 -> [Experts -> Nat]]]
    BY <1>3 DEF TypeOK
  <2>2. PICK b \in 0 .. 1 : b = f
    BY <1>2
  <2>3. PICK old \in [Experts -> Nat] : old = counts[r][b]
    BY <2>1
  <2>4. PICK v \in [Experts -> Nat] : v = [old EXCEPT ![e] = n + 1]
    <3>1. n + 1 \in Nat
      OBVIOUS
    <3>2. [old EXCEPT ![e] = n + 1] \in [Experts -> Nat]
      BY <3>1
    <3>. QED  BY <3>2
  <2>5. v[e] = n + 1 /\ \A x \in Experts : x # e => v[x] = old[x]
    BY <2>4
  <2>6. counts' = [counts EXCEPT ![r][b] = v]
    BY <1>1, <1>5, <2>1, <2>2, <2>3, <2>4
  <2>7. 1 - b \in 0 .. 1 /\ 1 - b # b
    OBVIOUS
  <2>8. /\ counts' \in [Ranks -> [0 .. 1 -> [Experts -> Nat]]] /\ counts'[r][b] = v
        /\ \A q \in Ranks, y \in 0 .. 1 : q # r \/ y # b => counts'[q][y] = counts[q][y]
        /\ \A q \in Ranks : q # r => counts'[q] = counts[q]
    BY <2>1, <2>6, GridTypes
  <2>. QED  BY <2>2, <2>3, <2>5, <2>7, <2>8
<1>8. TypeOK'
  BY <1>1, <1>3, <1>6, <1>7, TypesPrimed DEF TypeOK
<1>9. Stages'
  BY <1>1, <1>3, Same DEF Stages, AllRetired
<1>10. ASSUME NEW q \in Ranks, q # r  PROVE RankInv(q)'
  <2>1. OwnUntouched(q) /\ SentUntouched(q)
    BY <1>1, <1>6, <1>7, <1>10 DEF OwnUntouched, SentUntouched, CellsUntouched
  <2>. QED  BY <1>3, <2>1, Elsewhere DEF IInv
<1>11. SameProgress(r) /\ Bank(r)' = Bank(r)
  BY <1>1, BankSame DEF SameProgress
<1>12. Words(r)' /\ Tickets(r)'
  BY <1>1, <1>3, <1>11, ControlStill DEF RankInv
<1>13. Arrivals(r)'
  BY <1>1, <1>2, <1>3, <1>11, ArrivalsStill DEF RankInv
<1>14. Strides(r)'
  <2>1. Strides(r)
    BY <1>3 DEF RankInv
  <2>2. ASSUME NEW d \in Ctas, pc[r][d] = "claim"
        PROVE  DOMAIN slot'[r][d] \subseteq route[r][token[r][d]]
    <3>1. CASE d = c
      BY <1>0, <1>1, <1>4, <1>6, <3>1
    <3>2. CASE d # c
      BY <1>6, <2>1, <2>2, <3>2 DEF Strides
    <3>. QED  BY <3>1, <3>2
  <2>. QED  BY <1>1, <2>1, <2>2, Same DEF Strides
\* Only CTA c holds a slot more, and it holds it for token t.
<1>15. /\ \A x \in Rows : Pushed(r, x)' <=> Pushed(r, x)
       /\ \A d \in Ctas, x \in Experts : Holding(r, d, x)' <=> Holding(r, d, x) \/ (d = c /\ x = e)
       /\ ~Holding(r, c, e)
       /\ \A d \in Ctas, x \in Experts : Holding(r, d, x) => slot'[r][d][x] = slot[r][d][x]
       /\ \A x \in Experts : RoutedTo(r, x)' = RoutedTo(r, x)
  <2>1. \A x \in Rows : Pushed(r, x)' <=> Pushed(r, x)
    BY <1>1, Same DEF Pushed
  <2>2. ASSUME NEW d \in Ctas, NEW x \in Experts
        PROVE  /\ Holding(r, d, x)' <=> Holding(r, d, x) \/ (d = c /\ x = e)
               /\ Holding(r, d, x) => slot'[r][d][x] = slot[r][d][x]
    <3>1. CASE d = c
      BY <1>0, <1>1, <1>6, <3>1 DEF Holding
    <3>2. CASE d # c
      BY <1>1, <1>6, <3>2 DEF Holding
    <3>. QED  BY <3>1, <3>2
  <2>3. ~Holding(r, c, e)
    BY <1>0, <1>1 DEF Holding
  <2>4. \A x \in Experts : RoutedTo(r, x)' = RoutedTo(r, x)
    BY <1>1, Same DEF RoutedTo
  <2>. QED  BY <2>1, <2>2, <2>3, <2>4
<1>16. /\ Claimed(r, e)' = Claimed(r, e) \cup {t} /\ t \notin Claimed(r, e)
       /\ \A x \in Experts : x # e => Claimed(r, x)' = Claimed(r, x)
  <2>1. ASSUME NEW x \in Experts, NEW u \in Rows
        PROVE  Holding(r, TokenCta[u], x)' /\ token'[r][TokenCta'[u]] = u
                 <=> (Holding(r, TokenCta[u], x) /\ token[r][TokenCta[u]] = u) \/ (u = t /\ x = e)
    <3>1. PICK d \in Ctas : d = TokenCta[u]
      BY <1>2, CtaFacts, SetupFacts DEF Rows
    <3>2. Holding(r, d, x)' <=> Holding(r, d, x) \/ (d = c /\ x = e)
      BY <1>15
    <3>3. Holding(r, TokenCta[u], x)' <=> Holding(r, d, x)'
      BY <3>1, Same DEF Holding
    <3>4. token'[r][TokenCta'[u]] = token[r][d]
      BY <1>1, <3>1, Same
    <3>. QED  BY <1>0, <1>4, <3>1, <3>2, <3>3, <3>4
  <2>2. \A x \in Experts : RoutedTo(r, x) \subseteq Rows
    BY DEF RoutedTo
  <2>3. t \in RoutedTo(r, e)
    BY <1>1, <1>4 DEF RoutedTo
  <2>4. t \notin Claimed(r, e)
    BY <1>4, <1>15 DEF Claimed
  <2>5. Claimed(r, e)' = Claimed(r, e) \cup {t}
    BY <1>15, <2>1, <2>2, <2>3 DEF Claimed
  <2>6. \A x \in Experts : x # e => Claimed(r, x)' = Claimed(r, x)
    BY <1>15, <2>1, <2>2 DEF Claimed
  <2>. QED  BY <2>4, <2>5, <2>6
<1>17. Cardinality(Claimed(r, e)') = n + 1
  <2>1. PICK C : C = Claimed(r, e)
    OBVIOUS
  <2>2. IsFiniteSet(C) /\ t \notin C /\ Cardinality(C) = n
    BY <1>2, <1>5, <1>16, <2>1, ClaimedFacts
  <2>3. Cardinality(C \cup {t}) = n + 1
    BY <2>2, FS_AddElement
  <2>. QED  BY <1>16, <2>1, <2>3
<1>18. ~Cleared(r)'
  BY <1>1, <1>4, Same DEF Cleared, AllRetired
<1>19. Claims(r)'
  <2>1. Claims(r)
    BY <1>3 DEF RankInv
  <2>2. ASSUME NEW x \in Experts, x # e
        PROVE  /\ counts'[r][1 - f][x] = 0
               /\ counts'[r][f][x] = Cardinality(Claimed(r, x)')
               /\ \A d \in Ctas : Holding(r, d, x)' =>
                    /\ slot'[r][d][x] < Cardinality(Claimed(r, x)')
                    /\ \A k \in Ctas : k # d /\ Holding(r, k, x)' => slot'[r][k][x] # slot'[r][d][x]
    <3>1. counts'[r][1 - f][x] = 0 /\ counts'[r][f][x] = Cardinality(Claimed(r, x)')
      BY <1>2, <1>4, <1>7, <1>16, <2>1, <2>2 DEF Claims
    <3>2. ASSUME NEW d \in Ctas, Holding(r, d, x)'
          PROVE  /\ slot'[r][d][x] < Cardinality(Claimed(r, x)')
                 /\ \A k \in Ctas : k # d /\ Holding(r, k, x)' => slot'[r][k][x] # slot'[r][d][x]
      <4>1. Holding(r, d, x) /\ slot'[r][d][x] = slot[r][d][x]
        BY <1>15, <2>2, <3>2
      <4>2. \A k \in Ctas : Holding(r, k, x)' => Holding(r, k, x) /\ slot'[r][k][x] = slot[r][k][x]
        BY <1>15, <2>2
      <4>3. Claimed(r, x)' = Claimed(r, x)
        BY <1>16, <2>2
      <4>. QED  BY <2>1, <4>1, <4>2, <4>3 DEF Claims
    <3>. QED  BY <3>1, <3>2
  <2>3. \A d \in Ctas : Holding(r, d, e) => slot[r][d][e] < n
          /\ \A k \in Ctas : k # d /\ Holding(r, k, e) => slot[r][k][e] # slot[r][d][e]
    BY <1>5, <2>1 DEF Claims
  <2>4. ASSUME NEW d \in Ctas, Holding(r, d, e)'
        PROVE  /\ slot'[r][d][e] < n + 1
               /\ \A k \in Ctas : k # d /\ Holding(r, k, e)' => slot'[r][k][e] # slot'[r][d][e]
    <3>1. ASSUME NEW k \in Ctas, Holding(r, k, e)'
          PROVE  \/ k = c /\ slot'[r][k][e] = n
                 \/ k # c /\ Holding(r, k, e) /\ slot'[r][k][e] = slot[r][k][e]
      BY <1>6, <1>15, <3>1
    <3>2. ASSUME NEW k \in Ctas, Holding(r, k, e)  PROVE slot[r][k][e] \in Nat
      <4>1. slot[r][k] \in [DOMAIN slot[r][k] -> Nat] /\ e \in DOMAIN slot[r][k]
        BY <3>2, ClaimingFacts DEF Holding
      <4>. QED  BY <4>1
    <3>. QED  BY <2>3, <2>4, <3>1, <3>2
  <2>5. counts'[r][1 - f][e] = 0 /\ counts'[r][f][e] = Cardinality(Claimed(r, e)')
    BY <1>2, <1>7, <1>17, <2>1 DEF Claims
  <2>6. \A x \in Experts :
          /\ counts'[r][1 - f][x] = 0
          /\ counts'[r][f][x] = Cardinality(Claimed(r, x)')
          /\ \A d \in Ctas : Holding(r, d, x)' =>
               /\ slot'[r][d][x] < Cardinality(Claimed(r, x)')
               /\ \A k \in Ctas : k # d /\ Holding(r, k, x)' => slot'[r][k][x] # slot'[r][d][x]
    BY <1>17, <2>2, <2>4, <2>5
  <2>. QED  BY <1>2, <1>11, <1>18, <2>6, Same DEF Claims
<1>20. CellsUntouched(r) /\ row'[r] = row[r]
  BY <1>1 DEF CellsUntouched
<1>21. Writers(r)'
  BY <1>1, <1>3, <1>20, WritersStill DEF RankInv
<1>22. Pushes(r)'
  <2>1. SameValues(r)
    BY <1>20, UntouchedValues
  <2>. QED  BY <1>1, <1>3, <1>15, <2>1, PushesStill DEF RankInv
<1>23. Entries(r)'
  <2>1. Entries(r)
    BY <1>3 DEF RankInv
  <2>2. \A x \in Experts, s \in Nat : Entry(r, x, s)' = Entry(r, x, s)
    <3>1. \A x : Owner(x)' = Owner(x)
      BY Same DEF Owner
    <3>. QED  BY <1>1, <1>11, <3>1 DEF Entry
  <2>3. ASSUME NEW x \in Experts, NEW s \in Nat
        PROVE  InProgress(r, x, s)' <=> InProgress(r, x, s) \/ (x = e /\ s = n)
    BY <1>6, <1>15, Same DEF InProgress
  <2>4. \A s \in Nat : InProgress(r, e, s) => s # n
    <3>1. \A d \in Ctas : Holding(r, d, e) => slot[r][d][e] < n
      BY <1>3, <1>5 DEF RankInv, Claims
    <3>. QED  BY <3>1 DEF InProgress
  <2>5. ASSUME NEW x \in Experts
        PROVE  /\ \A s \in 0 .. Cardinality(Claimed(r, x)') - 1 : InProgress(r, x, s)' \/
                    (Entry(r, x, s)'.round = round'[r] /\ Entry(r, x, s)'.value \in RoutedTo(r, x)')
               /\ \A u \in RoutedTo(r, x)' : Pushed(r, u)' =>
                    \E s \in 0 .. Cardinality(Claimed(r, x)') - 1 : ~InProgress(r, x, s)'
                      /\ Entry(r, x, s)'.round = round'[r] /\ Entry(r, x, s)'.value = u
    <3>1. PICK m \in Nat : m = Cardinality(Claimed(r, x))
      BY <1>2, ClaimedFacts
    <3>2. /\ \A s \in 0 .. m - 1 : InProgress(r, x, s) \/
               (Entry(r, x, s).round = round[r] /\ Entry(r, x, s).value \in RoutedTo(r, x))
          /\ \A u \in RoutedTo(r, x) : Pushed(r, u) =>
               \E s \in 0 .. m - 1 : ~InProgress(r, x, s)
                 /\ Entry(r, x, s).round = round[r] /\ Entry(r, x, s).value = u
      BY <2>1, <3>1 DEF Entries
    <3>3. RoutedTo(r, x) \subseteq Rows
      BY DEF RoutedTo
    <3>4. CASE x # e
      BY <1>1, <1>15, <1>16, <2>2, <2>3, <3>1, <3>2, <3>3, <3>4
    <3>5. CASE x = e
      <4>1. m = n /\ Cardinality(Claimed(r, x)') = n + 1
        BY <1>5, <1>17, <3>1, <3>5
      <4>2. ASSUME NEW s \in 0 .. n
            PROVE  InProgress(r, x, s)' \/
                     (Entry(r, x, s)'.round = round'[r] /\ Entry(r, x, s)'.value \in RoutedTo(r, x)')
        <5>1. CASE s = n
          BY <2>3, <3>5, <5>1
        <5>2. CASE s \in 0 .. n - 1
          BY <1>1, <1>15, <2>2, <2>3, <3>2, <4>1, <5>2
        <5>. QED  BY <5>1, <5>2
      <4>3. ASSUME NEW u \in RoutedTo(r, x), Pushed(r, u)
            PROVE  \E s \in 0 .. n : ~InProgress(r, x, s)'
                      /\ Entry(r, x, s)'.round = round'[r] /\ Entry(r, x, s)'.value = u
        <5>1. PICK s \in 0 .. n - 1 : ~InProgress(r, x, s)
                /\ Entry(r, x, s).round = round[r] /\ Entry(r, x, s).value = u
          BY <3>2, <4>1, <4>3
        <5>2. s \in Nat /\ s \in 0 .. n /\ s # n
          OBVIOUS
        <5>3. ~InProgress(r, x, s)' /\ Entry(r, x, s)' = Entry(r, x, s)
          BY <2>2, <2>3, <5>1, <5>2
        <5>. QED  BY <1>1, <5>1, <5>2, <5>3
      <4>. QED  BY <1>15, <3>3, <4>1, <4>2, <4>3
    <3>. QED  BY <3>4, <3>5
  <2>. QED  BY <2>5, Same DEF Entries
<1>24. RankInv(r)'
  BY <1>12, <1>13, <1>14, <1>19, <1>21, <1>22, <1>23 DEF RankInv
<1>. QED  BY <1>8, <1>9, <1>10, <1>24, Same DEF IInv
-----------------------------------------------------------------------------
(* A CTA pushes a token. *)

LEMMA PushTokenStep ==
  ASSUME IInv, setup' = setup, NEW r \in Ranks, NEW c \in Ctas, PushToken(r, c)
  PROVE  IInv'
<1>0. PICK f, t, put, A : /\ f = Parity(generation[r][c]) /\ t = token[r][c]
                          /\ put = Cell(round[r], token[r][c], <<r, c>>) /\ A = Accepted(r, c)
  OBVIOUS
<1>1. PICK label \in PcNames : label = IF t + TokenBlocks < Tokens THEN "claim" ELSE "fence"
  BY DEF PcNames
<1>2. /\ pc[r][c] = "claim" /\ DOMAIN slot[r][c] = route[r][t]
      /\ entryCell' = [p \in Ranks |-> [entryCell[p] EXCEPT ![f] =
           [k \in DOMAIN entryCell[p][f] |->
              IF k[1] \in A /\ Owner(k[1]) = p /\ k[2] = r /\ k[3] = slot[r][c][k[1]]
              THEN put ELSE entryCell[p][f][k]]]]
      /\ scaleCell' = [p \in Ranks |->
           IF \E e \in A : Owner(e) = p
           THEN [scaleCell[p] EXCEPT ![f][<<r, t>>] = put] ELSE scaleCell[p]]
      /\ row' = [row EXCEPT ![r][t] = put]
      /\ token' = [token EXCEPT ![r][c] = t + TokenBlocks]
      /\ slot' = [slot EXCEPT ![r][c] = <<>>]
      /\ pc' = [pc EXCEPT ![r][c] = label]
      /\ round' = round /\ stage' = stage /\ route' = route
      /\ ready' = ready /\ counts' = counts /\ retire' = retire /\ arrivals' = arrivals
      /\ countCell' = countCell /\ generation' = generation
  BY <1>0, <1>1 DEF PushToken, Goto, control, header
<1>3. /\ setup \in Setups /\ round[r] \in 1 .. MaxRounds /\ Bank(r) \in 0 .. 1 /\ f = Bank(r)
  BY <1>0, <1>2, ActingFacts
<1>4. TypeOK /\ Stages /\ RankInv(r)
  BY DEF IInv
<1>5. /\ t \in Rows /\ t \in Nat /\ TokenCta[t] = c
      /\ route[r][t] \subseteq Experts /\ slot[r][c] \in [route[r][t] -> Nat]
      /\ ~Pushed(r, t) /\ ~Cleared(r) /\ ~AllRetired(r)
  BY <1>0, <1>2, ClaimingFacts
\* Every route was given a slot.
<1>6. /\ A = route[r][t]
      /\ \A e \in A : /\ Holding(r, c, e) /\ slot[r][c][e] \in Nat
                      /\ slot[r][c][e] < Cardinality(Claimed(r, e))
                      /\ slot[r][c][e] \in 0 .. SourceCapacity - 1
  <2>1. ASSUME NEW e \in route[r][t]
        PROVE  /\ Holding(r, c, e) /\ slot[r][c][e] \in Nat
               /\ slot[r][c][e] < Cardinality(Claimed(r, e))
               /\ slot[r][c][e] < SourceCapacity
    <3>1. Holding(r, c, e) /\ e \in Experts /\ slot[r][c][e] \in Nat
      BY <1>2, <1>5 DEF Holding
    <3>2. slot[r][c][e] < Cardinality(Claimed(r, e))
      BY <1>4, <3>1 DEF RankInv, Claims
    <3>3. Cardinality(Claimed(r, e)) \in Nat /\ Cardinality(Claimed(r, e)) <= SourceCapacity
      BY <1>3, <3>1, ClaimedFacts
    <3>4. SourceCapacity \in Nat
      BY <1>3, SetupFacts
    <3>. QED  BY <3>1, <3>2, <3>3, <3>4
  <2>2. A = route[r][t]
    BY <1>0, <1>2, <2>1 DEF Accepted
  <2>3. SourceCapacity \in Nat
    BY <1>3, SetupFacts
  <2>. QED  BY <2>1, <2>2, <2>3
<1>7. put \in Cells /\ put.round = round[r] /\ put.value = t /\ put.writer = <<r, c>>
  <2>1. TypeOK /\ t \in Nat
    BY <1>4, <1>5
  <2>2. /\ Cell(round[r], t, <<r, c>>) \in Cells
        /\ Cell(round[r], t, <<r, c>>).round = round[r]
        /\ Cell(round[r], t, <<r, c>>).value = t
        /\ Cell(round[r], t, <<r, c>>).writer = <<r, c>>
    BY <2>1, NewCell
  <2>. QED  BY <1>0, <2>2
<1>8. /\ pc' \in [Ranks -> [Ctas -> PcNames]] /\ pc'[r][c] = label
      /\ \A q \in Ranks, d \in Ctas : q # r \/ d # c => pc'[q][d] = pc[q][d]
      /\ \A q \in Ranks : q # r => pc'[q] = pc[q]
  <2>1. pc \in [Ranks -> [Ctas -> PcNames]]
    BY <1>4 DEF TypeOK
  <2>. QED  BY <1>2, <2>1, GridTypes
<1>9. label \in {"claim", "fence"}
  BY <1>1
<1>10. Stages'
  <2>1. pc[r][c] # "done" /\ (pc[r][c] \in {"clear", "arrive"} => label \in {"clear", "arrive", "done"})
    BY <1>2
  <2>. QED  BY <1>2, <1>4, <1>8, <2>1, CtaStages
<1>11. PICK u \in Nat : u = t + TokenBlocks /\ TokenCta[u] = c
                          /\ \A x \in Nat : TokenCta[x] = c /\ x < u => x <= t
  BY <1>3, <1>5, StrideFacts
<1>12. /\ token' \in [Ranks -> [Ctas -> Int]] /\ token'[r][c] = u
       /\ \A q \in Ranks, d \in Ctas : q # r \/ d # c => token'[q][d] = token[q][d]
       /\ \A q \in Ranks : q # r => token'[q] = token[q]
  <2>1. token \in [Ranks -> [Ctas -> Int]] /\ u \in Int
    BY <1>4 DEF TypeOK
  <2>2. token' = [token EXCEPT ![r][c] = u]
    BY <1>2, <1>11
  <2>. QED  BY <2>1, <2>2, GridTypes
<1>13. /\ slot' \in [Ranks -> [Ctas -> Slots]] /\ DOMAIN slot'[r][c] = {}
       /\ \A q \in Ranks, d \in Ctas : q # r \/ d # c => slot'[q][d] = slot[q][d]
       /\ \A q \in Ranks : q # r => slot'[q] = slot[q]
  <2>1. PICK v \in Slots : v = <<>> /\ DOMAIN v = {}
    BY EmptySlots
  <2>2. slot \in [Ranks -> [Ctas -> Slots]]
    BY <1>4 DEF TypeOK
  <2>. QED  BY <1>2, <2>1, <2>2, GridTypes
<1>14. /\ row' \in [Ranks -> [Rows -> Cells]] /\ row'[r][t] = put
       /\ \A q \in Ranks, x \in Rows : q # r \/ x # t => row'[q][x] = row[q][x]
       /\ \A q \in Ranks : q # r => row'[q] = row[q]
  <2>1. row \in [Ranks -> [Rows -> Cells]]
    BY <1>4 DEF TypeOK
  <2>. QED  BY <1>2, <1>5, <1>7, <2>1, GridTypes
\* The scales go to the owners of the token's experts, the entries to its slots.
<1>15. /\ scaleCell' \in [Ranks -> [0 .. 1 -> [Ranks \X Rows -> Cells]]]
       /\ \A e \in A : scaleCell'[Owner(e)][f][<<r, t>>] = put
       /\ \A p \in Ranks, b \in 0 .. 1, q \in Ranks, x \in Rows :
            \/ scaleCell'[p][b][<<q, x>>] = scaleCell[p][b][<<q, x>>]
            \/ q = r /\ x = t /\ scaleCell'[p][b][<<q, x>>] = put
  <2>1. scaleCell \in [Ranks -> [0 .. 1 -> [Ranks \X Rows -> Cells]]]
    BY <1>4 DEF TypeOK
  <2>2. PICK k \in Ranks \X Rows, b0 \in 0 .. 1 : k = <<r, t>> /\ b0 = f
    BY <1>3, <1>5
  <2>3. ASSUME NEW p \in Ranks
        PROVE  /\ scaleCell'[p] \in [0 .. 1 -> [Ranks \X Rows -> Cells]]
               /\ (\E e \in A : Owner(e) = p) => scaleCell'[p][f][<<r, t>>] = put
               /\ \A b \in 0 .. 1, q \in Ranks, x \in Rows :
                    \/ scaleCell'[p][b][<<q, x>>] = scaleCell[p][b][<<q, x>>]
                    \/ q = r /\ x = t /\ scaleCell'[p][b][<<q, x>>] = put
    <3>1. PICK g \in [0 .. 1 -> [Ranks \X Rows -> Cells]] : g = scaleCell[p]
      BY <2>1
    <3>2. CASE \E e \in A : Owner(e) = p
      <4>1. scaleCell'[p] = [g EXCEPT ![b0][k] = put]
        BY <1>2, <2>2, <3>1, <3>2
      <4>2. /\ scaleCell'[p] \in [0 .. 1 -> [Ranks \X Rows -> Cells]]
            /\ scaleCell'[p][b0][k] = put
            /\ \A x \in 0 .. 1, y \in Ranks \X Rows : x # b0 \/ y # k => scaleCell'[p][x][y] = g[x][y]
        BY <1>7, <4>1, GridTypes
      <4>. QED  BY SMTT(30), <2>2, <3>1, <4>2
    <3>3. CASE ~\E e \in A : Owner(e) = p
      BY <1>2, <3>1, <3>3
    <3>. QED  BY <3>2, <3>3
  <2>4. scaleCell' = [p \in Ranks |-> scaleCell'[p]]
    BY <1>2
  <2>5. \A e \in A : Owner(e) \in Ranks
    BY <1>3, <1>5, <1>6, OwnerFacts
  <2>. QED  BY <2>3, <2>4, <2>5
<1>16. /\ entryCell' \in [Ranks -> [0 .. 1 -> [Experts \X Ranks \X (0 .. SourceCapacity - 1) -> Cells]]]
       /\ \A p \in Ranks, b \in 0 .. 1, e \in Experts, q \in Ranks, s \in 0 .. SourceCapacity - 1 :
            entryCell'[p][b][<<e, q, s>>] =
              IF b = f /\ e \in A /\ Owner(e) = p /\ q = r /\ s = slot[r][c][e]
              THEN put ELSE entryCell[p][b][<<e, q, s>>]
  <2>1. PICK K : K = Experts \X Ranks \X (0 .. SourceCapacity - 1)
    OBVIOUS
  <2>2. entryCell \in [Ranks -> [0 .. 1 -> [K -> Cells]]]
    BY <1>4, <2>1 DEF TypeOK
  <2>3. PICK b0 \in 0 .. 1 : b0 = f
    BY <1>3
  <2>4. ASSUME NEW p \in Ranks
        PROVE  /\ entryCell'[p] \in [0 .. 1 -> [K -> Cells]]
               /\ \A b \in 0 .. 1, k \in K :
                    entryCell'[p][b][k] =
                      IF b = f /\ k[1] \in A /\ Owner(k[1]) = p /\ k[2] = r /\ k[3] = slot[r][c][k[1]]
                      THEN put ELSE entryCell[p][b][k]
    <3>1. PICK g \in [0 .. 1 -> [K -> Cells]] : g = entryCell[p]
      BY <2>2
    <3>2. PICK h : h = [k \in K |->
                          IF k[1] \in A /\ Owner(k[1]) = p /\ k[2] = r /\ k[3] = slot[r][c][k[1]]
                          THEN put ELSE g[b0][k]]
      OBVIOUS
    <3>3. \A k \in K : h[k] = IF k[1] \in A /\ Owner(k[1]) = p /\ k[2] = r /\ k[3] = slot[r][c][k[1]]
                            THEN put ELSE g[b0][k]
      BY <3>2
    <3>4. h \in [K -> Cells]
      <4>1. \A k \in K : h[k] \in Cells
        BY <1>7, <3>3
      <4>. QED  BY <3>2, <4>1
    <3>5. entryCell'[p] = [g EXCEPT ![b0] = h]
      <4>1. DOMAIN entryCell[p][f] = K
        BY <2>3, <3>1
      <4>. QED  BY <1>2, <2>3, <3>1, <3>2, <4>1
    <3>6. entryCell'[p] \in [0 .. 1 -> [K -> Cells]]
      BY <3>4, <3>5
    <3>7. entryCell'[p][b0] = h /\ \A b \in 0 .. 1 : b # b0 => entryCell'[p][b] = g[b]
      BY <3>5
    <3>. QED  BY <2>3, <3>1, <3>3, <3>6, <3>7
  <2>5. entryCell' = [p \in Ranks |-> entryCell'[p]]
    BY <1>2
  <2>6. entryCell' \in [Ranks -> [0 .. 1 -> [K -> Cells]]]
    BY <2>4, <2>5
  <2>7. ASSUME NEW p \in Ranks, NEW b \in 0 .. 1, NEW e \in Experts, NEW q \in Ranks,
               NEW s \in 0 .. SourceCapacity - 1
        PROVE  entryCell'[p][b][<<e, q, s>>] =
                 IF b = f /\ e \in A /\ Owner(e) = p /\ q = r /\ s = slot[r][c][e]
                 THEN put ELSE entryCell[p][b][<<e, q, s>>]
    <3>1. PICK k \in K : k = <<e, q, s>>
      BY <2>1
    <3>2. k[1] = e /\ k[2] = q /\ k[3] = s
      BY <3>1
    <3>3. entryCell'[p][b][k] =
            IF b = f /\ k[1] \in A /\ Owner(k[1]) = p /\ k[2] = r /\ k[3] = slot[r][c][k[1]]
            THEN put ELSE entryCell[p][b][k]
      BY <2>4
    <3>. QED  BY <3>1, <3>2, <3>3
  <2>. QED  BY <2>1, <2>6, <2>7
<1>17. TypeOK'
  BY <1>2, <1>4, <1>8, <1>12, <1>13, <1>14, <1>15, <1>16, TypesPrimed DEF TypeOK
<1>18. ASSUME NEW q \in Ranks, q # r  PROVE RankInv(q)'
  <2>1. CellsUntouched(q)
    <3>1. \A p \in Ranks, b \in 0 .. 1, x \in Rows : scaleCell'[p][b][<<q, x>>] = scaleCell[p][b][<<q, x>>]
      BY <1>15, <1>18
    <3>2. \A p \in Ranks, b \in 0 .. 1, e \in Experts, s \in 0 .. SourceCapacity - 1 :
            entryCell'[p][b][<<e, q, s>>] = entryCell[p][b][<<e, q, s>>]
      BY <1>16, <1>18
    <3>3. \A p \in Ranks, b \in 0 .. 1, e \in Experts : countCell'[p][b][<<e, q>>] = countCell[p][b][<<e, q>>]
      BY <1>2
    <3>. QED  BY <3>1, <3>2, <3>3 DEF CellsUntouched
  <2>2. OwnUntouched(q) /\ SentUntouched(q)
    BY <1>2, <1>8, <1>12, <1>13, <1>14, <1>18, <2>1 DEF OwnUntouched, SentUntouched
  <2>. QED  BY <1>4, <2>2, Elsewhere DEF IInv
<1>19. SameProgress(r) /\ Bank(r)' = Bank(r)
  BY <1>2, <1>8, <1>9, BankSame DEF SameProgress
<1>20. Words(r)' /\ Tickets(r)'
  BY <1>2, <1>4, <1>19, ControlStill DEF RankInv
<1>21. Arrivals(r)'
  <2>1. (\A d \in Ctas : pc'[r][d] = "done") => \A d \in Ctas : pc[r][d] = "done"
    BY <1>8, <1>9
  <2>. QED  BY <1>2, <1>3, <1>4, <1>19, <2>1, ArrivalsStill DEF RankInv
<1>22. Strides(r)'
  <2>1. Strides(r)
    BY <1>4 DEF RankInv
  <2>2. ASSUME label = "claim"  PROVE u \in Rows
    BY <1>1, <1>3, <1>11, <2>2, SetupFacts DEF Rows
  <2>3. ASSUME NEW d \in Ctas
        PROVE  /\ pc'[r][d] = "count" => d \in CountCtas
               /\ pc'[r][d] = "claim" =>
                    /\ token'[r][d] \in Rows /\ TokenCta[token'[r][d]] = d
                    /\ DOMAIN slot'[r][d] \subseteq route'[r][token'[r][d]]
    <3>1. CASE d = c
      BY <1>8, <1>9, <1>11, <1>12, <1>13, <2>2, <3>1
    <3>2. CASE d # c
      BY <1>2, <1>8, <1>12, <1>13, <2>1, <3>2 DEF Strides
    <3>. QED  BY <3>1, <3>2
  <2>. QED  BY <2>3, Same DEF Strides
\* Token t counts as pushed now, and the slots of CTA c are not in progress any more.
<1>23. \A x \in Rows : Pushed(r, x)' <=> Pushed(r, x) \/ x = t
  <2>1. ASSUME NEW x \in Rows  PROVE Pushed(r, x)' <=> Pushed(r, x) \/ x = t
    <3>1. x \in Nat /\ x < Tokens /\ Tokens \in Int
      BY <1>3, SetupFacts DEF Rows
    <3>2. PICK d \in Ctas : d = TokenCta[x]
      BY <1>3, <3>1, CtaFacts
    <3>3. CASE d # c
      BY <1>5, <1>8, <1>12, <3>2, <3>3, Same DEF Pushed
    <3>4. CASE d = c
      <4>1. Pushed(r, x) <=> x < t
        BY <1>0, <1>2, <3>2, <3>4 DEF Pushed
      <4>2. Pushed(r, x)' <=> (label = "claim" => x < u)
        BY <1>8, <1>9, <1>12, <3>2, <3>4, Same DEF Pushed
      <4>3. label = "fence" => x < u
        BY <1>1, <1>11, <3>1
      <4>4. x < u <=> x <= t
        <5>1. PICK B \in Nat : B = TokenBlocks /\ B > 0
          BY <1>3, SetupFacts
        <5>2. t < u
          BY <1>5, <1>11, <5>1
        <5>3. x < u => x <= t
          BY <1>11, <3>1, <3>2, <3>4
        <5>. QED  BY <1>5, <3>1, <5>2, <5>3
      <4>. QED  BY <1>5, <1>9, <3>1, <4>1, <4>2, <4>3, <4>4
    <3>. QED  BY <3>3, <3>4
  <2>. QED  BY <2>1
<1>24. /\ \A d \in Ctas, x \in Experts : Holding(r, d, x)' <=> Holding(r, d, x) /\ d # c
       /\ \A x \in Experts : RoutedTo(r, x)' = RoutedTo(r, x)
       /\ \A x \in Experts : Claimed(r, x)' = Claimed(r, x)
  <2>1. \A d \in Ctas, x \in Experts : Holding(r, d, x)' <=> Holding(r, d, x) /\ d # c
    BY <1>8, <1>13 DEF Holding
  <2>2. \A x \in Experts : RoutedTo(r, x)' = RoutedTo(r, x)
    BY <1>2, Same DEF RoutedTo
  <2>3. ASSUME NEW x \in Experts, NEW y \in RoutedTo(r, x)
        PROVE  (Pushed(r, y)' \/ (Holding(r, TokenCta[y], x)' /\ token'[r][TokenCta'[y]] = y))
                 <=> (Pushed(r, y) \/ (Holding(r, TokenCta[y], x) /\ token[r][TokenCta[y]] = y))
    <3>0. y \in Rows /\ x \in route[r][y]
      BY DEF RoutedTo
    <3>1. PICK d \in Ctas : d = TokenCta[y]
      BY <1>3, <3>0, CtaFacts, SetupFacts DEF Rows
    <3>2. Holding(r, TokenCta[y], x)' <=> Holding(r, d, x)'
      BY <3>1, Same DEF Holding
    <3>3. Holding(r, d, x)' <=> Holding(r, d, x) /\ d # c
      BY <2>1
    <3>4. token'[r][TokenCta'[y]] = token'[r][d] /\ (d # c => token'[r][d] = token[r][d])
      BY <1>12, <3>1, Same
    <3>5. Pushed(r, y)' <=> Pushed(r, y) \/ y = t
      BY <1>23, <3>0
    <3>6. y = t => d = c /\ Holding(r, c, x) /\ token[r][c] = y
      BY <1>0, <1>5, <1>6, <3>0, <3>1
    <3>7. d = c /\ token[r][c] = y => y = t
      BY <1>0
    <3>. QED  BY <3>1, <3>2, <3>3, <3>4, <3>5, <3>6, <3>7
  <2>4. ASSUME NEW x \in Experts  PROVE Claimed(r, x)' = Claimed(r, x)
    BY <2>2, <2>3 DEF Claimed
  <2>. QED  BY <2>1, <2>2, <2>4
<1>25. Claims(r)'
  <2>1. Claims(r)
    BY <1>4 DEF RankInv
  <2>2. ~Cleared(r)'
    <3>1. ~AllRetired(r)'
      BY <1>5, <1>19, ProgressFacts
    <3>. QED  BY <3>1 DEF Cleared
  <2>3. \A d \in Ctas, x \in Experts :
          Holding(r, d, x)' => Holding(r, d, x) /\ slot'[r][d][x] = slot[r][d][x]
    BY <1>13, <1>24
  <2>. QED  BY <1>2, <1>5, <1>19, <1>24, <2>1, <2>2, <2>3, Same DEF Claims
<1>26. Writers(r)'
  <2>0. Writers(r)
    BY <1>4 DEF RankInv
  <2>1. \A cell : Pending(cell, r) => PendingNext(cell, r)
    BY <1>2, <1>8, <1>9, PendingStill
  <2>2. PendingNext(put, r)
    BY <1>7, <1>8, <1>9 DEF PendingNext
  <2>3. \A p \in Ranks, b \in 0 .. 1, e \in Experts : PendingNext(countCell'[p][b][<<e, r>>], r)
    BY <1>2, <2>0, <2>1 DEF Writers
  <2>4. \A p \in Ranks, b \in 0 .. 1, e \in Experts, s \in 0 .. SourceCapacity - 1 :
          PendingNext(entryCell'[p][b][<<e, r, s>>], r)
    BY <1>16, <2>0, <2>1, <2>2 DEF Writers
  <2>5. \A p \in Ranks, b \in 0 .. 1, x \in Rows : PendingNext(scaleCell'[p][b][<<r, x>>], r)
    <3>1. ASSUME NEW p \in Ranks, NEW b \in 0 .. 1, NEW x \in Rows
          PROVE  PendingNext(scaleCell'[p][b][<<r, x>>], r)
      <4>1. Pending(scaleCell[p][b][<<r, x>>], r)
        BY <2>0 DEF Writers
      <4>2. scaleCell'[p][b][<<r, x>>] = scaleCell[p][b][<<r, x>>] \/ scaleCell'[p][b][<<r, x>>] = put
        BY <1>15
      <4>. QED  BY <2>1, <2>2, <4>1, <4>2
    <3>. QED  BY <3>1
  <2>6. \A x \in Rows : PendingNext(row'[r][x], r)
    BY <1>14, <2>0, <2>1, <2>2 DEF Writers
  <2>. QED  BY <2>3, <2>4, <2>5, <2>6, WritersPrimed
<1>27. Pushes(r)'
  <2>1. Pushes(r)
    BY <1>4 DEF RankInv
  <2>2. \A d \in CountCtas, p \in Ranks : pc'[r][d] \notin {"begin", "count"} =>
          /\ countCell'[p][f][<<p * LocalExperts + d, r>>].round = round'[r]
          /\ countCell'[p][f][<<p * LocalExperts + d, r>>].value =
               Cardinality({x \in Rows : p * LocalExperts + d \in route'[r][x]})
    <3>1. \A d \in CountCtas : pc'[r][d] \notin {"begin", "count"} => pc[r][d] \notin {"begin", "count"}
      BY <1>2, <1>3, <1>8, CtaFacts
    <3>. QED  BY <1>2, <1>3, <2>1, <3>1 DEF Pushes, RoutedTo
  <2>3. \A x \in Rows : Pushed(r, x)' => row'[r][x].round = round'[r]
    BY <1>2, <1>7, <1>14, <1>23, <2>1 DEF Pushes
  <2>4. ASSUME NEW x \in Rows, NEW e \in Experts, Pushed(r, x)', e \in route'[r][x]
        PROVE  scaleCell'[Owner(e)'][f][<<r, x>>].round = round'[r]
    <3>1. PICK p \in Ranks : p = Owner(e)
      BY <1>3, OwnerFacts
    <3>2. Owner(e)' = p
      BY <3>1, Same DEF Owner
    <3>3. CASE x = t
      <4>1. scaleCell'[p][f][<<r, x>>] = put
        BY <1>2, <1>6, <1>15, <2>4, <3>1, <3>3
      <4>. QED  BY <1>2, <1>7, <3>2, <4>1
    <3>4. CASE x # t
      <4>1. scaleCell'[p][f][<<r, x>>] = scaleCell[p][f][<<r, x>>]
        BY <1>3, <1>15, <3>4
      <4>2. scaleCell[p][f][<<r, x>>].round = round[r]
        BY <1>2, <1>3, <1>23, <2>1, <2>4, <3>1, <3>4 DEF Pushes
      <4>. QED  BY <1>2, <3>2, <4>1, <4>2
    <3>. QED  BY <3>3, <3>4
  <2>. QED  BY <1>3, <1>19, <2>2, <2>3, <2>4, Same DEF Pushes, RoutedTo
<1>28. Entries(r)'
  <2>1. Entries(r) /\ Claims(r)
    BY <1>4 DEF RankInv
  <2>2. ASSUME NEW x \in Experts, NEW s \in 0 .. SourceCapacity - 1
        PROVE  /\ x \in A /\ s = slot[r][c][x] => Entry(r, x, s)' = put /\ InProgress(r, x, s)
               /\ ~(x \in A /\ s = slot[r][c][x]) => Entry(r, x, s)' = Entry(r, x, s)
               /\ InProgress(r, x, s)' <=> InProgress(r, x, s) /\ ~(x \in A /\ s = slot[r][c][x])
    <3>1. PICK p \in Ranks : p = Owner(x)
      BY <1>3, OwnerFacts
    <3>2. Owner(x)' = p
      BY <3>1, Same DEF Owner
    <3>3. Entry(r, x, s)' = entryCell'[p][f][<<x, r, s>>] /\ Entry(r, x, s) = entryCell[p][f][<<x, r, s>>]
      BY <1>3, <1>19, <3>1, <3>2 DEF Entry
    <3>4. Entry(r, x, s)' = IF x \in A /\ s = slot[r][c][x] THEN put ELSE Entry(r, x, s)
      BY <1>3, <1>16, <3>1, <3>3
    <3>5. x \in A /\ s = slot[r][c][x] => InProgress(r, x, s)
      BY <1>6 DEF InProgress
    <3>6. InProgress(r, x, s)' <=> \E d \in Ctas : d # c /\ Holding(r, d, x) /\ slot[r][d][x] = s
      BY <1>13, <1>24, Same DEF InProgress
    <3>7. InProgress(r, x, s) <=> \E d \in Ctas : Holding(r, d, x) /\ slot[r][d][x] = s
      BY DEF InProgress
    <3>8. \A d \in Ctas : d # c /\ Holding(r, d, x) /\ Holding(r, c, x) => slot[r][d][x] # slot[r][c][x]
      BY <2>1 DEF Claims
    <3>9. Holding(r, c, x) <=> x \in A
      BY <1>2, <1>6 DEF Holding
    <3>. QED  BY <3>4, <3>5, <3>6, <3>7, <3>8, <3>9
  <2>3. ASSUME NEW x \in Experts
        PROVE  /\ \A s \in 0 .. Cardinality(Claimed(r, x)') - 1 : InProgress(r, x, s)' \/
                    (Entry(r, x, s)'.round = round'[r] /\ Entry(r, x, s)'.value \in RoutedTo(r, x)')
               /\ \A y \in RoutedTo(r, x)' : Pushed(r, y)' =>
                    \E s \in 0 .. Cardinality(Claimed(r, x)') - 1 : ~InProgress(r, x, s)'
                      /\ Entry(r, x, s)'.round = round'[r] /\ Entry(r, x, s)'.value = y
    <3>1. PICK m \in Nat : m = Cardinality(Claimed(r, x)) /\ m <= SourceCapacity
      BY <1>3, ClaimedFacts
    <3>2. /\ \A s \in 0 .. m - 1 : InProgress(r, x, s) \/
               (Entry(r, x, s).round = round[r] /\ Entry(r, x, s).value \in RoutedTo(r, x))
          /\ \A y \in RoutedTo(r, x) : Pushed(r, y) =>
               \E s \in 0 .. m - 1 : ~InProgress(r, x, s)
                 /\ Entry(r, x, s).round = round[r] /\ Entry(r, x, s).value = y
      BY <2>1, <3>1 DEF Entries
    <3>3. Cardinality(Claimed(r, x)') = m /\ RoutedTo(r, x)' = RoutedTo(r, x)
      BY <1>24, <3>1
    <3>4. SourceCapacity \in Nat /\ \A s \in 0 .. m - 1 : s \in 0 .. SourceCapacity - 1
      BY <1>3, <3>1, SetupFacts
    <3>5. x \in A => t \in RoutedTo(r, x)
      BY <1>5, <1>6 DEF RoutedTo
    <3>6. ASSUME NEW s \in 0 .. m - 1
          PROVE  InProgress(r, x, s)' \/
                   (Entry(r, x, s)'.round = round'[r] /\ Entry(r, x, s)'.value \in RoutedTo(r, x))
      <4>1. CASE x \in A /\ s = slot[r][c][x]
        <5>1. Entry(r, x, s)' = put
          BY <2>2, <3>4, <4>1
        <5>. QED  BY <1>2, <1>7, <3>5, <4>1, <5>1
      <4>2. CASE ~(x \in A /\ s = slot[r][c][x])
        <5>1. Entry(r, x, s)' = Entry(r, x, s) /\ (InProgress(r, x, s)' <=> InProgress(r, x, s))
          BY <2>2, <3>4, <4>2
        <5>. QED  BY <1>2, <3>2, <5>1
      <4>. QED  BY <4>1, <4>2
    <3>7. ASSUME NEW y \in RoutedTo(r, x), Pushed(r, y)'
          PROVE  \E s \in 0 .. m - 1 : ~InProgress(r, x, s)'
                    /\ Entry(r, x, s)'.round = round'[r] /\ Entry(r, x, s)'.value = y
      <4>1. y \in Rows /\ x \in route[r][y]
        BY DEF RoutedTo
      <4>2. CASE y = t
        <5>1. x \in A
          BY <1>6, <4>1, <4>2
        <5>2. PICK s \in 0 .. m - 1 : s = slot[r][c][x]
          BY <1>6, <3>1, <5>1
        <5>3. Entry(r, x, s)' = put /\ ~InProgress(r, x, s)'
          BY <2>2, <3>4, <5>1, <5>2
        <5>. QED  BY <1>2, <1>7, <4>2, <5>3
      <4>3. CASE y # t
        <5>1. Pushed(r, y)
          BY <1>23, <3>7, <4>1, <4>3
        <5>2. PICK s \in 0 .. m - 1 : ~InProgress(r, x, s)
                /\ Entry(r, x, s).round = round[r] /\ Entry(r, x, s).value = y
          BY <3>2, <5>1
        <5>3. Entry(r, x, s)' = Entry(r, x, s) /\ ~InProgress(r, x, s)'
          BY <2>2, <3>4, <5>2
        <5>. QED  BY <1>2, <5>2, <5>3
      <4>. QED  BY <4>2, <4>3
    <3>. QED  BY <3>3, <3>6, <3>7
  <2>. QED  BY <2>3, Same DEF Entries
<1>29. RankInv(r)'
  BY <1>20, <1>21, <1>22, <1>25, <1>26, <1>27, <1>28 DEF RankInv
<1>. QED  BY <1>10, <1>17, <1>18, <1>29, Same DEF IInv
-----------------------------------------------------------------------------
(* The invariant. *)

LEMMA BanksFacts ==
  ASSUME NEW K
  PROVE  /\ Banks(K) \in [Ranks -> [0 .. 1 -> [K -> Cells]]]
         /\ \A p \in Ranks, f \in 0 .. 1, k \in K :
              /\ Banks(K)[p][f][k].round = 0 /\ Banks(K)[p][f][k].value = 0
              /\ Banks(K)[p][f][k].writer = Landed
<1>1. PICK cell : cell = Cell(0, 0, Landed)
  OBVIOUS
<1>2. cell \in Cells /\ cell.round = 0 /\ cell.value = 0 /\ cell.writer = Landed
  BY <1>1 DEF Cell, Cells
<1>3. Banks(K) = [p \in Ranks |-> [f \in 0 .. 1 |-> [k \in K |-> cell]]]
  BY <1>1 DEF Banks
<1>. QED  BY <1>2, <1>3

LEMMA InitIInv ==
  ASSUME Init
  PROVE  IInv
<1>0. setup \in Setups
  BY DEF Init
<1>1. PICK g \in 0 .. GenerationLimit : g = FirstGeneration /\ Gen[0] = g
  BY <1>0, SetupFacts, GenFacts
<1>2. GenerationLimit \in Nat /\ MaxRounds \in Nat /\ g \in Nat
  BY <1>0, SetupFacts
<1>3. /\ \A f \in 0 .. 1 : LastOfParity(g, f) \in Nat
      /\ Parity(g) \in 0 .. 1 /\ 1 - Parity(g) \in 0 .. 1
      /\ LastOfParity(g, Parity(g)) = g /\ LastOfParity(g, 1 - Parity(g)) # Advance(g)
  <2>1. \A f \in 0 .. 1 : LastOfParity(g, f) \in Nat
    BY <1>2 DEF LastOfParity
  <2>. QED  BY <2>1, AdvanceFacts
<1>4. /\ countCell \in [Ranks -> [0 .. 1 -> [Experts \X Ranks -> Cells]]]
      /\ \A p \in Ranks, f \in 0 .. 1, k \in Experts \X Ranks :
           countCell[p][f][k].round = 0 /\ countCell[p][f][k].value = 0 /\ countCell[p][f][k].writer = Landed
  <2>1. PICK K : K = Experts \X Ranks
    OBVIOUS
  <2>2. countCell = Banks(K)
    BY <2>1 DEF Init
  <2>. QED  BY <2>1, <2>2, BanksFacts
<1>5. /\ entryCell \in [Ranks -> [0 .. 1 -> [Experts \X Ranks \X (0 .. SourceCapacity - 1) -> Cells]]]
      /\ \A p \in Ranks, f \in 0 .. 1, e \in Experts, q \in Ranks, s \in 0 .. SourceCapacity - 1 :
           entryCell[p][f][<<e, q, s>>].writer = Landed
  <2>1. PICK K : K = Experts \X Ranks \X (0 .. SourceCapacity - 1)
    OBVIOUS
  <2>2. entryCell = Banks(K)
    BY <2>1 DEF Init
  <2>3. \A e \in Experts, q \in Ranks, s \in 0 .. SourceCapacity - 1 : <<e, q, s>> \in K
    BY <2>1
  <2>. QED  BY <2>1, <2>2, <2>3, BanksFacts
<1>6. /\ scaleCell \in [Ranks -> [0 .. 1 -> [Ranks \X Rows -> Cells]]]
      /\ \A p \in Ranks, f \in 0 .. 1, k \in Ranks \X Rows : scaleCell[p][f][k].writer = Landed
  <2>1. PICK K : K = Ranks \X Rows
    OBVIOUS
  <2>2. scaleCell = Banks(K)
    BY <2>1 DEF Init
  <2>. QED  BY <2>1, <2>2, BanksFacts
<1>7. /\ row \in [Ranks -> [Rows -> Cells]]
      /\ \A q \in Ranks, t \in Rows : row[q][t].round = 0 /\ row[q][t].writer = Landed
  <2>1. PICK cell : cell = Cell(0, 0, Landed)
    OBVIOUS
  <2>2. cell \in Cells /\ cell.round = 0 /\ cell.writer = Landed
    BY <2>1 DEF Cell, Cells
  <2>3. row = [r \in Ranks |-> [t \in Rows |-> cell]]
    BY <2>1 DEF Init
  <2>. QED  BY <2>2, <2>3
<1>8. /\ arrivals \in [Ranks -> [0 .. 1 -> [Ranks -> Nat]]]
      /\ \A p \in Ranks, f \in 0 .. 1, q \in Ranks : arrivals[p][f][q] = LastOfParity(g, f)
  <2>1. arrivals = [p \in Ranks |-> [f \in 0 .. 1 |-> [r \in Ranks |-> LastOfParity(g, f)]]]
    BY <1>1 DEF Init
  <2>. QED  BY <1>3, <2>1
<1>9. /\ ready \in [Ranks -> [gen : Nat, metadata : BOOLEAN]]
      /\ \A q \in Ranks : ready[q].gen = g
  <2>1. ready = [r \in Ranks |-> [gen |-> g, metadata |-> g # 0]]
    BY <1>1 DEF Init
  <2>. QED  BY <1>2, <2>1
<1>10. /\ slot \in [Ranks -> [Ctas -> Slots]] /\ pc \in [Ranks -> [Ctas -> PcNames]]
       /\ \A q \in Ranks, c \in Ctas : pc[q][c] = "done"
  BY EmptySlots DEF Init, PcNames
<1>11. TypeOK
  <2>1. round \in [Ranks -> 0 .. MaxRounds] /\ stage \in [Ranks -> {"pre", "reading", "released"}]
          /\ route \in [Ranks -> [Rows -> SUBSET Experts]]
    BY <1>2 DEF Init
  <2>2. counts \in [Ranks -> [0 .. 1 -> [Experts -> Nat]]] /\ retire \in [Ranks -> [0 .. 1 -> Nat]]
    BY DEF Init
  <2>3. generation \in [Ranks -> [Ctas -> Nat]] /\ token \in [Ranks -> [Ctas -> Int]]
    BY DEF Init
  <2>. QED  BY <1>0, <1>4, <1>5, <1>6, <1>7, <1>8, <1>9, <1>10, <2>1, <2>2, <2>3 DEF TypeOK
<1>12. \A q \in Ranks : round[q] = 0 /\ stage[q] = "released"
  BY DEF Init
<1>13. \A q \in Ranks : AllRetired(q) /\ Cleared(q)
  BY <1>10 DEF AllRetired, Cleared
<1>14. Stages
  BY <1>10, <1>12 DEF Stages
<1>15. ASSUME NEW q \in Ranks  PROVE RankInv(q)
  <2>1. Bank(q) = Parity(g) /\ round[q] = 0 /\ Gen[round[q]] = g
    BY <1>1, <1>12 DEF Bank
  <2>2. Words(q)
    BY <1>9, <1>13, <2>1 DEF Words
  <2>3. Tickets(q)
    <3>1. retire[q][Bank(q)] = 0 /\ retire[q][1 - Bank(q)] = 0
      BY <1>3, <2>1 DEF Init
    <3>. QED  BY <1>10, <1>13, <3>1 DEF Tickets
  <2>4. Arrivals(q)
    BY <1>3, <1>8, <1>13, <2>1 DEF Arrivals
  <2>5. Strides(q)
    BY <1>10 DEF Strides
  <2>6. \A c \in Ctas, e \in Experts : ~Holding(q, c, e)
    BY <1>10 DEF Holding
  <2>7. Claims(q)
    <3>1. \A e \in Experts : counts[q][Bank(q)][e] = 0 /\ counts[q][1 - Bank(q)][e] = 0
      BY <1>3, <2>1 DEF Init
    <3>. QED  BY <1>13, <2>6, <3>1 DEF Claims
  <2>8. Writers(q)
    <3>1. \A e \in Experts, t \in Rows : <<e, q>> \in Experts \X Ranks /\ <<q, t>> \in Ranks \X Rows
      OBVIOUS
    <3>. QED  BY <1>4, <1>5, <1>6, <1>7, <3>1 DEF Writers, Pending
  <2>9. \A e \in Experts : RoutedTo(q, e) = {} /\ Claimed(q, e) = {}
    BY DEF Init, RoutedTo, Claimed
  <2>10. Pushes(q)
    <3>1. \A c \in CountCtas, p \in Ranks :
            /\ countCell[p][Bank(q)][<<p * LocalExperts + c, q>>].round = 0
            /\ countCell[p][Bank(q)][<<p * LocalExperts + c, q>>].value =
                 Cardinality(RoutedTo(q, p * LocalExperts + c))
      <4>1. ASSUME NEW c \in CountCtas, NEW p \in Ranks
            PROVE  /\ countCell[p][Bank(q)][<<p * LocalExperts + c, q>>].round = 0
                   /\ countCell[p][Bank(q)][<<p * LocalExperts + c, q>>].value =
                        Cardinality(RoutedTo(q, p * LocalExperts + c))
        <5>1. PICK e \in Experts : e = p * LocalExperts + c
          BY <1>0, OwnerFacts
        <5>2. <<e, q>> \in Experts \X Ranks
          OBVIOUS
        <5>3. Cardinality(RoutedTo(q, e)) = 0
          BY <2>9, FS_EmptySet
        <5>. QED  BY <1>3, <1>4, <2>1, <5>1, <5>2, <5>3
      <4>. QED  BY <4>1
    <3>2. \A t \in Rows, e \in Experts : e \notin route[q][t]
      BY DEF Init
    <3>. QED  BY <1>7, <2>1, <3>1, <3>2 DEF Pushes
  <2>11. Entries(q)
    <3>1. Cardinality({}) = 0
      BY FS_EmptySet
    <3>. QED  BY <2>9, <3>1 DEF Entries
  <2>. QED  BY <2>2, <2>3, <2>4, <2>5, <2>7, <2>8, <2>10, <2>11 DEF RankInv
<1>. QED  BY <1>11, <1>14, <1>15 DEF IInv

LEMMA StutterStep ==
  ASSUME IInv, UNCHANGED vars
  PROVE  IInv'
<1>1. /\ setup' = setup /\ round' = round /\ stage' = stage /\ route' = route
      /\ ready' = ready /\ counts' = counts /\ retire' = retire /\ arrivals' = arrivals
      /\ countCell' = countCell /\ entryCell' = entryCell /\ scaleCell' = scaleCell /\ row' = row
      /\ pc' = pc /\ generation' = generation /\ token' = token /\ slot' = slot
  BY DEF vars, control, header, staging, cta
<1>2. TypeOK /\ Stages
  BY DEF IInv
<1>3. TypeOK'
  BY <1>1, <1>2, TypesPrimed DEF TypeOK
<1>4. Stages'
  BY <1>1, <1>2, Same DEF Stages, AllRetired
<1>5. ASSUME NEW q \in Ranks  PROVE RankInv(q)'
  <2>1. OwnUntouched(q) /\ SentUntouched(q)
    BY <1>1 DEF OwnUntouched, SentUntouched, CellsUntouched
  <2>. QED  BY <1>1, <1>2, <2>1, Elsewhere DEF IInv
<1>. QED  BY <1>1, <1>3, <1>4, <1>5, Same DEF IInv

\* The inductive invariant: what each rank has sent, read off where its CTAs are.
THEOREM Invariance == Spec => []IInv
<1>1. Init => IInv
  BY InitIInv
<1>2. IInv /\ [Next \/ Finished]_vars => IInv'
  <2>1. SUFFICES ASSUME IInv, [Next \/ Finished]_vars  PROVE IInv'
    OBVIOUS
  <2>2. CASE UNCHANGED vars
    BY <2>1, <2>2, StutterStep
  <2>3. CASE Finished
    BY <2>1, <2>3, StutterStep DEF Finished
  <2>4. ASSUME NEW r \in Ranks, RankStep(r), setup' = setup  PROVE IInv'
    <3>1. CASE Launch(r)
      BY <2>1, <2>4, <3>1, LaunchStep
    <3>2. CASE Gather(r)
      BY <2>1, <2>4, <3>2, GatherStep
    <3>3. CASE Release(r)
      BY <2>1, <2>4, <3>3, ReleaseStep
    <3>4. ASSUME NEW c \in Ctas, CtaStep(r, c)  PROVE IInv'
      <4>1. CASE Begin(r, c)
        BY <2>1, <2>4, <4>1, BeginStep
      <4>2. CASE PushCounts(r, c)
        BY <2>1, <2>4, <4>2, PushCountsStep
      <4>3. CASE PushToken(r, c)
        BY <2>1, <2>4, <4>3, PushTokenStep
      <4>4. CASE Fence(r, c)
        BY <2>1, <2>4, <4>4, FenceStep
      <4>5. CASE Retire(r, c)
        BY <2>1, <2>4, <4>5, RetireStep
      <4>6. CASE ClearCounts(r, c)
        BY <2>1, <2>4, <4>6, ClearCountsStep
      <4>7. CASE EndArrive(r, c)
        BY <2>1, <2>4, <4>7, EndArriveStep
      <4>8. CASE \E e \in Experts : Claim(r, c, e)
        BY <2>1, <2>4, <4>8, ClaimStep
      <4>9. CASE \E p \in Ranks : Arrive(r, c, p)
        BY <2>1, <2>4, <4>9, ArriveStep
      <4>. QED  BY <3>4, <4>1, <4>2, <4>3, <4>4, <4>5, <4>6, <4>7, <4>8, <4>9 DEF CtaStep
    <3>. QED  BY <2>4, <3>1, <3>2, <3>3, <3>4 DEF RankStep
  <2>. QED  BY <2>1, <2>2, <2>3, <2>4 DEF Next
<1>. QED  BY <1>1, <1>2, PTL DEF Spec

\* What an owner reads is the round it is in, complete and landed: the counts, one entry
\* for each token routed there, their scales and their rows.
THEOREM AlwaysOwnerReadsRound == Spec => []OwnerReadsRound
<1>1. IInv => OwnerReadsRound
  <2>0. SUFFICES ASSUME IInv  PROVE OwnerReadsRound
    OBVIOUS
  <2>1. ASSUME NEW r \in Ranks, stage[r] = "reading",
               NEW q \in Ranks, NEW e \in Experts, Owner(e) = r
        PROVE  LET f == Parity(ready[r].gen)
                   n == countCell[r][f][<<e, q>>]
                   entries == {entryCell[r][f][<<e, q, s>>] : s \in 0 .. n.value - 1}
               IN  /\ Holds(n, round[r]) /\ n.value = Cardinality(RoutedTo(q, e))
                   /\ \A x \in entries : Holds(x, round[r])
                   /\ {x.value : x \in entries} = RoutedTo(q, e)
                   /\ \A t \in RoutedTo(q, e) :
                        Holds(scaleCell[r][f][<<q, t>>], round[r]) /\ Holds(row[q][t], round[r])
    <3>1. /\ TypeOK /\ Stages /\ RankInv(q) /\ RankInv(r) /\ setup \in Setups
          /\ round[q] = round[r] /\ AllRetired(q) /\ AllRetired(r)
      BY <2>0, <2>1 DEF IInv, Stages, TypeOK
    <3>2. PICK f \in 0 .. 1 : f = Bank(q) /\ f = Parity(ready[r].gen)
      <4>1. ready[r].gen = Gen[round[r]]
        BY <3>1 DEF RankInv, Words
      <4>2. Bank(q) \in 0 .. 1 /\ Bank(q) = Parity(Gen[round[r]])
        BY <3>1, BankFacts DEF Bank
      <4>. QED  BY <4>1, <4>2
    <3>3. /\ \A t \in Rows : Pushed(q, t)
          /\ \A c \in Ctas, x \in Experts : ~Holding(q, c, x)
          /\ \A cell : Pending(cell, q) => cell.writer = Landed
      <4>1. \A c \in Ctas : pc[q][c] \in {"clear", "arrive", "done"}
        BY <3>1 DEF AllRetired
      <4>2. \A t \in Rows : TokenCta[t] \in Ctas
        BY <3>1, CtaFacts, SetupFacts DEF Rows
      <4>3. \A t \in Rows : Pushed(q, t)
        BY <4>1, <4>2 DEF Pushed
      <4>4. \A c \in Ctas, x \in Experts : ~Holding(q, c, x)
        BY <4>1 DEF Holding
      <4>. QED  BY <4>1, <4>3, <4>4 DEF Pending
    <3>4. PICK m \in Nat : m = Cardinality(RoutedTo(q, e))
      BY <3>1, ClaimedFacts
    <3>5. /\ RoutedTo(q, e) \subseteq Rows /\ Claimed(q, e) = RoutedTo(q, e)
          /\ SourceCapacity \in Nat /\ m <= SourceCapacity
      <4>1. RoutedTo(q, e) \subseteq Rows
        BY DEF RoutedTo
      <4>2. Claimed(q, e) = RoutedTo(q, e)
        BY <3>3, <4>1 DEF Claimed
      <4>. QED  BY <3>1, <3>4, <4>1, <4>2, ClaimedFacts, SetupFacts
    <3>6. PICK n : n = countCell[r][f][<<e, q>>]
      OBVIOUS
    <3>7. Holds(n, round[r]) /\ n.value = m
      <4>1. PICK c \in CountCtas : e = r * LocalExperts + c
        BY <2>1, <3>1, OwnerFacts
      <4>2. pc[q][c] \notin {"begin", "count"}
        BY <3>1, CtaFacts DEF AllRetired
      <4>3. n.round = round[q] /\ n.value = m
        BY SMTT(30), <3>1, <3>2, <3>4, <3>6, <4>1, <4>2 DEF RankInv, Pushes
      <4>4. Pending(n, q)
        BY <3>1, <3>6 DEF RankInv, Writers
      <4>. QED  BY <3>1, <3>3, <4>3, <4>4 DEF Holds
    <3>8. ASSUME NEW s \in 0 .. m - 1
          PROVE  /\ entryCell[r][f][<<e, q, s>>] = Entry(q, e, s)
                 /\ Holds(Entry(q, e, s), round[r]) /\ Entry(q, e, s).value \in RoutedTo(q, e)
      <4>1. s \in 0 .. SourceCapacity - 1
        BY <3>5
      <4>2. entryCell[r][f][<<e, q, s>>] = Entry(q, e, s)
        BY <2>1, <3>2 DEF Entry
      <4>3. Pending(Entry(q, e, s), q)
        BY <3>1, <4>1, <4>2 DEF RankInv, Writers
      <4>4. ~InProgress(q, e, s)
        BY <3>3 DEF InProgress
      <4>5. Entry(q, e, s).round = round[q] /\ Entry(q, e, s).value \in RoutedTo(q, e)
        BY <3>1, <3>4, <3>5, <4>4 DEF RankInv, Entries
      <4>. QED  BY <3>1, <3>3, <4>2, <4>3, <4>5 DEF Holds
    <3>9. \A t \in RoutedTo(q, e) : \E s \in 0 .. m - 1 : Entry(q, e, s).value = t
      BY <3>1, <3>3, <3>4, <3>5 DEF RankInv, Entries
    <3>10. ASSUME NEW t \in RoutedTo(q, e)
           PROVE  Holds(scaleCell[r][f][<<q, t>>], round[r]) /\ Holds(row[q][t], round[r])
      <4>1. t \in Rows /\ e \in route[q][t] /\ Pushed(q, t)
        BY <3>3, <3>5 DEF RoutedTo
      <4>2. scaleCell[r][f][<<q, t>>].round = round[q] /\ row[q][t].round = round[q]
        BY <2>1, <3>1, <3>2, <4>1 DEF RankInv, Pushes
      <4>3. Pending(scaleCell[r][f][<<q, t>>], q) /\ Pending(row[q][t], q)
        BY <3>1, <4>1 DEF RankInv, Writers
      <4>. QED  BY <3>1, <3>3, <4>2, <4>3 DEF Holds
    <3>11. PICK entries : entries = {entryCell[r][f][<<e, q, s>>] : s \in 0 .. m - 1}
      OBVIOUS
    <3>12. (\A x \in entries : Holds(x, round[r])) /\ {x.value : x \in entries} = RoutedTo(q, e)
      <4>1. \A x \in entries : Holds(x, round[r]) /\ x.value \in RoutedTo(q, e)
        BY <3>8, <3>11
      <4>2. \A t \in RoutedTo(q, e) : \E x \in entries : x.value = t
        BY <3>8, <3>9, <3>11
      <4>. QED  BY <4>1, <4>2
    <3>. QED  BY <3>2, <3>4, <3>6, <3>7, <3>10, <3>11, <3>12
  <2>. QED  BY ZenonT(60), <2>1 DEF OwnerReadsRound
<1>. QED  BY <1>1, Invariance, PTL

\* Every CTA works with the generation of its round, whichever word it read it from.
THEOREM AlwaysGenerationAgrees == Spec => []GenerationAgrees
<1>1. IInv => GenerationAgrees
  BY DEF IInv, RankInv, Words, GenerationAgrees, GenerationAfter, Gen
<1>. QED  BY <1>1, Invariance, PTL

\* Once a rank has left its dispatch, its slot counters and tickets are zero again.
THEOREM AlwaysCountersRestart == Spec => []CountersRestart
<1>1. IInv => CountersRestart
  <2>1. ASSUME IInv, NEW r \in Ranks, stage[r] # "pre", NEW f \in 0 .. 1
        PROVE  retire[r][f] = 0 /\ \A e \in Experts : counts[r][f][e] = 0
    <3>1. TypeOK /\ Stages /\ Tickets(r) /\ Claims(r)
      BY <2>1 DEF IInv, RankInv
    <3>2. AllRetired(r) /\ Cleared(r)
      BY <2>1, <3>1 DEF Stages, AllRetired, Cleared
    <3>3. f = Bank(r) \/ f = 1 - Bank(r)
      BY <3>1, BankFacts
    <3>. QED  BY <3>1, <3>2, <3>3 DEF Tickets, Claims
  <2>. QED  BY <2>1 DEF CountersRestart
<1>. QED  BY <1>1, Invariance, PTL
=============================================================================
