----------------------------- MODULE MegaDispatch -----------------------------
(***************************************************************************)
(* The dispatch that opens a MegaMoE round: kernel mega_moe_pre_dispatch   *)
(* (impls/fp4_mega_moe_pre_dispatch.cuh) on every rank, and the owner's    *)
(* wait for it in GEMM1 (prepare_expert_metadata).                         *)
(*                                                                         *)
(* A rank's grid has one count CTA per local expert and some token CTAs.   *)
(* Count CTAs push to every owner how many tokens this rank routes to each *)
(* of its experts; token CTAs claim a slot per route, push scales and      *)
(* route entries to the owners and keep the quantized row in local memory, *)
(* where owners fetch it.  The last CTA to retire resets the slot counters *)
(* and writes the round's generation into the arrival slot of every peer.  *)
(* Staging, slot counters and arrivals are double buffered by the parity   *)
(* of the generation; the rows are not.                                    *)
(*                                                                         *)
(* The end of a round appears as stage "released": a rank starts its next  *)
(* round when all ranks have released this one (ScatterBarrier).           *)
(***************************************************************************)
EXTENDS Integers, FiniteSets

CONSTANTS Setups,            \* the deployments considered
          Live,              \* bound: those whose progress is checked
          GenerationLimit,   \* kFusedRoundGenerationLimit
          MaxRounds          \* bound: rounds

\* A deployment: ranks, experts of a rank, tokens of a rank, token CTAs of the grid, rows
\* a rank may stage for one expert; and, as bounds, the generation of the last round
\* played before and the routings a round may have.
ASSUME DispatchAssumption ==
  /\ GenerationLimit \in Nat /\ GenerationLimit % 2 = 1 /\ GenerationLimit >= 5
  /\ MaxRounds \in Nat /\ Live \subseteq Setups
  /\ \A s \in Setups :
       /\ s.ranks \in {1, 2, 4, 8, 16, 32, 64}
       /\ {s.localExperts, s.tokenBlocks, s.sourceCapacity} \subseteq Nat \ {0}
       /\ s.tokens \in 0 .. s.sourceCapacity
       /\ s.firstGeneration \in 0 .. GenerationLimit
       /\ s.routings \subseteq [0 .. s.tokens - 1 -> SUBSET (0 .. s.ranks * s.localExperts - 1)]

VARIABLE setup  \* the deployment at hand

R == setup.ranks                      \* NumRanks
LocalExperts == setup.localExperts    \* kNumLocalExperts
Tokens == setup.tokens                \* num_tokens of a rank
TokenBlocks == setup.tokenBlocks
SourceCapacity == setup.sourceCapacity
FirstGeneration == setup.firstGeneration
Routings == setup.routings

Ranks == 0 .. R - 1
Experts == 0 .. R * LocalExperts - 1
Rows == 0 .. Tokens - 1
CountCtas == 0 .. LocalExperts - 1
Ctas == 0 .. LocalExperts + TokenBlocks - 1
TokenCtas == Ctas \ CountCtas
Owner(e) == e \div LocalExperts

\* Generations: 0 is fresh memory, then 1, 2, ... up to the limit and back to 2.
Advance(g) == IF g >= GenerationLimit THEN 2 ELSE g + 1
Parity(g) == g % 2

VARIABLES
  round,       \* round[r]: rounds rank r has started
  stage,       \* stage[r]: "pre", then "reading" in GEMM1, then "released"
  route,       \* route[r][t]: the experts of token t in the current round
  ready,       \* ready[r]: generation and metadata bit of preprocess_ready[0]
  counts,      \* counts[r][parity][e]: dispatch_counts, the slot counters
  retire,      \* retire[r][parity]: dispatch_retire
  arrivals,    \* arrivals[p][parity][r]: dispatch_arrivals of rank p
  countCell,   \* countCell[p][parity][<<e, r>>]: staging_counts of owner p
  entryCell,   \* entryCell[p][parity][<<e, r, slot>>]: staging_tokens of owner p
  scaleCell,   \* scaleCell[p][parity][<<r, t>>]: staging_scales of owner p
  row,         \* row[r][t]: dispatch_fp4 of rank r, read by the owners
  pc,          \* pc[r][c]: where the CTA is
  generation,  \* generation[r][c]: s_generation
  token,       \* token[r][c]: the token a token CTA works on
  slot         \* slot[r][c]: slots claimed for that token, by expert

control == <<round, stage, route>>
header == <<ready, counts, retire, arrivals>>
staging == <<countCell, entryCell, scaleCell, row>>
cta == <<generation, token, slot>>
vars == <<setup, control, header, staging, pc, cta>>

(***************************************************************************)
(* A memory cell remembers the round that wrote it and, until that CTA has *)
(* executed its fence, the CTA whose store may still be in flight.         *)
(***************************************************************************)
Landed == <<>>
Cell(rnd, value, writer) == [round |-> rnd, value |-> value, writer |-> writer]
Holds(cell, rnd) == cell.round = rnd /\ cell.writer = Landed
Drain(cells, writer) ==
  [k \in DOMAIN cells |-> IF cells[k].writer = writer
                          THEN [cells[k] EXCEPT !.writer = Landed] ELSE cells[k]]
DrainAll(banks, writer) ==
  [p \in Ranks |-> [f \in 0 .. 1 |-> Drain(banks[p][f], writer)]]

\* The arrival slot of parity f after a run of rounds that ended with g.
LastOfParity(g, f) == IF Parity(g) = f \/ g = 0 THEN g ELSE g - 1

Banks(keys) == [p \in Ranks |-> [f \in 0 .. 1 |-> [k \in keys |-> Cell(0, 0, Landed)]]]

Init ==
  /\ setup \in Setups
  /\ round = [r \in Ranks |-> 0]
  /\ stage = [r \in Ranks |-> "released"]
  /\ route = [r \in Ranks |-> [t \in Rows |-> {}]]
  /\ ready = [r \in Ranks |-> [gen |-> FirstGeneration, metadata |-> FirstGeneration # 0]]
  /\ counts = [r \in Ranks |-> [f \in 0 .. 1 |-> [e \in Experts |-> 0]]]
  /\ retire = [r \in Ranks |-> [f \in 0 .. 1 |-> 0]]
  /\ arrivals = [p \in Ranks |-> [f \in 0 .. 1 |->
                   [r \in Ranks |-> LastOfParity(FirstGeneration, f)]]]
  /\ countCell = Banks(Experts \X Ranks)
  /\ entryCell = Banks(Experts \X Ranks \X (0 .. SourceCapacity - 1))
  /\ scaleCell = Banks(Ranks \X Rows)
  /\ row = [r \in Ranks |-> [t \in Rows |-> Cell(0, 0, Landed)]]
  /\ pc = [r \in Ranks |-> [c \in Ctas |-> "done"]]
  /\ generation = [r \in Ranks |-> [c \in Ctas |-> 0]]
  /\ token = [r \in Ranks |-> [c \in Ctas |-> 0]]
  /\ slot = [r \in Ranks |-> [c \in Ctas |-> <<>>]]

Goto(r, c, label) == pc' = [pc EXCEPT ![r][c] = label]
RoutedTo(r, e) == {t \in Rows : e \in route[r][t]}

\* The host launches the next round once this one has been handed off by all.
Launch(r) ==
  /\ stage[r] = "released" /\ round[r] < MaxRounds
  /\ \A q \in Ranks : round[q] > round[r] \/ (round[q] = round[r] /\ stage[q] = "released")
  /\ round' = [round EXCEPT ![r] = @ + 1]
  /\ stage' = [stage EXCEPT ![r] = "pre"]
  /\ \E assignment \in Routings : route' = [route EXCEPT ![r] = assignment]
  /\ pc' = [pc EXCEPT ![r] = [c \in Ctas |-> "begin"]]
  /\ UNCHANGED <<header, staging, cta>>

\* The CTA leader advances the generation the preceding GEMM left.
Begin(r, c) ==
  /\ pc[r][c] = "begin"
  /\ generation' = [generation EXCEPT ![r][c] = Advance(ready[r].gen)]
  /\ token' = [token EXCEPT ![r][c] = c - LocalExperts]
  /\ slot' = [slot EXCEPT ![r][c] = <<>>]
  /\ Goto(r, c, IF c \in CountCtas THEN "count"
                ELSE IF c - LocalExperts < Tokens THEN "claim" ELSE "fence")
  /\ UNCHANGED <<control, header, staging>>

\* Count CTA c stores its local expert's count at every owner.
PushCounts(r, c) ==
  /\ pc[r][c] = "count"
  /\ countCell' = [p \in Ranks |->
       [countCell[p] EXCEPT ![Parity(generation[r][c])][<<p * LocalExperts + c, r>>] =
          Cell(round[r], Cardinality(RoutedTo(r, p * LocalExperts + c)), <<r, c>>)]]
  /\ Goto(r, c, "fence")
  /\ UNCHANGED <<control, header, entryCell, scaleCell, row, cta>>

\* One lane's atomicAdd for a route of the current token.
Claim(r, c, e) ==
  /\ pc[r][c] = "claim"
  /\ e \in route[r][token[r][c]] \ DOMAIN slot[r][c]
  /\ LET f == Parity(generation[r][c])
     IN  /\ slot' = [slot EXCEPT ![r][c] =
                       [x \in DOMAIN @ \cup {e} |-> IF x = e THEN counts[r][f][e] ELSE @[x]]]
         /\ counts' = [counts EXCEPT ![r][f][e] = @ + 1]
  /\ UNCHANGED <<control, ready, retire, arrivals, staging, pc, generation, token>>

\* The routes of the current token that were given a slot.
Accepted(r, c) == {e \in DOMAIN slot[r][c] : slot[r][c][e] < SourceCapacity}

\* Once all lanes have claimed: scales once per owner, an entry per route, and
\* the quantized row; then the CTA's next token.
PushToken(r, c) ==
  LET f == Parity(generation[r][c])
      t == token[r][c]
      put == Cell(round[r], t, <<r, c>>)
  IN
  /\ pc[r][c] = "claim" /\ DOMAIN slot[r][c] = route[r][t]
  /\ entryCell' = [p \in Ranks |-> [entryCell[p] EXCEPT ![f] =
       [k \in DOMAIN @ |->
          IF k[1] \in Accepted(r, c) /\ Owner(k[1]) = p /\ k[2] = r /\ k[3] = slot[r][c][k[1]]
          THEN put ELSE @[k]]]]
  /\ scaleCell' = [p \in Ranks |->
       IF \E e \in Accepted(r, c) : Owner(e) = p
       THEN [scaleCell[p] EXCEPT ![f][<<r, t>>] = put] ELSE scaleCell[p]]
  /\ row' = [row EXCEPT ![r][t] = put]
  /\ token' = [token EXCEPT ![r][c] = t + TokenBlocks]
  /\ slot' = [slot EXCEPT ![r][c] = <<>>]
  /\ Goto(r, c, IF t + TokenBlocks < Tokens THEN "claim" ELSE "fence")
  /\ UNCHANGED <<control, header, countCell, generation>>

\* Every writer warp fences, then the CTA synchronises.
Fence(r, c) ==
  /\ pc[r][c] = "fence"
  /\ countCell' = DrainAll(countCell, <<r, c>>)
  /\ entryCell' = DrainAll(entryCell, <<r, c>>)
  /\ scaleCell' = DrainAll(scaleCell, <<r, c>>)
  /\ row' = [row EXCEPT ![r] = Drain(@, <<r, c>>)]
  /\ Goto(r, c, "retire")
  /\ UNCHANGED <<control, header, cta>>

\* atomicInc wraps to zero with the last CTA's ticket.
NextTicket(ticket) == IF ticket >= Cardinality(Ctas) - 1 THEN 0 ELSE ticket + 1

\* Mutant: the first CTA to retire is taken for the last.
LastTicketFirst(ticket) == ticket = 0

LastTicket(ticket) == ticket = Cardinality(Ctas) - 1

\* A CTA takes a retirement ticket; the last one stores the generation.
Retire(r, c) ==
  /\ pc[r][c] = "retire"
  /\ LET f == Parity(generation[r][c])
         ticket == retire[r][f]
     IN  /\ retire' = [retire EXCEPT ![r][f] = NextTicket(ticket)]
         /\ ready' = IF LastTicket(ticket)
                     THEN [ready EXCEPT ![r] = [gen |-> generation[r][c], metadata |-> FALSE]]
                     ELSE ready
         /\ Goto(r, c, IF LastTicket(ticket) THEN "clear" ELSE "done")
  /\ UNCHANGED <<control, counts, arrivals, staging, cta>>

\* Mutant: the slot counters keep counting.
ClearCountsNothing(r, c) ==
  /\ pc[r][c] = "clear" /\ Goto(r, c, "arrive")
  /\ UNCHANGED <<control, header, staging, cta>>

\* The threads of the last CTA clear the slot counters of this parity ...
ClearCounts(r, c) ==
  /\ pc[r][c] = "clear"
  /\ counts' = [counts EXCEPT ![r][Parity(generation[r][c])] = [e \in Experts |-> 0]]
  /\ Goto(r, c, "arrive")
  /\ UNCHANGED <<control, ready, retire, arrivals, staging, cta>>

\* ... and, possibly before other threads have cleared theirs, one thread per peer
\* writes the arrival; the kernel ends after all of that.
Arrive(r, c, p) ==
  /\ pc[r][c] \in {"clear", "arrive"}
  /\ LET g == generation[r][c]
     IN  /\ arrivals[p][Parity(g)][r] # g
         /\ arrivals' = [arrivals EXCEPT ![p][Parity(g)][r] = g]
  /\ UNCHANGED <<control, ready, counts, retire, staging, pc, cta>>

EndArrive(r, c) ==
  /\ pc[r][c] = "arrive"
  /\ LET g == generation[r][c] IN \A p \in Ranks : arrivals[p][Parity(g)][r] = g
  /\ Goto(r, c, "done")
  /\ UNCHANGED <<control, header, staging, cta>>

\* Mutant: the metadata is built without waiting for the arrivals.
GatherAtOnce(r) ==
  /\ stage[r] = "pre" /\ \A c \in Ctas : pc[r][c] = "done"
  /\ ready' = [ready EXCEPT ![r].metadata = TRUE]
  /\ stage' = [stage EXCEPT ![r] = "reading"]
  /\ UNCHANGED <<round, route, counts, retire, arrivals, staging, pc, cta>>

\* Mutant: the arrival slots of the other parity are awaited.
GatherOtherParity(r) ==
  /\ stage[r] = "pre" /\ \A c \in Ctas : pc[r][c] = "done"
  /\ LET g == ready[r].gen IN \A q \in Ranks : arrivals[r][1 - Parity(g)][q] = g
  /\ ready' = [ready EXCEPT ![r].metadata = TRUE]
  /\ stage' = [stage EXCEPT ![r] = "reading"]
  /\ UNCHANGED <<round, route, counts, retire, arrivals, staging, pc, cta>>

\* GEMM1 of rank r, after its own dispatch in the stream: CTA 0 waits for every
\* arrival of the generation it finds, builds the metadata and sets the ready bit.
Gather(r) ==
  /\ stage[r] = "pre" /\ \A c \in Ctas : pc[r][c] = "done"
  /\ LET g == ready[r].gen IN \A q \in Ranks : arrivals[r][Parity(g)][q] = g
  /\ ready' = [ready EXCEPT ![r].metadata = TRUE]
  /\ stage' = [stage EXCEPT ![r] = "reading"]
  /\ UNCHANGED <<round, route, counts, retire, arrivals, staging, pc, cta>>

\* The rest of the round, up to the notification that ends GEMM2.
Release(r) ==
  /\ stage[r] = "reading"
  /\ stage' = [stage EXCEPT ![r] = "released"]
  /\ UNCHANGED <<round, route, header, staging, pc, cta>>

Finished ==
  /\ \A r \in Ranks : round[r] = MaxRounds /\ stage[r] = "released"
  /\ UNCHANGED vars

CtaStep(r, c) ==
  \/ Begin(r, c) \/ PushCounts(r, c) \/ PushToken(r, c) \/ Fence(r, c)
  \/ Retire(r, c) \/ ClearCounts(r, c) \/ EndArrive(r, c)
  \/ \E e \in Experts : Claim(r, c, e)
  \/ \E p \in Ranks : Arrive(r, c, p)

RankStep(r) == Launch(r) \/ Gather(r) \/ Release(r) \/ \E c \in Ctas : CtaStep(r, c)

Next == (\E r \in Ranks : RankStep(r)) /\ UNCHANGED setup

\* On every rank the host keeps launching rounds, or some resident CTA executes.
Fairness == \A s \in Live, r \in 0 .. 63 :
  r < s.ranks => WF_vars(setup = s /\ RankStep(r) /\ UNCHANGED setup)

Spec == Init /\ [][Next \/ Finished]_vars
FairSpec == Spec /\ Fairness
-----------------------------------------------------------------------------
\* While the owner reads, it has from every rank the count of each of its experts
\* and, in the slots below the count, exactly the tokens routed there, with their
\* scales and rows: all of this round, landed, and not touched by a faster rank.
OwnerReadsRound == \A r \in Ranks : stage[r] = "reading" =>
  LET f == Parity(ready[r].gen) IN
  \A q \in Ranks, e \in {x \in Experts : Owner(x) = r} :
    LET n == countCell[r][f][<<e, q>>]
        entries == {entryCell[r][f][<<e, q, s>>] : s \in 0 .. n.value - 1}
    IN  /\ Holds(n, round[r]) /\ n.value = Cardinality(RoutedTo(q, e))
        /\ \A x \in entries : Holds(x, round[r])
        /\ {x.value : x \in entries} = RoutedTo(q, e)
        /\ \A t \in RoutedTo(q, e) :
             Holds(scaleCell[r][f][<<q, t>>], round[r]) /\ Holds(row[q][t], round[r])

\* The generations of the rounds that follow one of generation first.
Generations(first) ==
  LET gen[n \in 0 .. MaxRounds] == IF n = 0 THEN first ELSE Advance(gen[n - 1])
  IN  gen

GenerationAfter(n) == Generations(FirstGeneration)[n]

\* Every CTA of every rank computes the generation of its round, across the wrap,
\* although the leader of each CTA reads the word the last CTA overwrites.
GenerationAgrees == \A r \in Ranks, c \in Ctas :
  pc[r][c] # "begin" /\ round[r] > 0 => generation[r][c] = GenerationAfter(round[r])

\* When GEMM1 starts, slot counters and retire tickets are zero again: the next
\* round of the same parity claims its slots from zero.
CountersRestart == \A r \in Ranks :
  stage[r] # "pre" => \A f \in 0 .. 1 :
    retire[r][f] = 0 /\ \A e \in Experts : counts[r][f][e] = 0

\* Every rank gets the metadata of every round built.
AllRoundsRead == setup \in Live => <>(\A r \in Ranks : round[r] = MaxRounds /\ stage[r] = "released")
=============================================================================
