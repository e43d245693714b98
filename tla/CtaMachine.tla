----------------------------- MODULE CtaMachine -----------------------------
(***************************************************************************)
(* The shared memory of one CTA, or of the few CTAs that work on one       *)
(* problem, under the rules the kernels are written for.  A kernel is      *)
(* given as the program of each of its warps: the sequence of operations   *)
(* on shared memory, on the asynchronous copy engine, on the barriers and  *)
(* on counters in global memory that the warp performs for the tiles it is *)
(* given.  The machine runs the warps in every order.                      *)
(*                                                                         *)
(* The rules, all of the hardware:                                         *)
(*   - an asynchronous copy belongs to the group its warp closes by the    *)
(*     next cp_async_fence; until cp_async_wait<n> of that warp covers the *)
(*     group, what the destination holds is undefined;                     *)
(*   - a barrier lets its warps through when as many as it counts have     *)
(*     arrived, whether by waiting or by arriving only;                    *)
(*   - nothing else orders two warps.                                      *)
(***************************************************************************)
EXTENDS CtaOps

CONSTANT Kernels   \* a list with a record for each kernel in each configuration:
  \* config:   the configuration
  \* code:     for each warp its program
  \* expected: for each tile the operands its accumulators must have taken
  \* overlays: pairs of places that are the same memory
  \* open:     barriers whose last arrivals the kernel leaves to nobody

\* The places an operation names.
Named(o) == IF o.op \in {"load", "get"} THEN o.at ELSE IF o.op \in {"put", "take", "count"} THEN {o.at} ELSE {}
PlacesOf(k) == UNION {UNION {Named(k.code[w][i]) : i \in DOMAIN k.code[w]} : w \in DOMAIN k.code}

ASSUME KernelsAssumption == \A k \in ToSet(Kernels) :
  /\ k.code # << >>
  /\ \A pair \in k.overlays : Cardinality(pair) = 2

VARIABLES
  kernel,    \* the kernel that runs, by its place in Kernels
  pc,        \* pc[w]: the next operation of warp w
  ticket,    \* ticket[w]: the generation of the barrier w waits for, 0 if none
  arrived,   \* arrived[b]: warps that have arrived at barrier b in this generation
  passed,    \* passed[b]: completed generations of barrier b
  tally,     \* tally[c]: counter c in global memory
  fences,    \* fences[w]: groups of copies w has closed
  inflight,  \* copies no wait has covered
  smem,      \* smem[p][w]: what w's part of place p holds
  frags,     \* frags[w][b]: what the register fragments for block b of w hold
  accum,     \* accum[w]: the operands w's accumulators have taken
  stored     \* stored[w]: tiles w has written to global memory

sync == <<ticket, arrived, passed, tally>>
copies == <<fences, inflight, smem>>
vars == <<kernel, pc, sync, copies, frags, accum, stored>>

AllKernels == Kernels   \* a definition without parameters is evaluated only once
K == AllKernels[kernel]
Warps == DOMAIN pc
Places == DOMAIN smem
Undefined == << >>             \* no data of any tile
Barriers == 0 .. 15
Counters == 0 .. 3
KBlocks == 0 .. 3

\* The operation w performs next, if it has not ended.
Pending(w) == IF pc[w] > Len(K.code[w]) THEN {} ELSE {K.code[w][pc[w]]}
AllHaveEnded == \A w \in Warps : Pending(w) = {}
Advance(w) == pc' = [pc EXCEPT ![w] = @ + 1]

Init ==
  /\ kernel \in DOMAIN AllKernels
  /\ pc = [w \in DOMAIN K.code |-> 1]
  /\ ticket = [w \in Warps |-> 0]
  /\ arrived = [b \in Barriers |-> {}] /\ passed = [b \in Barriers |-> 0]
  /\ tally = [c \in Counters |-> 0]
  /\ fences = [w \in Warps |-> 0] /\ inflight = {}
  /\ smem = [p \in PlacesOf(K) |-> [w \in Warps |-> Undefined]]
  /\ frags = [w \in Warps |-> [b \in KBlocks |-> Undefined]]
  /\ accum = [w \in Warps |-> << >>]
  /\ stored = [w \in Warps |-> {}]

\* Other places in the same memory as one of ps.
Over(ps) == {q \in Places : \E p \in ps : {p, q} \in K.overlays}

\* Shared memory after w's part of each place p in DOMAIN d has been given d[p].
Given(w, d) ==
  [p \in Places |-> [v \in Warps |->
     CASE p \in Over(DOMAIN d)    -> Undefined
       [] v = w /\ p \in DOMAIN d -> d[p]
       [] OTHER                   -> smem[p][v]]]

\* Copies in flight to memory that is written by other means land as nothing useful.
Spoilt(ps) == {IF c.at \in Over(ps) THEN [c EXCEPT !.data = Undefined] ELSE c : c \in inflight}

\* copy_aiu, cp.async: w's part of the places is undefined from here on.
IssueCopy(w, o) ==
  /\ o.op = "load"
  /\ inflight' = Spoilt(o.at) \cup
       {[warp |-> w, group |-> fences[w] + 1, at |-> p, data |-> o.data] : p \in o.at}
  /\ smem' = Given(w, [p \in o.at |-> Undefined])
  /\ Advance(w)
  /\ UNCHANGED <<kernel, sync, fences, frags, accum, stored>>

CloseGroup(w, o) ==
  /\ o.op = "fence"
  /\ fences' = [fences EXCEPT ![w] = @ + 1]
  /\ Advance(w)
  /\ UNCHANGED <<kernel, sync, inflight, smem, frags, accum, stored>>

\* cp_async_wait<n>: all copies of w have landed but those of its n newest groups.
\* Of two copies to one place nobody knows which was last.
AwaitCopies(w, o) ==
  /\ o.op = "wait"
  /\ LET landed == {c \in inflight : c.warp = w /\ c.group <= fences[w] - o.left}
         to(p) == {c.data : c \in {c \in inflight : c.warp = w /\ c.at = p}}
     IN  /\ inflight' = inflight \ landed
         /\ smem' = Given(w, [p \in {c.at : c \in landed} |->
                                IF Cardinality(to(p)) = 1 THEN CHOOSE d \in to(p) : TRUE ELSE Undefined])
  /\ Advance(w)
  /\ UNCHANGED <<kernel, sync, fences, frags, accum, stored>>

\* w's arrival at the barrier its operation names.
Arrival(w, o) ==
  LET b == o.id
      all == Cardinality(arrived[b]) + 1 = o.count
  IN  /\ arrived' = [arrived EXCEPT ![b] = IF all THEN {} ELSE @ \cup {w}]
      /\ passed' = [passed EXCEPT ![b] = IF all THEN @ + 1 ELSE @]

ArriveOnly(w, o) ==
  /\ o.op = "arrive"
  /\ Arrival(w, o)
  /\ Advance(w)
  /\ UNCHANGED <<kernel, ticket, tally, copies, frags, accum, stored>>

\* __syncthreads, barrier_sync: w arrives ...
ArriveAndWait(w, o) ==
  /\ o.op = "bar" /\ ticket[w] = 0
  /\ Arrival(w, o)
  /\ ticket' = [ticket EXCEPT ![w] = passed[o.id] + 1]
  /\ UNCHANGED <<kernel, pc, tally, copies, frags, accum, stored>>

\* ... and goes on when that generation is complete.
PassBarrier(w, o) ==
  /\ o.op = "bar" /\ ticket[w] # 0
  /\ passed[o.id] >= ticket[w]
  /\ ticket' = [ticket EXCEPT ![w] = 0]
  /\ Advance(w)
  /\ UNCHANGED <<kernel, arrived, passed, tally, copies, frags, accum, stored>>

\* What the parts of the warps ws of the places ps hold, if it is one thing.
Content(ps, ws) ==
  LET d == {smem[p][v] : p \in ps, v \in ws}
  IN  IF Cardinality(d) = 1 THEN CHOOSE x \in d : TRUE ELSE Undefined

\* Shared memory to the registers of a block.
Read(w, o) ==
  /\ o.op = "get"
  /\ frags' = [frags EXCEPT ![w][o.block] = Content(o.at, o.from)]
  /\ Advance(w)
  /\ UNCHANGED <<kernel, sync, copies, accum, stored>>

\* The accumulators take the fragments of a block.
Multiply(w, o) ==
  /\ o.op = "mma"
  /\ accum' = [accum EXCEPT ![w] = Append(@, Append(frags[w][o.block], o.block))]
  /\ Advance(w)
  /\ UNCHANGED <<kernel, sync, copies, frags, stored>>

\* Registers to shared memory.
Write(w, o) ==
  /\ o.op = "put"
  /\ smem' = Given(w, [p \in {o.at} |-> o.data])
  /\ inflight' = Spoilt({o.at})
  /\ Advance(w)
  /\ UNCHANGED <<kernel, sync, fences, frags, accum, stored>>

\* Shared memory that another warp has written is used (TakesWhatIsMeant).
TakeOver(w, o) ==
  /\ o.op = "take"
  /\ Advance(w)
  /\ UNCHANGED <<kernel, sync, copies, frags, accum, stored>>

\* w's share of a tile goes to global memory; the accumulators are cleared.
StoreTile(w, o) ==
  /\ o.op = "store"
  /\ accum' = [accum EXCEPT ![w] = << >>]
  /\ stored' = [stored EXCEPT ![w] = @ \cup {o.tile}]
  /\ Advance(w)
  /\ UNCHANGED <<kernel, sync, copies, frags>>

\* The consumer of a tile is told that it is there (SignalsFollowStores).
SignalTile(w, o) ==
  /\ o.op = "signal"
  /\ Advance(w)
  /\ UNCHANGED <<kernel, sync, copies, frags, accum, stored>>

\* atomicAdd, and what is made of its result for the other warps.
CountUp(w, o) ==
  /\ o.op = "count"
  /\ LET n == tally[o.counter] + o.by
     IN  /\ tally' = [tally EXCEPT ![o.counter] = n]
         /\ smem' = Given(w, [p \in {o.at} |-> <<n % o.modulo>>])
  /\ inflight' = Spoilt({o.at})
  /\ Advance(w)
  /\ UNCHANGED <<kernel, ticket, arrived, passed, fences, frags, accum, stored>>

\* A thread spins on a counter.
PassCount(w, o) ==
  /\ o.op = "await" /\ tally[o.counter] = o.value
  /\ Advance(w)
  /\ UNCHANGED <<kernel, sync, copies, frags, accum, stored>>

ClearCounters(w, o) ==
  /\ o.op = "clear"
  /\ tally' = [c \in Counters |-> IF c \in o.counters THEN 0 ELSE tally[c]]
  /\ Advance(w)
  /\ UNCHANGED <<kernel, ticket, arrived, passed, copies, frags, accum, stored>>

\* The operations that follow are for the CTA that has found the counter complete.
SkipUnlessZero(w, o) ==
  /\ o.op = "skip"
  /\ pc' = [pc EXCEPT ![w] = @ + 1 + IF Content({o.at}, o.from) = <<0>> THEN 0 ELSE o.ops]
  /\ UNCHANGED <<kernel, sync, copies, frags, accum, stored>>

Step(w, o) ==
  \/ IssueCopy(w, o) \/ CloseGroup(w, o) \/ AwaitCopies(w, o)
  \/ ArriveOnly(w, o) \/ ArriveAndWait(w, o) \/ PassBarrier(w, o)
  \/ Read(w, o) \/ Write(w, o) \/ TakeOver(w, o) \/ Multiply(w, o)
  \/ StoreTile(w, o) \/ SignalTile(w, o)
  \/ CountUp(w, o) \/ PassCount(w, o) \/ ClearCounters(w, o) \/ SkipUnlessZero(w, o)

AllEnded == AllHaveEnded /\ UNCHANGED vars

Next == (\E w \in Warps : \E o \in Pending(w) : Step(w, o)) \/ AllEnded

Spec == Init /\ [][Next]_vars

-----------------------------------------------------------------------------
\* What is stored of a tile has taken every operand of the tile once, in order and
\* landed: no stage was read early or refilled while a slower warp still had to read
\* it, and no copy went to a stage of the tile that follows.
StoresWhatIsExpected == \A w \in Warps : \A o \in Pending(w) :
  o.op = "store" => accum[w] = K.expected[o.tile]

\* A warp that uses what others have left in shared memory (the epilogue's tile, a
\* scale, the number of a tile) finds all of it, and nothing newer or older.
TakesWhatIsMeant == \A w \in Warps : \A o \in Pending(w) :
  o.op = "take" => Content({o.at}, o.from) = o.data

\* No warp arrives at a barrier again before the generation it arrived in is over.
OncePerGeneration == \A w \in Warps : \A o \in Pending(w) :
  (o.op = "arrive" \/ (o.op = "bar" /\ ticket[w] = 0)) => w \notin arrived[o.id]

\* A tile is announced only after all warps that store a part of it have done so.
SignalsFollowStores == \A w \in Warps : \A o \in Pending(w) :
  o.op = "signal" => \A v \in o.from : o.tile \in stored[v]

\* At the end every tile has been stored by some warp: no count of arrivals goes
\* wrong so that nobody is left to merge what all have left in global memory.
EveryTileStored ==
  AllHaveEnded => \A t \in DOMAIN K.expected : \E w \in Warps : t \in stored[w]

\* When the CTA ends no barrier is left with a part of its arrivals: the next kernel
\* on the processor finds all of them as they were.
BarriersDrained ==
  AllHaveEnded => \A b \in Barriers \ K.open : arrived[b] = {}
=============================================================================
