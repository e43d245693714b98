----------------------------- MODULE StreamedGemm -----------------------------
(* A streamed GEMM in flight (impls/w4a8_streamed_gemm.hpp, run_streamed): the    *)
(* weights of a plan's parts are decoded in turn to two scratch tiles on one      *)
(* stream while a core multiplies with the tile before on another. Host threads    *)
(* call it on one caller stream; they share both streams and all events. A call     *)
(* allocates its tiles under the lock that also covers its submission, and when it  *)
(* returns the allocator hands them out again at once.                              *)
(*                                                                                 *)
(* Streams run their kernels in order; a kernel also waits for what the waits       *)
(* before it on its stream stand for: all that was queued before the record that    *)
(* the event had when the wait was submitted. Kernels take time.                    *)
EXTENDS Integers, Sequences

CONSTANTS HostThreads,    \* host threads on the caller stream
          Plans,      \* plans, each with its parts and gather
          MaxStreamed \* bound: calls

Streams == {"caller", "compute", "decode"}
Nobody == 0

ASSUME StreamedAssumption ==
    /\ Nobody \notin HostThreads /\ MaxStreamed \in Nat
    /\ Plans \subseteq [parts : Nat \ {0}, gather : {"none", "chunk", "full"}]

VARIABLES
    submitter,  \* who holds submit_mutex
    made,       \* how many calls there have been
    plan,       \* of each call
    stage,      \* how far each thread is
    number,     \* of each thread's call
    part,       \* which part of it comes next; parts count from zero
    queue,      \* the kernels queued on each stream
    running,    \* which streams run their first kernel
    finished,   \* kernels each stream has finished
    pendingOn,  \* what the next kernel of each stream has to wait for
    consumed,   \* what the last record of each event of `consumed' stands for
    tile,       \* what the two tiles hold: a call and a part
    rows,       \* what the gathered rows are: a call and its parts
    output      \* parts each call has stored

hostVars == <<submitter, made, plan, stage, number, part>>
streamVars == <<hostVars, queue, running, finished, pendingOn, consumed, tile, rows, output>>

Garbage == <<Nobody, 0>>
NoPlan == [parts |-> 0, gather |-> "none"]

StreamedInit ==
    /\ submitter = Nobody /\ made = 0
    /\ plan = [c \in 1 .. MaxStreamed |-> NoPlan]
    /\ stage = [t \in HostThreads |-> "idle"]
    /\ number = [t \in HostThreads |-> Nobody] /\ part = [t \in HostThreads |-> 0]
    /\ queue = [s \in Streams |-> << >>] /\ running = {} /\ finished = [s \in Streams |-> 0]
    /\ pendingOn = [s \in Streams |-> {}] /\ consumed = [i \in {} |-> {}]
    /\ tile = [x \in {0, 1} |-> Garbage] /\ rows = Garbage
    /\ output = [c \in 1 .. MaxStreamed |-> {}]

-----------------------------------------------------------------------------
(* The host. A record stands for the kernels before it on its stream and what the   *)
(* waits before it stand for; <<s, n>> is the first n kernels of s.                *)

Issued(s) == <<s, finished[s] + Len(queue[s])>>
Launched(s) == <<s, finished[s] + Len(queue[s]) + 1>>

Kernel(kind, t, after) ==
    [do |-> kind, of |-> number[t], part |-> part[t], reuses |-> FALSE, after |-> after]
Enqueue(s, x) == queue' = [queue EXCEPT ![s] = Append(@, x)]

Enter(t) ==
    /\ stage[t] = "idle" /\ made < MaxStreamed
    /\ submitter = Nobody
    /\ submitter' = t
    /\ stage' = [stage EXCEPT ![t] = "prepares"]
    /\ made' = made + 1 /\ number' = [number EXCEPT ![t] = made + 1]
    /\ \E p \in Plans : plan' = [plan EXCEPT ![made + 1] = p]
    /\ part' = [part EXCEPT ![t] = 0]
    /\ UNCHANGED <<queue, running, finished, pendingOn, consumed, tile, rows, output>>

\* Input preparation on the caller stream.
Prepare(t) ==
    /\ stage[t] = "prepares"
    /\ stage' = [stage EXCEPT ![t] = "decodes"]
    /\ IF plan[number[t]].gather = "full"
       THEN /\ Enqueue("caller", Kernel("gather", t, pendingOn["caller"]))
            /\ pendingOn' = [pendingOn EXCEPT !["caller"] = {}]
       ELSE UNCHANGED <<queue, pendingOn>>
    /\ UNCHANGED <<submitter, made, plan, number, part, running, finished, consumed, tile, rows, output>>

\* The fork before the first part: both streams wait for the caller stream.
ForkAll(i) == IF i = 0 THEN pendingOn["caller"] \cup {Issued("caller")} ELSE {}

\* A wait that comes one part too late.
FreesTileLate(i) == IF i >= 3 THEN consumed[i - 3] ELSE {}
\* A tile is not overwritten until the core before the last has read it.
FreesTile(i) == IF i >= 2 THEN consumed[i - 2] ELSE {}

\* decode(index), the record of decoded[index] and the wait of the compute stream.
Decode(t) ==
    /\ stage[t] = "decodes"
    /\ LET i == part[t]
       IN  /\ Enqueue("decode", Kernel("decode", t, pendingOn["decode"] \cup ForkAll(i) \cup FreesTile(i)))
           /\ pendingOn' = [pendingOn EXCEPT !["decode"] = {},
                                             !["compute"] = @ \cup ForkAll(i) \cup {Launched("decode")}]
    /\ stage' = [stage EXCEPT ![t] = "multiplies"]
    /\ UNCHANGED <<submitter, made, plan, number, part, running, finished, consumed, tile, rows, output>>

\* core(index) and the record of consumed[index].
MultiplyPart(t) ==
    /\ stage[t] = "multiplies"
    /\ LET i == part[t]
       IN  /\ Enqueue("compute", Kernel("core", t, pendingOn["compute"]))
           /\ pendingOn' = [pendingOn EXCEPT !["compute"] = {}]
           /\ consumed' = [j \in DOMAIN consumed \cup {i} |-> IF j = i THEN {Launched("compute")} ELSE consumed[j]]
           /\ part' = [part EXCEPT ![t] = i + 1]
           /\ stage' = [stage EXCEPT ![t] = IF i + 1 < plan[number[t]].parts THEN "decodes" ELSE "joins"]
    /\ UNCHANGED <<submitter, made, plan, number, running, finished, tile, rows, output>>

\* The caller stream waits for the last core.
Join(t) ==
    /\ stage[t] = "joins"
    /\ pendingOn' = [pendingOn EXCEPT !["caller"] = @ \cup consumed[part[t] - 1]]
    /\ stage' = [stage EXCEPT ![t] = "returns"]
    /\ UNCHANGED <<submitter, made, plan, number, part, queue, running, finished, consumed, tile, rows, output>>

\* A submission fails. Once it has come to the fork the host waits for both internal
\* streams; before that nothing of the call is queued on them.
Fail(t) ==
    /\ stage[t] \in {"prepares", "decodes", "multiplies", "joins"}
    /\ stage' = [stage EXCEPT ![t] = IF stage[t] = "prepares" THEN "unwinds" ELSE "drains"]
    /\ UNCHANGED <<submitter, made, plan, number, part, queue, running, finished, pendingOn, consumed, tile, rows,
                   output>>
StreamsDrained == queue["compute"] = << >> /\ queue["decode"] = << >>

\* The tensors go, then the lock.
Release(t, next) ==
    /\ submitter' = Nobody
    /\ stage' = [stage EXCEPT ![t] = next]
    /\ UNCHANGED <<made, plan, number, part, queue, running, finished, pendingOn, consumed, tile, rows, output>>
Returns(t) == stage[t] = "returns" /\ Release(t, "returned")
Throws(t) == (stage[t] = "unwinds" \/ (stage[t] = "drains" /\ StreamsDrained)) /\ Release(t, "threw")

\* What a thread does after a call: work on the caller stream that reads what the call
\* has returned and writes to storage that the call has freed, if no other has it.
Use(t) ==
    /\ stage[t] \in {"returned", "threw"}
    /\ Enqueue("caller", [do |-> "use", of |-> IF stage[t] = "returned" THEN number[t] ELSE Nobody, part |-> 0,
                          reuses |-> submitter = Nobody, after |-> pendingOn["caller"]])
    /\ pendingOn' = [pendingOn EXCEPT !["caller"] = {}]
    /\ stage' = [stage EXCEPT ![t] = "idle"]
    /\ UNCHANGED <<submitter, made, plan, number, part, running, finished, consumed, tile, rows, output>>

-----------------------------------------------------------------------------
(* The device.                                                                    *)

\* A kernel spoils what it writes until it has finished.
Start(s) ==
    /\ queue[s] # << >> /\ s \notin running
    /\ \A x \in Head(queue[s]).after : finished[x[1]] >= x[2]
    /\ running' = running \cup {s}
    /\ LET x == Head(queue[s])
       IN  /\ tile' = [y \in {0, 1} |->
                         IF x.reuses \/ (x.do = "decode" /\ y = x.part % 2) THEN Garbage ELSE tile[y]]
           /\ rows' = IF x.do = "gather" \/ x.reuses THEN Garbage ELSE rows
    /\ UNCHANGED <<hostVars, queue, finished, pendingOn, consumed, output>>

\* The decoder gathers the rows of its own experts, or all rows are gathered at once.
Gathered(x) ==
    CASE x.do = "gather" -> <<x.of, 0 .. plan[x.of].parts - 1>>
      [] x.do = "decode" /\ plan[x.of].gather = "chunk" ->
             <<x.of, {x.part} \cup (IF rows[1] = x.of THEN rows[2] ELSE {})>>
      [] OTHER -> rows

\* A kernel has done its work, and the next one of the stream may start.
Finish(s) ==
    /\ s \in running
    /\ running' = running \ {s}
    /\ LET x == Head(queue[s])
       IN  /\ tile' = IF x.do = "decode" THEN [tile EXCEPT ![x.part % 2] = <<x.of, x.part>>] ELSE tile
           /\ rows' = Gathered(x)
           /\ output' = IF x.do = "core" THEN [output EXCEPT ![x.of] = @ \cup {x.part}] ELSE output
    /\ queue' = [queue EXCEPT ![s] = Tail(@)]
    /\ finished' = [finished EXCEPT ![s] = @ + 1]
    /\ UNCHANGED <<hostVars, pendingOn, consumed>>

\* All calls made, returned, and everything queued done.
AllOver ==
    /\ made = MaxStreamed /\ (\A t \in HostThreads : stage[t] = "idle") /\ (\A s \in Streams : queue[s] = << >>)
    /\ UNCHANGED streamVars

StreamedNext ==
    \/ \E t \in HostThreads :
         \/ Enter(t) \/ Prepare(t) \/ Decode(t) \/ MultiplyPart(t) \/ Join(t) \/ Fail(t)
         \/ Returns(t) \/ Throws(t) \/ Use(t)
    \/ \E s \in Streams : Start(s) \/ Finish(s)
    \/ AllOver

StreamedSpec == StreamedInit /\ [][StreamedNext]_streamVars

-----------------------------------------------------------------------------
Runs(s) == s \in running
Now(s) == Head(queue[s])

\* INVARIANT. What runs finds its data: a core the decoded weights of its own part in
\* the tile it reads and the rows of the part gathered; what the caller does next finds
\* every part of the call stored, and its storage left alone by both internal streams,
\* also after a submission that has failed half way.
RunsOnItsData ==
    /\ Runs("compute") =>
         LET x == Now("compute")
         IN  /\ tile[x.part % 2] = <<x.of, x.part>>
             /\ plan[x.of].gather # "none" => rows[1] = x.of /\ x.part \in rows[2]
    /\ Runs("caller") /\ Now("caller").do = "use" =>
         /\ Now("caller").of # Nobody => output[Now("caller").of] = 0 .. plan[Now("caller").of].parts - 1
         /\ Now("caller").reuses => running = {"caller"}
=============================================================================
