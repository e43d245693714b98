------------------------------ MODULE CallProofs ------------------------------
(***************************************************************************)
(* Proofs about what a call gets from the host: its kernel (JitCache) and  *)
(* the scales that the kernel reads (HostCalls).                           *)
(*                                                                         *)
(* JitCache, for any processes, arguments, header versions and number of   *)
(* faults: the invariant says, for each process, what its memory and its   *)
(* temporary directory hold at each point of a build, and which directory  *)
(* must exist.  Everything a living process holds is of the installed      *)
(* headers, because those are replaced only while no process runs.         *)
(*                                                                         *)
(* HostCalls, for any calls one after the other: until they are prepared,  *)
(* scales lie in memory as their strides say, afterwards as the kernel     *)
(* reads them, and so do those that a fused epilogue leaves to the calls   *)
(* behind it, because they are given new strides before the call returns.  *)
(***************************************************************************)
EXTENDS JitCache, HostCalls, TLAPS

-----------------------------------------------------------------------------
(* Builds. *)

Labels == {"off", "idle", "failed"} \cup Building
Filled(synced, a) == [source |-> TRUE, binary |-> Kernel(headers, a), synced |-> synced]

\* Everything a process has is a function on the processes.
CacheShape ==
  /\ pc \in [Processes -> Labels]
  /\ args \in [Processes -> Args]
  /\ fault \in [Processes -> BOOLEAN] /\ cached \in [Processes -> BOOLEAN]
  /\ DOMAIN tmp = Processes /\ tmp = [p \in Processes |-> tmp[p]]
  /\ DOMAIN hash = Processes /\ hash = [p \in Processes |-> hash[p]]
  /\ DOMAIN runtimes = Processes /\ runtimes = [p \in Processes |-> runtimes[p]]
  /\ DOMAIN shortcut = Processes /\ shortcut = [p \in Processes |-> shortcut[p]]
  /\ DOMAIN result = Processes /\ result = [p \in Processes |-> result[p]]

\* A process that is not running, or has just started, remembers nothing.
Memory(p) ==
  /\ pc[p] = "off" => hash[p] = NoHash /\ runtimes[p] = <<>> /\ shortcut[p] = <<>>
                      /\ result[p] = Missing
  /\ hash[p] = NoHash \/ hash[p] = <<headers>>
  /\ pc[p] \in Building \ {"generate"} => hash[p] = <<headers>>

\* Whatever it holds was compiled from the installed headers for the right code.
Tables(p) ==
  /\ \A path \in DOMAIN runtimes[p] :
       path[1] = <<headers>> /\ runtimes[p][path] = <<headers, path[2]>>
  /\ \A key \in DOMAIN shortcut[p] : shortcut[p][key] = <<headers, key>>
  /\ pc[p] = "idle" => result[p] \in {Missing, Kernel(headers, args[p])}

\* What its temporary directory holds before it is renamed.
Temporary(p) ==
  /\ pc[p] = "compile" => tmp[p] = [EmptyDir EXCEPT !.source = TRUE]
  /\ pc[p] = "sync" => tmp[p] = Filled(FALSE, args[p])
  /\ pc[p] = "rename" => tmp[p] = Filled(TRUE, args[p])

\* Where it relies on a directory, the directory is there, or there was a fault.
Published(p) ==
  /\ pc[p] \in {"validate", "load"} => Path(p) \in DOMAIN disk
  /\ pc[p] \in {"cleanup", "reget"} => fault[p] \/ Path(p) \in DOMAIN disk
  /\ pc[p] = "failed" => fault[p]

Local(p) == Memory(p) /\ Tables(p) /\ Temporary(p) /\ Published(p)

IInv == CacheShape /\ DirectoriesWhole /\ \A p \in Processes : Local(p)
-----------------------------------------------------------------------------
\* A kernel can be told from an absent and from a torn file.
LEMMA KernelDistinct ==
  \A v, c : <<v, c>> # Missing /\ <<v, c>> # Torn
BY DEF Missing, Torn

\* The key of the lookup table is the code, and the kernel of a path is what it names.
LEMMA KeyIsCode ==
  ASSUME NEW a \in Args
  PROVE  CompileKey(a) = Code(a) /\ Kernel(headers, a) = <<headers, Code(a)>>
BY DEF CompileKey, Code, Kernel

\* What process q has is as before, and directories did not disappear.
Undisturbed(q) ==
  /\ pc'[q] = pc[q] /\ args'[q] = args[q] /\ fault'[q] = fault[q]
  /\ tmp'[q] = tmp[q] /\ hash'[q] = hash[q]
  /\ runtimes'[q] = runtimes[q] /\ shortcut'[q] = shortcut[q] /\ result'[q] = result[q]

\* A process that takes no part in a step keeps its part of the invariant.
LEMMA Frame ==
  ASSUME NEW q \in Processes, Local(q), Undisturbed(q), headers' = headers,
         DOMAIN disk \subseteq DOMAIN disk'
  PROVE  Local(q)'
<1>1. Memory(q)'
  BY DEF Local, Memory, Undisturbed
<1>2. Tables(q)'
  BY DEF Local, Tables, Undisturbed, Kernel, Code, Aligned
<1>3. Temporary(q)'
  BY DEF Local, Temporary, Undisturbed, Filled, Kernel, Code, Aligned
<1>4. Published(q)'
  BY DEF Local, Published, Undisturbed, Path, Code, Aligned
<1>. QED  BY <1>1, <1>2, <1>3, <1>4 DEF Local

-----------------------------------------------------------------------------
\* Initially nothing runs and nothing is stored.
LEMMA Initially == Init => IInv
<1>. SUFFICES ASSUME Init  PROVE IInv
  OBVIOUS
<1>1. CacheShape
  BY DEF Init, CacheShape, Labels
<1>2. DirectoriesWhole
  BY DEF Init, DirectoriesWhole
<1>3. ASSUME NEW p \in Processes  PROVE Local(p)
  BY DEF Init, Local, Memory, Tables, Temporary, Published, Building
<1>. QED  BY <1>1, <1>2, <1>3 DEF IInv

-----------------------------------------------------------------------------
\* The process returns the kernel it was asked for.
ReturnsKernel(p) == Return(p, Kernel(headers, args[p]))

\* It enters it under the right key.
LEMMA ReturnedTables ==
  ASSUME CacheShape, NEW p \in Processes, Tables(p), ReturnsKernel(p),
         headers' = headers, args' = args
  PROVE  /\ \A key \in DOMAIN shortcut'[p] : shortcut'[p][key] = <<headers, key>>
         /\ pc'[p] = "idle" /\ result'[p] = Kernel(headers, args[p])
         /\ Kernel(headers, args[p])' = Kernel(headers, args[p])
<1>1. CompileKey(args[p]) = Code(args[p])
       /\ Kernel(headers, args[p]) = <<headers, Code(args[p])>>
  BY KeyIsCode, SMTT(30) DEF CacheShape
<1>2. CASE cached[p]
  <2>1. shortcut'[p] = Extend(shortcut[p], Code(args[p]), <<headers, Code(args[p])>>)
    BY <1>1, <1>2 DEF CacheShape, ReturnsKernel, Return
  <2>. QED  BY <1>1, <2>1, SMTT(30)
             DEF CacheShape, Tables, ReturnsKernel, Return, Goto, Kernel, Code, Aligned, Extend
<1>3. CASE ~cached[p]
  BY <1>3 DEF CacheShape, Tables, ReturnsKernel, Return, Goto, Kernel, Code, Aligned
<1>. QED  BY <1>2, <1>3

-----------------------------------------------------------------------------
(* Steps of one process. *)

\* It is enough to look at the process that takes the step.
LEMMA Assemble ==
  ASSUME IInv, NEW p \in Processes, CacheShape', DirectoriesWhole', Local(p)',
         headers' = headers, DOMAIN disk \subseteq DOMAIN disk',
         \A q \in Processes \ {p} : Undisturbed(q)
  PROVE  IInv'
<1>1. ASSUME NEW q \in Processes  PROVE Local(q)'
  <2>1. CASE q = p
    BY <2>1
  <2>2. CASE q # p
    BY <2>2, Frame DEF IInv
  <2>. QED  BY <2>1, <2>2
<1>. QED  BY <1>1 DEF IInv

\* A request is answered from the table by the kernel of its key, or builds.
LEMMA RequestStep ==
  ASSUME IInv, NEW p \in Processes, NEW a \in Args, Request(p, a)
  PROVE  IInv'
<1>1. CacheShape'
  BY DEF IInv, CacheShape, Request, Goto, process, Labels, Building
<1>2. DirectoriesWhole'
  BY DEF IInv, Request, process, DirectoriesWhole
<1>3. \A q \in Processes \ {p} : Undisturbed(q)
  BY DEF IInv, CacheShape, Request, Goto, process, Undisturbed
<1>4. Memory(p)'
  BY DEF IInv, CacheShape, Request, Goto, process, Local, Memory, Building
<1>5. Tables(p)'
  BY SMTT(30) DEF IInv, CacheShape, Request, Goto, process, Local, Tables, CompileKey, Kernel, Code, Aligned
<1>6. Temporary(p)'
  <2>1. pc'[p] \notin {"compile", "sync", "rename"}
    BY DEF IInv, CacheShape, Request, Goto
  <2>. QED  BY <2>1 DEF Temporary
<1>7. Published(p)'
  BY DEF IInv, CacheShape, Request, Goto, process, Local, Published
<1>8. headers' = headers /\ DOMAIN disk \subseteq DOMAIN disk'
  BY DEF Request, process
<1>. QED  BY <1>1, <1>2, <1>3, <1>4, <1>5, <1>6, <1>7, <1>8, Assemble DEF Local

\* The include hash is of the headers.
LEMMA GenerateStep ==
  ASSUME IInv, NEW p \in Processes, Generate(p)
  PROVE  IInv'
<1>1. CacheShape'
  BY DEF IInv, CacheShape, Generate, Goto, process, Labels, Building
<1>2. DirectoriesWhole'
  BY DEF IInv, Generate, process, DirectoriesWhole
<1>3. \A q \in Processes \ {p} : Undisturbed(q)
  BY DEF IInv, CacheShape, Generate, Goto, process, Undisturbed
<1>4. Memory(p)'
  BY DEF IInv, CacheShape, Generate, Goto, process, Local, Memory, Building
<1>5. Tables(p)'
  BY DEF IInv, CacheShape, Generate, Goto, process, Local, Tables
<1>6. Temporary(p)'
  BY DEF IInv, CacheShape, Generate, Goto, process, Local, Temporary
<1>7. Published(p)'
  BY DEF IInv, CacheShape, Generate, Goto, process, Local, Published
<1>8. headers' = headers /\ DOMAIN disk \subseteq DOMAIN disk'
  BY DEF Generate, process
<1>. QED  BY <1>1, <1>2, <1>3, <1>4, <1>5, <1>6, <1>7, <1>8, Assemble DEF Local

\* A hit returns what was loaded for the path.
LEMMA GetHitStep ==
  ASSUME IInv, NEW p \in Processes, GetHit(p)
  PROVE  IInv'
<1>1. CacheShape'
  BY DEF IInv, CacheShape, GetHit, Goto, process, Return, Labels, Building
<1>2. DirectoriesWhole'
  BY DEF IInv, GetHit, process, DirectoriesWhole, Return
<1>3. \A q \in Processes \ {p} : Undisturbed(q)
  BY DEF IInv, CacheShape, GetHit, Goto, process, Return, Undisturbed
<1>4. Memory(p)'
  BY DEF IInv, CacheShape, GetHit, Goto, process, Return, Local, Memory, Building
<1>5. Tables(p)'
  <2>1. runtimes[p][Path(p)] = Kernel(headers, args[p])
    BY KeyIsCode DEF IInv, Local, Tables, GetHit, Path, Kernel
  <2>2. ReturnsKernel(p)
    BY <2>1 DEF ReturnsKernel, GetHit
  <2>3. runtimes' = runtimes /\ headers' = headers /\ args' = args
    BY DEF GetHit
  <2>. QED  BY <2>2, <2>3, ReturnedTables DEF IInv, Local, Tables
<1>6. Temporary(p)'
  BY DEF IInv, CacheShape, GetHit, Goto, process, Return, Local, Temporary
<1>7. Published(p)'
  BY DEF IInv, CacheShape, GetHit, Goto, process, Return, Local, Published
<1>8. headers' = headers /\ DOMAIN disk \subseteq DOMAIN disk'
  BY DEF GetHit, process, Return
<1>. QED  BY <1>1, <1>2, <1>3, <1>4, <1>5, <1>6, <1>7, <1>8, Assemble DEF Local

\* A miss looks for the directory, which after a build is there.
LEMMA GetMissStep ==
  ASSUME IInv, NEW p \in Processes, GetMiss(p)
  PROVE  IInv'
<1>1. CacheShape'
  BY DEF IInv, CacheShape, GetMiss, Goto, process, Labels, Building
<1>2. DirectoriesWhole'
  BY DEF IInv, GetMiss, process, DirectoriesWhole
<1>3. \A q \in Processes \ {p} : Undisturbed(q)
  BY DEF IInv, CacheShape, GetMiss, Goto, process, Undisturbed
<1>4. Memory(p)'
  BY DEF IInv, CacheShape, GetMiss, Goto, process, Local, Memory, Building
<1>5. Tables(p)'
  BY DEF IInv, CacheShape, GetMiss, Goto, process, Local, Tables
<1>6. Temporary(p)'
  BY DEF IInv, CacheShape, GetMiss, Goto, process, Local, Temporary
<1>7. Published(p)'
  <2>1. Path(p)' = Path(p)
    BY DEF GetMiss, process, Path, Code, Aligned
  <2>2. Path(p) \in DOMAIN runtimes[p] => runtimes[p][Path(p)] # Missing
    <3>1. Tables(p)
      BY DEF IInv, Local
    <3>. QED  BY <3>1, KernelDistinct DEF Tables
  <2>3. pc[p] = "reget" => fault[p] \/ Path(p) \in DOMAIN disk
    BY DEF IInv, Local, Published
  <2>. QED  BY <2>1, <2>2, <2>3 DEF IInv, CacheShape, GetMiss, Goto, process, Local, Published
<1>8. headers' = headers /\ DOMAIN disk \subseteq DOMAIN disk'
  BY DEF GetMiss, process
<1>. QED  BY <1>1, <1>2, <1>3, <1>4, <1>5, <1>6, <1>7, <1>8, Assemble DEF Local

\* A directory that exists is valid.
LEMMA ValidateStep ==
  ASSUME IInv, NEW p \in Processes, Validate(p)
  PROVE  IInv'
<1>1. CacheShape'
  BY DEF IInv, CacheShape, Validate, Goto, process, Labels, Building
<1>2. DirectoriesWhole'
  BY DEF IInv, Validate, process, DirectoriesWhole
<1>3. \A q \in Processes \ {p} : Undisturbed(q)
  BY DEF IInv, CacheShape, Validate, Goto, process, Undisturbed
<1>4. Memory(p)'
  BY DEF IInv, CacheShape, Validate, Goto, process, Local, Memory, Building
<1>5. Tables(p)'
  BY DEF IInv, CacheShape, Validate, Goto, process, Local, Tables
<1>6. Temporary(p)'
  BY DEF IInv, CacheShape, Validate, Goto, process, Local, Temporary
<1>7. Published(p)'
  <2>1. Path(p) \in DOMAIN disk /\ Path(p)' = Path(p)
    BY DEF IInv, Local, Published, Validate, process, Path, Code, Aligned
  <2>2. disk[Path(p)].source /\ disk[Path(p)].synced /\ disk[Path(p)].binary # Missing
    BY <2>1, KernelDistinct DEF IInv, DirectoriesWhole
  <2>3. pc' = [pc EXCEPT ![p] = "load"]
    BY <2>2 DEF Validate, Goto
  <2>. QED  BY <2>1, <2>3, SMTT(30) DEF IInv, CacheShape, Validate, process, Published
<1>8. headers' = headers /\ DOMAIN disk \subseteq DOMAIN disk'
  BY DEF Validate, process
<1>. QED  BY <1>1, <1>2, <1>3, <1>4, <1>5, <1>6, <1>7, <1>8, Assemble DEF Local

\* Loading fails for a cause and enters nothing.
LEMMA LoadFailsStep ==
  ASSUME IInv, NEW p \in Processes, LoadFails(p)
  PROVE  IInv'
<1>1. CacheShape'
  BY DEF IInv, CacheShape, LoadFails, Goto, process, Fault, Labels, Building
<1>2. DirectoriesWhole'
  BY DEF IInv, LoadFails, process, DirectoriesWhole, Fault
<1>3. \A q \in Processes \ {p} : Undisturbed(q)
  BY DEF IInv, CacheShape, LoadFails, Goto, process, Fault, Undisturbed
<1>4. Memory(p)'
  BY DEF IInv, CacheShape, LoadFails, Goto, process, Fault, Local, Memory, Building
<1>5. Tables(p)'
  BY DEF IInv, CacheShape, LoadFails, Goto, process, Fault, Local, Tables
<1>6. Temporary(p)'
  BY DEF IInv, CacheShape, LoadFails, Goto, process, Fault, Local, Temporary
<1>7. Published(p)'
  BY DEF IInv, CacheShape, LoadFails, Goto, process, Fault, Local, Published
<1>8. headers' = headers /\ DOMAIN disk \subseteq DOMAIN disk'
  BY DEF LoadFails, process, Fault
<1>. QED  BY <1>1, <1>2, <1>3, <1>4, <1>5, <1>6, <1>7, <1>8, Assemble DEF Local

\* A loaded kernel is the one the path names.
LEMMA LoadStep ==
  ASSUME IInv, NEW p \in Processes, Load(p)
  PROVE  IInv'
<1>1. CacheShape'
  BY DEF IInv, CacheShape, Load, Goto, process, Return, Labels, Building
<1>2. DirectoriesWhole'
  BY DEF IInv, Load, process, DirectoriesWhole, Return
<1>3. \A q \in Processes \ {p} : Undisturbed(q)
  BY DEF IInv, CacheShape, Load, Goto, process, Return, Undisturbed
<1>4. Memory(p)'
  BY DEF IInv, CacheShape, Load, Goto, process, Return, Local, Memory, Building
<1>5. Tables(p)'
  <2>1. Path(p) \in DOMAIN disk /\ hash[p] = <<headers>>
    BY DEF IInv, Local, Memory, Published, Load, Building
  <2>2. Path(p)[1] = <<headers>> /\ Path(p)[2] = Code(args[p])
    BY <2>1 DEF Path
  <2>3. disk[Path(p)].binary = <<headers, Path(p)[2]>>
    BY <2>1, <2>2 DEF IInv, DirectoriesWhole
  <2>4. disk[Path(p)].binary = Kernel(headers, args[p]) /\ disk[Path(p)].binary # Torn
    BY <2>2, <2>3, KernelDistinct DEF Kernel
  <2>5. ReturnsKernel(p)
    BY <2>4 DEF ReturnsKernel, Load
  <2>6. headers' = headers /\ args' = args
    BY DEF Load
  <2>7. runtimes'[p] = Extend(runtimes[p], Path(p), disk[Path(p)].binary)
    BY <2>4 DEF IInv, CacheShape, Load
  <2>8. \A path \in DOMAIN runtimes'[p] :
          path[1] = <<headers>> /\ runtimes'[p][path] = <<headers, path[2]>>
    BY <2>2, <2>3, <2>7 DEF IInv, Local, Tables, Extend
  <2>. QED  BY <2>5, <2>6, <2>8, ReturnedTables DEF IInv, Local, Tables
<1>6. Temporary(p)'
  BY DEF IInv, CacheShape, Load, Goto, process, Return, Local, Temporary
<1>7. Published(p)'
  <2>1. Path(p) \in DOMAIN disk
    BY DEF IInv, Local, Published, Load
  <2>2. disk[Path(p)].binary # Torn
    BY <2>1, KernelDistinct DEF IInv, DirectoriesWhole
  <2>3. pc' = [pc EXCEPT ![p] = "idle"]
    BY <2>2 DEF Load, Return, Goto
  <2>. QED  BY <2>3 DEF IInv, CacheShape, Published
<1>8. headers' = headers /\ DOMAIN disk \subseteq DOMAIN disk'
  BY DEF Load, process, Return
<1>. QED  BY <1>1, <1>2, <1>3, <1>4, <1>5, <1>6, <1>7, <1>8, Assemble DEF Local

\* A new temporary directory with the source.
LEMMA WriteSourceStep ==
  ASSUME IInv, NEW p \in Processes, WriteSource(p)
  PROVE  IInv'
<1>1. CacheShape'
  BY DEF IInv, CacheShape, WriteSource, Goto, process, Labels, Building
<1>2. DirectoriesWhole'
  BY DEF IInv, WriteSource, process, DirectoriesWhole
<1>3. \A q \in Processes \ {p} : Undisturbed(q)
  BY DEF IInv, CacheShape, WriteSource, Goto, process, Undisturbed
<1>4. Memory(p)'
  BY DEF IInv, CacheShape, WriteSource, Goto, process, Local, Memory, Building
<1>5. Tables(p)'
  BY DEF IInv, CacheShape, WriteSource, Goto, process, Local, Tables
<1>6. Temporary(p)'
  BY DEF IInv, CacheShape, WriteSource, Goto, process, Local, Temporary
<1>7. Published(p)'
  BY DEF IInv, CacheShape, WriteSource, Goto, process, Local, Published
<1>8. headers' = headers /\ DOMAIN disk \subseteq DOMAIN disk'
  BY DEF WriteSource, process
<1>. QED  BY <1>1, <1>2, <1>3, <1>4, <1>5, <1>6, <1>7, <1>8, Assemble DEF Local

\* The compiler makes the kernel of the installed headers.
LEMMA CompileStep ==
  ASSUME IInv, NEW p \in Processes, Compile(p)
  PROVE  IInv'
<1>1. CacheShape'
  BY DEF IInv, CacheShape, Compile, Goto, process, Labels, Building
<1>2. DirectoriesWhole'
  BY DEF IInv, Compile, process, DirectoriesWhole
<1>3. \A q \in Processes \ {p} : Undisturbed(q)
  BY DEF IInv, CacheShape, Compile, Goto, process, Undisturbed
<1>4. Memory(p)'
  BY DEF IInv, CacheShape, Compile, Goto, process, Local, Memory, Building
<1>5. Tables(p)'
  BY DEF IInv, CacheShape, Compile, Goto, process, Local, Tables
<1>6. Temporary(p)'
  <2>1. pc'[p] = "sync" /\ tmp'[p] = [tmp[p] EXCEPT !.binary = Kernel(headers, args[p])]
    BY DEF IInv, CacheShape, Compile, Goto
  <2>2. tmp[p] = [EmptyDir EXCEPT !.source = TRUE]
    BY DEF IInv, Local, Temporary, Compile
  <2>3. Filled(FALSE, args[p])' = [source |-> TRUE, binary |-> Kernel(headers, args[p]), synced |-> FALSE]
    BY DEF Compile, Filled, Kernel, Code, Aligned
  <2>4. tmp'[p] = [source |-> TRUE, binary |-> Kernel(headers, args[p]), synced |-> FALSE]
    BY <2>1, <2>2 DEF EmptyDir
  <2>. QED  BY <2>1, <2>3, <2>4 DEF Temporary
<1>7. Published(p)'
  BY DEF IInv, CacheShape, Compile, Goto, process, Local, Published
<1>8. headers' = headers /\ DOMAIN disk \subseteq DOMAIN disk'
  BY DEF Compile, process
<1>. QED  BY <1>1, <1>2, <1>3, <1>4, <1>5, <1>6, <1>7, <1>8, Assemble DEF Local

\* A compiler fails for a cause.
LEMMA CompileFailsStep ==
  ASSUME IInv, NEW p \in Processes, CompileFails(p)
  PROVE  IInv'
<1>1. CacheShape'
  BY DEF IInv, CacheShape, CompileFails, Goto, process, Fault, Labels, Building
<1>2. DirectoriesWhole'
  BY DEF IInv, CompileFails, process, DirectoriesWhole, Fault
<1>3. \A q \in Processes \ {p} : Undisturbed(q)
  BY DEF IInv, CacheShape, CompileFails, Goto, process, Fault, Undisturbed
<1>4. Memory(p)'
  BY DEF IInv, CacheShape, CompileFails, Goto, process, Fault, Local, Memory, Building
<1>5. Tables(p)'
  BY DEF IInv, CacheShape, CompileFails, Goto, process, Fault, Local, Tables
<1>6. Temporary(p)'
  BY DEF IInv, CacheShape, CompileFails, Goto, process, Fault, Local, Temporary
<1>7. Published(p)'
  BY DEF IInv, CacheShape, CompileFails, Goto, process, Fault, Local, Published
<1>8. headers' = headers /\ DOMAIN disk \subseteq DOMAIN disk'
  BY DEF CompileFails, process, Fault
<1>. QED  BY <1>1, <1>2, <1>3, <1>4, <1>5, <1>6, <1>7, <1>8, Assemble DEF Local

\* A synced directory.
LEMMA SyncStep ==
  ASSUME IInv, NEW p \in Processes, Sync(p)
  PROVE  IInv'
<1>1. CacheShape'
  BY DEF IInv, CacheShape, Sync, Goto, process, Labels, Building
<1>2. DirectoriesWhole'
  BY DEF IInv, Sync, process, DirectoriesWhole
<1>3. \A q \in Processes \ {p} : Undisturbed(q)
  BY DEF IInv, CacheShape, Sync, Goto, process, Undisturbed
<1>4. Memory(p)'
  BY DEF IInv, CacheShape, Sync, Goto, process, Local, Memory, Building
<1>5. Tables(p)'
  BY DEF IInv, CacheShape, Sync, Goto, process, Local, Tables
<1>6. Temporary(p)'
  <2>1. tmp[p] = Filled(FALSE, args[p])
    BY DEF IInv, Local, Temporary, Sync
  <2>2. tmp'[p] = [Filled(FALSE, args[p]) EXCEPT !.synced = TRUE]
    BY <2>1 DEF IInv, CacheShape, Sync
  <2>3. tmp'[p] = Filled(TRUE, args[p])
    BY <2>2 DEF Filled
  <2>4. pc'[p] = "rename" /\ Filled(TRUE, args[p])' = Filled(TRUE, args[p])
    BY DEF IInv, CacheShape, Sync, Goto, Filled, Kernel, Code, Aligned
  <2>. QED  BY <2>3, <2>4 DEF Temporary
<1>7. Published(p)'
  BY DEF IInv, CacheShape, Sync, Goto, process, Local, Published
<1>8. headers' = headers /\ DOMAIN disk \subseteq DOMAIN disk'
  BY DEF Sync, process
<1>. QED  BY <1>1, <1>2, <1>3, <1>4, <1>5, <1>6, <1>7, <1>8, Assemble DEF Local

\* A rename that is lost leaves the winner's directory.
LEMMA RenameLostStep ==
  ASSUME IInv, NEW p \in Processes, RenameLost(p)
  PROVE  IInv'
<1>1. CacheShape'
  BY DEF IInv, CacheShape, RenameLost, Goto, process, Labels, Building
<1>2. DirectoriesWhole'
  BY DEF IInv, RenameLost, process, DirectoriesWhole
<1>3. \A q \in Processes \ {p} : Undisturbed(q)
  BY DEF IInv, CacheShape, RenameLost, Goto, process, Undisturbed
<1>4. Memory(p)'
  BY DEF IInv, CacheShape, RenameLost, Goto, process, Local, Memory, Building
<1>5. Tables(p)'
  BY DEF IInv, CacheShape, RenameLost, Goto, process, Local, Tables
<1>6. Temporary(p)'
  BY DEF IInv, CacheShape, RenameLost, Goto, process, Local, Temporary
<1>7. Published(p)'
  BY DEF IInv, CacheShape, RenameLost, Goto, process, Local, Published, Path, Code, Aligned
<1>8. headers' = headers /\ DOMAIN disk \subseteq DOMAIN disk'
  BY DEF RenameLost, process
<1>. QED  BY <1>1, <1>2, <1>3, <1>4, <1>5, <1>6, <1>7, <1>8, Assemble DEF Local

\* A rename fails for a cause.
LEMMA RenameFailsStep ==
  ASSUME IInv, NEW p \in Processes, RenameFails(p)
  PROVE  IInv'
<1>1. CacheShape'
  BY DEF IInv, CacheShape, RenameFails, Goto, process, Fault, Labels, Building
<1>2. DirectoriesWhole'
  BY DEF IInv, RenameFails, process, DirectoriesWhole, Fault
<1>3. \A q \in Processes \ {p} : Undisturbed(q)
  BY DEF IInv, CacheShape, RenameFails, Goto, process, Fault, Undisturbed
<1>4. Memory(p)'
  BY DEF IInv, CacheShape, RenameFails, Goto, process, Fault, Local, Memory, Building
<1>5. Tables(p)'
  BY DEF IInv, CacheShape, RenameFails, Goto, process, Fault, Local, Tables
<1>6. Temporary(p)'
  BY DEF IInv, CacheShape, RenameFails, Goto, process, Fault, Local, Temporary
<1>7. Published(p)'
  BY DEF IInv, CacheShape, RenameFails, Goto, process, Fault, Local, Published
<1>8. headers' = headers /\ DOMAIN disk \subseteq DOMAIN disk'
  BY DEF RenameFails, process, Fault
<1>. QED  BY <1>1, <1>2, <1>3, <1>4, <1>5, <1>6, <1>7, <1>8, Assemble DEF Local

\* A rename publishes a whole directory.
LEMMA RenameWonStep ==
  ASSUME IInv, NEW p \in Processes, RenameWon(p)
  PROVE  IInv'
<1>1. CacheShape'
  BY DEF IInv, CacheShape, RenameWon, Goto, process, Labels, Building
<1>2. DirectoriesWhole'
  <2>1. tmp[p] = Filled(TRUE, args[p]) /\ hash[p] = <<headers>>
    BY DEF IInv, Local, Memory, Temporary, RenameWon, Building
  <2>2. DOMAIN disk' = DOMAIN disk \cup {Path(p)}
        /\ \A z \in DOMAIN disk \cup {Path(p)} :
              disk'[z] = IF z = Path(p) THEN tmp[p] ELSE disk[z]
    BY DEF RenameWon, Extend
  <2>3. Path(p)[1][1] = headers /\ Path(p)[2] = Code(args[p])
    BY <2>1 DEF Path
  <2>. QED  BY <2>1, <2>2, <2>3 DEF IInv, DirectoriesWhole, Filled, Kernel
<1>3. \A q \in Processes \ {p} : Undisturbed(q)
  BY DEF IInv, CacheShape, RenameWon, Goto, process, Undisturbed
<1>4. Memory(p)'
  BY DEF IInv, CacheShape, RenameWon, Goto, process, Local, Memory, Building
<1>5. Tables(p)'
  BY DEF IInv, CacheShape, RenameWon, Goto, process, Local, Tables
<1>6. Temporary(p)'
  BY DEF IInv, CacheShape, RenameWon, Goto, process, Local, Temporary
<1>7. Published(p)'
  <2>1. Path(p)' = Path(p) /\ Path(p) \in DOMAIN disk'
    BY DEF RenameWon, process, Path, Code, Aligned, Extend
  <2>. QED  BY <2>1 DEF IInv, CacheShape, RenameWon, Goto, process, Published
<1>8. headers' = headers /\ DOMAIN disk \subseteq DOMAIN disk'
  BY DEF RenameWon, process, Extend
<1>. QED  BY <1>1, <1>2, <1>3, <1>4, <1>5, <1>6, <1>7, <1>8, Assemble DEF Local

\* The own temporary directory goes.
LEMMA CleanupStep ==
  ASSUME IInv, NEW p \in Processes, Cleanup(p)
  PROVE  IInv'
<1>1. CacheShape'
  BY DEF IInv, CacheShape, Cleanup, Goto, process, Labels, Building
<1>2. DirectoriesWhole'
  BY DEF IInv, Cleanup, process, DirectoriesWhole
<1>3. \A q \in Processes \ {p} : Undisturbed(q)
  BY DEF IInv, CacheShape, Cleanup, Goto, process, Undisturbed
<1>4. Memory(p)'
  BY DEF IInv, CacheShape, Cleanup, Goto, process, Local, Memory, Building
<1>5. Tables(p)'
  BY DEF IInv, CacheShape, Cleanup, Goto, process, Local, Tables
<1>6. Temporary(p)'
  BY DEF IInv, CacheShape, Cleanup, Goto, process, Local, Temporary
<1>7. Published(p)'
  BY DEF IInv, CacheShape, Cleanup, Goto, process, Local, Published, Path, Code, Aligned
<1>8. headers' = headers /\ DOMAIN disk \subseteq DOMAIN disk'
  BY DEF Cleanup, process
<1>. QED  BY <1>1, <1>2, <1>3, <1>4, <1>5, <1>6, <1>7, <1>8, Assemble DEF Local

\* A process starts with empty memory.
LEMMA StartStep ==
  ASSUME IInv, NEW p \in Processes, Start(p)
  PROVE  IInv'
<1>1. CacheShape'
  BY DEF IInv, CacheShape, Start, Goto, process, Labels, Building
<1>2. DirectoriesWhole'
  BY DEF IInv, Start, process, DirectoriesWhole
<1>3. \A q \in Processes \ {p} : Undisturbed(q)
  BY DEF IInv, CacheShape, Start, Goto, process, Undisturbed
<1>4. Memory(p)'
  BY DEF IInv, CacheShape, Start, Goto, process, Local, Memory, Building
<1>5. Tables(p)'
  BY DEF IInv, CacheShape, Start, Goto, process, Local, Tables, Memory
<1>6. Temporary(p)'
  BY DEF IInv, CacheShape, Start, Goto, process, Local, Temporary
<1>7. Published(p)'
  BY DEF IInv, CacheShape, Start, Goto, process, Local, Published
<1>8. headers' = headers /\ DOMAIN disk \subseteq DOMAIN disk'
  BY DEF Start, process
<1>. QED  BY <1>1, <1>2, <1>3, <1>4, <1>5, <1>6, <1>7, <1>8, Assemble DEF Local

\* A process that ends forgets everything.
LEMMA ExitStep ==
  ASSUME IInv, NEW p \in Processes, Exit(p)
  PROVE  IInv'
<1>1. CacheShape'
  BY DEF IInv, CacheShape, Exit, Goto, process, Forget, Labels, Building
<1>2. DirectoriesWhole'
  BY DEF IInv, Exit, process, DirectoriesWhole, Forget
<1>3. \A q \in Processes \ {p} : Undisturbed(q)
  BY DEF IInv, CacheShape, Exit, Goto, process, Forget, Undisturbed
<1>4. Memory(p)'
  BY DEF IInv, CacheShape, Exit, Goto, process, Forget, Local, Memory, Building
<1>5. Tables(p)'
  BY DEF IInv, CacheShape, Exit, Goto, process, Forget, Local, Tables
<1>6. Temporary(p)'
  BY DEF IInv, CacheShape, Exit, Goto, process, Forget, Local, Temporary
<1>7. Published(p)'
  BY DEF IInv, CacheShape, Exit, Goto, process, Forget, Local, Published
<1>8. headers' = headers /\ DOMAIN disk \subseteq DOMAIN disk'
  BY DEF Exit, process, Forget
<1>. QED  BY <1>1, <1>2, <1>3, <1>4, <1>5, <1>6, <1>7, <1>8, Assemble DEF Local

\* So does one that is killed.
LEMMA CrashStep ==
  ASSUME IInv, NEW p \in Processes, Crash(p)
  PROVE  IInv'
<1>1. CacheShape'
  BY DEF IInv, CacheShape, Crash, Goto, process, Forget, Labels, Building
<1>2. DirectoriesWhole'
  BY DEF IInv, Crash, process, DirectoriesWhole, Forget
<1>3. \A q \in Processes \ {p} : Undisturbed(q)
  BY DEF IInv, CacheShape, Crash, Goto, process, Forget, Undisturbed
<1>4. Memory(p)'
  BY DEF IInv, CacheShape, Crash, Goto, process, Forget, Local, Memory, Building
<1>5. Tables(p)'
  BY DEF IInv, CacheShape, Crash, Goto, process, Forget, Local, Tables
<1>6. Temporary(p)'
  BY DEF IInv, CacheShape, Crash, Goto, process, Forget, Local, Temporary
<1>7. Published(p)'
  BY DEF IInv, CacheShape, Crash, Goto, process, Forget, Local, Published
<1>8. headers' = headers /\ DOMAIN disk \subseteq DOMAIN disk'
  BY DEF Crash, process, Forget
<1>. QED  BY <1>1, <1>2, <1>3, <1>4, <1>5, <1>6, <1>7, <1>8, Assemble DEF Local

-----------------------------------------------------------------------------
(* Steps of all processes, and the theorems. *)

\* Headers are replaced when no process remembers any.
LEMMA InstallStep ==
  ASSUME IInv, Install
  PROVE  IInv'
<1>1. CacheShape'
  BY DEF IInv, CacheShape, Install, process
<1>2. DirectoriesWhole'
  BY DEF IInv, Install, DirectoriesWhole
<1>3. ASSUME NEW p \in Processes  PROVE Local(p)'
  <2>1. pc[p] = "off" /\ pc'[p] = "off" /\ Memory(p)
    BY DEF IInv, Local, Install
  <2>2. Memory(p)'
    BY <2>1 DEF Memory, Install, process, Building
  <2>3. Tables(p)'
    BY <2>1 DEF Memory, Tables, Install, process
  <2>4. Temporary(p)'
    BY <2>1 DEF Temporary
  <2>5. Published(p)'
    BY <2>1 DEF Published
  <2>. QED  BY <2>2, <2>3, <2>4, <2>5 DEF Local
<1>. QED  BY <1>1, <1>2, <1>3 DEF IInv

\* Power is lost: nothing on disk was without a sync.
LEMMA PowerLossStep ==
  ASSUME IInv, PowerLoss
  PROVE  IInv'
<1>1. CacheShape'
  BY DEF IInv, CacheShape, PowerLoss, Forget, Labels
<1>2. DirectoriesWhole'
  <2>1. PICK kept \in SUBSET DOMAIN disk : disk' =
          [q \in kept |-> IF disk[q].synced THEN disk[q] ELSE [disk[q] EXCEPT !.binary = Torn]]
    BY DEF PowerLoss
  <2>2. \A q \in kept : disk[q].synced
    BY DEF IInv, DirectoriesWhole
  <2>3. disk' = [q \in kept |-> disk[q]]
    BY <2>1, <2>2
  <2>. QED  BY <2>3 DEF IInv, DirectoriesWhole
<1>3. ASSUME NEW p \in Processes  PROVE Local(p)'
  BY DEF PowerLoss, Forget, Local, Memory, Tables, Temporary, Published, Building
<1>. QED  BY <1>1, <1>2, <1>3 DEF IInv

\* Every step keeps the invariant.
LEMMA Step == IInv /\ [Next]_vars => IInv'
<1>. SUFFICES ASSUME IInv, [Next]_vars  PROVE IInv'
  OBVIOUS
<1>1. CASE UNCHANGED vars
  <2>1. CacheShape' /\ DirectoriesWhole'
    BY <1>1 DEF IInv, CacheShape, DirectoriesWhole, vars, process
  <2>2. \A p \in Processes : Undisturbed(p)
    BY <1>1 DEF Undisturbed, vars, process
  <2>3. headers' = headers /\ DOMAIN disk \subseteq DOMAIN disk'
    BY <1>1 DEF vars
  <2>. QED  BY <2>1, <2>2, <2>3, Frame DEF IInv
<1>2. CASE Install
  BY <1>2, InstallStep
<1>3. CASE PowerLoss
  BY <1>3, PowerLossStep
<1>4. ASSUME NEW p \in Processes, NEW a \in Args, Request(p, a)  PROVE IInv'
  BY <1>4, RequestStep
<1>5. ASSUME NEW p \in Processes, Generate(p) \/ Start(p) \/ Exit(p)  PROVE IInv'
  BY <1>5, GenerateStep, StartStep, ExitStep
<1>6. ASSUME NEW p \in Processes, Get(p)  PROVE IInv'
  BY <1>6, GetHitStep, GetMissStep, ValidateStep, LoadStep DEF Get
<1>7. ASSUME NEW p \in Processes, Build(p)  PROVE IInv'
  BY <1>7, WriteSourceStep, CompileStep, SyncStep, RenameWonStep, RenameLostStep, CleanupStep
  DEF Build
<1>8. ASSUME NEW p \in Processes, Failure(p)  PROVE IInv'
  BY <1>8, LoadFailsStep, CompileFailsStep, RenameFailsStep, CrashStep DEF Failure
<1>. QED  BY <1>1, <1>2, <1>3, <1>4, <1>5, <1>6, <1>7, <1>8 DEF Next

\* The invariant holds throughout.
LEMMA Invariant == Spec => []IInv
BY Initially, Step, PTL DEF Spec

\* Cache directories are whole and hold what their path names, whatever crashes.
THEOREM AlwaysDirectoriesWhole == Spec => []DirectoriesWhole
<1>1. IInv => DirectoriesWhole
  BY DEF IInv
<1>. QED  BY <1>1, Invariant, PTL

\* A build returns the kernel of its own arguments and of the installed headers.
THEOREM AlwaysReturnsOwnKernel == Spec => []ReturnsOwnKernel
<1>1. IInv => ReturnsOwnKernel
  <2>. SUFFICES ASSUME IInv, NEW p \in Processes
                PROVE  /\ pc[p] = "idle" /\ result[p] # Missing
                            => result[p] = Kernel(headers, args[p])
                       /\ pc[p] = "load" => disk[Path(p)].binary = Kernel(headers, args[p])
    BY DEF ReturnsOwnKernel
  <2>1. pc[p] = "idle" /\ result[p] # Missing => result[p] = Kernel(headers, args[p])
    BY DEF IInv, Local, Tables
  <2>2. ASSUME pc[p] = "load"  PROVE disk[Path(p)].binary = Kernel(headers, args[p])
    <3>1. Path(p) \in DOMAIN disk /\ hash[p] = <<headers>>
      BY <2>2 DEF IInv, Local, Memory, Published, Building
    <3>2. Path(p)[1][1] = headers /\ Path(p)[2] = Code(args[p])
      BY <3>1 DEF Path
    <3>. QED  BY <3>1, <3>2 DEF IInv, DirectoriesWhole, Kernel
  <2>. QED  BY <2>1, <2>2
<1>. QED  BY <1>1, Invariant, PTL

\* A build throws only if something failed during it.
THEOREM AlwaysFailsForCause == Spec => []FailsForCause
<1>1. IInv => FailsForCause
  BY DEF IInv, Local, Published, FailsForCause
<1>. QED  BY <1>1, Invariant, PTL

-----------------------------------------------------------------------------
(* Calls: what the kernels read. *)

LEMMA SameIsReflexive == ASSUME NEW size, NEW a PROVE SameAddresses(size, a, a)
BY DEF SameAddresses

LEMMA SameIsTransitive ==
    ASSUME NEW size, NEW a, NEW b, NEW c, SameAddresses(size, a, b), SameAddresses(size, b, c)
    PROVE  SameAddresses(size, a, c)
BY DEF SameAddresses

\* A copy of scales that lie as their strides say lies N-major.
LEMMA RelaidHolds ==
    ASSUME NEW t, NEW size, Holds(t, t.stride)
    PROVE  /\ Relaid(t, size).dtype = "u16"
           /\ Holds(Relaid(t, size), NMajor(size))
           /\ Relaid(t, size).size = size
           /\ Relaid(t, size).stride = NMajor(size)
BY SameIsReflexive DEF Relaid, Holds

\* What a kernel of fp4 tiles is to be given.
ReadsNMajor(t) == t.dtype = "u16" /\ Holds(t, NMajor(t.size))

LEMMA CheckedIsNMajor ==
    ASSUME NEW t, CheckLayout(t), Holds(t, t.stride)
    PROVE  ReadsNMajor(t)
BY SameIsTransitive DEF CheckLayout, Holds, ReadsNMajor

LEMMA PreprocessedIsNMajor ==
    ASSUME NEW t, Holds(t, t.stride)
    PROVE  ReadsNMajor(Preprocess(t))
<1> DEFINE last == Len(t.size)
           bytes == IF t.dtype = "u8" THEN t.size[last] ELSE 2 * t.size[last]
           size == [t.size EXCEPT ![last] = CeilDiv(bytes, 2)]
<1>1. Preprocess(t) = Relaid(t, size)
      BY DEF Preprocess
<1> HIDE DEF size
<1> QED  BY <1>1, RelaidHolds DEF ReadsNMajor

LEMMA LhsIsNMajor ==
    ASSUME NEW t, Holds(t, t.stride)
    PROVE  ReadsNMajor(LhsScale(t))
BY CheckedIsNMajor, PreprocessedIsNMajor DEF LhsScale

LEMMA RhsIsNMajor ==
    ASSUME NEW t, Holds(t, t.stride)
    PROVE  ReadsNMajor(RhsScale(t))
<1> DEFINE post == PostPreprocess(t)
<1>1. post = t \/ post = Relaid(t, t.size)
      BY DEF PostPreprocess
<1>2. Holds(post, post.stride)
      BY <1>1, RelaidHolds
<1>3. \/ RhsScale(t) = t /\ CheckLayout(t)
      \/ RhsScale(t) = post /\ CheckLayout(post)
      \/ RhsScale(t) = Preprocess(post)
      BY DEF RhsScale
<1> HIDE DEF post
<1> QED  BY <1>2, <1>3, CheckedIsNMajor, PreprocessedIsNMajor

\* The invariant. Before they are prepared, the scales lie as their strides say;
\* afterwards as the kernel of the call reads them. The scales of a fused epilogue
\* lie as their strides say too, but for the time from the launch to the return.
FourBits == call.dtype = "fp4" /\ ~call.compileOnly
ScalesFitKernel ==
    /\ lhsScale.dtype = "u16"
    /\ Holds(lhsScale, IF call.type = "fused" THEN KMajor(lhsScale.size) ELSE NMajor(lhsScale.size))
    /\ ReadsNMajor(rhsScale)

CallsInv ==
    /\ calls \in Nat
    /\ calls = 0 => at = "idle" /\ outScale = NoTensor
    /\ calls > 0 => /\ {"dtype", "outScale", "compileOnly"} \subseteq DOMAIN call
                    /\ call.compileOnly \in BOOLEAN
                    /\ call.outScale # "none" => call.dtype = "fp4"
    /\ at \in {"idle", "checks", "scales", "entry", "launch", "after", "done", "refused"}
    /\ at = "idle" => calls = 0
    /\ launch # NoLaunch => at \in {"after", "done"}
    /\ at = "scales" => Tile4(call)
    /\ FourBits /\ at \in {"checks", "scales"} =>
           Holds(lhsScale, lhsScale.stride) /\ Holds(rhsScale, rhsScale.stride)
    /\ FourBits /\ at \in {"entry", "launch", "after", "done"} => ScalesFitKernel
    /\ outScale = [dtype |-> outScale.dtype, size |-> outScale.size, stride |-> outScale.stride, stored |-> outScale.stored]
    /\ \/ calls > 0 /\ call.compileOnly
       \/ Holds(outScale, IF at = "after" /\ Fusing(call) THEN NMajor(outScale.size) ELSE outScale.stride)

LEMMA CallsStart == CallInit => CallsInv
BY DEF CallInit, CallsInv, NoCall, NoTensor, Holds, SameAddresses, FourBits

\* No call that adds C has an epilogue that writes scales.
LEMMA SumsFuseNothing ==
    ASSUME CallsInv, calls > 0, Sums(call)
    PROVE  ~Fusing(call)
BY DEF CallsInv, Sums, Fusing

LEMMA BeginStep ==
    ASSUME CallsInv, NEW c \in FirstCalls \cup LaterCalls, Begin(c)
    PROVE  CallsInv'
<1>1. /\ {"dtype", "outScale", "compileOnly"} \subseteq DOMAIN c
      /\ c.compileOnly \in BOOLEAN
      /\ c.lhs.dtype # "again" => Holds(c.lhs, c.lhs.stride)
      /\ Holds(c.rhs, c.rhs.stride)
      /\ c.outScale # "none" => c.dtype = "fp4"
      BY CallsAssumption
<1>2. /\ call' = c /\ at' = "checks" /\ calls' = calls + 1 /\ launch' = NoLaunch /\ rhsScale' = c.rhs
      /\ lhsScale' = IF FromBefore(c) THEN outScale ELSE c.lhs
      /\ calls > 0 => c.compileOnly = call.compileOnly
      /\ at \in {"idle", "done", "refused"}
      /\ FromBefore(c) => at = "done"
      BY DEF Begin
<1>3. calls \in Nat /\ calls' \in Nat /\ calls' > 0 /\ calls' # 0
      BY <1>2 DEF CallsInv
<1>4. c.compileOnly \/ Holds(outScale, outScale.stride)
  <2>1. CASE calls = 0
        BY <2>1 DEF CallsInv, NoTensor, Holds, SameAddresses
  <2>2. CASE calls > 0
        BY <2>2, <1>2 DEF CallsInv
  <2> QED BY <1>3, <2>1, <2>2
<1>5. /\ outScale' = [dtype |-> outScale'.dtype, size |-> outScale'.size, stride |-> outScale'.stride, stored |-> outScale'.stored]
      /\ c.compileOnly \/ Holds(outScale', outScale'.stride)
  <2>1. CASE c.outScale = "fresh"
    <3> DEFINE size == OutScaleSize(c)
    <3>1. outScale' = [dtype |-> "u16", size |-> size, stride |-> KMajor(size), stored |-> KMajor(size)]
          BY <2>1 DEF Begin
    <3> HIDE DEF size
    <3> QED BY <3>1, SameIsReflexive DEF Holds
  <2>2. CASE c.outScale # "fresh"
    <3>1. outScale' = outScale
          BY <2>2 DEF Begin
    <3> QED BY <3>1, <1>4 DEF CallsInv
  <2> QED BY <2>1, <2>2
<1>6. c.compileOnly \/ (Holds(lhsScale', lhsScale'.stride) /\ Holds(rhsScale', rhsScale'.stride))
      BY <1>1, <1>2, <1>4 DEF FromBefore
<1> QED  BY <1>1, <1>2, <1>3, <1>5, <1>6 DEF CallsInv, FourBits

LEMMA RedirectStep == ASSUME CallsInv, Redirect PROVE CallsInv'
<1>1. calls > 0
      BY DEF CallsInv, Redirect
<1>2. call' = [call EXCEPT !.dtype = "int8"] /\ call.dtype = "fp8" /\ at = "checks"
      BY DEF Redirect, IsRedirected
<1>3. /\ call'.dtype = "int8" /\ call'.compileOnly = call.compileOnly /\ call'.outScale = call.outScale
      /\ DOMAIN call' = DOMAIN call /\ call.outScale = "none"
      BY <1>1, <1>2 DEF CallsInv
<1> QED  BY <1>1, <1>2, <1>3 DEF CallsInv, FourBits, Redirect

\* The kernel of a MoE call reads its rows' scales K-major, what its checks ask for.
LEMMA CheckStep == ASSUME CallsInv, Check PROVE CallsInv'
<1>1. /\ at = "checks" /\ calls > 0
      /\ at' = IF ~Accepts(call) THEN "refused" ELSE IF Tile4(call) THEN "scales" ELSE "entry"
      /\ UNCHANGED <<call, d, accum, lhsScale, rhsScale, outScale, launch, calls>>
      BY DEF Check, CallsInv
<1>2. ASSUME FourBits, at' = "entry"
      PROVE  ScalesFitKernel
  <2>1. call.dtype = "fp4" /\ call.type = "fused" /\ Accepts(call)
        BY <1>1, <1>2 DEF FourBits, Tile4
  <2>2. FusedMoeAccepts(call)
        BY <2>1, Zenon DEF Accepts, Weighted, Dense, Strided
  <2>3. lhsScale.dtype = "u16" /\ IsContiguous(lhsScale) /\ CheckLayout(rhsScale)
        BY <2>1, <2>2 DEF FusedMoeAccepts
  <2>4. Holds(lhsScale, lhsScale.stride) /\ Holds(rhsScale, rhsScale.stride)
        BY <1>1, <1>2 DEF CallsInv
  <2>5. Holds(lhsScale, KMajor(lhsScale.size))
        BY <2>3, <2>4, SameIsTransitive DEF IsContiguous, Holds
  <2> QED BY <2>1, <2>3, <2>4, <2>5, CheckedIsNMajor DEF ScalesFitKernel
<1>3. at' = "scales" => Tile4(call)
      BY <1>1
<1> QED  BY <1>1, <1>2, <1>3 DEF CallsInv, FourBits, ScalesFitKernel

LEMMA PrepareStep == ASSUME CallsInv, PrepareScales PROVE CallsInv'
<1>1. /\ at = "scales" /\ calls > 0 /\ Tile4(call) /\ at' \in {"entry", "refused"}
      /\ lhsScale' = LhsScale(lhsScale) /\ rhsScale' = RhsScale(rhsScale)
      /\ UNCHANGED <<call, d, accum, outScale, launch, calls>>
      BY DEF PrepareScales, CallsInv
<1>2. ASSUME FourBits
      PROVE  ScalesFitKernel'
      BY <1>1, <1>2, LhsIsNMajor, RhsIsNMajor DEF CallsInv, ScalesFitKernel, ReadsNMajor, Tile4
<1> QED  BY <1>1, <1>2 DEF CallsInv, FourBits

LEMMA HostStep ==
    ASSUME CallsInv, OpenSum \/ EarlyReturn \/ CopyC
    PROVE  CallsInv'
<1>1. /\ at = "entry" /\ calls > 0 /\ at' \in {"launch", "done"}
      /\ UNCHANGED <<call, lhsScale, rhsScale, outScale, launch, calls>>
      BY DEF OpenSum, EarlyReturn, CopyC, CallsInv
<1> QED  BY <1>1 DEF CallsInv, FourBits, ScalesFitKernel

LEMMA LaunchStep == ASSUME CallsInv, Launch PROVE CallsInv'
<1>1. /\ at = "launch" /\ calls > 0 /\ UNCHANGED <<call, lhsScale, rhsScale, calls>>
      BY DEF Launch, CallsInv
<1>2. \/ /\ at' = "after"
         /\ outScale' = IF Fusing(call) /\ ~call.compileOnly
                        THEN [outScale EXCEPT !.stored = NMajor(outScale.size)] ELSE outScale
      \/ at' = "refused" /\ UNCHANGED <<launch, outScale>>
      BY DEF Launch
<1>3. /\ outScale' = [dtype |-> outScale'.dtype, size |-> outScale'.size, stride |-> outScale'.stride, stored |-> outScale'.stored]
      /\ \/ call.compileOnly
         \/ Holds(outScale', IF at' = "after" /\ Fusing(call) THEN NMajor(outScale'.size) ELSE outScale'.stride)
  <2>1. CASE outScale' = outScale /\ ~(at' = "after" /\ Fusing(call) /\ ~call.compileOnly)
        BY <1>1, <2>1 DEF CallsInv
  <2>2. CASE /\ at' = "after" /\ Fusing(call) /\ ~call.compileOnly
             /\ outScale' = [outScale EXCEPT !.stored = NMajor(outScale.size)]
    <3>1. outScale' = [dtype |-> outScale.dtype, size |-> outScale.size, stride |-> outScale.stride,
                       stored |-> NMajor(outScale.size)]
          BY <2>2 DEF CallsInv
    <3> QED BY <2>2, <3>1, SameIsReflexive DEF Holds
  <2> QED BY <1>2, <2>1, <2>2
<1> QED  BY <1>1, <1>2, <1>3 DEF CallsInv, FourBits, ScalesFitKernel

LEMMA EndStep ==
    ASSUME CallsInv, AddC \/ ReturnScales
    PROVE  CallsInv'
<1>1. /\ at = "after" /\ calls > 0 /\ at' = "done"
      /\ UNCHANGED <<call, lhsScale, rhsScale, launch, calls>>
      BY DEF AddC, ReturnScales, CallsInv
<1>2. /\ outScale' = [dtype |-> outScale'.dtype, size |-> outScale'.size, stride |-> outScale'.stride, stored |-> outScale'.stored]
      /\ call.compileOnly \/ Holds(outScale', outScale'.stride)
  <2>1. CASE Fusing(call)
    <3>1. outScale' = [outScale EXCEPT !.stride = NMajor(outScale.size)]
          BY <1>1, <2>1, SumsFuseNothing DEF AddC, ReturnScales, Restrided
    <3>2. outScale' = [dtype |-> outScale.dtype, size |-> outScale.size, stride |-> NMajor(outScale.size),
                       stored |-> outScale.stored]
          BY <3>1 DEF CallsInv
    <3>3. call.compileOnly \/ Holds(outScale, NMajor(outScale.size))
          BY <1>1, <2>1 DEF CallsInv
    <3>4. /\ outScale'.stride = NMajor(outScale'.size)
          /\ outScale'.size = outScale.size /\ outScale'.stored = outScale.stored
          BY <3>2
    <3> QED BY <3>2, <3>3, <3>4 DEF Holds
  <2>2. CASE ~Fusing(call)
    <3>1. outScale' = outScale
          BY <2>2 DEF AddC, ReturnScales
    <3> QED BY <1>1, <2>2, <3>1 DEF CallsInv
  <2> QED BY <2>1, <2>2
<1> QED  BY <1>1, <1>2 DEF CallsInv, FourBits, ScalesFitKernel

LEMMA CallsStep == CallsInv /\ [CallNext]_callVars => CallsInv'
<1> SUFFICES ASSUME CallsInv, [CallNext]_callVars PROVE CallsInv'
    OBVIOUS
<1>1. ASSUME NEW c \in IF calls = 0 THEN FirstCalls ELSE LaterCalls, Begin(c) PROVE CallsInv'
      BY <1>1, BeginStep
<1>2. CASE UNCHANGED callVars
      BY <1>2 DEF callVars, CallsInv, FourBits, ScalesFitKernel
<1>3. CASE Rest
      BY <1>2, <1>3 DEF Rest
<1> QED  BY <1>1, <1>2, <1>3, RedirectStep, CheckStep, PrepareStep, HostStep, LaunchStep, EndStep DEF CallNext

\* The scales of a call, and those that it leaves, lie as said.
THEOREM CallsInvariance == CallSpec => []CallsInv
BY CallsStart, CallsStep, PTL DEF CallSpec

LEMMA InvReads == CallsInv => ScalesReadAsGiven
BY DEF CallsInv, ScalesReadAsGiven, FourBits, ScalesFitKernel, ReadsNMajor

\* However calls follow one another and however a caller lays out the scales it
\* passes, an fp4 kernel is launched on scales that lie as it reads them, with the
\* caller's values: copies are taken where the layout differs, and what a fused
\* epilogue has written N-major is addressed N-major by the calls behind it.
THEOREM AlwaysScalesReadAsGiven == CallSpec => []ScalesReadAsGiven
BY CallsInvariance, InvReads, PTL
=============================================================================
