------------------------------- MODULE JitCache -------------------------------
(***************************************************************************)
(* The kernel cache of the JIT: Compiler::build_cached and Compiler::build *)
(* (csrc/jit/compiler.hpp), KernelRuntimeCache::get (csrc/jit/cache.hpp)   *)
(* and KernelRuntime (csrc/jit/kernel_runtime.hpp).                        *)
(*                                                                         *)
(* Every rank is a process that looks a kernel up in its own memory, then  *)
(* in a cache directory all ranks share, and compiles it otherwise: into a *)
(* temporary directory of its own, which it then renames to the cache path *)
(* unless another rank was there first.  The calls of one process are      *)
(* serialised by the Python interpreter.                                   *)
(*                                                                         *)
(* Processes and compilers may be killed and the machine may go down; the  *)
(* file system shows other nodes, and keeps, only what was fsynced.  New   *)
(* headers are installed while no process runs.                            *)
(***************************************************************************)
EXTENDS Integers

CONSTANTS Processes,   \* the ranks that share a cache directory
          Args,        \* arguments of launches: [n, blockN]
          Versions,    \* contents the include files may have
          MaxFaults    \* bound: crashes and failed commands

ASSUME JitAssumption ==
  /\ \A a \in Args : a.n \in Nat /\ a.blockN \in Nat \ {0}
  /\ MaxFaults \in Nat

VARIABLES
  headers,    \* the installed include files
  disk,       \* the cache directory: path -> contents
  tmp,        \* tmp[p]: the temporary directory of the build p is in
  hash,       \* hash[p]: include_hash, NoHash while empty
  runtimes,   \* runtimes[p]: kernel_runtime_cache, path -> loaded kernel
  shortcut,   \* shortcut[p]: the lookup table of build_cached, key -> loaded kernel
  pc,         \* pc[p]: where p is
  args,       \* args[p]: the arguments p builds for
  cached,     \* cached[p]: the launcher called build_cached, not build
  result,     \* result[p]: the kernel its last build returned
  fault,      \* fault[p]: something p depends on failed during this build
  faults      \* number of faults so far

process == <<hash, runtimes, shortcut>>
vars == <<headers, disk, tmp, process, pc, args, cached, result, fault, faults>>

\* A kernel is what it was compiled from; a file may also be absent or torn.
NoHash == <<>>
Missing == <<>>
Torn == <<"torn">>
EmptyDir == [source |-> FALSE, binary |-> Missing, synced |-> FALSE]
Extend(f, x, y) == [z \in DOMAIN f \cup {x} |-> IF z = x THEN y ELSE f[z]]

\* What generate_impl reads of the arguments.
Aligned(a) == a.n % a.blockN = 0
Code(a) == <<a.blockN, Aligned(a)>>
Kernel(version, a) == <<version, Code(a)>>

\* Mutant: the alignment of N is left out of the key.
CompileKeyShort(a) == <<a.blockN>>

\* Runtime::compile_key
CompileKey(a) == <<a.blockN, Aligned(a)>>

\* dir_path: the digest of the code, whose first line is the include hash.
Path(p) == <<hash[p], Code(args[p])>>

Init ==
  /\ headers \in Versions
  /\ disk = <<>>
  /\ tmp = [p \in Processes |-> EmptyDir]
  /\ hash = [p \in Processes |-> NoHash]
  /\ runtimes = [p \in Processes |-> <<>>]
  /\ shortcut = [p \in Processes |-> <<>>]
  /\ pc = [p \in Processes |-> "off"]
  /\ args \in [Processes -> Args]
  /\ cached = [p \in Processes |-> FALSE]
  /\ result = [p \in Processes |-> Missing]
  /\ fault = [p \in Processes |-> FALSE]
  /\ faults = 0

Goto(p, label) == pc' = [pc EXCEPT ![p] = label]
Fault(p) ==
  /\ faults < MaxFaults
  /\ faults' = faults + 1
  /\ fault' = [fault EXCEPT ![p] = TRUE]

\* A launcher calls build, or build_cached, where a hit in the table needs nothing else.
Request(p, a) ==
  /\ pc[p] \in {"idle", "failed"}
  /\ args' = [args EXCEPT ![p] = a]
  /\ fault' = [fault EXCEPT ![p] = FALSE]
  /\ \E table \in BOOLEAN :
       /\ cached' = [cached EXCEPT ![p] = table]
       /\ IF table /\ CompileKey(a) \in DOMAIN shortcut[p]
          THEN /\ result' = [result EXCEPT ![p] = shortcut[p][CompileKey(a)]]
               /\ Goto(p, "idle")
          ELSE /\ result' = [result EXCEPT ![p] = Missing]
               /\ Goto(p, "generate")
  /\ UNCHANGED <<headers, disk, tmp, process, faults>>

\* LaunchRuntime::generate hashes the include files the first time only.
Generate(p) ==
  /\ pc[p] = "generate"
  /\ hash' = [hash EXCEPT ![p] = IF @ = NoHash THEN <<headers>> ELSE @]
  /\ Goto(p, "get")
  /\ UNCHANGED <<headers, disk, tmp, runtimes, shortcut, args, cached, result, fault, faults>>

\* A build returns a kernel, and build_cached remembers it.
Return(p, kernel) ==
  /\ shortcut' = IF cached[p]
                 THEN [shortcut EXCEPT ![p] = Extend(@, CompileKey(args[p]), kernel)]
                 ELSE shortcut
  /\ result' = [result EXCEPT ![p] = kernel]
  /\ Goto(p, "idle")

\* KernelRuntimeCache::get, before ("get") and after ("reget") the kernel was compiled:
\* the memory, then whether the directory exists.  A second miss is an assertion.
GetHit(p) ==
  /\ pc[p] \in {"get", "reget"}
  /\ Path(p) \in DOMAIN runtimes[p] /\ runtimes[p][Path(p)] # Missing
  /\ Return(p, runtimes[p][Path(p)])
  /\ UNCHANGED <<headers, disk, tmp, hash, runtimes, args, cached, fault, faults>>

GetMiss(p) ==
  /\ pc[p] \in {"get", "reget"}
  /\ ~(Path(p) \in DOMAIN runtimes[p] /\ runtimes[p][Path(p)] # Missing)
  /\ Goto(p, IF Path(p) \in DOMAIN disk /\ Path(p) \notin DOMAIN runtimes[p] THEN "validate"
             ELSE IF pc[p] = "get" THEN "write" ELSE "failed")
  /\ UNCHANGED <<headers, disk, tmp, process, args, cached, result, fault, faults>>

\* check_validity: both files must be there.  What was not fsynced may not be visible.
Validate(p) ==
  /\ pc[p] = "validate"
  /\ LET dir == disk[Path(p)]
         whole == dir.source /\ dir.binary # Missing
     IN  \E visible \in {TRUE, dir.synced} : Goto(p, IF whole /\ visible THEN "load" ELSE "failed")
  /\ UNCHANGED <<headers, disk, tmp, process, args, cached, result, fault, faults>>

\* Mutant: the entry of the cache is made before the kernel is loaded into it.
LoadFailsInserted(p) ==
  /\ pc[p] = "load"
  /\ Fault(p) /\ Goto(p, "failed")
  /\ runtimes' = [runtimes EXCEPT ![p] = Extend(@, Path(p), Missing)]
  /\ UNCHANGED <<headers, disk, tmp, hash, shortcut, args, cached, result>>

\* The constructor of KernelRuntime throws: hgobjdump or the driver failed.
LoadFails(p) ==
  /\ pc[p] = "load"
  /\ Fault(p) /\ Goto(p, "failed")
  /\ UNCHANGED <<headers, disk, tmp, process, args, cached, result>>

\* It throws on a torn binary, too; else the kernel is kept for the process's lifetime.
Load(p) ==
  LET kernel == disk[Path(p)].binary IN
  /\ pc[p] = "load"
  /\ IF kernel = Torn
     THEN Goto(p, "failed") /\ UNCHANGED <<runtimes, shortcut, result>>
     ELSE Return(p, kernel) /\ runtimes' = [runtimes EXCEPT ![p] = Extend(@, Path(p), kernel)]
  /\ UNCHANGED <<headers, disk, tmp, hash, args, cached, fault, faults>>

\* A new temporary directory, and the source in it.
WriteSource(p) ==
  /\ pc[p] = "write"
  /\ tmp' = [tmp EXCEPT ![p] = [EmptyDir EXCEPT !.source = TRUE]]
  /\ Goto(p, "compile")
  /\ UNCHANGED <<headers, disk, process, args, cached, result, fault, faults>>

\* The compiler reads the include files of this moment.
Compile(p) ==
  /\ pc[p] = "compile"
  /\ tmp' = [tmp EXCEPT ![p].binary = Kernel(headers, args[p])]
  /\ Goto(p, "sync")
  /\ UNCHANGED <<headers, disk, process, args, cached, result, fault, faults>>

\* Mutant: WEXITSTATUS of a killed compiler is taken for success.
CompileKilledUnnoticed(p) ==
  /\ pc[p] = "compile"
  /\ Fault(p) /\ Goto(p, "sync")
  /\ tmp' = [tmp EXCEPT ![p].binary = Torn]
  /\ UNCHANGED <<headers, disk, process, args, cached, result>>

\* A compiler that fails or is killed leaves what it wrote; the assertion throws.
CompileFails(p) ==
  /\ pc[p] = "compile"
  /\ Fault(p) /\ Goto(p, "failed")
  /\ \E left \in {Missing, Torn} : tmp' = [tmp EXCEPT ![p].binary = left]
  /\ UNCHANGED <<headers, disk, process, args, cached, result>>

\* fsync_dir
Sync(p) ==
  /\ pc[p] = "sync"
  /\ tmp' = [tmp EXCEPT ![p].synced = TRUE]
  /\ Goto(p, "rename")
  /\ UNCHANGED <<headers, disk, process, args, cached, result, fault, faults>>

\* The rename fails: the path is a directory another rank made ...
RenameLost(p) ==
  /\ pc[p] = "rename" /\ Path(p) \in DOMAIN disk
  /\ Goto(p, "cleanup")
  /\ UNCHANGED <<headers, disk, tmp, process, args, cached, result, fault, faults>>

\* ... or the file system reports an error, which is handled alike.
RenameFails(p) ==
  /\ pc[p] = "rename"
  /\ Fault(p) /\ Goto(p, "cleanup")
  /\ UNCHANGED <<headers, disk, tmp, process, args, cached, result>>

RenameWon(p) ==
  /\ pc[p] = "rename" /\ Path(p) \notin DOMAIN disk
  /\ disk' = Extend(disk, Path(p), tmp[p])
  /\ tmp' = [tmp EXCEPT ![p] = EmptyDir]
  /\ Goto(p, "reget")
  /\ UNCHANGED <<headers, process, args, cached, result, fault, faults>>

\* safe_remove_all of the rank's own directory.
Cleanup(p) ==
  /\ pc[p] = "cleanup"
  /\ tmp' = [tmp EXCEPT ![p] = EmptyDir]
  /\ Goto(p, "reget")
  /\ UNCHANGED <<headers, disk, process, args, cached, result, fault, faults>>

\* A process starts with empty memory.
Start(p) ==
  /\ pc[p] = "off"
  /\ Goto(p, "idle")
  /\ UNCHANGED <<headers, disk, tmp, process, args, cached, result, fault, faults>>

\* The memory of processes that end, and the temporary directories they may leave,
\* which no later process looks at: what they will be when they start again.
Forget(gone) ==
  LET f(old, fresh) == [p \in Processes |-> IF p \in gone THEN fresh ELSE old[p]]
  IN  /\ hash' = f(hash, NoHash)
      /\ runtimes' = f(runtimes, <<>>)
      /\ shortcut' = f(shortcut, <<>>)
      /\ tmp' = f(tmp, EmptyDir)
      /\ result' = f(result, Missing)
      /\ fault' = f(fault, FALSE)
      /\ cached' = f(cached, FALSE)
      /\ pc' = f(pc, "off")

Exit(p) ==
  /\ pc[p] \in {"idle", "failed"}
  /\ Forget({p})
  /\ UNCHANGED <<headers, disk, args, faults>>

Crash(p) ==
  /\ pc[p] # "off"
  /\ faults < MaxFaults /\ faults' = faults + 1
  /\ Forget({p})
  /\ UNCHANGED <<headers, disk, args>>

\* All processes end; a rename may be undone, and files that were not fsynced are torn.
PowerLoss ==
  /\ faults < MaxFaults /\ faults' = faults + 1
  /\ \E kept \in SUBSET DOMAIN disk : disk' =
       [q \in kept |-> IF disk[q].synced THEN disk[q] ELSE [disk[q] EXCEPT !.binary = Torn]]
  /\ Forget(Processes)
  /\ UNCHANGED <<headers, args>>

Install ==
  /\ \A p \in Processes : pc[p] = "off"
  /\ headers' \in Versions
  /\ UNCHANGED <<disk, tmp, process, pc, args, cached, result, fault, faults>>

Get(p) == GetHit(p) \/ GetMiss(p) \/ Validate(p) \/ Load(p)
Build(p) == WriteSource(p) \/ Compile(p) \/ Sync(p) \/ RenameWon(p) \/ RenameLost(p) \/ Cleanup(p)
Failure(p) == LoadFails(p) \/ CompileFails(p) \/ RenameFails(p) \/ Crash(p)

Next ==
  \/ Install \/ PowerLoss
  \/ \E p \in Processes :
       \/ \E a \in Args : Request(p, a)
       \/ Generate(p) \/ Get(p) \/ Build(p) \/ Failure(p) \/ Start(p) \/ Exit(p)

Spec == Init /\ [][Next]_vars
-----------------------------------------------------------------------------
Building == {"generate", "get", "validate", "load", "write", "compile", "sync", "rename",
             "cleanup", "reget"}

\* Whatever build_cached returns is the kernel generated for the arguments of the call
\* and compiled from the installed headers: no table, memory or directory serves a
\* kernel of other arguments or of headers since replaced.
ReturnsOwnKernel == \A p \in Processes :
  pc[p] \in {"idle", "load"} =>
    LET kernel == IF pc[p] = "idle" THEN result[p] ELSE disk[Path(p)].binary
    IN  kernel # Missing => kernel = Kernel(headers, args[p])

\* A cache directory holds a whole kernel and the one its path names, at any time and
\* after any crash of compiler, process or machine.
DirectoriesWhole == \A path \in DOMAIN disk :
  disk[path] = [source |-> TRUE, binary |-> <<path[1][1], path[2]>>, synced |-> TRUE]

\* A build throws only when something it depends on failed during that very build:
\* losing the race for the path, or a failure of an earlier build, is not an error.
FailsForCause == \A p \in Processes : pc[p] = "failed" => fault[p]
=============================================================================
