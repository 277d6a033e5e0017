-------------------------- MODULE MCAddressSpace ---------------------------
(* AddressSpace with two or three processes and a handful of frames. *)
EXTENDS AddressSpace

MCPids == 1 .. 3
MCFrames == 1 .. 8
MCValues == {1, 2}

Scenario(pids, frames, pages, values, concurrent, calls) ==
    [pids |-> 1 .. pids, frames |-> 1 .. frames, pages |-> pages, values |-> 1 .. values,
     concurrent |-> concurrent, calls |-> calls]

APage == CHOOSE S \in SUBSET MmapPages : Cardinality(S) = 1

(* Three generations whose parents outlive them; every call of two         *)
(* processes; swap; threads; swap-out while other CPUs run.                *)
MCScenarios ==
    {Scenario(3, 8, APage, 2, FALSE, {"mmap", "write", "fork", "exit"}),
     Scenario(2, 5, APage, 1, FALSE,
              {"mmap", "munmap", "mprotect", "brk", "write", "fork", "exec", "exit", "orphans", "segv", "oom"}),
     Scenario(2, 5, MmapPages, 1, FALSE,
              {"mmap", "write", "swap", "swap_full", "spawn", "exit", "segv", "oom"}),
     Scenario(3, 5, APage, 2, FALSE, {"mmap", "write", "clone", "exit", "brk"}),
     Scenario(2, 5, MmapPages, 1, TRUE, {"mmap", "write", "swap", "spawn"})}

MCForkThenWrite == {Scenario(2, 8, APage, 1, FALSE, {"mmap", "write", "fork", "segv"})}
=============================================================================
