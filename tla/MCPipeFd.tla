------------------------------ MODULE MCPipeFd ------------------------------
(* PipeFd with one or two processes, pipes of two bytes and one file. *)
EXTENDS PipeFd

MCPids == {1, 2}

Scenario(pids, fds, pipes, budget, bytes, files, calls) ==
    [pids |-> pids, fds |-> fds, pipes |-> pipes, sent |-> budget, bytes |-> bytes, files |-> files,
     calls |-> calls]

AByte == CHOOSE S \in SUBSET Bytes : Cardinality(S) = 1

(* One pipe and a file shared by fork and dup; two pipes with splice and   *)
(* tee; two processes that write and read one pipe and execute.            *)
MCScenarios ==
    {Scenario({1, 2}, 3, 1, 2, AByte, 1,
              {"pipe", "emfile", "close", "dup", "fork", "exit", "write", "read", "file"}),
     Scenario({1}, 4, 2, 3, Bytes, 0, {"pipe", "close", "write", "read", "tee", "splice"}),
     Scenario({1, 2}, 3, 1, 5, Bytes, 0, {"pipe", "close", "fork", "exec", "exit", "write", "read"})}
=============================================================================
