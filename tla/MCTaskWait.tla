---------------------------- MODULE MCTaskWait -----------------------------
(* TaskWait with a first task and one or two descendants. *)
EXTENDS TaskWait

MCPids == 3 .. 5
MCOneAP == {1}

(* One CPU; two CPUs and every call, for two tasks; two CPUs and three     *)
(* tasks that kill each other.                                             *)
MCScenarios ==
    {[smp |-> FALSE, pids |-> 3 .. 5, calls |-> {"fork", "wait4", "kill"}],
     [smp |-> TRUE, pids |-> 3 .. 4, calls |-> {"fork", "wait4", "waitid", "kill", "oom"}],
     [smp |-> TRUE, pids |-> 3 .. 5, calls |-> {"fork", "kill"}]}

MCWaitOnTwoCpus == {[smp |-> TRUE, pids |-> 3 .. 4, calls |-> {"fork", "wait4"}]}
=============================================================================
