----------------------------- MODULE MCThreads ------------------------------
(* Futexes, joins and signals of two or three tasks. *)
EXTENDS Signals

MCTasks == 3 .. 5
MCStatuses == {0, 1}
MCSigs == {"INT", "USR1", "CHLD", "TSTP", "STOP", "CONT", "KILL"}

Work(tasks, ap, bound, calls, sigs, caught) ==
    [tasks |-> tasks, ap |-> ap, bound |-> bound, calls |-> calls, sigs |-> sigs, caught |-> caught]

MCScenarios ==
    {Work(3 .. 5, None, 3, {"wait", "store", "wake"}, {}, {}),
     Work(3 .. 4, None, 3, {"wait", "store", "wake", "lock_pi"}, {}, {}),
     Work(3 .. 4, None, 2, {"wait", "wake", "home_kill", "deliver", "handle"}, {"INT"}, {"INT"}),
     Work(3 .. 4, None, 2, {"wait", "store", "wake", "home_kill"}, {"STOP", "CONT", "KILL"}, {}),
     Work(3 .. 4, None, 2, {"clone", "join", "exit", "kill"}, {"KILL"}, {}),
     Work(3 .. 4, None, 2, {"join", "detach", "exit", "thread_exit"}, {}, {}),
     Work(3 .. 4, None, 2, {"kill", "home_kill", "deliver"}, {"STOP", "CONT", "TSTP"}, {}),
     Work({3}, None, 3, {"home_kill", "deliver", "handle", "sigprocmask", "sigaction", "exec"},
          {"INT", "USR1"}, {"INT", "USR1"}),
     Work({3}, None, 3, {"home_kill", "deliver", "signalfd"}, {"INT", "CHLD", "KILL"}, {}),
     Work(3 .. 4, 3, 2, {"wait", "store", "wake"}, {}, {}),
     Work(3 .. 4, 3, 2, {"clone", "join", "exit"}, {}, {}),
     Work(3 .. 4, 3, 2, {"kill", "home_kill", "kill_dead"}, {"STOP", "CONT", "KILL"}, {})}
=============================================================================
