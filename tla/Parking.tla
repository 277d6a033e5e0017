------------------------------ MODULE Parking -------------------------------
(***************************************************************************)
(* The part of the scheduler that Futex and Signals stand on: queues,      *)
(* saved contexts, block_process and wake_process (sched/scheduler.rs,     *)
(* sched/user_task/lifecycle.rs, arch/context.rs).                         *)
(*                                                                         *)
(* TaskWait models placement on the application processors (APs).  Here an *)
(* AP runs one task that was placed on it, and that makes no call that     *)
(* parks.  The kernel is not preempted; a critical section is one step.    *)
(***************************************************************************)
EXTENDS Integers, FiniteSets

CONSTANTS
    Tasks,      \* pids of Ring 3 tasks
    Scenarios   \* the machines and workloads to look at, see scenario

BSP == 0
AP == 1
CPUs == {BSP, AP}
Home == 2       \* the desktop, on the BSP; the idle context, on the AP
None == 0
Own == 9        \* in rax: a value of the program's own

ASSUME TaskAssumption == Tasks \subseteq Nat \ {None, Home} /\ IsFiniteSet(Tasks)

ASSUME ScenarioAssumption ==
    \A s \in Scenarios : s.ap \in s.tasks \cup {None} /\ s.tasks \subseteq Tasks

VARIABLES
    scenario,   \* never changes: the tasks there are at the start, the one on the
                \* AP, the calls they make, the signals sent and those caught,
                \* and a bound on the lists of waiters and of pending signals
    state,      \* PROCESS_TABLE: Process.state of each task
    run_queue,  \* SCHEDULER.run_queue
    wait_queue, \* SCHEDULER.wait_queue
    current,    \* SCHEDULER.current_by_cpu[0]
    on,         \* the task each CPU executes
    kernel,     \* what each CPU does in the kernel: a step and its operands
    parked,     \* what a saved context resumes: a call, a handler, the program
    rax         \* rax of each saved context

queues == <<run_queue, wait_queue, current>>
pvars == <<scenario, state, queues, on, kernel, parked, rax>>

OneCpu == scenario.ap = None

User == [op |-> "user", task |-> None, peer |-> None, val |-> 0, call |-> "none", wake |-> <<>>]
InUser(c) == kernel[c].op = "user"
At(c, op) == kernel[c].op = op
Goto(c, op) == kernel' = [kernel EXCEPT ![c].op = op]
Return(c) == kernel' = [kernel EXCEPT ![c] = User]

Live(t) == state[t] \in {"ready", "stopped"}
Running(t) == \E c \in CPUs : on[c] = t

(* The task on CPU c makes a call of the workload. *)
Calls(c, call) == InUser(c) /\ on[c] \in Tasks /\ call \in scenario.calls

(* So does the desktop. *)
HomeCalls(c, call) == InUser(c) /\ c = BSP /\ on[c] = Home /\ call \in scenario.calls

ParkingInit ==
    /\ scenario \in Scenarios
    /\ state = [t \in Tasks |-> IF t \in scenario.tasks THEN "ready" ELSE "none"]
    /\ run_queue = scenario.tasks
    /\ wait_queue = {}
    /\ current = None
    /\ on = [c \in CPUs |-> IF c = AP /\ scenario.ap # None THEN scenario.ap ELSE Home]
    /\ kernel = [c \in CPUs |-> User]
    /\ parked = [t \in Tasks |-> "no"]
    /\ rax = [t \in Tasks |-> Own]
-----------------------------------------------------------------------------
(* schedule, on the BSP: any queued task that is not placed on the AP. The *)
(* saved rax is stale from here on, and counts as a value of the program's.*)
Schedule(t) ==
    /\ on[BSP] = Home /\ InUser(BSP)
    /\ t \in run_queue /\ t # scenario.ap
    /\ run_queue' = run_queue \ {t}
    /\ current' = t
    /\ on' = [on EXCEPT ![BSP] = t]
    /\ parked' = [parked EXCEPT ![t] = "no"]
    /\ rax' = [rax EXCEPT ![t] = Own]
    /\ UNCHANGED <<scenario, state, wait_queue, kernel>>

(* maybe_preempt_user, on the BSP: saves the registers; schedule requeues  *)
(* the task unless it has been taken out of the slot.                      *)
Preempt ==
    /\ on[BSP] \in Tasks /\ InUser(BSP)
    /\ run_queue' = IF current # None THEN run_queue \cup {current} ELSE run_queue
    /\ current' = None
    /\ on' = [on EXCEPT ![BSP] = Home]
    /\ rax' = [rax EXCEPT ![on[BSP]] = Own]
    /\ UNCHANGED <<scenario, state, wait_queue, kernel, parked>>

(* Scheduler::block_process, called on CPU c: looks in the run queue and   *)
(* in the slot of this CPU.                                                *)
BlockProcess(c, t) ==
    LET slot == c = BSP /\ current = t
    IN  /\ run_queue' = run_queue \ {t}
        /\ current' = IF slot THEN None ELSE current
        /\ wait_queue' = IF slot \/ t \in run_queue THEN wait_queue \cup {t} ELSE wait_queue

(* Scheduler::wake_process: nothing unless t is in the wait queue. *)
WakeProcess(t) ==
    /\ wait_queue' = wait_queue \ {t}
    /\ run_queue' = IF t \in wait_queue THEN run_queue \cup {t} ELSE run_queue
    /\ UNCHANGED current

(* park_for_futex and park_for_join: set_user_context leaves rax alone, ... *)
SaveContext(c) ==
    /\ At(c, "save")
    /\ parked' = [parked EXCEPT ![on[c]] = kernel[c].call]
    /\ Goto(c, "block")
    /\ UNCHANGED <<scenario, state, queues, on, rax>>

(* ... block_current, ... *)
BlockCurrent(c) ==
    /\ At(c, "block")
    /\ IF c = BSP /\ current # None THEN BlockProcess(c, current) ELSE UNCHANGED queues
    /\ Goto(c, "leave")
    /\ UNCHANGED <<scenario, state, on, parked, rax>>

(* ... and resume_next_or_return. *)
Leave(c) ==
    /\ At(c, "leave")
    /\ on' = [on EXCEPT ![c] = Home]
    /\ current' = IF c = BSP THEN None ELSE current
    /\ Return(c)
    /\ UNCHANGED <<scenario, state, run_queue, wait_queue, parked, rax>>

ParkStep(c) == SaveContext(c) \/ BlockCurrent(c) \/ Leave(c)
=============================================================================
