------------------------------ MODULE TaskWait ------------------------------
(***************************************************************************)
(* Ring 3 tasks: fork, exit, kill, wait4, and the scheduler that parks and *)
(* wakes them (sched/user_task/lifecycle.rs, sched/process.rs,             *)
(* syscall/process.rs, sched/scheduler.rs, arch/smp/).                     *)
(*                                                                         *)
(* CPU 0, the BSP, schedules from SCHEDULER.run_queue and preempts Ring 3; *)
(* an application processor (AP) takes tasks from its own queue and never  *)
(* preempts.  Each shared structure (PROCESS_TABLE, SCHEDULER, the per-CPU *)
(* queues, WAITERS) has its own spin lock and no lock is held from one     *)
(* structure to the next, so every critical section is a step.  The kernel *)
(* itself is not preempted.                                                *)
(*                                                                         *)
(* Exit codes, threads, groups and signal queues are left out.             *)
(***************************************************************************)
EXTENDS Integers, FiniteSets

CONSTANTS
    Pids,       \* the pids table.next_pid hands out, in order
    APs,        \* the application processors
    Scenarios   \* the machines and workloads to look at, see scenario

InitPid == 1
Home == 2       \* the desktop, on the BSP; the idle context, on an AP
None == 0
BSP == 0
CPUs == APs \cup {BSP}

ASSUME PidAssumption ==
    Pids \subseteq Nat \ {None, InitPid, Home} /\ Pids # {} /\ IsFiniteSet(Pids)

ASSUME CpuAssumption == APs \subseteq Nat \ {BSP}

ASSUME ScenarioAssumption ==
    \A s \in Scenarios : s.smp \in BOOLEAN /\ s.pids \subseteq Pids /\ s.pids # {}

VARIABLES
    scenario,   \* never changes: is an AP online, which pids and calls are used
    procs,      \* PROCESS_TABLE: pid -> state and ppid
    spaces,     \* pids that have an address space and a saved context
    run_queue,  \* SCHEDULER.run_queue
    wait_queue, \* SCHEDULER.wait_queue
    current,    \* SCHEDULER.current_by_cpu[0]; an AP's slot is never claimed
    placed,     \* SchedInfo.placed_cpu
    ap_queue,   \* PER_CPU_RUNQUEUES of the APs
    on,         \* the task each CPU executes
    kernel,     \* what each CPU is doing: a step and its operands
    waiters,    \* WAITERS
    parked,     \* tasks whose context is saved in park_for_wait
    target,     \* what each task asked wait4 for: a pid, or None for any
    retval,     \* the value a parked task's wait4 will return
    told        \* history: <<child, task>> for each result a wait returned

vars == <<scenario, procs, spaces, run_queue, wait_queue, current, placed, ap_queue, on,
          kernel, waiters, parked, target, retval, told>>

sched == <<run_queue, wait_queue, current, placed, ap_queue>>

Smp == scenario.smp
Workload == scenario.calls   \* of "fork", "wait4", "waitid", "kill" and "oom"

User == [op |-> "user", victim |-> None, parent |-> None]
InUser(c) == kernel[c].op = "user"
At(c, op) == kernel[c].op = op
Goto(c, op) == kernel' = [kernel EXCEPT ![c].op = op]

Absent == [state |-> "none", ppid |-> None]
Is(p, state) == p \in Pids /\ procs[p].state = state
Smallest(S) == CHOOSE x \in S : \A y \in S : x <= y
-----------------------------------------------------------------------------
Init ==
    LET first == Smallest(Pids)
    IN  /\ scenario \in Scenarios
        /\ procs = [p \in Pids |-> IF p = first THEN [state |-> "live", ppid |-> Home] ELSE Absent]
        /\ spaces = {first}
        /\ run_queue = {first}
        /\ wait_queue = {}
        /\ current = None
        /\ placed = [p \in Pids |-> None]
        /\ ap_queue = [c \in APs |-> {}]
        /\ on = [c \in CPUs |-> Home]
        /\ kernel = [c \in CPUs |-> User]
        /\ waiters = {}
        /\ parked = {}
        /\ target = [p \in Pids |-> None]
        /\ retval = [p \in Pids |-> None]
        /\ told = {}

(* What a task sees when it is entered: a parked wait4 returns its value. *)
Resume(p) ==
    /\ parked' = parked \ {p}
    /\ target' = [target EXCEPT ![p] = None]
    /\ retval' = [retval EXCEPT ![p] = None]
    /\ told' = IF retval[p] # None THEN told \cup {<<retval[p], p>>} ELSE told

(* schedule on the BSP: a queued task that is not placed on an AP. *)
Schedule(p) ==
    /\ on[BSP] = Home
    /\ InUser(BSP)
    /\ p \in run_queue
    /\ placed[p] = None
    /\ p \in spaces
    /\ run_queue' = run_queue \ {p}
    /\ current' = p
    /\ on' = [on EXCEPT ![BSP] = p]
    /\ Resume(p)
    /\ UNCHANGED <<procs, spaces, wait_queue, placed, ap_queue, kernel, waiters, scenario>>

(* maybe_preempt_user: only on the BSP.  schedule puts the current task    *)
(* back; a task that was taken out of the slot is not put back.            *)
Preempt ==
    /\ on[BSP] \in Pids
    /\ InUser(BSP)
    /\ run_queue' = IF current # None THEN run_queue \cup {current} ELSE run_queue
    /\ current' = None
    /\ on' = [on EXCEPT ![BSP] = Home]
    /\ UNCHANGED <<procs, spaces, wait_queue, placed, ap_queue, kernel, waiters,
                   parked, target, retval, told, scenario>>

(* balance_load, from the main event loop: steal_unpinned_for_cpu, ...     *)
Steal(c, p) ==
    /\ Smp
    /\ on[BSP] = Home
    /\ InUser(BSP)
    /\ on[c] = Home
    /\ p \in run_queue
    /\ placed[p] = None
    /\ placed' = [placed EXCEPT ![p] = c]
    /\ kernel' = [kernel EXCEPT ![BSP] = [op |-> "enqueue", victim |-> p, parent |-> None]]
    /\ UNCHANGED <<procs, spaces, run_queue, wait_queue, current, ap_queue, on,
                   waiters, parked, target, retval, told, scenario>>

(* ... then enqueue_on_cpu and set_placed_cpu, under other locks. *)
Enqueue ==
    LET p == kernel[BSP].victim
    IN  /\ At(BSP, "enqueue")
        /\ ap_queue' = [ap_queue EXCEPT ![placed[p]] = @ \cup {p}]
        /\ kernel' = [kernel EXCEPT ![BSP] = User]
        /\ UNCHANGED <<procs, spaces, run_queue, wait_queue, current, placed, on,
                       waiters, parked, target, retval, told, scenario>>

(* try_enter_ap_task: drops what has exited, enters the rest.  The task    *)
(* stays in SCHEDULER.run_queue and does not take the AP's slot.           *)
EnterApTask(c, p) ==
    /\ on[c] = Home
    /\ p \in ap_queue[c]
    /\ ap_queue' = [ap_queue EXCEPT ![c] = @ \ {p}]
    /\ IF Is(p, "live")
       THEN /\ p \in spaces
            /\ on' = [on EXCEPT ![c] = p]
            /\ Resume(p)
       ELSE UNCHANGED <<on, parked, target, retval, told>>
    /\ UNCHANGED <<procs, spaces, run_queue, wait_queue, current, placed, kernel,
                   waiters, scenario>>
-----------------------------------------------------------------------------
(* The task on CPU c makes a system call. *)
Calls(c, call) == InUser(c) /\ on[c] \in Pids /\ call \in Workload

(* sys_fork and table.fork: the parent is in the table, dead or alive. *)
Fork(c) ==
    LET unused == {q \in scenario.pids : procs[q] = Absent}
        child == Smallest(unused)
    IN  /\ Calls(c, "fork")
        /\ procs[on[c]].state \in {"live", "zombie"}
        /\ unused # {}
        /\ procs' = [procs EXCEPT ![child] = [state |-> "live", ppid |-> on[c]]]
        /\ spaces' = spaces \cup {child}
        /\ run_queue' = run_queue \cup {child}
        /\ UNCHANGED <<wait_queue, current, placed, ap_queue, on, kernel, waiters,
                       parked, target, retval, told, scenario>>

Reap(p) == procs' = [procs EXCEPT ![p].state = "gone"]

(* The zombies waitpid_options may reap for p. *)
ZombieChildren(p, t) ==
    {q \in Pids : Is(q, "zombie") /\ procs[q].ppid = p /\ t \in {None, q}}

(* sys_wait4 with the table locked: reaps the first zombie in the table,   *)
(* or goes on to park_for_wait, also when there is no child at all.        *)
Wait4(c, t) ==
    LET p == on[c]
        ready == ZombieChildren(p, t)
    IN  /\ Calls(c, "wait4")
        /\ IF ready # {}
           THEN /\ Reap(Smallest(ready))
                /\ told' = told \cup {<<Smallest(ready), p>>}
                /\ UNCHANGED <<kernel, target>>
           ELSE /\ Goto(c, "register")
                /\ target' = [target EXCEPT ![p] = t]
                /\ UNCHANGED <<procs, told>>
        /\ UNCHANGED <<spaces, sched, on, waiters, parked, retval, scenario>>

(* park_for_wait, first lock: WAITERS. *)
RegisterWaiter(c) ==
    /\ At(c, "register")
    /\ waiters' = waiters \cup {on[c]}
    /\ Goto(c, "save")
    /\ UNCHANGED <<procs, spaces, sched, on, parked, target, retval, told, scenario>>

(* set_user_context(pid, rip, rsp, 0): rax, the result, is left as it is. *)
SaveContext(c) ==
    /\ At(c, "save")
    /\ parked' = parked \cup {on[c]}
    /\ Goto(c, "block")
    /\ UNCHANGED <<procs, spaces, sched, on, waiters, target, retval, told, scenario>>

(* block_current: looks at this CPU's slot and does nothing if it is empty. *)
BlockCurrent(c) ==
    /\ At(c, "block")
    /\ IF c = BSP /\ current # None
       THEN current' = None /\ wait_queue' = wait_queue \cup {current}
       ELSE UNCHANGED <<current, wait_queue>>
    /\ Goto(c, "leave")
    /\ UNCHANGED <<procs, spaces, run_queue, placed, ap_queue, on, waiters, parked,
                   target, retval, told, scenario>>

(* resume_next_or_return: the CPU goes to another context. *)
Leave(c) ==
    /\ At(c, "leave")
    /\ on' = [on EXCEPT ![c] = Home]
    /\ kernel' = [kernel EXCEPT ![c] = User]
    /\ current' = IF c = BSP THEN None ELSE current
    /\ UNCHANGED <<procs, spaces, run_queue, wait_queue, placed, ap_queue, waiters,
                   parked, target, retval, told, scenario>>

(* sys_waitid(P_ALL) through wait_child: table.waitpid(0) takes the first  *)
(* zombie of the table, whoever its parent is.                             *)
Waitid(c) ==
    LET ready == {q \in Pids : Is(q, "zombie")}
    IN  /\ Calls(c, "waitid")
        /\ ready # {}
        /\ Reap(Smallest(ready))
        /\ told' = told \cup {<<Smallest(ready), on[c]>>}
        /\ UNCHANGED <<spaces, sched, on, kernel, waiters, parked, target, retval, scenario>>
-----------------------------------------------------------------------------
(* exit_process: the victim becomes a zombie and its living children go to *)
(* init.  A zombie stays what it is.                                       *)
ExitProcess(v) ==
    procs' = [q \in Pids |->
                 IF ~Is(v, "live") THEN procs[q]
                 ELSE IF q = v THEN [procs[q] EXCEPT !.state = "zombie"]
                 ELSE IF procs[q].ppid = v /\ Is(q, "live")
                      THEN [procs[q] EXCEPT !.ppid = InitPid]
                      ELSE procs[q]]

(* CPU c begins to retire v. *)
BeginRetire(c, v) ==
    /\ kernel' = [kernel EXCEPT ![c] = [op |-> "exit", victim |-> v, parent |-> None]]
    /\ UNCHANGED <<procs, spaces, sched, on, waiters, parked, target, retval, told, scenario>>

(* sys_exit, and a page fault without a mapping: finish_current. *)
Exit(c) == InUser(c) /\ on[c] \in Pids /\ BeginRetire(c, on[c])

(* kill(v, SIGKILL), from a task or from the desktop: terminate. *)
Kill(c, v) ==
    /\ InUser(c)
    /\ "kill" \in Workload
    /\ c = BSP \/ on[c] \in Pids
    /\ Is(v, "live") \/ Is(v, "zombie")
    /\ BeginRetire(c, v)

(* trigger_oom: process::kill, which is exit_process and no more. *)
OomKill(c, v) ==
    /\ Calls(c, "oom")
    /\ Is(v, "live")
    /\ ExitProcess(v)
    /\ UNCHANGED <<spaces, sched, on, kernel, waiters, parked, target, retval, told, scenario>>

(* retire, with the table locked. *)
RetireExit(c) ==
    LET v == kernel[c].victim
    IN  /\ At(c, "exit")
        /\ ExitProcess(v)
        /\ kernel' = [kernel EXCEPT ![c].op = "remove",
                         ![c].parent = IF Is(v, "gone") THEN None ELSE procs[v].ppid]
        /\ UNCHANGED <<spaces, sched, on, waiters, parked, target, retval, told, scenario>>

(* Mutant: remove_process clears the slot and leaves the queues alone. *)
RetireRemoveSlotOnly(c) ==
    LET v == kernel[c].victim
    IN  /\ At(c, "remove")
        /\ current' = IF current = v THEN None ELSE current
        /\ spaces' = spaces \ {v}
        /\ Goto(c, "notify")
        /\ UNCHANGED <<procs, run_queue, wait_queue, ap_queue, placed, on, waiters,
                       parked, target, retval, told, scenario>>

(* retire: remove_process, then the context and the address space go. *)
RetireRemove(c) ==
    LET v == kernel[c].victim
    IN  /\ At(c, "remove")
        /\ run_queue' = run_queue \ {v}
        /\ wait_queue' = wait_queue \ {v}
        /\ current' = IF current = v THEN None ELSE current
        /\ ap_queue' = [x \in APs |-> ap_queue[x] \ {v}]
        /\ spaces' = spaces \ {v}
        /\ Goto(c, "notify")
        /\ UNCHANGED <<procs, placed, on, waiters, parked, target, retval, told, scenario>>

(* The end of retire: a CPU that retired its own task leaves it, another   *)
(* returns from the system call.                                           *)
EndRetire(c) ==
    kernel' = [kernel EXCEPT ![c] = IF kernel[c].victim = on[c]
                                    THEN [User EXCEPT !.op = "leave"]
                                    ELSE User]

(* Mutant: retire only sends SIGCHLD. *)
RetireNotifySignalOnly(c) ==
    /\ At(c, "notify")
    /\ EndRetire(c)
    /\ UNCHANGED <<procs, spaces, sched, on, waiters, parked, target, retval, told, scenario>>

(* retire: has_waiter(parent), or only a SIGCHLD. *)
RetireNotify(c) ==
    /\ At(c, "notify")
    /\ IF kernel[c].parent \in waiters THEN Goto(c, "reap") ELSE EndRetire(c)
    /\ UNCHANGED <<procs, spaces, sched, on, waiters, parked, target, retval, told, scenario>>

(* Mutant: waitpid reports the zombie and keeps it. *)
RetireReapKeepsZombie(c) ==
    /\ At(c, "reap")
    /\ IF Is(kernel[c].victim, "zombie") THEN Goto(c, "deliver") ELSE EndRetire(c)
    /\ UNCHANGED <<procs, spaces, sched, on, waiters, parked, target, retval, told, scenario>>

(* retire: table.waitpid(pid). *)
RetireReap(c) ==
    LET v == kernel[c].victim
    IN  /\ At(c, "reap")
        /\ IF Is(v, "zombie")
           THEN Reap(v) /\ Goto(c, "deliver")
           ELSE UNCHANGED procs /\ EndRetire(c)
        /\ UNCHANGED <<spaces, sched, on, waiters, parked, target, retval, told, scenario>>

(* deliver_wait_result, with WAITERS locked: a registration that is gone   *)
(* gets no result.                                                         *)
Deliver(c) ==
    LET parent == kernel[c].parent
    IN  /\ At(c, "deliver")
        /\ waiters' = waiters \ {parent}
        /\ retval' = IF parent \in waiters
                     THEN [retval EXCEPT ![parent] = kernel[c].victim]
                     ELSE retval
        /\ Goto(c, "wake")
        /\ UNCHANGED <<procs, spaces, sched, on, parked, target, told, scenario>>

(* Mutant: deliver_wait_result does not wake. *)
WakeNobody(c) ==
    /\ At(c, "wake")
    /\ EndRetire(c)
    /\ UNCHANGED <<procs, spaces, sched, on, waiters, parked, target, retval, told, scenario>>

(* wake_process: does nothing unless the parent is in the wait queue. *)
Wake(c) ==
    LET parent == kernel[c].parent
    IN  /\ At(c, "wake")
        /\ IF parent \in wait_queue
           THEN /\ wait_queue' = wait_queue \ {parent}
                /\ run_queue' = run_queue \cup {parent}
           ELSE UNCHANGED <<wait_queue, run_queue>>
        /\ EndRetire(c)
        /\ UNCHANGED <<procs, spaces, current, placed, ap_queue, on, waiters, parked,
                       target, retval, told, scenario>>
-----------------------------------------------------------------------------
KernelStep(c) ==
    \/ RegisterWaiter(c) \/ SaveContext(c) \/ BlockCurrent(c) \/ Leave(c)
    \/ RetireExit(c) \/ RetireRemove(c) \/ RetireNotify(c) \/ RetireReap(c)
    \/ Deliver(c) \/ Wake(c)

SystemCall(c) ==
    \/ Fork(c)
    \/ \E t \in scenario.pids \cup {None} : Wait4(c, t)
    \/ Waitid(c)
    \/ Exit(c)
    \/ \E v \in Pids : Kill(c, v) \/ OomKill(c, v)

Next ==
    \/ \E p \in Pids : Schedule(p)
    \/ Preempt
    \/ \E c \in APs, p \in Pids : Steal(c, p) \/ EnterApTask(c, p)
    \/ Enqueue
    \/ \E c \in CPUs : SystemCall(c) \/ KernelStep(c)

Spec == Init /\ [][Next]_vars

(* A CPU that is in the kernel goes on: it is not preempted there and      *)
(* takes no lock that is held across a wait.                               *)
FairSpec == Spec /\ \A c \in CPUs : WF_vars(KernelStep(c)) /\ WF_vars(Enqueue)
-----------------------------------------------------------------------------
(* The table, the queues and the CPUs hold pids, and every kernel step has *)
(* its operands.                                                           *)
TypeOK ==
    /\ procs \in [Pids -> [state : {"none", "live", "zombie", "gone"},
                           ppid : Pids \cup {None, InitPid, Home}]]
    /\ spaces \subseteq Pids /\ waiters \subseteq Pids /\ parked \subseteq Pids
    /\ run_queue \subseteq Pids /\ wait_queue \subseteq Pids
    /\ current \in Pids \cup {None}
    /\ placed \in [Pids -> APs \cup {None}]
    /\ ap_queue \in [APs -> SUBSET Pids]
    /\ on \in [CPUs -> Pids \cup {Home}]
    /\ kernel \in [CPUs -> [op : {"user", "enqueue", "register", "save", "block", "leave", "exit",
                                  "remove", "notify", "reap", "deliver", "wake"},
                            victim : Pids \cup {None},
                            parent : Pids \cup {None, InitPid, Home}]]
    /\ target \in [Pids -> Pids \cup {None}]
    /\ retval \in [Pids -> Pids \cup {None}]
    /\ told \subseteq Pids \X Pids

(* Some CPU is still retiring p. *)
Retiring(p) == \E c \in CPUs : kernel[c].victim = p /\ ~At(c, "enqueue")

(* p is off the CPUs, waiting in wait4. *)
Asleep(p) == p \in parked /\ Is(p, "live") /\ \A c \in CPUs : on[c] # p

(* No lost wake-up (syscall/process.rs:388-389): a parent asleep in wait4  *)
(* never has a zombie child it asked for that nobody will report to it.    *)
NoLostWakeup ==
    \A p, q \in Pids :
        Asleep(p) /\ p \in wait_queue /\ q \in ZombieChildren(p, target[p]) => Retiring(q)

(* On one CPU no wake-up is lost: nothing runs between wait4's look at the *)
(* table and its registration in WAITERS.                                  *)
NoLostWakeupOneCpu == ~Smp => NoLostWakeup

(* No lost status, on one CPU: a child that left the table was reported to *)
(* its living parent, or the report is on its way, although retire reaps   *)
(* the child before it delivers.                                           *)
ReapsReported ==
    \A q \in Pids :
        LET p == procs[q].ppid
        IN  ~Smp /\ Is(q, "gone") /\ Is(p, "live") =>
                \/ <<q, p>> \in told
                \/ retval[p] = q
                \/ \E c \in CPUs : kernel[c].victim = q /\ At(c, "deliver")

(* Where the status of q has gone: returned by a wait, about to be         *)
(* returned, or taken from the table and not yet delivered.                *)
Reports(q) ==
    {<<"told", p>> : p \in {x \in Pids : <<q, x>> \in told}}
    \cup {<<"due", p>> : p \in {x \in Pids : retval[x] = q}}
    \cup {<<"deliver", c>> : c \in {x \in CPUs : At(x, "deliver") /\ kernel[x].victim = q}}

(* A child's status is reported at most once, although retire and the      *)
(* parent's own wait4 may both find the zombie: taking it out of the table *)
(* decides between them, and a reported child is out of the table.         *)
ToldOnce ==
    \A q \in Pids : /\ Cardinality(Reports(q)) <= 1
                    /\ Reports(q) # {} => Is(q, "gone")

(* A status goes to the parent of the child, through wait4 and through the *)
(* delivery of retire, also when the child was killed while its parent was *)
(* exiting or waiting for another.  waitid gives no such guarantee.        *)
ReapedByParent == "waitid" \notin Workload => \A x \in told : procs[x[1]].ppid = x[2]

(* On one CPU a task asleep in wait4 can be found by wake_process, or has  *)
(* been woken (scheduler.rs:695-697: "only `wake_process` can bring it     *)
(* back").                                                                 *)
SleeperFindable ==
    \A p \in Pids :
        ~Smp /\ Asleep(p) => p \in wait_queue \cup run_queue

(* A task is never in two places: on two CPUs, in two queues, or queued    *)
(* for the BSP while a CPU runs it.                                        *)
OnePlace ==
    \A p \in Pids :
        /\ \A c, d \in CPUs : on[c] = p /\ on[d] = p => c = d
        /\ ~(p \in run_queue /\ p \in wait_queue)
        /\ current = p => p \notin run_queue \cup wait_queue
        /\ p \in run_queue /\ placed[p] = None => \A c \in APs : on[c] # p
        /\ \A c, d \in APs : p \in ap_queue[c] /\ (p \in ap_queue[d] \/ on[d] = p) => c = d /\ on[d] # p

(* Once retired, a task is in no queue of the BSP and not in its slot,     *)
(* whatever kills and exits ran at the same time on other CPUs.  The OOM   *)
(* killer does not retire.                                                 *)
RetiredStaysOut ==
    \A p \in Pids :
        /\ "oom" \notin Workload
        /\ Is(p, "zombie") \/ Is(p, "gone")
        /\ ~Retiring(p)
        => p \notin run_queue \cup wait_queue \cup {current}

(* On one CPU a task that runs has its page tables (lifecycle.rs:36-38     *)
(* switches away from them before they are freed).                         *)
RunsInItsSpace == ~Smp => \A c \in CPUs : on[c] \in Pids /\ InUser(c) => on[c] \in spaces

(* On one CPU a child's exit wakes its parent: a parent asleep in wait4    *)
(* whose child has become a zombie becomes runnable (retire's last steps). *)
ExitWakesParent ==
    \A p \in Pids :
        ~Smp /\ Asleep(p) /\ p \in wait_queue /\ ZombieChildren(p, target[p]) # {}
            ~> p \in run_queue \/ current = p \/ ~Is(p, "live")

(* On one CPU a parent asleep in wait4 is in a queue where wake_process    *)
(* finds it, and has no zombie that nobody will report.                    *)
SleepersWoken == NoLostWakeupOneCpu /\ SleeperFindable

(* The status of a child goes to its parent, once, whether retire or the   *)
(* parent's own wait4 takes the zombie, and it is not lost in between.     *)
StatusOnce == ReapsReported /\ ToldOnce /\ ReapedByParent

(* A task is in one place, in none once it is retired, and runs on its own *)
(* page tables.                                                            *)
TasksPlaced == TypeOK /\ OnePlace /\ RetiredStaysOut /\ RunsInItsSpace
=============================================================================
