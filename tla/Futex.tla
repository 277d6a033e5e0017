------------------------------- MODULE Futex --------------------------------
(***************************************************************************)
(* Futexes and thread joins (sched/threads.rs, syscall/thread.rs, and the  *)
(* joiners of sched/user_task/lifecycle.rs), on the queues of Parking.     *)
(*                                                                         *)
(* One futex word, of which a program stores 0 or 1 and then wakes.  The   *)
(* word is read without a lock, FUTEX_WAITERS, THREAD_GROUPS, JOINERS, the *)
(* contexts and the scheduler have a lock each.                            *)
(***************************************************************************)
EXTENDS Parking, Sequences

CONSTANT Statuses   \* exit statuses; a killed task has 0

VARIABLES
    word,           \* *uaddr
    want,           \* the value each task gave FUTEX_WAIT, or the tid it joins
    futex_waiters,  \* FUTEX_WAITERS of uaddr, oldest first
    owes,           \* tasks that changed the word and have not finished their wake
    threads,        \* THREAD_GROUPS: what is recorded of each thread
    joiners,        \* JOINERS: the tid each task waits for
    exited          \* history: the status each task first exited with

fvars == <<word, want, futex_waiters, owes, threads, joiners, exited>>

NoStatus == -1
Unlisted == [listed |-> FALSE, detached |-> FALSE, status |-> NoStatus]
Listed == [Unlisted EXCEPT !.listed = TRUE]

(* The program on CPU c calls what it likes once its wake is done. *)
Free(c, call) == Calls(c, call) /\ on[c] \notin owes

FutexInit ==
    /\ word = 0
    /\ want = [t \in Tasks |-> 0]
    /\ futex_waiters = <<>>
    /\ owes = {}
    /\ threads = [t \in Tasks |-> IF t \in scenario.tasks THEN Listed ELSE Unlisted]
    /\ joiners = [t \in Tasks |-> None]
    /\ exited = [t \in Tasks |-> NoStatus]
-----------------------------------------------------------------------------
(* A task that is entered is in no call any more. *)
Enter(t) ==
    /\ Schedule(t)
    /\ want' = [want EXCEPT ![t] = 0]
    /\ UNCHANGED <<word, futex_waiters, owes, threads, joiners, exited>>

(* The program stores to the word; it will wake the waiters. *)
Store(c, v) ==
    /\ Free(c, "store")
    /\ word # v
    /\ word' = v
    /\ owes' = owes \cup {on[c]}
    /\ UNCHANGED <<pvars, want, futex_waiters, threads, joiners, exited>>

(* FUTEX_WAIT reads the word, and returns EAGAIN if it is not v. *)
FutexWait(c, v) ==
    /\ Free(c, "wait")
    /\ c = BSP /\ Len(futex_waiters) < scenario.bound
    /\ IF word = v
       THEN /\ kernel' = [kernel EXCEPT ![c].op = "register", ![c].call = "futex"]
            /\ want' = [want EXCEPT ![on[c]] = v]
       ELSE UNCHANGED <<kernel, want>>
    /\ UNCHANGED <<scenario, state, queues, on, parked, rax>>
    /\ UNCHANGED <<word, futex_waiters, owes, threads, joiners, exited>>

(* FUTEX_LOCK_PI is futex_wait: it blocks the task and returns to it. *)
FutexLockPi(c, v) ==
    /\ Free(c, "lock_pi")
    /\ c = BSP /\ Len(futex_waiters) < scenario.bound
    /\ word = v
    /\ kernel' = [kernel EXCEPT ![c].op = "register", ![c].call = "lock_pi"]
    /\ UNCHANGED <<scenario, state, queues, on, parked, rax, fvars>>

(* futex_register_waiter. *)
FutexRegister(c) ==
    /\ At(c, "register")
    /\ futex_waiters' = Append(futex_waiters, on[c])
    /\ Goto(c, IF kernel[c].call = "futex" THEN "save" ELSE "block_pi")
    /\ UNCHANGED <<scenario, state, queues, on, parked, rax>>
    /\ UNCHANGED <<word, want, owes, threads, joiners, exited>>

(* futex_wait: block_process(pid), and back to the program. *)
FutexBlockPi(c) ==
    /\ At(c, "block_pi")
    /\ BlockProcess(c, on[c])
    /\ Return(c)
    /\ UNCHANGED <<scenario, state, on, parked, rax, fvars>>

(* Mutant: futex_wake wakes the newest waiters and leaves them listed. *)
FutexWakeKeeps(c, n) ==
    LET len == Len(futex_waiters)
        k == IF n < len THEN n ELSE len
    IN  /\ Calls(c, "wake")
        /\ kernel' = [kernel EXCEPT ![c].op = "wake", ![c].val = n,
                          ![c].wake = [i \in 1 .. k |-> futex_waiters[len + 1 - i]]]
        /\ UNCHANGED <<scenario, state, queues, on, parked, rax, fvars>>

(* futex_wake, for FUTEX_WAKE, and for REQUEUE, CMP_REQUEUE, WAKE_OP and   *)
(* UNLOCK_PI, which do no more: takes up to n waiters, the newest first.   *)
FutexWake(c, n) ==
    LET len == Len(futex_waiters)
        k == IF n < len THEN n ELSE len
    IN  /\ Calls(c, "wake")
        /\ futex_waiters' = SubSeq(futex_waiters, 1, len - k)
        /\ kernel' = [kernel EXCEPT ![c].op = "wake", ![c].val = n,
                          ![c].wake = [i \in 1 .. k |-> futex_waiters[len + 1 - i]]]
        /\ UNCHANGED <<scenario, state, queues, on, parked, rax>>
        /\ UNCHANGED <<word, want, owes, threads, joiners, exited>>

Everyone == Cardinality(Tasks)  \* a count that no number of waiters exceeds

(* futex_wake: wake_process of the next waiter, or the end of the call. *)
FutexWakeProcess(c) ==
    /\ At(c, "wake")
    /\ IF kernel[c].wake = <<>>
       THEN /\ Return(c)
            /\ owes' = IF kernel[c].val = Everyone THEN owes \ {on[c]} ELSE owes
            /\ UNCHANGED queues
       ELSE /\ WakeProcess(Head(kernel[c].wake))
            /\ Goto(c, "retval")
            /\ UNCHANGED owes
    /\ UNCHANGED <<scenario, state, on, parked, rax>>
    /\ UNCHANGED <<word, want, futex_waiters, threads, joiners, exited>>

(* futex_wake: set_user_retval(pid, 0), if the task has a context. *)
FutexRetval(c) ==
    LET t == Head(kernel[c].wake)
    IN  /\ At(c, "retval")
        /\ rax' = IF Live(t) THEN [rax EXCEPT ![t] = 0] ELSE rax
        /\ kernel' = [kernel EXCEPT ![c].op = "wake", ![c].wake = Tail(@)]
        /\ UNCHANGED <<scenario, state, queues, on, parked, fvars>>
-----------------------------------------------------------------------------
(* sys_clone(CLONE_VM | CLONE_THREAD): a context whose rax is 0, and       *)
(* add_process, ...                                                        *)
Clone(c, t) ==
    /\ Free(c, "clone")
    /\ state[t] = "none"
    /\ state' = [state EXCEPT ![t] = "ready"]
    /\ rax' = [rax EXCEPT ![t] = Own]
    /\ run_queue' = run_queue \cup {t}
    /\ kernel' = [kernel EXCEPT ![c].op = "enlist", ![c].task = t]
    /\ UNCHANGED <<scenario, wait_queue, current, on, parked, fvars>>

(* ... then register_clone_thread, under another lock. *)
RegisterCloneThread(c) ==
    /\ At(c, "enlist")
    /\ threads' = [threads EXCEPT ![kernel[c].task] = Listed]
    /\ Return(c)
    /\ UNCHANGED <<scenario, state, queues, on, parked, rax>>
    /\ UNCHANGED <<word, want, futex_waiters, owes, joiners, exited>>

(* sys_thread_join: EINVAL, the status, or on to park_for_join.  No other  *)
(* task joins the same thread.                                             *)
ThreadJoin(c, t) ==
    /\ Free(c, "join")
    /\ c = BSP /\ t # on[c]
    /\ \A j \in Tasks : joiners[j] # t
    /\ IF threads[t].listed /\ ~threads[t].detached /\ threads[t].status = NoStatus
       THEN kernel' = [kernel EXCEPT ![c].op = "join", ![c].task = t, ![c].call = "join"]
       ELSE UNCHANGED kernel
    /\ want' = [want EXCEPT ![on[c]] = t]
    /\ UNCHANGED <<scenario, state, queues, on, parked, rax>>
    /\ UNCHANGED <<word, futex_waiters, owes, threads, joiners, exited>>

(* park_for_join, first lock: JOINERS. *)
RegisterJoiner(c) ==
    /\ At(c, "join")
    /\ joiners' = [joiners EXCEPT ![on[c]] = kernel[c].task]
    /\ Goto(c, "save")
    /\ UNCHANGED <<scenario, state, queues, on, parked, rax>>
    /\ UNCHANGED <<word, want, futex_waiters, owes, threads, exited>>

(* sys_thread_detach. *)
ThreadDetach(c, t) ==
    /\ Free(c, "detach")
    /\ threads[t].listed
    /\ threads' = [threads EXCEPT ![t].detached = TRUE]
    /\ UNCHANGED <<pvars, word, want, futex_waiters, owes, joiners, exited>>
-----------------------------------------------------------------------------
(* CPU c begins to retire v.  A negative code, of a kill, is status 0. *)
BeginRetire(c, v, s) ==
    kernel' = [kernel EXCEPT ![c] = [User EXCEPT !.op = "exit", !.task = v, !.val = s]]

(* sys_exit. *)
Exit(c, s) ==
    /\ Free(c, "exit")
    /\ BeginRetire(c, on[c], s)
    /\ UNCHANGED <<scenario, state, queues, on, parked, rax, fvars>>

(* thread_exit records the status, or forgets a detached thread. *)
RecordExit(v, s) ==
    threads' = [threads EXCEPT ![v] = IF ~@.listed THEN @
                                      ELSE IF @.detached THEN Unlisted
                                      ELSE [@ EXCEPT !.status = s]]

(* sys_thread_exit: the status, and back to the thread. *)
SysThreadExit(c, s) ==
    /\ Free(c, "thread_exit")
    /\ RecordExit(on[c], s)
    /\ UNCHANGED <<pvars, word, want, futex_waiters, owes, joiners, exited>>

(* retire: thread_exit. *)
ThreadExit(c) ==
    LET v == kernel[c].task
    IN  /\ At(c, "exit")
        /\ RecordExit(v, kernel[c].val)
        /\ exited' = IF exited[v] = NoStatus THEN [exited EXCEPT ![v] = kernel[c].val] ELSE exited
        /\ Goto(c, "find_joiner")
        /\ UNCHANGED <<scenario, state, queues, on, parked, rax>>
        /\ UNCHANGED <<word, want, futex_waiters, owes, joiners>>

(* deliver_join_result: the joiner with the lowest pid, ... *)
FindJoiner(c) ==
    LET found == {j \in Tasks : joiners[j] = kernel[c].task}
    IN  /\ At(c, "find_joiner")
        /\ kernel' = [kernel EXCEPT
                ![c].op = IF found = {} THEN "table" ELSE "unjoin",
                ![c].peer = IF found = {} THEN None
                            ELSE CHOOSE j \in found : \A i \in found : j <= i]
        /\ UNCHANGED <<scenario, state, queues, on, parked, rax, fvars>>

(* ... is taken out of JOINERS, under a second lock, ... *)
RemoveJoiner(c) ==
    /\ At(c, "unjoin")
    /\ joiners' = [joiners EXCEPT ![kernel[c].peer] = None]
    /\ Goto(c, "join_retval")
    /\ UNCHANGED <<scenario, state, queues, on, parked, rax>>
    /\ UNCHANGED <<word, want, futex_waiters, owes, threads, exited>>

(* ... handed the status, ... *)
JoinRetval(c) ==
    LET j == kernel[c].peer
    IN  /\ At(c, "join_retval")
        /\ rax' = IF Live(j) THEN [rax EXCEPT ![j] = kernel[c].val] ELSE rax
        /\ Goto(c, "join_wake")
        /\ UNCHANGED <<scenario, state, queues, on, parked, fvars>>

(* Mutant: the joiner is not woken. *)
JoinWakeNobody(c) ==
    /\ At(c, "join_wake")
    /\ Goto(c, "table")
    /\ UNCHANGED <<scenario, state, queues, on, parked, rax, fvars>>

(* ... and woken. *)
JoinWake(c) ==
    /\ At(c, "join_wake")
    /\ WakeProcess(kernel[c].peer)
    /\ Goto(c, "table")
    /\ UNCHANGED <<scenario, state, on, parked, rax, fvars>>

(* retire: exit_process, with the table locked.  TaskWait has the parent. *)
RetireTable(c) ==
    /\ At(c, "table")
    /\ state' = [state EXCEPT ![kernel[c].task] = "zombie"]
    /\ Goto(c, "remove")
    /\ UNCHANGED <<scenario, queues, on, parked, rax, fvars>>

(* retire: remove_process; a CPU that retired its own task leaves it. *)
RetireRemove(c) ==
    LET v == kernel[c].task
    IN  /\ At(c, "remove")
        /\ run_queue' = run_queue \ {v}
        /\ wait_queue' = wait_queue \ {v}
        /\ current' = IF current = v THEN None ELSE current
        /\ kernel' = [kernel EXCEPT ![c] = IF v = on[c] THEN [User EXCEPT !.op = "leave"] ELSE User]
        /\ UNCHANGED <<scenario, state, on, parked, rax, fvars>>
-----------------------------------------------------------------------------
FutexCall(c) ==
    \/ \E v \in {0, 1} : Store(c, v) \/ FutexWait(c, v) \/ FutexLockPi(c, v)
    \/ \E n \in {1, Everyone} : FutexWake(c, n)
    \/ \E t \in Tasks : ThreadJoin(c, t) \/ ThreadDetach(c, t)
    \/ \E s \in Statuses : Exit(c, s) \/ SysThreadExit(c, s)

FutexStep(c) ==
    \/ ParkStep(c) /\ UNCHANGED fvars
    \/ FutexRegister(c) \/ FutexBlockPi(c) \/ FutexWakeProcess(c) \/ FutexRetval(c)
    \/ RegisterCloneThread(c) \/ RegisterJoiner(c)
    \/ ThreadExit(c) \/ FindJoiner(c) \/ RemoveJoiner(c) \/ JoinRetval(c) \/ JoinWake(c)
    \/ RetireTable(c) \/ RetireRemove(c)
-----------------------------------------------------------------------------
(* t is off the CPUs and will not run until it is woken. *)
AsleepIn(call, t) ==
    parked[t] = call /\ state[t] = "ready" /\ ~Running(t) /\ t \in wait_queue

(* No lost wake-up on one CPU (syscall/thread.rs:28, "sleep until woken"): *)
(* no task sleeps on a value the word no longer has, unless the task that  *)
(* changed it has still to finish its wake.                                *)
NoLostWake ==
    OneCpu /\ InUser(BSP) => \A t \in Tasks :
        AsleepIn("futex", t) /\ word # want[t] => owes # {}

(* On one CPU a task asleep in FUTEX_WAIT is in FUTEX_WAITERS, where the   *)
(* next wake finds it, also when signals, stops and kills have left other  *)
(* entries behind.                                                         *)
SleeperListed ==
    OneCpu /\ InUser(BSP) => \A t \in Tasks : AsleepIn("futex", t) =>
        \E i \in DOMAIN futex_waiters : futex_waiters[i] = t

(* A program that only waits, stores and wakes. *)
OnlyFutex == OneCpu /\ scenario.calls \subseteq {"wait", "store", "wake"}

(* Without kills, signals and LOCK_PI no wake is wasted: an entry of       *)
(* FUTEX_WAITERS stands for one task that sleeps, or is about to.          *)
NoStaleEntry ==
    OnlyFutex => \A i \in DOMAIN futex_waiters :
        LET t == futex_waiters[i]
        IN  /\ AsleepIn("futex", t) \/ \E c \in CPUs : on[c] = t /\ kernel[c].op \in {"save", "block", "leave"}
            /\ \A j \in DOMAIN futex_waiters : futex_waiters[j] = t => i = j

(* set_user_retval touches the register of a call only: the rax a program  *)
(* had when it was preempted is the one it gets back (threads.rs:287).  A  *)
(* waiter that LOCK_PI, a handler or SIGCONT let run again is still in the *)
(* list, and a wake writes to its rax.                                     *)
RegistersKept ==
    OneCpu /\ scenario.calls \cap {"lock_pi", "handle"} = {} /\ "CONT" \notin scenario.sigs =>
        \A t \in Tasks : parked[t] = "no" /\ Live(t) /\ ~Running(t) => rax[t] = Own

(* A task woken from FUTEX_WAIT will return 0, and one woken from a join   *)
(* the status the thread exited with, once the waker has left the kernel.  *)
(* SIGCONT wakes a call that nothing has completed.                        *)
WokenWithResult ==
    /\ OneCpu /\ InUser(BSP)
    /\ "thread_exit" \notin scenario.calls /\ "CONT" \notin scenario.sigs
    =>
        \A t \in run_queue :
            /\ parked[t] = "futex" => rax[t] = 0
            /\ parked[t] = "join" => rax[t] = exited[want[t]]

(* Every join of a thread that has exited returns (lifecycle.rs:168), also *)
(* when the joiner had only begun to park, on one CPU.                     *)
JoinReturns ==
    \A t \in Tasks :
        OneCpu /\ AsleepIn("join", t) /\ ~Live(want[t]) ~> ~AsleepIn("join", t)

(* Waiting for a futex or a thread: nobody sleeps that a wake should have  *)
(* reached, who is woken gets the result of the call, and no other task's  *)
(* registers are touched.                                                  *)
WaitersServed == NoLostWake /\ SleeperListed /\ NoStaleEntry /\ WokenWithResult /\ RegistersKept
=============================================================================
