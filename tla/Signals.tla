------------------------------ MODULE Signals -------------------------------
(***************************************************************************)
(* Signals (sched/signals.rs, syscall/signal.rs, ipc/signalfd.rs) on the   *)
(* tasks of Futex: pending lists, masks, dispositions, stop and continue,  *)
(* handler frames and rt_sigreturn.                                        *)
(*                                                                         *)
(* PROCESS_SIGNALS is one lock; what a signal does to a task happens after *)
(* it is released, under the locks of the table and the scheduler.  Only   *)
(* tasks that are not running have signals delivered, by the desktop; a    *)
(* frame that is set up is then one step.                                  *)
(***************************************************************************)
EXTENDS Futex, SequencesExt

CONSTANT Sigs   \* signals in use, of those DefaultAction knows

DefaultAction == [INT |-> "terminate", USR1 |-> "terminate", CHLD |-> "ignore", TSTP |-> "stop",
                  STOP |-> "stop", CONT |-> "continue", KILL |-> "terminate"]

Uncatchable == {"KILL", "STOP"}
Catchable == Sigs \ Uncatchable

ASSUME SigAssumption == Sigs \subseteq DOMAIN DefaultAction

VARIABLES
    pending,        \* ProcessSignals.pending
    mask,           \* ProcessSignals.mask
    dispositions,   \* ProcessSignals.dispositions
    signalfd,       \* signals each task reads from a signalfd
    sfd_pending,    \* SignalFdInstance.pending
    frames,         \* the signal frames on each user stack, newest last
    own_mask,       \* history: the mask each program set outside its handlers
    owed            \* history: signals sent to each task and not yet acted on

svars == <<pending, mask, dispositions, signalfd, sfd_pending, frames, own_mask, owed>>

PerTask(v) == [t \in Tasks |-> v]

SignalsInit ==
    /\ pending = PerTask(<<>>)
    /\ mask = PerTask({})
    /\ dispositions = PerTask([s \in Sigs |-> IF s \in scenario.caught THEN "handler" ELSE "default"])
    /\ signalfd = PerTask({})
    /\ sfd_pending = PerTask(<<>>)
    /\ frames = PerTask(<<>>)
    /\ own_mask = PerTask({})
    /\ owed = PerTask([s \in Sigs |-> 0])

(* get_action. *)
Action(t, s) == IF dispositions[t][s] = "default" THEN DefaultAction[s] ELSE dispositions[t][s]

(* is_blocked: no mask blocks SIGKILL or SIGSTOP. *)
Blocked(t, s) == s \notin Uncatchable /\ s \in mask[t]
-----------------------------------------------------------------------------
(* What kill does at once, after the list is unlocked. *)
ActAtOnce(c, t, s) ==
    CASE s = "KILL" -> BeginRetire(c, t, 0)
      [] s = "STOP" -> kernel' = [kernel EXCEPT ![c].op = "stop", ![c].task = t]
      [] s = "CONT" -> kernel' = [kernel EXCEPT ![c].op = "continue", ![c].task = t]
      [] OTHER -> UNCHANGED kernel

(* kill, from a task or the desktop: a signalfd takes the signal, or it is *)
(* queued and, if it cannot wait, acted on as well.                        *)
Kill(c, t, s) ==
    /\ Free(c, "kill") \/ HomeCalls(c, "home_kill")
    /\ Live(t) \/ (state[t] = "zombie" /\ "kill_dead" \in scenario.calls)
    /\ Len(pending[t]) < scenario.bound /\ Len(sfd_pending[t]) < scenario.bound
    /\ IF s # "KILL" /\ s \in signalfd[t]
       THEN /\ sfd_pending' = [sfd_pending EXCEPT ![t] = Append(@, s)]
            /\ UNCHANGED <<pending, owed, kernel>>
       ELSE /\ pending' = [pending EXCEPT ![t] = Append(@, s)]
            /\ owed' = [owed EXCEPT ![t][s] = @ + 1]
            /\ ActAtOnce(c, t, s)
            /\ UNCHANGED sfd_pending
    /\ UNCHANGED <<scenario, state, queues, on, parked, rax, fvars>>
    /\ UNCHANGED <<mask, dispositions, signalfd, frames, own_mask>>

(* stop_process: the table, whatever the state was, ... *)
StopTable(c) ==
    /\ At(c, "stop")
    /\ state' = [state EXCEPT ![kernel[c].task] = "stopped"]
    /\ Goto(c, "stop_block")
    /\ UNCHANGED <<scenario, queues, on, parked, rax, fvars, svars>>

(* ... then the scheduler. *)
StopBlock(c) ==
    /\ At(c, "stop_block")
    /\ BlockProcess(c, kernel[c].task)
    /\ Return(c)
    /\ UNCHANGED <<scenario, state, on, parked, rax, fvars, svars>>

(* continue_process: looks at the state, ... *)
ContinueCheck(c) ==
    /\ At(c, "continue")
    /\ IF state[kernel[c].task] = "stopped" THEN Goto(c, "continue_table") ELSE Return(c)
    /\ UNCHANGED <<scenario, state, queues, on, parked, rax, fvars, svars>>

(* ... locks the table again to change it, ... *)
ContinueTable(c) ==
    /\ At(c, "continue_table")
    /\ state' = [state EXCEPT ![kernel[c].task] = "ready"]
    /\ Goto(c, "continue_wake")
    /\ UNCHANGED <<scenario, queues, on, parked, rax, fvars, svars>>

(* Mutant: the state is set and nothing is woken. *)
ContinueWakeNobody(c, op, next) ==
    /\ At(c, op)
    /\ IF next = "user" THEN Return(c) ELSE Goto(c, next)
    /\ UNCHANGED <<scenario, state, queues, on, parked, rax, fvars, svars>>

(* ... and wakes the task, twice: scheduler::wake_process, user_task::wake. *)
ContinueWake(c, op, next) ==
    /\ At(c, op)
    /\ WakeProcess(kernel[c].task)
    /\ IF next = "user" THEN Return(c) ELSE Goto(c, next)
    /\ UNCHANGED <<scenario, state, on, parked, rax, fvars, svars>>
-----------------------------------------------------------------------------
(* The entries deliver_signals takes off the list: those not blocked, up   *)
(* to the first that is not ignored.                                       *)
Dequeued(t) ==
    LET deliverable == {i \in DOMAIN pending[t] : ~Blocked(t, pending[t][i])}
    IN  {i \in deliverable : \A j \in deliverable :
            j < i => Action(t, pending[t][j]) = "ignore"}

(* The signal deliver_signals acts on, or "none". *)
Delivered(t) ==
    LET acted == {i \in Dequeued(t) : Action(t, pending[t][i]) # "ignore"}
    IN  IF acted = {} THEN "none" ELSE pending[t][CHOOSE i \in acted : \A j \in acted : i <= j]

(* deliver_signals, with the list locked. *)
DeliverSignals(t) ==
    LET gone == Dequeued(t)
        kept == SetToSortSeq(DOMAIN pending[t] \ gone, <)
        s == Delivered(t)
        act == IF s = "none" THEN "none" ELSE Action(t, s)
    IN  /\ on[BSP] = Home /\ InUser(BSP)
        /\ "deliver" \in scenario.calls
        /\ Live(t) /\ ~Running(t) /\ gone # {}
        /\ pending' = [pending EXCEPT ![t] = [k \in DOMAIN kept |-> pending[t][kept[k]]]]
        /\ owed' = [owed EXCEPT ![t] = [x \in Sigs |->
                       LET ignored == {i \in gone : pending[t][i] = x /\ Action(t, x) = "ignore"}
                       IN  @[x] - Cardinality(ignored) - IF x = s THEN 1 ELSE 0]]
        /\ kernel' = [kernel EXCEPT ![BSP] =
                IF act = "none" THEN User
                ELSE [User EXCEPT !.op = IF act = "terminate" THEN "exit" ELSE act,
                                  !.task = t, !.call = s]]
        /\ UNCHANGED <<scenario, state, queues, on, parked, rax, fvars>>
        /\ UNCHANGED <<mask, dispositions, signalfd, sfd_pending, frames, own_mask>>

(* setup_signal_frame: saves the mask and the context on the user stack,   *)
(* blocks the signal, and points the context at the handler.               *)
SetupSignalFrame(c) ==
    LET t == kernel[c].task
        s == kernel[c].call
    IN  /\ At(c, "handler")
        /\ frames' = [frames EXCEPT ![t] =
                Append(@, [sig |-> s, saved_mask |-> mask[t]])]
        /\ mask' = [mask EXCEPT ![t] = @ \cup {s}]
        /\ parked' = [parked EXCEPT ![t] = "handler"]
        /\ Goto(c, "handler_wake")
        /\ UNCHANGED <<scenario, state, queues, on, rax, fvars>>
        /\ UNCHANGED <<pending, dispositions, signalfd, sfd_pending, own_mask, owed>>

(* deliver_signals: wakes a parked task so that the handler runs. *)
HandlerWake(c) ==
    /\ At(c, "handler_wake")
    /\ WakeProcess(kernel[c].task)
    /\ Return(c)
    /\ UNCHANGED <<scenario, state, on, parked, rax, fvars, svars>>

(* Mutant: the mask of the handler stays. *)
SigreturnKeepsMask(c) ==
    /\ Free(c, "handle")
    /\ frames[on[c]] # <<>>
    /\ frames' = [frames EXCEPT ![on[c]] = Front(@)]
    /\ UNCHANGED <<pvars, fvars, mask, pending, dispositions, signalfd, sfd_pending, own_mask, owed>>

(* sys_rt_sigreturn: the saved mask and the saved context; the task goes   *)
(* on in Ring 3, with EINTR for a call that was interrupted.               *)
Sigreturn(c) ==
    LET t == on[c]
    IN  /\ Free(c, "handle")
        /\ frames[t] # <<>>
        /\ mask' = [mask EXCEPT ![t] = Last(frames[t]).saved_mask]
        /\ frames' = [frames EXCEPT ![t] = Front(@)]
        /\ UNCHANGED <<pvars, fvars>>
        /\ UNCHANGED <<pending, dispositions, signalfd, sfd_pending, own_mask, owed>>
-----------------------------------------------------------------------------
(* sys_sigprocmask(SIG_SETMASK).  A handler keeps the signals of the       *)
(* handlers that are active blocked.                                       *)
Sigprocmask(c, S) ==
    LET t == on[c]
        sanitized == S \ Uncatchable
    IN  /\ Free(c, "sigprocmask")
        /\ {frames[t][i].sig : i \in DOMAIN frames[t]} \subseteq S
        /\ mask' = [mask EXCEPT ![t] = sanitized]
        /\ own_mask' = IF frames[t] = <<>> THEN [own_mask EXCEPT ![t] = sanitized] ELSE own_mask
        /\ UNCHANGED <<pvars, fvars, pending, dispositions, signalfd, sfd_pending, frames, owed>>

(* sys_sigaction: not for SIGKILL and SIGSTOP. *)
Sigaction(c, s, d) ==
    /\ Free(c, "sigaction")
    /\ s \in Catchable
    /\ dispositions' = [dispositions EXCEPT ![on[c]][s] = d]
    /\ UNCHANGED <<pvars, fvars, pending, mask, signalfd, sfd_pending, frames, own_mask, owed>>

(* execve: exec_reset_signals; the new program has no frames. *)
Exec(c) ==
    LET t == on[c]
    IN  /\ Free(c, "exec")
        /\ dispositions' = [dispositions EXCEPT ![t] =
                [s \in Sigs |-> IF @[s] = "handler" THEN "default" ELSE @[s]]]
        /\ frames' = [frames EXCEPT ![t] = <<>>]
        /\ own_mask' = [own_mask EXCEPT ![t] = mask[t]]
        /\ UNCHANGED <<pvars, fvars, pending, mask, signalfd, sfd_pending, owed>>

(* signalfd_create and signalfd_update. *)
SignalfdCreate(c, S) ==
    /\ Free(c, "signalfd")
    /\ signalfd' = [signalfd EXCEPT ![on[c]] = S]
    /\ UNCHANGED <<pvars, fvars, pending, mask, dispositions, sfd_pending, frames, own_mask, owed>>

(* signalfd_read: the newest first. *)
SignalfdRead(c) ==
    /\ Free(c, "signalfd")
    /\ sfd_pending[on[c]] # <<>>
    /\ sfd_pending' = [sfd_pending EXCEPT ![on[c]] = Front(@)]
    /\ UNCHANGED <<pvars, fvars, pending, mask, dispositions, signalfd, frames, own_mask, owed>>

(* fork_process_signals, in table.fork: mask and dispositions, no signals. *)
CloneSignals(c, t) ==
    /\ Clone(c, t)
    /\ mask' = [mask EXCEPT ![t] = mask[on[c]]]
    /\ own_mask' = [own_mask EXCEPT ![t] = mask[on[c]]]
    /\ dispositions' = [dispositions EXCEPT ![t] = dispositions[on[c]]]
    /\ UNCHANGED <<pending, signalfd, sfd_pending, frames, owed>>
-----------------------------------------------------------------------------
SignalCall(c) ==
    \/ \E t \in Tasks, s \in scenario.sigs : Kill(c, t, s)
    \/ \E t \in Tasks : CloneSignals(c, t)
    \/ Sigreturn(c) \/ Exec(c) \/ SignalfdRead(c)
    \/ \E S \in SUBSET (scenario.sigs \cup Uncatchable) : Sigprocmask(c, S)
    \/ \E S \in SUBSET scenario.sigs : SignalfdCreate(c, S)
    \/ \E s \in scenario.sigs, d \in {"default", "ignore", "handler"} : Sigaction(c, s, d)

SignalStep(c) ==
    \/ StopTable(c) \/ StopBlock(c)
    \/ ContinueCheck(c) \/ ContinueTable(c)
    \/ ContinueWake(c, "continue_wake", "continue_again")
    \/ ContinueWake(c, "continue_again", "user")
    \/ SetupSignalFrame(c) \/ HandlerWake(c)

vars == <<pvars, fvars, svars>>

Init == ParkingInit /\ FutexInit /\ SignalsInit

KernelStep(c) == (FutexStep(c) /\ UNCHANGED svars) \/ SignalStep(c)

Next ==
    \/ \E t \in Tasks : Enter(t) /\ UNCHANGED svars
    \/ Preempt /\ UNCHANGED <<fvars, svars>>
    \/ \E t \in Tasks : DeliverSignals(t)
    \/ \E c \in CPUs : (FutexCall(c) /\ UNCHANGED svars) \/ SignalCall(c) \/ KernelStep(c)

Spec == Init /\ [][Next]_vars

(* The kernel is not preempted: what a CPU began in it, it finishes. *)
FairSpec == Spec /\ \A c \in CPUs : WF_vars(KernelStep(c))
-----------------------------------------------------------------------------
(* Every variable holds what the code can put there: a queue or a CPU      *)
(* holds tasks, a frame a signal and a mask, and no mask holds SIGKILL or  *)
(* SIGSTOP.                                                                *)
ThreadsType ==
    /\ state \in [Tasks -> {"none", "ready", "stopped", "zombie"}]
    /\ run_queue \subseteq Tasks /\ wait_queue \subseteq Tasks
    /\ current \in Tasks \cup {None}
    /\ on \in [CPUs -> Tasks \cup {Home}]
    /\ parked \in [Tasks -> {"no", "futex", "join", "handler"}]
    /\ rax \in [Tasks -> {Own, 0} \cup Statuses]
    /\ futex_waiters \in Seq(Tasks) /\ owes \subseteq Tasks
    /\ threads \in [Tasks -> [listed : BOOLEAN, detached : BOOLEAN, status : Statuses \cup {0, NoStatus}]]
    /\ joiners \in [Tasks -> Tasks \cup {None}]
    /\ \A t \in Tasks :
        /\ pending[t] \in Seq(Sigs) /\ sfd_pending[t] \in Seq(Sigs)
        /\ mask[t] \subseteq Catchable
        /\ dispositions[t] \in [Sigs -> {"default", "ignore", "handler"}]
        /\ frames[t] \in Seq([sig : Catchable, saved_mask : SUBSET Catchable])

(* No signal is lost or acted on twice: what is pending is what was sent   *)
(* and has been neither acted on nor ignored, whichever signals are        *)
(* blocked when deliver_signals runs.                                      *)
PendingIsOwed ==
    \A t \in Tasks, s \in Sigs :
        owed[t][s] = Cardinality({i \in DOMAIN pending[t] : pending[t][i] = s})

(* When the last handler has returned, the mask is the one the program set *)
(* outside its handlers, however they nested and whatever masks they set.  *)
MaskRestored == \A t \in Tasks : frames[t] = <<>> => mask[t] = own_mask[t]

(* A handler is not interrupted by its own signal (signals.rs:570, "Block  *)
(* the delivered signal during handler execution").                        *)
HandlerNotReentered ==
    \A t \in Tasks : \A i, j \in DOMAIN frames[t] : frames[t][i].sig = frames[t][j].sig => i = j

(* Job control on one CPU, for tasks in no call: a ready task is in the    *)
(* run queue, so SIGCONT resumes what SIGSTOP stopped, and a stopped task  *)
(* is in the wait queue.                                                   *)
StateMatchesQueue ==
    OneCpu /\ InUser(BSP) /\ scenario.calls \subseteq {"kill", "home_kill", "deliver"} =>
        \A t \in Tasks : Live(t) /\ ~Running(t) =>
            t \in IF state[t] = "ready" THEN run_queue ELSE wait_queue

(* Signals are acted on once each, in handlers that do not interrupt       *)
(* themselves and leave the mask as they found it.                         *)
SignalsSound == ThreadsType /\ PendingIsOwed /\ MaskRestored /\ HandlerNotReentered
=============================================================================
