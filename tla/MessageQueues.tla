--------------------------- MODULE MessageQueues ----------------------------
(***************************************************************************)
(* POSIX message queues (ipc/mqueue.rs).                                   *)
(*                                                                         *)
(* MQ_QUEUES and MQ_DESCRIPTORS have a lock each: mq_open holds both, the  *)
(* queues first; mq_close holds both, the descriptors first; mq_send and   *)
(* mq_receive look the descriptor up, release its lock and take the other. *)
(* A message is its priority and the number of the send that queued it.    *)
(***************************************************************************)
EXTENDS Integers, Sequences, FiniteSets

CONSTANTS
    MqCpus,       \* the processors
    MqNames,      \* names of queues
    MqPriorities, \* priorities of messages
    MqMax,        \* mq_maxmsg
    MqFdLimit,    \* bound on descriptors ever opened
    MqSendLimit,  \* bound on messages ever queued
    MqCalls       \* the workloads: the calls each processor makes

Nobody == "nobody"

ASSUME MqAssumption ==
    /\ Nobody \notin MqCpus \cup MqNames
    /\ MqPriorities \subseteq Nat
    /\ \A calls \in MqCalls : calls \in [MqCpus -> SUBSET {"open", "close", "unlink", "send", "receive"}]
    /\ MqMax \in Nat /\ MqFdLimit \in Nat /\ MqSendLimit \in Nat

MqFds == 1 .. MqFdLimit

VARIABLES
    mq_calls,     \* never changes: a member of MqCalls
    mq_queues,    \* MQ_QUEUES: the queue of each name
    mq_descs,     \* MQ_DESCRIPTORS: the queue_name of each open descriptor
    next_mqfd,    \* NEXT_MQFD
    mq_lock,      \* who holds MQ_QUEUES and MQ_DESCRIPTORS
    mq_pc,        \* the call each processor is in, and its operands
    mq_sent,      \* history: number of messages queued so far
    mq_done       \* history: messages received, or dropped with their queue

mqVars == <<mq_calls, mq_queues, mq_descs, next_mqfd, mq_lock, mq_pc, mq_sent, mq_done>>

Absent == [exists |-> FALSE, messages |-> <<>>, open_count |-> 0, unlink_pending |-> FALSE]
MqDoing(op, n, creat, excl) == [op |-> op, name |-> n, creat |-> creat, excl |-> excl]
MqIdle == MqDoing("idle", Nobody, FALSE, FALSE)

MqInit ==
    /\ mq_calls \in MqCalls
    /\ mq_queues = [n \in MqNames |-> Absent]
    /\ mq_descs = [d \in MqFds |-> Nobody]
    /\ next_mqfd = 1
    /\ mq_lock = [queues |-> Nobody, descs |-> Nobody]
    /\ mq_pc = [c \in MqCpus |-> MqIdle]
    /\ mq_sent = 0
    /\ mq_done = {}

MqAt(c, op) == mq_pc[c].op = op
MqCall(c, call) == MqAt(c, "idle") /\ call \in mq_calls[c]

(* The call returns, and the guards it holds are dropped. *)
MqReturn(c) ==
    /\ mq_pc' = [mq_pc EXCEPT ![c] = MqIdle]
    /\ mq_lock' = [l \in DOMAIN mq_lock |-> IF mq_lock[l] = c THEN Nobody ELSE mq_lock[l]]

Unlocked(l) == mq_lock[l] = Nobody
-----------------------------------------------------------------------------
(* mq_open: takes MQ_QUEUES, ... *)
MqOpen(c, n, creat, excl) ==
    /\ MqCall(c, "open")
    /\ Unlocked("queues") /\ next_mqfd \in MqFds
    /\ mq_lock' = [mq_lock EXCEPT !.queues = c]
    /\ mq_pc' = [mq_pc EXCEPT ![c] = MqDoing("open", n, creat, excl)]
    /\ UNCHANGED <<mq_calls, mq_queues, mq_descs, next_mqfd, mq_sent, mq_done>>

(* The queue with one more descriptor, created if there was none. *)
MqOpened(q) ==
    IF q.exists THEN [q EXCEPT !.open_count = @ + 1] ELSE [Absent EXCEPT !.exists = TRUE, !.open_count = 1]

(* ... then MQ_DESCRIPTORS; EEXIST, ENOENT, or a descriptor of the queue   *)
(* that has the name, or of a new one.                                     *)
MqOpenBoth(c) ==
    LET n == mq_pc[c].name
        exists == mq_queues[n].exists
        refused == IF exists THEN mq_pc[c].creat /\ mq_pc[c].excl ELSE ~mq_pc[c].creat
    IN  /\ MqAt(c, "open")
        /\ Unlocked("descs")
        /\ IF refused
           THEN UNCHANGED <<mq_queues, mq_descs, next_mqfd>>
           ELSE /\ mq_queues' = [mq_queues EXCEPT ![n] = MqOpened(@)]
                /\ mq_descs' = [mq_descs EXCEPT ![next_mqfd] = n]
                /\ next_mqfd' = next_mqfd + 1
        /\ MqReturn(c)
        /\ UNCHANGED <<mq_calls, mq_sent, mq_done>>

(* mq_close: takes MQ_DESCRIPTORS and removes the descriptor, ... *)
MqClose(c, d) ==
    /\ MqCall(c, "close")
    /\ Unlocked("descs") /\ mq_descs[d] # Nobody
    /\ mq_lock' = [mq_lock EXCEPT !.descs = c]
    /\ mq_descs' = [mq_descs EXCEPT ![d] = Nobody]
    /\ mq_pc' = [mq_pc EXCEPT ![c] = MqDoing("close", mq_descs[d], FALSE, FALSE)]
    /\ UNCHANGED <<mq_calls, mq_queues, next_mqfd, mq_sent, mq_done>>

Stamps(messages) == {messages[i].stamp : i \in DOMAIN messages}

(* The queue is removed, and its messages with it. *)
MqDrop(n) ==
    /\ mq_queues' = [mq_queues EXCEPT ![n] = Absent]
    /\ mq_done' = mq_done \cup Stamps(mq_queues[n].messages)

(* ... then MQ_QUEUES: counts down, and removes an unlinked queue.         *)
MqCloseBoth(c) ==
    LET n == mq_pc[c].name
        q == mq_queues[n]
        count == IF q.open_count > 0 THEN q.open_count - 1 ELSE 0
    IN  /\ MqAt(c, "close")
        /\ Unlocked("queues")
        /\ CASE ~q.exists -> UNCHANGED <<mq_queues, mq_done>>
             [] q.exists /\ count = 0 /\ q.unlink_pending -> MqDrop(n)
             [] OTHER -> /\ mq_queues' = [mq_queues EXCEPT ![n].open_count = count]
                         /\ UNCHANGED mq_done
        /\ MqReturn(c)
        /\ UNCHANGED <<mq_calls, mq_descs, next_mqfd, mq_sent>>

(* mq_unlink: removes a queue that is not open; another keeps its name     *)
(* until it is closed.                                                     *)
MqUnlink(c, n) ==
    /\ MqCall(c, "unlink")
    /\ Unlocked("queues") /\ mq_queues[n].exists
    /\ IF mq_queues[n].open_count > 0
       THEN /\ mq_queues' = [mq_queues EXCEPT ![n].unlink_pending = TRUE]
            /\ UNCHANGED mq_done
       ELSE MqDrop(n)
    /\ UNCHANGED <<mq_calls, mq_descs, next_mqfd, mq_lock, mq_pc, mq_sent>>
-----------------------------------------------------------------------------
(* The bound on messages is not reached, the sends under way included. *)
MqRoom == mq_sent + Cardinality({c \in MqCpus : MqAt(c, "send")}) < MqSendLimit

(* Mutant: the guard on the descriptors is not dropped. *)
MqLookupLocked(c, call, d) ==
    /\ MqCall(c, call) /\ MqRoom
    /\ Unlocked("descs") /\ mq_descs[d] # Nobody
    /\ mq_lock' = [mq_lock EXCEPT !.descs = c]
    /\ mq_pc' = [mq_pc EXCEPT ![c] = MqDoing(call, mq_descs[d], FALSE, FALSE)]
    /\ UNCHANGED <<mq_calls, mq_queues, mq_descs, next_mqfd, mq_sent, mq_done>>

(* mq_send and mq_receive: the name of the queue, from MQ_DESCRIPTORS. *)
MqLookup(c, call, d) ==
    /\ MqCall(c, call) /\ MqRoom
    /\ Unlocked("descs") /\ mq_descs[d] # Nobody
    /\ mq_pc' = [mq_pc EXCEPT ![c] = MqDoing(call, mq_descs[d], FALSE, FALSE)]
    /\ UNCHANGED <<mq_calls, mq_queues, mq_descs, next_mqfd, mq_lock, mq_sent, mq_done>>

(* Mutant: a message goes before those of its own priority. *)
MqPositionNewest(messages, priority) ==
    {i \in DOMAIN messages : messages[i].priority <= priority}

(* The places of the messages that a new one of this priority precedes. *)
MqPosition(messages, priority) ==
    {i \in DOMAIN messages : messages[i].priority < priority}

(* The message goes before the first of lower priority, or to the end. *)
MqInsert(messages, m) ==
    LET lower == MqPosition(messages, m.priority)
        at == IF lower = {} THEN Len(messages) + 1
              ELSE CHOOSE i \in lower : \A j \in lower : i <= j
    IN  [i \in 1 .. Len(messages) + 1 |->
            IF i < at THEN messages[i] ELSE IF i = at THEN m ELSE messages[i - 1]]

(* mq_send, under MQ_QUEUES: EBADF, EMSGSIZE, EAGAIN, or the message. *)
MqSend(c, priority, fits) ==
    LET n == mq_pc[c].name
        q == mq_queues[n]
    IN  /\ MqAt(c, "send")
        /\ Unlocked("queues")
        /\ IF q.exists /\ fits /\ Len(q.messages) < MqMax
           THEN /\ mq_queues' = [mq_queues EXCEPT ![n].messages =
                        MqInsert(@, [priority |-> priority, stamp |-> mq_sent])]
                /\ mq_sent' = mq_sent + 1
           ELSE UNCHANGED <<mq_queues, mq_sent>>
        /\ MqReturn(c)
        /\ UNCHANGED <<mq_calls, mq_descs, next_mqfd, mq_done>>

(* mq_receive, under MQ_QUEUES: EBADF, EMSGSIZE, EAGAIN, or the first. *)
MqReceive(c, fits) ==
    LET n == mq_pc[c].name
        q == mq_queues[n]
    IN  /\ MqAt(c, "receive")
        /\ Unlocked("queues")
        /\ IF q.exists /\ fits /\ q.messages # <<>>
           THEN /\ mq_queues' = [mq_queues EXCEPT ![n].messages = Tail(@)]
                /\ mq_done' = mq_done \cup {Head(q.messages).stamp}
           ELSE UNCHANGED <<mq_queues, mq_done>>
        /\ MqReturn(c)
        /\ UNCHANGED <<mq_calls, mq_descs, next_mqfd, mq_sent>>
-----------------------------------------------------------------------------
(* A processor goes on with the call it is in. *)
MqStep(c) ==
    \/ MqOpenBoth(c) \/ MqCloseBoth(c)
    \/ \E fits \in BOOLEAN : MqReceive(c, fits) \/ \E p \in MqPriorities : MqSend(c, p, fits)

MqNext ==
    \E c \in MqCpus :
        \/ MqStep(c)
        \/ \E n \in MqNames : MqUnlink(c, n) \/ \E creat, excl \in BOOLEAN : MqOpen(c, n, creat, excl)
        \/ \E d \in MqFds : MqClose(c, d) \/ \E call \in {"send", "receive"} : MqLookup(c, call, d)

MqSpec == MqInit /\ [][MqNext]_mqVars
-----------------------------------------------------------------------------
MqMessage == [priority : MqPriorities, stamp : Nat]
MqQueue == [exists : BOOLEAN, messages : Seq(MqMessage), open_count : Nat, unlink_pending : BOOLEAN]
MqCallState == [op : {"idle", "open", "close", "send", "receive"}, name : MqNames \cup {Nobody},
                creat : BOOLEAN, excl : BOOLEAN]

MqType ==
    /\ mq_calls \in MqCalls
    /\ mq_queues \in [MqNames -> MqQueue]
    /\ mq_descs \in [MqFds -> MqNames \cup {Nobody}]
    /\ next_mqfd \in Nat \ {0} /\ mq_sent \in Nat /\ mq_done \subseteq Nat
    /\ mq_lock \in [{"queues", "descs"} -> MqCpus \cup {Nobody}]
    /\ mq_pc \in [MqCpus -> MqCallState]

(* Priority-ordered delivery (mqueue.rs:4): what mq_receive takes, the     *)
(* first message, is the oldest of the highest priority there is, whoever  *)
(* sends and receives in between.                                          *)
MqOrdered ==
    \A n \in MqNames : LET s == mq_queues[n].messages IN
        \A i, j \in DOMAIN s : i < j =>
            \/ s[i].priority > s[j].priority
            \/ s[i].priority = s[j].priority /\ s[i].stamp < s[j].stamp

(* No message is lost or received twice: each one that was queued is       *)
(* either in one place of one queue or was received, or dropped with its   *)
(* queue; and no queue holds more than mq_maxmsg.                          *)
MqConserved ==
    /\ mq_done \cup UNION {Stamps(mq_queues[n].messages) : n \in MqNames} = 0 .. mq_sent - 1
    /\ \A n \in MqNames : LET s == mq_queues[n].messages IN
        /\ Stamps(s) \cap mq_done = {} /\ Len(s) <= MqMax
        /\ \A i, j \in DOMAIN s : s[i].stamp = s[j].stamp => i = j
        /\ \A m \in MqNames \ {n} : Stamps(s) \cap Stamps(mq_queues[m].messages) = {}

(* An open descriptor has its queue: an unlinked queue is removed by the   *)
(* last close and not before, also when it was opened again after the      *)
(* unlink, or is being opened on another processor.                        *)
MqDescLive == \A d \in MqFds : mq_descs[d] # Nobody => mq_queues[mq_descs[d]].exists

(* No processor opens a queue while another closes one: mq_open takes      *)
(* MQ_QUEUES first, mq_close MQ_DESCRIPTORS (mqueue.rs:157).               *)
MqLockOrder ==
    \A b, c \in MqCpus : b # c => ~("open" \in mq_calls[b] /\ "close" \in mq_calls[c])

(* Then a processor that waits for one of the locks holding the other is   *)
(* not waited for: no two wait for each other.                             *)
MqNoDeadlock == MqLockOrder => Unlocked("queues") \/ Unlocked("descs")

(* What a step needs to know: who holds a lock is in the call that takes   *)
(* it first, and open_count counts the descriptors, together with the one  *)
(* that mq_close has removed and not yet counted.                          *)
MqHolders ==
    \A c \in MqCpus :
        /\ mq_lock.queues = c <=> MqAt(c, "open")
        /\ mq_lock.descs = c <=> MqAt(c, "close")
        /\ ~MqAt(c, "idle") => mq_pc[c].name \in MqNames
        /\ mq_pc[c].op \in {"open", "close"} => mq_pc[c].op \in mq_calls[c]

OpenFds(n) == {d \in MqFds : mq_descs[d] = n}
Closing(n) == IF mq_lock.descs # Nobody /\ mq_pc[mq_lock.descs].name = n THEN 1 ELSE 0

MqCounted ==
    \A n \in MqNames :
        /\ mq_queues[n].open_count = Cardinality(OpenFds(n)) + Closing(n)
        /\ ~mq_queues[n].exists => mq_queues[n] = Absent

MqFresh ==
    /\ \A d \in MqFds : d >= next_mqfd => mq_descs[d] = Nobody
    /\ mq_lock.queues # Nobody => next_mqfd \in MqFds

(* Each message that was queued is delivered at most once, in the order of *)
(* priority and age, from a queue that lives as long as a descriptor of    *)
(* it.                                                                     *)
MqDelivery == MqType /\ MqOrdered /\ MqConserved /\ MqDescLive
=============================================================================
