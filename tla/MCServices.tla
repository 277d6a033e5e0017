----------------------------- MODULE MCServices -----------------------------
(***************************************************************************)
(* Message queues, shared memory, file locks and epoll, each on its own:   *)
(* kind names the one that a behaviour is about, the others stand still.   *)
(***************************************************************************)
EXTENDS MessageQueues, SharedMemory, FileLocks, Epoll, TLC

CONSTANTS Kinds, c1, c2

VARIABLE kind

vars == <<kind, mqVars, shmVars, flVars, epVars>>

(* What the two processors do with message queues: one opens and unlinks   *)
(* while the other uses, each opens its end, and both do everything.       *)
MqEverything == {"open", "close", "unlink", "send", "receive"}
MqCallSets ==
    {c1 :> MqEverything @@ c2 :> {"send", "receive", "unlink"},
     c1 :> {"open", "send"} @@ c2 :> {"open", "receive"},
     c1 :> MqEverything @@ c2 :> MqEverything}

(* What epoll_ctl is asked for. *)
Asks ==
    {[events |-> {"IN"}, edge |-> FALSE, oneshot |-> FALSE],
     [events |-> {"IN"}, edge |-> TRUE, oneshot |-> FALSE],
     [events |-> {"IN", "OUT"}, edge |-> FALSE, oneshot |-> TRUE]}

Init ==
    /\ kind \in Kinds
    /\ MqInit /\ (kind # "mqueue" => mq_calls = c1 :> MqEverything @@ c2 :> MqEverything)
    /\ ShmInit
    /\ FlInit
    /\ EpInit

Next ==
    /\ UNCHANGED kind
    /\ \/ kind = "mqueue" /\ MqNext  /\ UNCHANGED <<shmVars, flVars, epVars>>
       \/ kind = "shm"    /\ ShmNext /\ UNCHANGED <<mqVars, flVars, epVars>>
       \/ kind = "flock"  /\ FlNext  /\ UNCHANGED <<mqVars, shmVars, epVars>>
       \/ kind = "epoll"  /\ EpNext  /\ UNCHANGED <<mqVars, shmVars, flVars>>

Spec == Init /\ [][Next]_vars
=============================================================================
