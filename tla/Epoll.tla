------------------------------- MODULE Epoll -------------------------------
(***************************************************************************)
(* An epoll instance (ipc/epoll.rs) that watches eventfds (ipc/eventfd.rs) *)
(* of one process, whose threads run on two processors.                    *)
(*                                                                         *)
(* epoll_wait looks at the entries one after the other under               *)
(* EPOLL_INSTANCES, and takes EVENTFDS for the one it looks at: reads,     *)
(* writes and closes of eventfds come between.  It never blocks, whatever  *)
(* the timeout.  An entry keeps the path its descriptor had when it was    *)
(* added.  EvMax stands for u64::MAX.                                      *)
(***************************************************************************)
EXTENDS Naturals, FiniteSets

CONSTANTS
    EpFds,     \* descriptors, in the order of the entries
    EpAsks,    \* what epoll_ctl is asked for: events, EPOLLET and EPOLLONESHOT
    EvLimit,   \* bound on eventfds ever created
    EvMax      \* u64::MAX

ASSUME EpAssumption ==
    /\ EpAsks \subseteq [events : SUBSET {"IN", "OUT"}, edge : BOOLEAN, oneshot : BOOLEAN]
    /\ EpFds \subseteq Nat \ {0} /\ EvLimit \in Nat /\ EvMax \in Nat \ {0, 1}

NoEv == 0
EvIds == 1 .. EvLimit
EpMasks == SUBSET {"IN", "OUT"}

VARIABLES
    eventfds,   \* EVENTFDS
    ev_next,    \* NEXT_EVENTFD
    fd_paths,   \* the eventfd behind each descriptor
    entries,    \* the entries of the instance
    ep_scan,    \* the epoll_wait that holds EPOLL_INSTANCES
    ep_fired    \* history: reports of a one-shot entry since it was last armed

epVars == <<eventfds, ev_next, fd_paths, entries, ep_scan, ep_fired>>

NoEventfd == [exists |-> FALSE, semaphore |-> FALSE, counter |-> 0]
NoEntry == [exists |-> FALSE, path |-> NoEv, events |-> {}, edge |-> FALSE, oneshot |-> FALSE, last_ready |-> {}]
NoScan == [active |-> FALSE, max |-> 0, todo |-> {}, told |-> {}, disable |-> {}, whole |-> {}]

EpInit ==
    /\ eventfds = [i \in EvIds |-> NoEventfd]
    /\ ev_next = 1
    /\ fd_paths = [fd \in EpFds |-> NoEv]
    /\ entries = [fd \in EpFds |-> NoEntry]
    /\ ep_scan = NoScan
    /\ ep_fired = [fd \in EpFds |-> 0]
-----------------------------------------------------------------------------
(* eventfds *)

Readable(i) == i # NoEv /\ eventfds[i].exists /\ eventfds[i].counter > 0

(* The entries that stay readable while the scan goes on. *)
EpStays == ep_scan' = [ep_scan EXCEPT !.whole = {fd \in @ : eventfds'[entries[fd].path].counter > 0}]

(* sys_eventfd: the new eventfd, behind the lowest free descriptor. *)
EventfdCreate(initval, semaphore) ==
    /\ ev_next \in EvIds
    /\ \E fd \in EpFds :
        /\ fd_paths[fd] = NoEv /\ \A g \in EpFds : fd_paths[g] = NoEv => fd <= g
        /\ fd_paths' = [fd_paths EXCEPT ![fd] = ev_next]
    /\ eventfds' = [eventfds EXCEPT ![ev_next] =
            [exists |-> TRUE, semaphore |-> semaphore, counter |-> initval]]
    /\ ev_next' = ev_next + 1
    /\ UNCHANGED <<entries, ep_scan, ep_fired>>

(* EventFd::read; EAGAIN of an empty counter changes nothing. *)
EventfdRead(fd) ==
    LET i == fd_paths[fd]
        val == IF eventfds[i].semaphore THEN 1 ELSE eventfds[i].counter
    IN  /\ Readable(i)
        /\ eventfds' = [eventfds EXCEPT ![i].counter = @ - val]
        /\ EpStays
        /\ UNCHANGED <<ev_next, fd_paths, entries, ep_fired>>

(* EventFd::write: EINVAL for u64::MAX and for an overflow, EAGAIN for a   *)
(* sum of u64::MAX, which change nothing.                                  *)
EventfdWrite(fd, val) ==
    LET i == fd_paths[fd]
    IN  /\ i # NoEv /\ eventfds[i].exists /\ val # EvMax /\ eventfds[i].counter + val <= EvMax - 1
        /\ eventfds' = [eventfds EXCEPT ![i].counter = @ + val]
        /\ EpStays
        /\ UNCHANGED <<ev_next, fd_paths, entries, ep_fired>>

(* close of a descriptor: the eventfd goes, the entry stays. *)
EventfdClose(fd) ==
    /\ fd_paths[fd] # NoEv
    /\ eventfds' = [eventfds EXCEPT ![fd_paths[fd]] = NoEventfd]
    /\ fd_paths' = [fd_paths EXCEPT ![fd] = NoEv]
    /\ EpStays
    /\ UNCHANGED <<ev_next, entries, ep_fired>>
-----------------------------------------------------------------------------
(* epoll_ctl *)

CtlAdd(fd, events, edge, oneshot) ==
    /\ ~ep_scan.active /\ ~entries[fd].exists
    /\ entries' = [entries EXCEPT ![fd] = [exists |-> TRUE, path |-> fd_paths[fd], events |-> events,
                                           edge |-> edge, oneshot |-> oneshot, last_ready |-> {}]]
    /\ ep_fired' = [ep_fired EXCEPT ![fd] = 0]
    /\ UNCHANGED <<eventfds, ev_next, fd_paths, ep_scan>>

(* EPOLL_CTL_MOD keeps the path and last_ready. *)
CtlMod(fd, events, edge, oneshot) ==
    /\ ~ep_scan.active /\ entries[fd].exists
    /\ entries' = [entries EXCEPT ![fd].events = events, ![fd].edge = edge, ![fd].oneshot = oneshot]
    /\ ep_fired' = [ep_fired EXCEPT ![fd] = 0]
    /\ UNCHANGED <<eventfds, ev_next, fd_paths, ep_scan>>

CtlDel(fd) ==
    /\ ~ep_scan.active /\ entries[fd].exists
    /\ entries' = [entries EXCEPT ![fd] = NoEntry]
    /\ UNCHANGED <<eventfds, ev_next, fd_paths, ep_scan, ep_fired>>
-----------------------------------------------------------------------------
(* epoll_wait *)

(* check_path_readiness: an eventfd can always be written; a descriptor    *)
(* that was not open when it was added has no path and is taken for a      *)
(* file, which is always ready.                                            *)
EpReady(e) == {m \in e.events : m = "IN" /\ e.path # NoEv => Readable(e.path)}

EpWait(max) ==
    /\ ~ep_scan.active
    /\ LET watched == {fd \in EpFds : entries[fd].exists}
       IN  ep_scan' = [active |-> TRUE, max |-> max, todo |-> watched, told |-> {}, disable |-> {},
                       whole |-> {fd \in watched : Readable(entries[fd].path)}]
    /\ UNCHANGED <<eventfds, ev_next, fd_paths, entries, ep_fired>>

(* Mutant: the loop stops at an entry that has nothing new. *)
EpCheckStops(fd) ==
    LET ready == EpReady(entries[fd])
        report == ready # {} /\ ~(entries[fd].edge /\ ready = entries[fd].last_ready)
    IN  /\ fd \in ep_scan.todo /\ Cardinality(ep_scan.told) < ep_scan.max
        /\ \A g \in ep_scan.todo : fd <= g
        /\ ep_scan' = [ep_scan EXCEPT
                !.todo = IF report THEN @ \ {fd} ELSE {},
                !.told = IF report THEN @ \cup {fd} ELSE @,
                !.disable = IF report /\ entries[fd].oneshot THEN @ \cup {fd} ELSE @]
        /\ entries' = IF report /\ entries[fd].edge THEN [entries EXCEPT ![fd].last_ready = ready] ELSE entries
        /\ ep_fired' = IF report /\ entries[fd].oneshot THEN [ep_fired EXCEPT ![fd] = @ + 1] ELSE ep_fired
        /\ UNCHANGED <<eventfds, ev_next, fd_paths>>

(* One turn of the loop in EpollInstance::poll. *)
EpCheck(fd) ==
    LET ready == EpReady(entries[fd])
        report == ready # {} /\ ~(entries[fd].edge /\ ready = entries[fd].last_ready)
    IN  /\ fd \in ep_scan.todo /\ Cardinality(ep_scan.told) < ep_scan.max
        /\ \A g \in ep_scan.todo : fd <= g
        /\ ep_scan' = [ep_scan EXCEPT
                !.todo = @ \ {fd},
                !.told = IF report THEN @ \cup {fd} ELSE @,
                !.disable = IF report /\ entries[fd].oneshot THEN @ \cup {fd} ELSE @]
        /\ entries' = IF report /\ entries[fd].edge THEN [entries EXCEPT ![fd].last_ready = ready] ELSE entries
        /\ ep_fired' = IF report /\ entries[fd].oneshot THEN [ep_fired EXCEPT ![fd] = @ + 1] ELSE ep_fired
        /\ UNCHANGED <<eventfds, ev_next, fd_paths>>

EpScanDone == ep_scan.active /\ (ep_scan.todo = {} \/ Cardinality(ep_scan.told) >= ep_scan.max)

(* The end of poll: one-shot entries that fired are disabled. *)
EpReturn ==
    /\ EpScanDone
    /\ entries' = [fd \in EpFds |-> IF fd \in ep_scan.disable THEN [entries[fd] EXCEPT !.events = {}] ELSE entries[fd]]
    /\ ep_scan' = NoScan
    /\ UNCHANGED <<eventfds, ev_next, fd_paths, ep_fired>>
-----------------------------------------------------------------------------
EpNext ==
    \/ \E initval \in {0, 1}, semaphore \in BOOLEAN : EventfdCreate(initval, semaphore)
    \/ \E fd \in EpFds : EventfdRead(fd) \/ EventfdClose(fd) \/ \E val \in {1, EvMax - 1, EvMax} : EventfdWrite(fd, val)
    \/ \E fd \in EpFds, ask \in EpAsks :
            CtlAdd(fd, ask.events, ask.edge, ask.oneshot) \/ CtlMod(fd, ask.events, ask.edge, ask.oneshot)
    \/ \E fd \in EpFds : CtlDel(fd) \/ EpCheck(fd)
    \/ \E max \in 1 .. Cardinality(EpFds) : EpWait(max)
    \/ EpReturn

EpSpec == EpInit /\ [][EpNext]_epVars
-----------------------------------------------------------------------------
EpType ==
    /\ \A i \in EvIds : eventfds[i].counter \in 0 .. EvMax - 1
    /\ \A fd \in EpFds : fd_paths[fd] \in EvIds \cup {NoEv} /\ entries[fd].events \in EpMasks
    /\ ep_scan.disable \subseteq ep_scan.told /\ ep_scan.told \subseteq EpFds

(* An epoll_wait that had room to spare has reported every entry that      *)
(* asks for EPOLLIN and stayed readable while it looked, whatever the      *)
(* other threads did meanwhile; an edge-triggered one if it has never      *)
(* reported (epoll.rs:102).                                                *)
EpNoneMissed ==
    ep_scan.active /\ ep_scan.todo = {} =>
        \A fd \in ep_scan.whole : "IN" \in entries[fd].events /\ ~(entries[fd].edge /\ entries[fd].last_ready # {})
            => fd \in ep_scan.told

(* A one-shot entry reports once until EPOLL_CTL_MOD arms it again.        *)
EpOneshotOnce == \A fd \in EpFds : entries[fd].exists /\ entries[fd].oneshot => ep_fired[fd] <= 1

(* epoll_wait misses no entry that stayed readable, and reports a one-shot *)
(* entry once.                                                             *)
EpReports == EpType /\ EpNoneMissed /\ EpOneshotOnce
=============================================================================
