---------------------------- MODULE EpollProofs -----------------------------
(***************************************************************************)
(* EpReports for every set of descriptors, whatever is asked for and       *)
(* however many eventfds there are.                                        *)
(***************************************************************************)
EXTENDS Epoll, TLAPS

EpEventfd == [exists : BOOLEAN, semaphore : BOOLEAN, counter : 0 .. EvMax - 1]
EpEntry == [exists : BOOLEAN, path : EvIds \cup {NoEv}, events : EpMasks, edge : BOOLEAN, oneshot : BOOLEAN,
            last_ready : EpMasks]
EpScan == [active : BOOLEAN, max : Nat, todo : SUBSET EpFds, told : SUBSET EpFds, disable : SUBSET EpFds,
           whole : SUBSET EpFds]

EpTypes ==
    /\ eventfds \in [EvIds -> EpEventfd]
    /\ ev_next \in Nat
    /\ fd_paths \in [EpFds -> EvIds \cup {NoEv}]
    /\ entries \in [EpFds -> EpEntry]
    /\ ep_scan \in EpScan
    /\ ep_fired \in [EpFds -> Nat]

(* Ids that were not given out yet name no eventfd. *)
EpFresh == \A i \in EvIds : i >= ev_next => ~eventfds[i].exists

(* Nothing of a scan is left when it has returned, and what it has still   *)
(* to look at, or follows, are entries.                                    *)
EpScans ==
    /\ ~ep_scan.active => ep_scan.todo = {} /\ ep_scan.disable = {} /\ ep_scan.whole = {}
    /\ \A fd \in ep_scan.todo : entries[fd].exists /\ fd \notin ep_scan.disable
    /\ ep_scan.disable \subseteq ep_scan.told

(* What stayed readable is readable, and is to be looked at or was told.   *)
EpFollowed ==
    \A fd \in ep_scan.whole :
        /\ Readable(entries[fd].path)
        /\ \/ fd \in ep_scan.todo
           \/ "IN" \in entries[fd].events /\ ~(entries[fd].edge /\ entries[fd].last_ready # {}) => fd \in ep_scan.told

(* A one-shot entry that fired has no events left, or will have none when  *)
(* the scan returns.                                                       *)
EpSpent ==
    \A fd \in EpFds : entries[fd].exists /\ entries[fd].oneshot =>
        /\ ep_fired[fd] <= 1
        /\ ep_fired[fd] = 1 => fd \in ep_scan.disable \/ entries[fd].events = {}

EpInv == EpTypes /\ EpFresh /\ EpScans /\ EpFollowed /\ EpSpent
-----------------------------------------------------------------------------
LEMMA EpInitInv == EpInit => EpInv
BY EpAssumption DEF EpInit, EpInv, EpTypes, EpFresh, EpScans, EpFollowed, EpSpent, EpEventfd, EpEntry, EpScan, NoEventfd,
    NoEntry, NoScan, EpMasks, EvIds, NoEv

(* The steps of the eventfds leave the entries and all of the scan but     *)
(* whole alone, and keep the types: what is left to show is that whole is  *)
(* readable.                                                               *)
LEMMA EpEventfdStep ==
    ASSUME EpInv,
           eventfds' \in [EvIds -> EpEventfd], EpFresh', ev_next' \in Nat, fd_paths' \in [EpFds -> EvIds \cup {NoEv}],
           UNCHANGED <<entries, ep_fired>>,
           NEW W \in SUBSET ep_scan.whole, ep_scan' = [ep_scan EXCEPT !.whole = W],
           \A fd \in W : Readable(entries[fd].path)'
    PROVE  EpInv'
<1>1. EpTypes'
  BY DEF EpInv, EpTypes, EpScan
<1>2. EpScans'
  BY DEF EpInv, EpScans, EpTypes, EpScan
<1>3. EpFollowed'
  BY DEF EpInv, EpFollowed, EpTypes, EpScan
<1>4. EpSpent'
  BY DEF EpInv, EpSpent, EpTypes, EpScan
<1> QED
  BY <1>1, <1>2, <1>3, <1>4 DEF EpInv

(* A step that finds no scan and starts none has only the one-shot entries *)
(* to keep.                                                                *)
LEMMA EpIdleStep ==
    ASSUME EpInv, ~ep_scan.active, UNCHANGED <<eventfds, ev_next, fd_paths, ep_scan>>,
           entries' \in [EpFds -> EpEntry], ep_fired' \in [EpFds -> Nat], EpSpent'
    PROVE  EpInv'
BY DEF EpInv, EpTypes, EpFresh, EpScans, EpFollowed

LEMMA EpCreateStep ==
    ASSUME EpInv, NEW initval \in {0, 1}, NEW semaphore \in BOOLEAN, EventfdCreate(initval, semaphore)
    PROVE  EpInv'
<1>1. eventfds' \in [EvIds -> EpEventfd] /\ ev_next' \in Nat
  BY EpAssumption DEF EventfdCreate, EpInv, EpTypes, EpEventfd
<1>2. fd_paths' \in [EpFds -> EvIds \cup {NoEv}]
  BY DEF EventfdCreate, EpInv, EpTypes
<1>3. EpFresh'
  BY DEF EventfdCreate, EpInv, EpTypes, EpEventfd, EpFresh, EvIds
<1>4. ep_scan' = [ep_scan EXCEPT !.whole = ep_scan.whole]
  BY DEF EventfdCreate, EpInv, EpTypes, EpScan
<1>5. \A fd \in ep_scan.whole : Readable(entries[fd].path)'
  <2> TAKE fd \in ep_scan.whole
  <2>1. Readable(entries[fd].path) /\ entries[fd].path \in EvIds \cup {NoEv}
    BY DEF EpInv, EpFollowed, EpTypes, EpScan, EpEntry
  <2>2. entries[fd].path # ev_next
    BY <2>1 DEF EventfdCreate, EpInv, EpTypes, EpFresh, Readable, EvIds
  <2> QED
    BY <2>1, <2>2 DEF EventfdCreate, Readable, EpInv, EpTypes
<1> QED
  BY <1>1, <1>2, <1>3, <1>4, <1>5, EpEventfdStep DEF EventfdCreate

(* What EpStays keeps of whole is readable after a step that only changes  *)
(* the counter of an eventfd that exists, or takes one away.               *)
LEMMA EpCounterStep ==
    ASSUME EpInv, NEW i \in EvIds, NEW e \in EpEventfd, EpStays,
           eventfds' = [eventfds EXCEPT ![i] = e], e.exists \/ e.counter = 0, e.exists => eventfds[i].exists,
           fd_paths' \in [EpFds -> EvIds \cup {NoEv}], UNCHANGED <<ev_next, entries, ep_fired>>
    PROVE  EpInv'
<1> DEFINE W == {fd \in ep_scan.whole : eventfds'[entries[fd].path].counter > 0}
<1>1. eventfds' \in [EvIds -> EpEventfd] /\ ev_next' \in Nat
  BY DEF EpInv, EpTypes
<1>2. EpFresh'
  BY DEF EpInv, EpTypes, EpFresh
<1>3. \A fd \in W : Readable(entries[fd].path)'
  <2> TAKE fd \in W
  <2>1. Readable(entries[fd].path) /\ entries[fd].path \in EvIds
    BY DEF EpInv, EpFollowed, EpTypes, EpScan, EpEntry, Readable
  <2> QED
    BY <2>1 DEF Readable, EpInv, EpTypes
<1>4. W \in SUBSET ep_scan.whole /\ ep_scan' = [ep_scan EXCEPT !.whole = W]
  BY DEF EpStays
<1> HIDE DEF W
<1> QED
  BY <1>1, <1>2, <1>3, <1>4, EpEventfdStep

LEMMA EpReadStep ==
    ASSUME EpInv, NEW fd \in EpFds, EventfdRead(fd)
    PROVE  EpInv'
<1> DEFINE i == fd_paths[fd]
           val == IF eventfds[i].semaphore THEN 1 ELSE eventfds[i].counter
           e == [eventfds[i] EXCEPT !.counter = @ - val]
<1>1. i \in EvIds /\ eventfds[i] \in EpEventfd
  BY DEF EventfdRead, Readable, EpInv, EpTypes
<1>2. val \in Nat /\ val <= eventfds[i].counter
  BY <1>1 DEF EventfdRead, Readable, EpEventfd
<1>3. eventfds[i].counter - val \in 0 .. EvMax - 1
  BY <1>1, <1>2, EpAssumption DEF EpEventfd
<1>4. e \in EpEventfd /\ e.exists /\ eventfds[i].exists
  BY <1>1, <1>3 DEF EpEventfd, EventfdRead, Readable
<1>5. eventfds' = [eventfds EXCEPT ![i] = e] /\ EpStays /\ UNCHANGED <<ev_next, fd_paths, entries, ep_fired>>
  BY DEF EventfdRead
<1>6. fd_paths' \in [EpFds -> EvIds \cup {NoEv}]
  BY <1>5 DEF EpInv, EpTypes
<1> HIDE DEF i, e, val
<1> QED
  BY <1>1, <1>4, <1>5, <1>6, EpCounterStep

LEMMA EpWriteStep ==
    ASSUME EpInv, NEW fd \in EpFds, NEW val \in {1, EvMax - 1, EvMax}, EventfdWrite(fd, val)
    PROVE  EpInv'
<1> DEFINE i == fd_paths[fd]
           e == [eventfds[i] EXCEPT !.counter = @ + val]
<1>1. i \in EvIds /\ eventfds[i] \in EpEventfd
  BY DEF EventfdWrite, EpInv, EpTypes
<1>2. val \in Nat
  BY EpAssumption
<1>3. eventfds[i].counter + val \in Nat
  BY <1>1, <1>2 DEF EpEventfd
<1>4. e \in EpEventfd /\ e.exists /\ eventfds[i].exists
  BY <1>1, <1>3 DEF EpEventfd, EventfdWrite
<1>5. eventfds' = [eventfds EXCEPT ![i] = e] /\ EpStays /\ UNCHANGED <<ev_next, fd_paths, entries, ep_fired>>
  BY DEF EventfdWrite
<1>6. fd_paths' \in [EpFds -> EvIds \cup {NoEv}]
  BY <1>5 DEF EpInv, EpTypes
<1> HIDE DEF i, e
<1> QED
  BY <1>1, <1>4, <1>5, <1>6, EpCounterStep

LEMMA EpCloseStep ==
    ASSUME EpInv, NEW fd \in EpFds, EventfdClose(fd)
    PROVE  EpInv'
<1>1. fd_paths[fd] \in EvIds /\ fd_paths' \in [EpFds -> EvIds \cup {NoEv}]
  BY DEF EventfdClose, EpInv, EpTypes
<1>2. NoEventfd \in EpEventfd /\ ~NoEventfd.exists /\ NoEventfd.counter = 0
  BY EpAssumption DEF NoEventfd, EpEventfd
<1> QED
  BY <1>1, <1>2, EpCounterStep DEF EventfdClose
-----------------------------------------------------------------------------
(* epoll_ctl comes when no scan goes on. *)
LEMMA EpCtlStep ==
    ASSUME EpInv, ~ep_scan.active, UNCHANGED <<eventfds, ev_next, fd_paths, ep_scan>>,
           NEW fd \in EpFds, NEW e \in EpEntry, entries' = [entries EXCEPT ![fd] = e],
           ep_fired' = [ep_fired EXCEPT ![fd] = 0] \/ (~e.exists /\ ep_fired' = ep_fired)
    PROVE  EpInv'
<1>1. entries' \in [EpFds -> EpEntry] /\ ep_fired' \in [EpFds -> Nat]
  BY DEF EpInv, EpTypes
<1>2. EpSpent'
  <2>1. entries'[fd].exists /\ entries'[fd].oneshot => ep_fired'[fd] = 0
    BY DEF EpInv, EpTypes
  <2>2. \A g \in EpFds \ {fd} : entries'[g] = entries[g] /\ ep_fired'[g] = ep_fired[g]
    BY DEF EpInv, EpTypes
  <2> QED
    BY <2>1, <2>2 DEF EpInv, EpSpent
<1> QED
  BY <1>1, <1>2, EpIdleStep

LEMMA EpAddStep ==
    ASSUME EpInv, NEW fd \in EpFds, NEW ask \in EpAsks, CtlAdd(fd, ask.events, ask.edge, ask.oneshot)
    PROVE  EpInv'
<1> DEFINE e == [exists |-> TRUE, path |-> fd_paths[fd], events |-> ask.events, edge |-> ask.edge,
                 oneshot |-> ask.oneshot, last_ready |-> {}]
<1>1. e \in EpEntry
  BY EpAssumption DEF EpEntry, EpInv, EpTypes, EpMasks
<1>2. entries' = [entries EXCEPT ![fd] = e]
  BY DEF CtlAdd
<1> HIDE DEF e
<1> QED
  BY <1>1, <1>2, EpCtlStep DEF CtlAdd

LEMMA EpModStep ==
    ASSUME EpInv, NEW fd \in EpFds, NEW ask \in EpAsks, CtlMod(fd, ask.events, ask.edge, ask.oneshot)
    PROVE  EpInv'
<1> DEFINE e == [entries[fd] EXCEPT !.events = ask.events, !.edge = ask.edge, !.oneshot = ask.oneshot]
<1>0. /\ entries[fd] \in EpEntry
      /\ ask.events \in EpMasks /\ ask.edge \in BOOLEAN /\ ask.oneshot \in BOOLEAN
  BY EpAssumption, SMTT(30) DEF EpInv, EpTypes, EpMasks
<1>1. e \in EpEntry
  BY <1>0, Zenon DEF EpEntry
<1>2. entries' = [entries EXCEPT ![fd] = e]
  BY DEF CtlMod, EpInv, EpTypes, EpEntry
<1> HIDE DEF e
<1> QED
  BY <1>1, <1>2, EpCtlStep DEF CtlMod

LEMMA EpDelStep ==
    ASSUME EpInv, NEW fd \in EpFds, CtlDel(fd)
    PROVE  EpInv'
<1>1. NoEntry \in EpEntry /\ ~NoEntry.exists
  BY DEF NoEntry, EpEntry, EpMasks
<1> QED
  BY <1>1, EpCtlStep DEF CtlDel
-----------------------------------------------------------------------------
LEMMA EpWaitStep ==
    ASSUME EpInv, NEW max \in 1 .. Cardinality(EpFds), EpWait(max)
    PROVE  EpInv'
<1>1. EpTypes'
  BY DEF EpWait, EpInv, EpTypes, EpScan
<1>2. EpFresh' /\ EpScans'
  BY DEF EpWait, EpInv, EpFresh, EpScans
<1>3. EpFollowed'
  BY DEF EpWait, EpFollowed, Readable
<1>4. EpSpent'
  BY DEF EpWait, EpInv, EpSpent, EpScans
<1> QED
  BY <1>1, <1>2, <1>3, <1>4 DEF EpInv

LEMMA EpReturnStep == ASSUME EpInv, EpReturn PROVE EpInv'
<1>1. EpTypes'
  <2>1. ep_scan' \in EpScan
    BY DEF EpReturn, EpScan, NoScan
  <2>2. \A fd \in EpFds : [entries[fd] EXCEPT !.events = {}] \in EpEntry
    BY DEF EpInv, EpTypes, EpEntry, EpMasks
  <2>3. entries' \in [EpFds -> EpEntry]
    BY <2>2 DEF EpReturn, EpInv, EpTypes
  <2> QED
    BY <2>1, <2>3 DEF EpReturn, EpInv, EpTypes
<1>2. EpFresh' /\ EpScans' /\ EpFollowed'
  BY DEF EpReturn, EpInv, EpFresh, EpScans, EpFollowed, NoScan
<1>3. EpSpent'
  <2> SUFFICES ASSUME NEW fd \in EpFds, entries'[fd].exists, entries'[fd].oneshot
               PROVE  ep_fired[fd] <= 1 /\ (ep_fired[fd] = 1 => entries'[fd].events = {})
    BY DEF EpSpent, EpReturn
  <2>1. /\ entries[fd].exists /\ entries[fd].oneshot
        /\ entries'[fd].events = IF fd \in ep_scan.disable THEN {} ELSE entries[fd].events
    BY DEF EpReturn, EpInv, EpTypes, EpEntry
  <2> QED
    BY <2>1 DEF EpInv, EpSpent
<1> QED
  BY <1>1, <1>2, <1>3 DEF EpInv

(* A turn of the loop: an entry of whole that asks for EPOLLIN is ready,   *)
(* so it is reported unless it is edge-triggered and reported the same     *)
(* before; a one-shot entry that has fired is not looked at again, or has  *)
(* no events to be ready for.                                              *)
LEMMA EpCheckStep ==
    ASSUME EpInv, NEW fd \in EpFds, EpCheck(fd)
    PROVE  EpInv'
<1> DEFINE ready == EpReady(entries[fd])
           report == ready # {} /\ ~(entries[fd].edge /\ ready = entries[fd].last_ready)
<1>1. /\ fd \in ep_scan.todo /\ entries[fd].exists /\ fd \notin ep_scan.disable
      /\ UNCHANGED <<eventfds, ev_next, fd_paths>>
  BY DEF EpCheck, EpInv, EpScans
<1>2. ready \in EpMasks /\ (report \in BOOLEAN)
  BY DEF EpReady, EpInv, EpTypes, EpEntry, EpMasks
<1>3. /\ ep_scan'.active = ep_scan.active /\ ep_scan'.max = ep_scan.max /\ ep_scan'.whole = ep_scan.whole
      /\ ep_scan'.todo = ep_scan.todo \ {fd}
      /\ ep_scan'.told = IF report THEN ep_scan.told \cup {fd} ELSE ep_scan.told
      /\ ep_scan'.disable = IF report /\ entries[fd].oneshot THEN ep_scan.disable \cup {fd} ELSE ep_scan.disable
      /\ ep_scan' \in EpScan
  BY DEF EpCheck, EpInv, EpTypes, EpScan
<1>4. /\ entries' \in [EpFds -> EpEntry]
      /\ \A g \in EpFds : /\ entries'[g].exists = entries[g].exists /\ entries'[g].path = entries[g].path
                          /\ entries'[g].events = entries[g].events /\ entries'[g].edge = entries[g].edge
                          /\ entries'[g].oneshot = entries[g].oneshot
      /\ \A g \in EpFds \ {fd} : entries'[g] = entries[g]
      /\ ~report => entries' = entries
  BY <1>2 DEF EpCheck, EpInv, EpTypes, EpEntry
<1>5. /\ ep_fired' \in [EpFds -> Nat]
      /\ ep_fired'[fd] = IF report /\ entries[fd].oneshot THEN ep_fired[fd] + 1 ELSE ep_fired[fd]
      /\ \A g \in EpFds \ {fd} : ep_fired'[g] = ep_fired[g]
  BY DEF EpCheck, EpInv, EpTypes
<1>6. fd \in ep_scan.whole /\ "IN" \in entries[fd].events /\ ~report
        => entries[fd].edge /\ entries[fd].last_ready # {}
  <2> SUFFICES ASSUME fd \in ep_scan.whole, "IN" \in entries[fd].events, ~report
               PROVE  entries[fd].edge /\ entries[fd].last_ready # {}
    OBVIOUS
  <2>1. "IN" \in ready
    BY DEF EpReady, EpInv, EpFollowed
  <2> QED
    BY <2>1
<1>7. entries[fd].events = {} => ~report
  BY DEF EpReady
<1> HIDE DEF ready, report
<1>8. EpTypes' /\ EpFresh'
  BY <1>1, <1>3, <1>4, <1>5 DEF EpInv, EpTypes, EpFresh
<1>9. EpScans'
  BY <1>1, <1>3, <1>4 DEF EpInv, EpTypes, EpScan, EpScans
<1>10. EpFollowed'
  <2> SUFFICES ASSUME NEW g \in ep_scan.whole
               PROVE  /\ Readable(entries[g].path)
                      /\ \/ g \in ep_scan'.todo
                         \/ "IN" \in entries'[g].events /\ ~(entries'[g].edge /\ entries'[g].last_ready # {})
                                => g \in ep_scan'.told
    BY <1>1, <1>3, <1>4 DEF EpFollowed, Readable, EpInv, EpTypes, EpScan
  <2>1. g \in EpFds /\ Readable(entries[g].path)
    BY DEF EpInv, EpTypes, EpScan, EpFollowed
  <2>2. CASE g = fd
    BY <2>1, <2>2, <1>3, <1>4, <1>6
  <2>3. CASE g # fd
    BY <2>1, <2>3, <1>3, <1>4 DEF EpInv, EpFollowed
  <2> QED
    BY <2>2, <2>3
<1>11. EpSpent'
  <2> SUFFICES ASSUME NEW g \in EpFds, entries[g].exists, entries[g].oneshot
               PROVE  /\ ep_fired'[g] <= 1
                      /\ ep_fired'[g] = 1 => g \in ep_scan'.disable \/ entries[g].events = {}
    BY <1>4 DEF EpSpent
  <2>1. CASE g = fd /\ report
    <3>1. ep_fired[fd] <= 1 /\ ep_fired[fd] # 1 /\ ep_fired[fd] \in Nat
      BY <2>1, <1>1, <1>7 DEF EpInv, EpSpent, EpTypes
    <3> QED
      BY <3>1, <2>1, <1>3, <1>5
  <2>2. CASE ~(g = fd /\ report)
    BY <2>2, <1>3, <1>5 DEF EpInv, EpSpent
  <2> QED
    BY <2>1, <2>2
<1> QED
  BY <1>8, <1>9, <1>10, <1>11 DEF EpInv
-----------------------------------------------------------------------------
LEMMA EpNextInv == ASSUME EpInv, [EpNext]_epVars PROVE EpInv'
<1>1. CASE UNCHANGED epVars
  BY <1>1 DEF epVars, EpInv, EpTypes, EpFresh, EpScans, EpFollowed, EpSpent, Readable
<1>2. CASE EpNext
  BY <1>2, EpCreateStep, EpReadStep, EpWriteStep, EpCloseStep, EpAddStep, EpModStep, EpDelStep, EpCheckStep, EpWaitStep,
     EpReturnStep DEF EpNext
<1> QED
  BY <1>1, <1>2

THEOREM EpInvariance == EpSpec => []EpInv
BY EpInitInv, EpNextInv, PTL DEF EpSpec

(* EpollInstance::poll (epoll.rs:102) misses no readable entry, however    *)
(* many descriptors it watches.                                            *)
THEOREM NoneMissed == EpSpec => []EpNoneMissed
<1>1. EpInv => EpNoneMissed
  BY DEF EpInv, EpFollowed, EpNoneMissed
<1> QED
  BY <1>1, EpInvariance, PTL

(* An EPOLLONESHOT entry reports at most once for each time it is armed    *)
(* (epoll.rs:102), however many descriptors there are.                     *)
THEOREM OneshotOnce == EpSpec => []EpOneshotOnce
<1>1. EpInv => EpOneshotOnce
  BY DEF EpInv, EpSpent, EpOneshotOnce
<1> QED
  BY <1>1, EpInvariance, PTL

(* Both, with the bounds of the counters and of the scan: EpReports of the *)
(* runs, for every set of descriptors and every limit.                     *)
THEOREM Reports == EpSpec => []EpReports
<1>1. EpInv => EpType
  BY DEF EpInv, EpTypes, EpScans, EpType, EpEventfd, EpEntry, EpScan
<1> QED
  BY <1>1, NoneMissed, OneshotOnce, EpInvariance, PTL DEF EpReports
=============================================================================
