---------------------------- MODULE SharedMemory ----------------------------
(***************************************************************************)
(* System V shared memory (ipc/shm.rs).                                    *)
(*                                                                         *)
(* shmget and shmctl are one step under SHM_SEGMENTS.  shmat counts the    *)
(* attachment under SHM_SEGMENTS, releases it and records the attachment   *)
(* under SHM_ATTACHMENTS; shmdt takes the two the other way round, one     *)
(* inside the other, and shmat holds one at a time.  Sizes and addresses   *)
(* are in pages; times, modes and last users are left out.                 *)
(***************************************************************************)
EXTENDS Naturals, Sequences, FiniteSets, SequencesExt

CONSTANTS
    ShmProcs,    \* processes, each on a processor of its own
    ShmKeys,     \* keys other than IPC_PRIVATE
    ShmSpaces,   \* IPC namespaces
    ShmSizes,    \* sizes of segments, in pages; zero is allowed
    ShmIdLimit,  \* bound on segments ever created
    ShmAtLimit,  \* bound on attachments at a time
    ShmTop       \* bound on the addresses shmat chooses

IpcPrivate == "IPC_PRIVATE"

ASSUME ShmAssumption ==
    /\ IpcPrivate \notin ShmKeys
    /\ ShmSizes \subseteq Nat /\ ShmIdLimit \in Nat /\ ShmAtLimit \in Nat /\ ShmTop \in Nat

ShmIds == 1 .. ShmIdLimit
ShmBase == 10       \* the first address shmat chooses, 0x7FF000000000
ShmChosen == {5}    \* an address of a caller's choice

VARIABLES
    shm_segments,    \* SHM_SEGMENTS
    shm_attachments, \* SHM_ATTACHMENTS
    shm_next_id,     \* NEXT_SHM_ID
    shm_next_addr,   \* NEXT_SHM_ADDR
    shm_pc           \* the attachment each process has counted and not recorded

shmVars == <<shm_segments, shm_attachments, shm_next_id, shm_next_addr, shm_pc>>

NoSegment == [exists |-> FALSE, key |-> IpcPrivate, ns |-> 0, size |-> 0, nattach |-> 0]
NoAttach == [shm |-> 0, pid |-> 0, addr |-> 0, auto |-> FALSE]

ShmInit ==
    /\ shm_segments = [s \in ShmIds |-> NoSegment]
    /\ shm_attachments = <<>>
    /\ shm_next_id = 1
    /\ shm_next_addr = ShmBase
    /\ shm_pc = [p \in ShmProcs |-> NoAttach]

ShmIdle(p) == shm_pc[p] = NoAttach
Found(key, ns) == {s \in ShmIds : shm_segments[s].exists /\ shm_segments[s].key = key /\ shm_segments[s].ns = ns}

Insert(key, ns, size) ==
    /\ shm_next_id \in ShmIds
    /\ shm_segments' = [shm_segments EXCEPT ![shm_next_id] =
            [exists |-> TRUE, key |-> key, ns |-> ns, size |-> size, nattach |-> 0]]
    /\ shm_next_id' = shm_next_id + 1
    /\ UNCHANGED <<shm_attachments, shm_next_addr, shm_pc>>

(* shmget_in_ns: the segment of the key, EEXIST and ENOENT change nothing; *)
(* what is left creates a segment.                                         *)
Shmget(p, key, ns, size, creat) ==
    /\ ShmIdle(p)
    /\ key # IpcPrivate => Found(key, ns) = {}
    /\ creat \/ key = IpcPrivate
    /\ Insert(key, ns, size)

(* The attachment that shmat makes; address 0 asks for an automatic one. *)
ShmAttachment(p, s, addr) ==
    [shm |-> s, pid |-> p, addr |-> IF addr = 0 THEN shm_next_addr ELSE addr, auto |-> addr = 0]

ShmRoom ==
    /\ Len(shm_attachments) + Cardinality({q \in ShmProcs : ~ShmIdle(q)}) < ShmAtLimit
    /\ shm_next_addr <= ShmTop

(* shmat, under SHM_SEGMENTS: EINVAL, or an address and the count, ... *)
Shmat(p, s, addr) ==
    /\ ShmIdle(p) /\ shm_segments[s].exists /\ ShmRoom
    /\ shm_segments' = [shm_segments EXCEPT ![s].nattach = @ + 1]
    /\ shm_next_addr' = shm_next_addr + (IF addr = 0 THEN shm_segments[s].size ELSE 0)
    /\ shm_pc' = [shm_pc EXCEPT ![p] = ShmAttachment(p, s, addr)]
    /\ UNCHANGED <<shm_attachments, shm_next_id>>

(* ... then, under SHM_ATTACHMENTS, the record. *)
ShmatRecord(p) ==
    /\ ~ShmIdle(p)
    /\ shm_attachments' = Append(shm_attachments, shm_pc[p])
    /\ shm_pc' = [shm_pc EXCEPT ![p] = NoAttach]
    /\ UNCHANGED <<shm_segments, shm_next_id, shm_next_addr>>

(* shmdt, of the first record that has the process and the address. *)
Shmdt(p, k) ==
    LET a == shm_attachments[k]
    IN  /\ ShmIdle(p) /\ k \in DOMAIN shm_attachments /\ a.pid = p
        /\ \A j \in 1 .. k - 1 : ~(shm_attachments[j].pid = p /\ shm_attachments[j].addr = a.addr)
        /\ shm_attachments' = RemoveAt(shm_attachments, k)
        /\ shm_segments' = IF shm_segments[a.shm].exists
                           THEN [shm_segments EXCEPT ![a.shm].nattach = IF @ = 0 THEN 0 ELSE @ - 1]
                           ELSE shm_segments
        /\ UNCHANGED <<shm_next_id, shm_next_addr, shm_pc>>

(* Mutant: a segment is removed under its users. *)
ShmctlRmidAtOnce(p, s) ==
    /\ ShmIdle(p) /\ shm_segments[s].exists
    /\ shm_segments' = [shm_segments EXCEPT ![s] = NoSegment]
    /\ UNCHANGED <<shm_attachments, shm_next_id, shm_next_addr, shm_pc>>

(* shmctl IPC_RMID: the call on a segment in use only logs that it is      *)
(* marked for deletion.                                                    *)
ShmctlRmid(p, s) ==
    /\ ShmIdle(p) /\ shm_segments[s].exists /\ shm_segments[s].nattach = 0
    /\ shm_segments' = [shm_segments EXCEPT ![s] = NoSegment]
    /\ UNCHANGED <<shm_attachments, shm_next_id, shm_next_addr, shm_pc>>

ShmNext ==
    \E p \in ShmProcs :
        \/ \E key \in ShmKeys \cup {IpcPrivate}, ns \in ShmSpaces, size \in ShmSizes, creat \in BOOLEAN :
                Shmget(p, key, ns, size, creat)
        \/ ShmatRecord(p)
        \/ \E s \in ShmIds : ShmctlRmid(p, s) \/ \E addr \in ShmChosen \cup {0} : Shmat(p, s, addr)
        \/ \E k \in 1 .. ShmAtLimit : Shmdt(p, k)

ShmSpec == ShmInit /\ [][ShmNext]_shmVars
-----------------------------------------------------------------------------
(* The attachments of a segment, the ones being made included. *)
Records(s) == {k \in DOMAIN shm_attachments : shm_attachments[k].shm = s}
Attaching(s) == {p \in ShmProcs : shm_pc[p].shm = s}

ShmType ==
    /\ \A s \in ShmIds : shm_segments[s].nattach \in 0 .. ShmAtLimit
    /\ \A k \in DOMAIN shm_attachments : shm_attachments[k].shm \in ShmIds /\ shm_attachments[k].pid \in ShmProcs
    /\ shm_next_id \in 1 .. ShmIdLimit + 1

(* nattach is the number of attachments, although it is counted under one  *)
(* lock and recorded under the other (shm.rs:177).                         *)
ShmCounted ==
    \A s \in ShmIds : shm_segments[s].exists =>
        shm_segments[s].nattach = Cardinality(Records(s)) + Cardinality(Attaching(s))

(* A segment that is attached, or is being attached on another processor,  *)
(* is not removed (shm.rs:220).                                            *)
ShmLive ==
    \A s \in ShmIds : Records(s) # {} \/ Attaching(s) # {} => shm_segments[s].exists

(* A key names at most one segment of an IPC namespace. *)
ShmKeyUnique == \A key \in ShmKeys, ns \in ShmSpaces : Cardinality(Found(key, ns)) <= 1

(* The pages of two attachments at addresses that shmat chose never meet.  *)
ShmPages(a) == {a.addr + n : n \in 0 .. shm_segments[a.shm].size - 1}
ShmDisjoint ==
    \A j, k \in DOMAIN shm_attachments :
        j # k /\ shm_attachments[j].auto /\ shm_attachments[k].auto =>
            ShmPages(shm_attachments[j]) \cap ShmPages(shm_attachments[k]) = {}

(* Segments live as long as they are attached, are counted exactly under   *)
(* two locks, and keep their keys and addresses apart.                     *)
ShmSound == ShmType /\ ShmCounted /\ ShmLive /\ ShmKeyUnique /\ ShmDisjoint
=============================================================================
