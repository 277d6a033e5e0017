----------------------------- MODULE FileLocks -----------------------------
(***************************************************************************)
(* Advisory file locks (ipc/flock.rs): whole-file locks of flock() and     *)
(* record locks of posix_lock(), in one table under one mutex, so that     *)
(* every call is one step.  A lock that would block is refused: F_SETLKW   *)
(* and a blocking flock() return EAGAIN as the others do.  Offsets are     *)
(* 0 .. FlMax - 1 and FlMax + 1 stands for i64::MAX, so that byte FlMax is *)
(* one that only a lock up to the end of the file reaches.                 *)
(***************************************************************************)
EXTENDS Naturals, Sequences, FiniteSets, SequencesExt

CONSTANTS
    FlPids,   \* processes
    FlFiles,  \* inodes
    FlMax,    \* bound on l_start + l_len
    FlLimit   \* bound on the locks of a file

ASSUME FlAssumption == FlMax \in Nat \ {0} /\ FlLimit \in Nat

VARIABLES
    file_locks,  \* FILE_LOCKS: inode -> Vec<FileLock>
    fl_last      \* history: the process of the last call, and whether it got EAGAIN

flVars == <<file_locks, fl_last>>

FlInfinity == FlMax + 1
FlModes == {"ReadLock", "WriteLock"}
FlRanges == {r \in (0 .. FlMax - 1) \X (0 .. FlMax) : r[1] + r[2] <= FlMax}

FlInit ==
    /\ file_locks = [f \in FlFiles |-> <<>>]
    /\ fl_last = [pid |-> 0, refused |-> FALSE]

FlEnd(start, len) == IF len = 0 THEN FlInfinity ELSE start + len

Overlaps(l, start, len) == l.start < FlEnd(start, len) /\ start < FlEnd(l.start, l.len)

Conflicts(l, mode, pid) == l.pid # pid /\ ~(l.mode = "ReadLock" /\ mode = "ReadLock")

FlDone(pid, f, kept) ==
    /\ file_locks' = [file_locks EXCEPT ![f] = kept]
    /\ fl_last' = [pid |-> pid, refused |-> FALSE]

FlRefused(pid) == fl_last' = [pid |-> pid, refused |-> TRUE] /\ UNCHANGED file_locks

(* The retain calls: without the flock of a process, and without its       *)
(* record locks that overlap a range.                                      *)
NoFlock(f, pid) == SelectSeq(file_locks[f], LAMBDA l : ~(l.is_flock /\ l.pid = pid))
NoRecord(f, pid, start, len) ==
    SelectSeq(file_locks[f], LAMBDA l : ~(l.pid = pid /\ ~l.is_flock /\ Overlaps(l, start, len)))

(* Mutant: an upgrade gives the old lock back before it asks for the new. *)
AcquireFlockRelease(pid, f, mode) ==
    LET new == [mode |-> mode, pid |-> pid, start |-> 0, len |-> 0, is_flock |-> TRUE]
    IN  IF \E k \in DOMAIN file_locks[f] : file_locks[f][k].is_flock /\ Conflicts(file_locks[f][k], mode, pid)
        THEN /\ file_locks' = [file_locks EXCEPT ![f] = NoFlock(f, pid)]
             /\ fl_last' = [pid |-> pid, refused |-> TRUE]
        ELSE Len(file_locks[f]) < FlLimit /\ FlDone(pid, f, Append(NoFlock(f, pid), new))

(* acquire_flock *)
AcquireFlock(pid, f, mode) ==
    LET new == [mode |-> mode, pid |-> pid, start |-> 0, len |-> 0, is_flock |-> TRUE]
    IN  IF \E k \in DOMAIN file_locks[f] : file_locks[f][k].is_flock /\ Conflicts(file_locks[f][k], mode, pid)
        THEN FlRefused(pid)
        ELSE Len(file_locks[f]) < FlLimit /\ FlDone(pid, f, Append(NoFlock(f, pid), new))

(* release_flock *)
ReleaseFlock(pid, f) == FlDone(pid, f, NoFlock(f, pid))

(* The record locks that refuse a request, or that F_GETLK reports. *)
Conflicting(pid, f, mode, start, len) ==
    SelectSeq(file_locks[f], LAMBDA l : ~l.is_flock /\ Overlaps(l, start, len) /\ Conflicts(l, mode, pid))

(* setlk of F_RDLCK and F_WRLCK, ... *)
Setlk(pid, f, mode, start, len) ==
    LET new == [mode |-> mode, pid |-> pid, start |-> start, len |-> len, is_flock |-> FALSE]
    IN  IF Conflicting(pid, f, mode, start, len) # <<>>
        THEN FlRefused(pid)
        ELSE Len(file_locks[f]) < FlLimit /\ FlDone(pid, f, Append(NoRecord(f, pid, start, len), new))

(* ... and of F_UNLCK. *)
Unlk(pid, f, start, len) == FlDone(pid, f, NoRecord(f, pid, start, len))

(* getlk: the first conflicting lock, or F_UNLCK. *)
Getlk(pid, f, mode, start, len) ==
    LET found == Conflicting(pid, f, mode, start, len)
    IN  IF found = <<>> THEN [mode |-> "Unlock", pid |-> pid] ELSE [mode |-> found[1].mode, pid |-> found[1].pid]

FlNext ==
    \E pid \in FlPids, f \in FlFiles :
        \/ \E mode \in FlModes : AcquireFlock(pid, f, mode)
        \/ ReleaseFlock(pid, f)
        \/ \E mode \in FlModes, r \in FlRanges : Setlk(pid, f, mode, r[1], r[2])
        \/ \E r \in FlRanges : Unlk(pid, f, r[1], r[2])

FlSpec == FlInit /\ [][FlNext]_flVars
-----------------------------------------------------------------------------
(* The reference: the bytes a process holds in a mode. *)
FlBytes(start, len) == {b \in 0 .. FlMax : b >= start /\ (len = 0 \/ b < start + len)}

Held(f, pid, mode, is_flock) ==
    UNION {FlBytes(file_locks[f][k].start, file_locks[f][k].len) :
            k \in {j \in DOMAIN file_locks[f] : /\ file_locks[f][j].pid = pid
                                                /\ file_locks[f][j].mode = mode
                                                /\ file_locks[f][j].is_flock = is_flock}}

(* A byte that one process has write-locked is locked by no other process, *)
(* among the locks of flock() and among record locks.                      *)
FlNoConflict ==
    \A f \in {g \in FlFiles : file_locks[g] # <<>>}, p, q \in FlPids, m \in FlModes, k \in BOOLEAN :
        p # q => Held(f, p, "WriteLock", k) \cap Held(f, q, m, k) = {}

(* A process has at most one lock of each kind on a byte, so the lock it   *)
(* asked for last is the one it has.                                       *)
FlOneMode ==
    \A f \in FlFiles : \A j, k \in DOMAIN file_locks[f] :
        LET a == file_locks[f][j]
            b == file_locks[f][k]
        IN  j # k /\ a.pid = b.pid /\ a.is_flock = b.is_flock =>
                FlBytes(a.start, a.len) \cap FlBytes(b.start, b.len) = {}

(* What a process holds changes only by a call of its own that succeeded:  *)
(* a refused upgrade keeps the lock it would have replaced.                *)
FlHolderKeeps ==
    [][\A f \in FlFiles, p \in FlPids, m \in FlModes, k \in BOOLEAN :
            Held(f, p, m, k)' # Held(f, p, m, k) => fl_last'.pid = p /\ ~fl_last'.refused]_flVars

(* F_GETLK reports a lock exactly when another process holds a byte of the *)
(* range in a mode that excludes the requested one.                        *)
FlGetlkExact ==
    \A f \in {g \in FlFiles : file_locks[g] # <<>>}, p \in FlPids, mode \in FlModes, r \in FlRanges :
        Getlk(p, f, mode, r[1], r[2]).mode # "Unlock" <=>
            \E q \in FlPids \ {p}, m \in FlModes :
                /\ mode = "WriteLock" \/ m = "WriteLock"
                /\ Held(f, q, m, FALSE) \cap FlBytes(r[1], r[2]) # {}

(* Locks exclude each other as F_GETLK tells, and a process loses what it  *)
(* holds only by its own calls.                                            *)
FlExcludes == [](FlNoConflict /\ FlOneMode /\ FlGetlkExact) /\ FlHolderKeeps
=============================================================================
