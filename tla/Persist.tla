------------------------------ MODULE Persist ------------------------------
(***************************************************************************)
(* The persistent blob store and its write-ahead log                       *)
(* (kernel/src/fs/persist.rs) on the VirtIO block device.                  *)
(*                                                                         *)
(* Sector 0 is the header, entries are appended from sector 1, the last    *)
(* JournalSectors sectors are the single-slot log.  A record (path and     *)
(* data) is a path, a version and a number of sectors; a sector holds one  *)
(* part of a record, so that a half-written record can be told from a      *)
(* whole one.  Every sector write, every flush and every read of the       *)
(* header is a step: the machine can stop between any two, and another CPU *)
(* can run in between.                                                     *)
(***************************************************************************)
EXTENDS Integers, FiniteSets

CONSTANTS
    Paths,
    Writers,          \* the CPUs that may be in persist_file at once
    DataSectors,      \* the largest data area, in sectors
    JournalSectors,   \* JOURNAL_SECTORS
    MaxVersion,       \* bound on the number of writes
    Scenarios         \* the devices and workloads to look at, see scenario

ASSUME ScenarioAssumption ==
    \A s \in Scenarios :
        /\ s.sectors \in 3 .. DataSectors
        /\ s.lengths \subseteq 1 .. s.sectors
        /\ s.faults \in Nat
        /\ {s.volatile, s.ext4} \subseteq BOOLEAN

Boot == "boot"
Actors == Writers \cup {Boot}
Sectors == 0 .. DataSectors + JournalSectors
Torn == -1     \* data that mixes two records

Blank == [kind |-> "blank"]
Superblock == [kind |-> "ext4"]
LogEmpty == [kind |-> "empty"]
Clean == [kind |-> "clean"]
Header(count, next) == [kind |-> "header", count |-> count, next |-> next]
Part(kind, rec, i) == [kind |-> kind, rec |-> rec, part |-> i]
NoRecord == [path |-> "none", version |-> 0, len |-> 0]

VARIABLES
    scenario,  \* never changes: the device, its volume, the record lengths
    disk,      \* what the medium holds
    cache,     \* the device's write cache: sector -> content or Clean
    task,      \* where each actor is in commit_through_journal or restore_all
    up,        \* restore_all is over, the kernel is running
    vfs,       \* the RAM file system: path -> version
    written,   \* history: <<path, version>> of every write that began
    acked,     \* history: path -> last version acknowledged
    faults     \* failed device writes so far

vars == <<scenario, disk, cache, task, up, vfs, written, acked, faults>>

JournalBase == scenario.sectors + 1   \* the data area is 1 .. JournalBase - 1
Lengths == scenario.lengths       \* record lengths in sectors; may exceed the log
MaxFaults == scenario.faults      \* bound on device writes that fail
Volatile == scenario.volatile     \* the device has a write cache that a power cut loses
Ext4 == scenario.ext4             \* the volume carries an ext4 file system

Records == [path : Paths, version : 1 .. MaxVersion, len : Lengths]

Idle == [pc |-> "idle", mode |-> "none", rec |-> NoRecord, i |-> 0, count |-> 0, next |-> 0]
Replay == [Idle EXCEPT !.pc = "replay"]
-----------------------------------------------------------------------------
(* The device, virtio_blk.rs.  It negotiates VIRTIO_BLK_F_FLUSH: a write   *)
(* that completed may still be in its cache.                               *)

Overlay(D, C) == [s \in Sectors |-> IF C[s] = Clean THEN D[s] ELSE C[s]]

Dev == Overlay(disk, cache)

(* write_sectors, one sector. *)
Write(s, content) ==
    IF Volatile
    THEN cache' = [cache EXCEPT ![s] = content] /\ UNCHANGED disk
    ELSE disk' = [disk EXCEPT ![s] = content] /\ UNCHANGED cache

(* Mutant: a flush that returns before the cache is written out. *)
FlushNothing == UNCHANGED <<disk, cache>>

(* flush. *)
Flush ==
    /\ disk' = Dev
    /\ cache' = [s \in Sectors |-> Clean]

(* A request that times out or is refused: the driver returns false. *)
WriteFault ==
    /\ faults < MaxFaults
    /\ faults' = faults + 1
    /\ UNCHANGED <<disk, cache>>
-----------------------------------------------------------------------------
(* Reading the store *)

(* read_store_header: without the magic, an empty store. *)
StoreHeader(D) == IF D[0].kind = "header" THEN D[0] ELSE Header(0, 1)

HasRoom(D, rec) ==
    LET h == StoreHeader(D)
    IN  h.next >= 1 /\ h.next + rec.len <= JournalBase

(* journal_read: the record of the log, if its checksum fits its payload. *)
JournalRecord(D) ==
    LET first == D[JournalBase]
    IN  IF /\ first.kind = "log"
           /\ \A i \in 1 .. first.rec.len :
                  D[JournalBase + i - 1] = Part("log", first.rec, i)
        THEN first.rec
        ELSE NoRecord

(* How far restore_all moves on after the sector it reads as the first of  *)
(* an entry.  Zeroes parse as an entry with an empty path and no data.     *)
EntryLength(D, s) ==
    IF s \in Sectors /\ D[s].kind = "entry" /\ D[s].part = 1 THEN D[s].rec.len ELSE 1

(* The sector restore_all reads for its n-th entry, counting from 0. *)
EntrySector(D) ==
    LET after == [s \in Nat |-> s + EntryLength(D, s)]
        at[n \in 0 .. DataSectors] == IF n = 0 THEN 1 ELSE after[at[n - 1]]
    IN  at

Whole(D, s) ==
    LET rec == D[s].rec
    IN  \A i \in 1 .. rec.len : D[s + i - 1] = Part("entry", rec, i)

(* What the walk over the entries puts in the VFS: for each path the last  *)
(* entry wins.                                                             *)
Restored(D) ==
    LET h == StoreHeader(D)
        at == EntrySector(D)
        first == {n \in 0 .. h.count - 1 :
                    /\ at[n] < JournalBase
                    /\ D[at[n]].kind = "entry"
                    /\ D[at[n]].part = 1}
    IN  [p \in Paths |->
            LET mine == {n \in first : D[at[n]].rec.path = p}
            IN  IF mine = {} THEN 0
                ELSE LET last == CHOOSE n \in mine : \A m \in mine : m <= n
                     IN  IF Whole(D, at[last]) THEN D[at[last]].rec.version ELSE Torn]

(* The disk after apply_entry ran to its end. *)
Applied(D, rec) ==
    LET h == StoreHeader(D)
    IN  [s \in Sectors |->
            IF s = 0 THEN Header(h.count + 1, h.next + rec.len)
            ELSE IF s \in h.next .. h.next + rec.len - 1
                 THEN Part("entry", rec, s - h.next + 1)
                 ELSE D[s]]

(* What a restart would restore from disk D: replay_journal, then the walk *)
(* over the disk it leaves.                                                *)
Recovered(D) ==
    LET rec == JournalRecord(D)
        replayed == IF rec # NoRecord /\ HasRoom(D, rec) THEN Applied(D, rec) ELSE D
    IN  CHOOSE m \in {Restored(E) : E \in {replayed}} : TRUE
-----------------------------------------------------------------------------
Init ==
    /\ scenario \in Scenarios
    /\ disk = [s \in Sectors |-> IF Ext4 /\ s \in {2, 3} THEN Superblock ELSE Blank]
    /\ cache = [s \in Sectors |-> Clean]
    /\ task = [a \in Actors |-> IF a = Boot THEN Replay ELSE Idle]
    /\ up = FALSE
    /\ vfs = [p \in Paths |-> 0]
    /\ written = {}
    /\ acked = [p \in Paths |-> 0]
    /\ faults = 0

At(a, pc) == task[a].pc = pc

Goto(a, pc) == task' = [task EXCEPT ![a].pc = pc]

(* A commit that returns false, or a replay that applied nothing. *)
GiveUp(a) ==
    task' = [task EXCEPT ![a] = IF a = Boot THEN [Idle EXCEPT !.pc = "walk"] ELSE Idle]

(* commit_through_journal returns true. *)
Acknowledge(a) ==
    LET p == task[a].rec.path
        v == task[a].rec.version
    IN  /\ acked' = [acked EXCEPT ![p] = IF v > @ THEN v ELSE @]
        /\ task' = [task EXCEPT ![a] = Idle]

(* write_file_dispatch: the file is in the RAM VFS, its lock is released   *)
(* and persist_file begins.  A record longer than the log is written       *)
(* directly.                                                               *)
PersistFile(w, p, len) ==
    LET v == Cardinality(written) + 1
        rec == [path |-> p, version |-> v, len |-> len]
    IN  /\ up
        /\ At(w, "idle")
        /\ v <= MaxVersion
        /\ vfs' = [vfs EXCEPT ![p] = v]
        /\ written' = written \cup {<<p, v>>}
        /\ task' = [task EXCEPT ![w] =
                       IF len <= JournalSectors
                       THEN [Idle EXCEPT !.pc = "log", !.mode = "log", !.rec = rec, !.i = 1]
                       ELSE [Idle EXCEPT !.pc = "header", !.mode = "direct", !.rec = rec]]
        /\ UNCHANGED <<disk, cache, up, acked, faults, scenario>>

(* Mutant: the last sector of the record is left out. *)
JournalWriteShort(a) ==
    LET t == task[a]
    IN  /\ At(a, "log")
        /\ Write(JournalBase + t.i - 1, Part("log", t.rec, t.i))
        /\ task' = [task EXCEPT ![a] = IF t.i + 1 >= t.rec.len
                                       THEN [t EXCEPT !.pc = "logflush"]
                                       ELSE [t EXCEPT !.i = t.i + 1]]
        /\ UNCHANGED <<up, vfs, written, acked, faults, scenario>>

(* journal_write, one sector. *)
JournalWrite(a) ==
    LET t == task[a]
    IN  /\ At(a, "log")
        /\ Write(JournalBase + t.i - 1, Part("log", t.rec, t.i))
        /\ task' = [task EXCEPT ![a] = IF t.i = t.rec.len
                                       THEN [t EXCEPT !.pc = "logflush"]
                                       ELSE [t EXCEPT !.i = t.i + 1]]
        /\ UNCHANGED <<up, vfs, written, acked, faults, scenario>>

(* journal_write returns false: the record is written directly. *)
JournalWriteFails(a) ==
    /\ At(a, "log")
    /\ WriteFault
    /\ task' = [task EXCEPT ![a].pc = "header", ![a].mode = "direct"]
    /\ UNCHANGED <<up, vfs, written, acked, scenario>>

JournalFlush(a) ==
    /\ At(a, "logflush")
    /\ Flush
    /\ Goto(a, "header")
    /\ UNCHANGED <<up, vfs, written, acked, faults, scenario>>

(* apply_entry reads the header and checks the space left. *)
ReadHeader(a) ==
    LET t == task[a]
        h == StoreHeader(Dev)
    IN  /\ At(a, "header")
        /\ IF HasRoom(Dev, t.rec)
           THEN task' = [task EXCEPT ![a] = [t EXCEPT !.pc = "entry", !.i = 1,
                                                !.count = h.count, !.next = h.next]]
           ELSE GiveUp(a)
        /\ UNCHANGED <<disk, cache, up, vfs, written, acked, faults, scenario>>

(* Mutant: the last sector of the entry is left out. *)
WriteEntryShort(a) ==
    LET t == task[a]
    IN  /\ At(a, "entry")
        /\ Write(t.next + t.i - 1, Part("entry", t.rec, t.i))
        /\ task' = [task EXCEPT ![a] = IF t.i + 1 >= t.rec.len
                                       THEN [t EXCEPT !.pc = "newheader"]
                                       ELSE [t EXCEPT !.i = t.i + 1]]
        /\ UNCHANGED <<up, vfs, written, acked, faults, scenario>>

(* apply_entry writes the entry, one sector. *)
WriteEntry(a) ==
    LET t == task[a]
    IN  /\ At(a, "entry")
        /\ Write(t.next + t.i - 1, Part("entry", t.rec, t.i))
        /\ task' = [task EXCEPT ![a] = IF t.i = t.rec.len
                                       THEN [t EXCEPT !.pc = "newheader"]
                                       ELSE [t EXCEPT !.i = t.i + 1]]
        /\ UNCHANGED <<up, vfs, written, acked, faults, scenario>>

(* write_store_header at the end of apply_entry.  The replay does not      *)
(* flush before it clears the log.                                         *)
WriteHeader(a) ==
    LET t == task[a]
    IN  /\ At(a, "newheader")
        /\ Write(0, Header(t.count + 1, t.next + t.rec.len))
        /\ Goto(a, IF t.mode = "replay" THEN "clear" ELSE "entryflush")
        /\ UNCHANGED <<up, vfs, written, acked, faults, scenario>>

(* A write of apply_entry fails: the log is left as it is. *)
ApplyFails(a) ==
    /\ At(a, "entry") \/ At(a, "newheader")
    /\ WriteFault
    /\ GiveUp(a)
    /\ UNCHANGED <<up, vfs, written, acked, scenario>>

EntryFlush(a) ==
    /\ At(a, "entryflush")
    /\ Flush
    /\ IF task[a].mode = "direct"
       THEN Acknowledge(a)
       ELSE Goto(a, "clear") /\ UNCHANGED acked
    /\ UNCHANGED <<up, vfs, written, faults, scenario>>

(* journal_clear; its failure is ignored. *)
JournalClear(a) ==
    /\ At(a, "clear")
    /\ \/ Write(JournalBase, LogEmpty) /\ UNCHANGED faults
       \/ WriteFault
    /\ Goto(a, "clearflush")
    /\ UNCHANGED <<up, vfs, written, acked, scenario>>

ClearFlush(a) ==
    /\ At(a, "clearflush")
    /\ Flush
    /\ IF a = Boot
       THEN GiveUp(a) /\ UNCHANGED acked
       ELSE Acknowledge(a)
    /\ UNCHANGED <<up, vfs, written, faults, scenario>>

(* Mutant: a committed record is cleared instead of applied. *)
ReplayJournalDiscards ==
    LET rec == JournalRecord(Dev)
    IN  /\ At(Boot, "replay")
        /\ task' = [task EXCEPT ![Boot] =
                       IF rec = NoRecord
                       THEN [Idle EXCEPT !.pc = "walk"]
                       ELSE [Idle EXCEPT !.pc = "clear", !.mode = "replay", !.rec = rec]]
        /\ UNCHANGED <<disk, cache, up, vfs, written, acked, faults, scenario>>

(* replay_journal: a whole committed record is applied, anything else is   *)
(* ignored.                                                                *)
ReplayJournal ==
    LET rec == JournalRecord(Dev)
    IN  /\ At(Boot, "replay")
        /\ task' = [task EXCEPT ![Boot] =
                       IF rec = NoRecord
                       THEN [Idle EXCEPT !.pc = "walk"]
                       ELSE [Idle EXCEPT !.pc = "header", !.mode = "replay", !.rec = rec]]
        /\ UNCHANGED <<disk, cache, up, vfs, written, acked, faults, scenario>>

(* restore_all after the replay: fill the VFS, or format a fresh disk, or  *)
(* leave an ext4 volume alone.                                             *)
RestoreAll ==
    /\ At(Boot, "walk")
    /\ IF Dev[0].kind = "header"
       THEN /\ vfs' = Restored(Dev)
            /\ up' = TRUE
            /\ Goto(Boot, "idle")
       ELSE /\ UNCHANGED vfs
            /\ IF Dev[2] = Superblock
               THEN up' = TRUE /\ Goto(Boot, "idle")
               ELSE UNCHANGED up /\ Goto(Boot, "format")
    /\ UNCHANGED <<disk, cache, written, acked, faults, scenario>>

Format ==
    /\ At(Boot, "format")
    /\ Write(0, Header(0, 1))
    /\ Goto(Boot, "formatflush")
    /\ UNCHANGED <<up, vfs, written, acked, faults, scenario>>

FormatFlush ==
    /\ At(Boot, "formatflush")
    /\ Flush
    /\ up' = TRUE
    /\ Goto(Boot, "idle")
    /\ UNCHANGED <<vfs, written, acked, faults, scenario>>

(* The machine stops at any instant and starts again: what was only in the *)
(* device's cache is lost, RAM is lost.                                    *)
Crash ==
    /\ cache' = [s \in Sectors |-> Clean]
    /\ task' = [a \in Actors |-> IF a = Boot THEN Replay ELSE Idle]
    /\ up' = FALSE
    /\ vfs' = [p \in Paths |-> 0]
    /\ UNCHANGED <<disk, written, acked, faults, scenario>>

(* The device writes a cached sector to the medium when it likes. *)
Destage(s) ==
    /\ cache[s] # Clean
    /\ disk' = [disk EXCEPT ![s] = cache[s]]
    /\ cache' = [cache EXCEPT ![s] = Clean]
    /\ UNCHANGED <<task, up, vfs, written, acked, faults, scenario>>

Step(a) ==
    \/ JournalWrite(a) \/ JournalWriteFails(a) \/ JournalFlush(a)
    \/ ReadHeader(a) \/ WriteEntry(a) \/ WriteHeader(a) \/ ApplyFails(a)
    \/ EntryFlush(a) \/ JournalClear(a) \/ ClearFlush(a)

Next ==
    \/ \E w \in Writers, p \in Paths, len \in Lengths : PersistFile(w, p, len)
    \/ \E a \in Actors : Step(a)
    \/ ReplayJournal \/ RestoreAll \/ Format \/ FormatFlush
    \/ Crash
    \/ \E s \in Sectors : Destage(s)

Spec == Init /\ [][Next]_vars
-----------------------------------------------------------------------------
IsContent(c) ==
    \/ c \in {Blank, Superblock, LogEmpty}
    \/ c.kind = "header" /\ c.count \in 0 .. DataSectors /\ c.next \in 1 .. JournalBase
    \/ c.kind \in {"entry", "log"} /\ c.rec \in Records /\ c.part \in 1 .. c.rec.len

(* The store's state is well formed: every sector holds a header, a part   *)
(* of a record or nothing.                                                 *)
TypeOK ==
    /\ \A s \in Sectors : IsContent(disk[s]) /\ (cache[s] = Clean \/ IsContent(cache[s]))
    /\ \A a \in Actors :
          /\ task[a].rec \in Records \cup {NoRecord}
          /\ task[a].mode \in {"none", "log", "direct", "replay"}
    /\ up \in BOOLEAN
    /\ vfs \in [Paths -> Torn .. MaxVersion]
    /\ acked \in [Paths -> 0 .. MaxVersion]
    /\ faults \in 0 .. MaxFaults

(* A write whose commit_through_journal returned true survives: after any  *)
(* crash, during a commit or during the replay itself, restore_all brings  *)
(* back that version of the path or a later one.                           *)
AckedDurable == up => \A p \in Paths : vfs[p] >= acked[p]

(* restore_all invents nothing: what it puts in the VFS under a path is    *)
(* one whole version that was written to that path, never a mixture.       *)
OnlyWritten == up => \A p \in Paths : vfs[p] # 0 => <<p, vfs[p]>> \in written

(* On a device without a cache the header never counts an entry that is    *)
(* not entirely on the disk, the walk over entry_count entries ends        *)
(* exactly at next_sector, and no entry reaches into the log.              *)
StoreWellFormed ==
    LET D == Dev
        h == StoreHeader(D)
        at == EntrySector(D)
    IN  ~Volatile =>
            /\ \A n \in 0 .. h.count - 1 :
                  D[at[n]].kind = "entry" /\ D[at[n]].part = 1 /\ Whole(D, at[n])
            /\ at[h.count] = h.next
            /\ h.next <= JournalBase

AfterLogFlush(w) ==
    /\ task[w].mode = "log"
    /\ task[w].pc \in {"header", "entry", "newheader", "entryflush", "clear", "clearflush"}

Survives(rec) == Recovered(disk)[rec.path] >= rec.version

(* On a device without a cache, a crash at any instant after a commit's    *)
(* record was flushed to the log, in the middle of apply_entry or of       *)
(* journal_clear included, restores that version of the path or a later    *)
(* one, provided the data area has room for the entry.                     *)
CommittedReplayed ==
    \A w \in Writers :
        /\ ~Volatile
        /\ AfterLogFlush(w)
        /\ At(w, "header") => HasRoom(Dev, task[w].rec)
        => Survives(task[w].rec)

Inflight == {<<task[w].rec.path, task[w].rec.version>> : w \in {x \in Writers : ~At(x, "idle")}}

Durable == INSTANCE DurableStore
              WITH stable <- Recovered(disk), inflight <- Inflight

(* Without a cache, and as long as no device write has failed, the store   *)
(* implements a map that survives crashes: each write takes effect at one  *)
(* instant (the last sector of its log record, or the header when it       *)
(* bypasses the log), an acknowledged write has taken effect, and neither  *)
(* a crash nor a replay takes anything away.                               *)
ImplementsDurableStore ==
    Durable!DInit /\
    [][~Volatile /\ faults' = 0 => UNCHANGED Durable!dvars \/ Durable!DNext]_vars

(* At every instant the disk is one from which restore_all can start: the  *)
(* chain of entries is whole, and a record that reached the log is         *)
(* replayed.                                                               *)
StoreRecoverable == TypeOK /\ StoreWellFormed /\ CommittedReplayed
=============================================================================
