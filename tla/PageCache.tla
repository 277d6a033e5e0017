----------------------------- MODULE PageCache ------------------------------
(***************************************************************************)
(* The page cache over one regular file: reads and writes through          *)
(* descriptors, page faults, read-ahead, flush_inode and sync_all,         *)
(* eviction, shrink, invalidation, truncation, replacement and removal.    *)
(*                                                                         *)
(* A step is one critical section of CACHE, VFS or FILE_SIZES.  Descriptor *)
(* reads and writes hold PROCESS_FD_TABLES from end to end; faults,        *)
(* prefetches and flushes do not.  A page is PerPage units, so that a      *)
(* write may cover part of one, and the content of a unit is the number of *)
(* the write it comes from (0: zeros).                                     *)
(***************************************************************************)
EXTENDS Integers, Sequences, FiniteSets, SequencesExt, FiniteSetsExt

CONSTANTS Tasks,        \* processors in a call
          Pages,        \* 0 .. n: page indices of the file
          MaxVersion,   \* bound: writes and replacements
          PageScenarios \* [tasks, calls, ranges, capacity, size, serial, fails]

VARIABLES scenario,
          disk,         \* unit -> version: the data of the VFS inode
          dsize,        \* its length in units
          linked,       \* the path resolves
          registered,   \* INODE_PATHS has the inode
          sizes,        \* FILE_SIZES of the inode, or NoSize
          cache,        \* page -> [data, dirty, writeback], for the cached pages
          lru,          \* the cached pages, least recently used first
          dirty_pages,  \* stats.dirty_pages
          readahead,    \* [last, count] of the inode
          spinning,     \* insert_page looks for a victim for ever, holding CACHE
          fdlock,       \* the task that holds PROCESS_FD_TABLES, or NoTask
          version,      \* number of the last write
          at            \* task -> the call it is in

fileVars  == <<disk, dsize, linked, registered, sizes>>
cacheVars == <<cache, lru, dirty_pages, readahead, spinning>>
pageVars  == <<scenario, fileVars, cacheVars, fdlock, version, at>>

PerPage == 2
RunLength == 1      \* sequential misses before read-ahead starts (2 in the code)
NoSize == -1
NoTask == "none"

Units == 0 .. PerPage * Cardinality(Pages) - 1
PageOf(u) == u \div PerPage
UnitsOf(p) == PerPage * p .. PerPage * p + PerPage - 1
Zeros == [i \in 0 .. PerPage - 1 |-> 0]
Least(a, b) == IF a < b THEN a ELSE b
Most(a, b) == IF a < b THEN b ELSE a

(* A call: its range and page, the write's version, the page in its        *)
(* buffer; the size, the copies and the pages left of a flush; and must,   *)
(* what the file held when a read or a sync began (kept for the            *)
(* properties).                                                            *)
Idle == [call |-> "idle", pc |-> "idle", from |-> 0, to |-> 0, version |-> 0, page |-> 0,
         buf |-> Zeros, size |-> 0, copies |-> << >>, left |-> {}, must |-> [u \in Units |-> 0]]

PageInit ==
    /\ scenario \in PageScenarios
    /\ disk = [u \in Units |-> 0]
    /\ dsize = scenario.size
    /\ linked = TRUE /\ registered = TRUE
    /\ sizes = scenario.size
    /\ cache = << >>
    /\ lru = << >>
    /\ dirty_pages = 0
    /\ readahead = [last |-> -1, count |-> 0]
    /\ spinning = FALSE
    /\ fdlock = NoTask
    /\ version = 0
    /\ at = [t \in Tasks |-> Idle]
-----------------------------------------------------------------------------
(* The parts of the cache. *)

Cached == DOMAIN cache
Dirty == {p \in Cached : cache[p].dirty}
Flushable == {p \in Dirty : ~ cache[p].writeback}
(* Mutant: a dirty page counts as clean. *)
CleanIfIdle == {p \in Cached : ~ cache[p].writeback}

Clean == {p \in Cached : ~ cache[p].dirty /\ ~ cache[p].writeback}

LogicalSize == CASE sizes # NoSize -> sizes
                 [] sizes = NoSize /\ registered /\ linked -> dsize
                 [] OTHER -> 0

Oldest(S) == lru[Min({i \in DOMAIN lru : lru[i] \in S})]
Without(f, S) == [p \in DOMAIN f \ S |-> f[p]]
Touched(p) == Append(Remove(lru, p), p)

(* pread_file: the data of a page, zeros behind the end. *)
Loaded(p) == [i \in 0 .. PerPage - 1 |->
                LET u == PerPage * p + i IN IF linked /\ u < dsize THEN disk[u] ELSE 0]

(* Mutant: the last unit of the file is left out. *)
ValidUnitsShort(p, size) == {u \in UnitsOf(p) : u + 1 < size}

(* pwrite_file of the first units of a page, up to the size; nothing for a *)
(* page behind it.                                                         *)
ValidUnits(p, size) == {u \in UnitsOf(p) : u < size}
WrittenDisk(p, data, size) ==
    [u \in Units |-> IF u \in ValidUnits(p, size) THEN data[u - PerPage * p] ELSE disk[u]]
WrittenSize(p, size) ==
    IF ValidUnits(p, size) = {} THEN dsize ELSE Most(dsize, Least(size, PerPage * (p + 1)))

(* evict_lru: the oldest clean page goes; when there is none, the oldest   *)
(* dirty one is written and goes.                                          *)
Evictable == IF Clean # {} THEN Clean ELSE Flushable

(* insert_page, when there is room or a page to evict; the answer of the   *)
(* forced write is ignored.                                                *)
Room == Cardinality(Cached) < scenario.capacity \/ Evictable # {}
InsertPage(p, data, dirty) ==
    LET victim == IF Cardinality(Cached) < scenario.capacity THEN {} ELSE {Oldest(Evictable)}
        kept == Without(cache, victim)
        counted == Most(0, dirty_pages - Cardinality(victim \cap Dirty))
        was == p \in DOMAIN kept /\ kept[p].dirty
    IN  /\ Room
        /\ cache' = [q \in DOMAIN kept \cup {p} |->
                       IF q = p THEN [data |-> data, dirty |-> dirty, writeback |-> FALSE] ELSE kept[q]]
        /\ lru' = Append(SelectSeq(lru, LAMBDA q : q # p /\ q \notin victim), p)
        /\ dirty_pages' = Most(0, counted + (IF dirty THEN 1 ELSE 0) - (IF was THEN 1 ELSE 0))
        /\ \/ /\ registered
              /\ \E v \in victim \cap Dirty : /\ disk' = WrittenDisk(v, cache[v].data, LogicalSize)
                                              /\ dsize' = WrittenSize(v, LogicalSize)
           \/ /\ victim \cap Dirty = {} \/ ~ registered \/ scenario.fails
              /\ UNCHANGED <<disk, dsize>>

(* note_file_size: grows only. *)
Noted(n) == IF sizes = NoSize THEN n ELSE Most(sizes, n)

(* What a reader of the file sees: the cached page, else the disk.  While  *)
(* a replacement has yet to drop the pages it is the disk already, and     *)
(* while a truncation has yet to set the size it is that of the disk.      *)
Replacing == \E t \in Tasks : at[t].call = "replace" /\ at[t].pc \in {"invalidate", "dropsize", "setsize"}
Resizing == Replacing \/ \E t \in Tasks : at[t].call = "truncate"
ViewLinked == linked /\ \A t \in Tasks : at[t].call # "unlink"
ViewSize == CASE ~ ViewLinked -> 0
              [] ViewLinked /\ Resizing -> dsize
              [] OTHER -> LogicalSize
View == [u \in Units |-> CASE u >= ViewSize -> 0
                           [] u < ViewSize /\ ~ Replacing /\ PageOf(u) \in Cached ->
                                cache[PageOf(u)].data[u % PerPage]
                           [] OTHER -> Loaded(PageOf(u))[u % PerPage]]
-----------------------------------------------------------------------------
(* Beginning of the calls. *)

Goto(t, pc) == at' = [at EXCEPT ![t].pc = pc]

Calls(t, call) ==
    /\ at[t] = Idle
    /\ t \in scenario.tasks /\ call \in scenario.calls[t]
    /\ scenario.serial => \A other \in Tasks : at[other] = Idle
    /\ ~ spinning

Watched == {"read", "fault", "fsync", "sync"}
Ranged(t, call, pc, from, to, v) ==
    at' = [at EXCEPT ![t] = [Idle EXCEPT !.call = call, !.pc = pc, !.from = from, !.to = to,
                                         !.page = PageOf(from), !.version = v,
                                         !.must = IF call \in Watched /\ scenario.coherent THEN View ELSE @]]

(* OpenFile read through the cache, clipped at the size. *)
StartRead(t) ==
    /\ Calls(t, "read")
    /\ fdlock = NoTask
    /\ \E r \in scenario.ranges : /\ r[1] < LogicalSize
                                  /\ Ranged(t, "read", "find", r[1], Least(r[2], LogicalSize), 0)
    /\ fdlock' = t
    /\ UNCHANGED <<scenario, fileVars, cacheVars, version>>

(* fill_file_backed_page: register_path and the read of one page. *)
StartFault(t) ==
    /\ Calls(t, "fault")
    /\ linked
    /\ registered' = TRUE /\ sizes' = Noted(dsize)
    /\ \E p \in Pages : /\ PerPage * p < Noted(dsize)
                        /\ Ranged(t, "fault", "find", PerPage * p, Least(PerPage * (p + 1), Noted(dsize)), 0)
    /\ UNCHANGED <<scenario, disk, dsize, linked, cacheVars, fdlock, version>>

(* readahead and fadvise(WILLNEED). *)
StartPrefetch(t) ==
    /\ Calls(t, "prefetch")
    /\ \E r \in scenario.ranges : Ranged(t, "prefetch", "find", r[1], r[2], 0)
    /\ UNCHANGED <<scenario, fileVars, cacheVars, fdlock, version>>

(* A write through a descriptor, at its offset or at the end. *)
StartWrite(t) ==
    /\ Calls(t, "write")
    /\ fdlock = NoTask
    /\ version < MaxVersion
    /\ \E r \in scenario.ranges \cup {<<LogicalSize, LogicalSize + 1>>} :
         /\ r[2] <= Cardinality(Units)
         /\ scenario.grows \/ r[2] <= LogicalSize
         /\ Ranged(t, "write", "find", r[1], r[2], version + 1)
    /\ version' = version + 1
    /\ fdlock' = t
    /\ UNCHANGED <<scenario, fileVars, cacheVars>>

(* fsync: flush_path registers the path again. *)
StartFsync(t) ==
    /\ Calls(t, "fsync")
    /\ linked
    /\ registered' = TRUE /\ sizes' = Noted(dsize)
    /\ Ranged(t, "fsync", "size", 0, 0, 0)
    /\ UNCHANGED <<scenario, disk, dsize, linked, cacheVars, fdlock, version>>

(* sync: the whole of sync_all. *)
StartSync(t) ==
    /\ Calls(t, "sync")
    /\ Ranged(t, "sync", "orphans", 0, 0, 0)
    /\ UNCHANGED <<scenario, fileVars, cacheVars, fdlock, version>>

(* Mutant: one dirty page is no work. *)
StartTickLate(t) ==
    /\ Calls(t, "tick")
    /\ dirty_pages > 1
    /\ Ranged(t, "sync", "orphans", 0, 0, 0)
    /\ UNCHANGED <<scenario, fileVars, cacheVars, fdlock, version>>

(* writeback_tick, from the desktop's loop: sync_all when the counter says *)
(* that there is work.                                                     *)
StartTick(t) ==
    /\ Calls(t, "tick")
    /\ dirty_pages > 0
    /\ Ranged(t, "sync", "orphans", 0, 0, 0)
    /\ UNCHANGED <<scenario, fileVars, cacheVars, fdlock, version>>
-----------------------------------------------------------------------------
(* Reading and writing, page by page. *)

LastPage(t) == PageOf(at[t].to - 1)

(* The next page of the range, or the end of the call. *)
NextPage(t) ==
    IF at[t].page < LastPage(t)
    THEN /\ at' = [at EXCEPT ![t].page = @ + 1, ![t].pc = "find", ![t].buf = Zeros]
         /\ UNCHANGED fdlock
    ELSE IF at[t].call = "write"
    THEN Goto(t, "note") /\ UNCHANGED fdlock
    ELSE /\ at' = [at EXCEPT ![t] = Idle]
         /\ fdlock' = IF at[t].call = "read" THEN NoTask ELSE fdlock

(* find_page *)
Find(t) ==
    /\ at[t].pc = "find"
    /\ ~ spinning
    /\ LET p == at[t].page
       IN  IF p \notin Cached
           THEN Goto(t, "load") /\ UNCHANGED <<lru, fdlock>>
           ELSE /\ lru' = Touched(p)
                /\ IF at[t].call = "prefetch"
                   THEN NextPage(t)
                   ELSE /\ at' = [at EXCEPT ![t].buf = cache[p].data,
                                            ![t].pc = IF at[t].call = "write" THEN "insert" ELSE "deliver"]
                        /\ UNCHANGED fdlock
    /\ UNCHANGED <<scenario, fileVars, cache, dirty_pages, readahead, spinning, version>>

(* load_from_backing.  Without a path a write begins with zeros, a read    *)
(* and a prefetch give up.                                                 *)
Load(t) ==
    /\ at[t].pc = "load"
    /\ IF registered \/ at[t].call = "write"
       THEN /\ at' = [at EXCEPT ![t].buf = IF registered THEN Loaded(at[t].page) ELSE Zeros,
                                ![t].pc = "insert"]
            /\ UNCHANGED fdlock
       ELSE /\ at' = [at EXCEPT ![t] = Idle]
            /\ fdlock' = IF at[t].call = "read" THEN NoTask ELSE fdlock
    /\ UNCHANGED <<scenario, fileVars, cacheVars, version>>

Overlaid(t) == [i \in 0 .. PerPage - 1 |->
                  LET u == PerPage * at[t].page + i
                  IN  IF at[t].from <= u /\ u < at[t].to THEN at[t].version ELSE at[t].buf[i]]

Insert(t) ==
    /\ at[t].pc = "insert"
    /\ ~ spinning
    /\ IF at[t].call = "write"
       THEN InsertPage(at[t].page, Overlaid(t), TRUE) /\ NextPage(t)
       ELSE /\ InsertPage(at[t].page, at[t].buf, FALSE)
            /\ IF at[t].call = "prefetch" THEN NextPage(t) ELSE Goto(t, "ahead") /\ UNCHANGED fdlock
    /\ UNCHANGED <<scenario, linked, registered, sizes, readahead, spinning, version>>

(* insert_page with every page under write-back: the loop finds no victim  *)
(* and keeps CACHE.                                                        *)
Spin(t) ==
    /\ at[t].pc \in {"insert", "fetched"}
    /\ ~ spinning /\ ~ Room
    /\ spinning' = TRUE
    /\ UNCHANGED <<scenario, fileVars, cache, lru, dirty_pages, readahead, fdlock, version, at>>

(* update_readahead: a run of misses fetches the pages behind it. *)
ReadAhead(t) ==
    /\ at[t].pc = "ahead"
    /\ ~ spinning
    /\ LET p == at[t].page
           sequential == readahead.last >= 0 /\ p = readahead.last + 1
           fetch == sequential /\ readahead.count + 1 >= RunLength
       IN  /\ readahead' = [last |-> IF fetch THEN readahead.last ELSE p,
                            count |-> IF sequential THEN Least(readahead.count + 1, RunLength) ELSE 0]
           /\ at' = [at EXCEPT ![t].left = IF fetch THEN {q \in Pages : q > p /\ q \notin Cached} ELSE {},
                               ![t].pc = IF fetch THEN "fetch" ELSE "deliver"]
    /\ UNCHANGED <<scenario, fileVars, cache, lru, dirty_pages, spinning, fdlock, version>>

Fetch(t) ==
    /\ at[t].pc = "fetch"
    /\ at' = IF at[t].left = {} \/ ~ registered
             THEN [at EXCEPT ![t].pc = "deliver", ![t].left = {}]
             ELSE [at EXCEPT ![t].pc = "fetched", ![t].copies = Loaded(Min(at[t].left))]
    /\ UNCHANGED <<scenario, fileVars, cacheVars, fdlock, version>>

InsertFetched(t) ==
    /\ at[t].pc = "fetched"
    /\ ~ spinning
    /\ InsertPage(Min(at[t].left), at[t].copies, FALSE)
    /\ at' = [at EXCEPT ![t].pc = "fetch", ![t].left = @ \ {Min(@)}, ![t].copies = << >>]
    /\ UNCHANGED <<scenario, linked, registered, sizes, readahead, spinning, fdlock, version>>

(* The copy to the reader's buffer. *)
Deliver(t) ==
    /\ at[t].pc = "deliver"
    /\ NextPage(t)
    /\ UNCHANGED <<scenario, fileVars, cacheVars, version>>

(* The end of a write: note_file_size. *)
NoteSize(t) ==
    /\ at[t].pc = "note"
    /\ sizes' = Noted(at[t].to)
    /\ at' = [at EXCEPT ![t] = Idle]
    /\ fdlock' = NoTask
    /\ UNCHANGED <<scenario, disk, dsize, linked, registered, cacheVars, version>>
-----------------------------------------------------------------------------
(* flush_inode and sync_all. *)

(* sync_all drops the dirty pages of an inode without a path. *)
Orphans(t) ==
    /\ at[t].pc = "orphans"
    /\ ~ spinning
    /\ LET orphans == IF registered THEN {} ELSE Dirty
       IN  /\ cache' = Without(cache, orphans)
           /\ lru' = SelectSeq(lru, LAMBDA q : q \notin orphans)
           /\ dirty_pages' = Cardinality(Dirty \ orphans)
    /\ Goto(t, "collect")
    /\ UNCHANGED <<scenario, fileVars, readahead, spinning, fdlock, version>>

Collect(t) ==
    /\ at[t].pc = "collect"
    /\ ~ spinning
    /\ IF Flushable # {} /\ registered THEN Goto(t, "size") ELSE at' = [at EXCEPT ![t] = Idle]
    /\ UNCHANGED <<scenario, fileVars, cacheVars, fdlock, version>>

(* Mutant: the size on the disk instead of the cached one. *)
FlushSizeOfDisk(t) ==
    /\ at[t].pc = "size"
    /\ at' = [at EXCEPT ![t].size = dsize, ![t].pc = "mark"]
    /\ UNCHANGED <<scenario, fileVars, cacheVars, fdlock, version>>

FlushSize(t) ==
    /\ at[t].pc = "size"
    /\ at' = [at EXCEPT ![t].size = LogicalSize, ![t].pc = "mark"]
    /\ UNCHANGED <<scenario, fileVars, cacheVars, fdlock, version>>

(* The pages that are dirty and not yet under write-back are copied. *)
Mark(t) ==
    /\ at[t].pc = "mark"
    /\ ~ spinning
    /\ cache' = [p \in Cached |-> IF p \in Flushable THEN [cache[p] EXCEPT !.writeback = TRUE] ELSE cache[p]]
    /\ at' = [at EXCEPT ![t].copies = [p \in Flushable |-> cache[p].data], ![t].left = Flushable,
                        ![t].pc = "pwrite"]
    /\ UNCHANGED <<scenario, fileVars, lru, dirty_pages, readahead, spinning, fdlock, version>>

(* One pwrite_file; a page behind the size is skipped. *)
PWrite(t) ==
    /\ at[t].pc = "pwrite"
    /\ at[t].left # {}
    /\ LET p == Min(at[t].left)
       IN  /\ disk' = WrittenDisk(p, at[t].copies[p], at[t].size)
           /\ dsize' = WrittenSize(p, at[t].size)
           /\ at' = [at EXCEPT ![t].left = @ \ {p}]
    /\ UNCHANGED <<scenario, linked, registered, sizes, cacheVars, fdlock, version>>

(* A pwrite_file that fails ends the flush where it is. *)
PWriteFails(t) ==
    /\ scenario.fails
    /\ at[t].pc = "pwrite"
    /\ at[t].left # {} /\ ValidUnits(Min(at[t].left), at[t].size) # {}
    /\ at' = [at EXCEPT ![t] = Idle]
    /\ UNCHANGED <<scenario, fileVars, cacheVars, fdlock, version>>

(* The pages that are still under write-back are clean now. *)
ClearFlags(t) ==
    /\ at[t].pc = "pwrite"
    /\ at[t].left = {}
    /\ ~ spinning
    /\ LET done == {p \in Cached \cap DOMAIN at[t].copies : cache[p].writeback}
       IN  /\ cache' = [p \in Cached |->
                          IF p \in done THEN [cache[p] EXCEPT !.dirty = FALSE, !.writeback = FALSE] ELSE cache[p]]
           /\ dirty_pages' = Cardinality(Dirty \ done)
    /\ at' = [at EXCEPT ![t] = Idle]
    /\ UNCHANGED <<scenario, fileVars, lru, readahead, spinning, fdlock, version>>
-----------------------------------------------------------------------------
(* Reclaim, invalidation, and the calls that change the file itself. *)

(* shrink, from the frame allocator: the clean pages go. *)
Shrink(t) ==
    /\ Calls(t, "shrink")
    /\ Clean # {}
    /\ cache' = Without(cache, Clean)
    /\ lru' = SelectSeq(lru, LAMBDA q : q \notin Clean)
    /\ UNCHANGED <<scenario, fileVars, dirty_pages, readahead, spinning, fdlock, version, at>>

(* fadvise(DONTNEED): invalidate_page, dirty or not. *)
DontNeed(t) ==
    /\ Calls(t, "dontneed")
    /\ \E p \in Cached : cache' = Without(cache, {p}) /\ lru' = Remove(lru, p)
    /\ UNCHANGED <<scenario, fileVars, dirty_pages, readahead, spinning, fdlock, version, at>>

(* truncate_path, its first half: the inode in the VFS. *)
Truncate(t) ==
    /\ Calls(t, "truncate")
    /\ linked
    /\ \E n \in UNION {{r[1], r[2]} : r \in scenario.ranges} :
         /\ n # LogicalSize
         /\ scenario.grows \/ n < LogicalSize
         /\ disk' = [u \in Units |-> IF u < n /\ u < dsize THEN disk[u] ELSE 0]
         /\ dsize' = n
         /\ Ranged(t, "truncate", "setsize", 0, n, 0)
    /\ UNCHANGED <<scenario, linked, registered, sizes, cacheVars, fdlock, version>>

(* write_file_dispatch: the whole file in the VFS, then the cache. *)
Replace(t) ==
    /\ Calls(t, "replace")
    /\ linked
    /\ version < MaxVersion
    /\ version' = version + 1
    /\ \E n \in 1 .. Cardinality(Units) :
         /\ disk' = [u \in Units |-> IF u < n THEN version + 1 ELSE 0]
         /\ dsize' = n
         /\ Ranged(t, "replace", "invalidate", 0, n, 0)
    /\ UNCHANGED <<scenario, linked, registered, sizes, cacheVars, fdlock>>

(* remove_dispatch begins with the cache. *)
Unlink(t) ==
    /\ Calls(t, "unlink")
    /\ linked
    /\ Ranged(t, "unlink", "invalidate", 0, 0, 0)
    /\ UNCHANGED <<scenario, fileVars, cacheVars, fdlock, version>>

(* invalidate_inode: the pages, then the size. *)
Invalidate(t) ==
    /\ at[t].pc = "invalidate"
    /\ ~ spinning
    /\ cache' = << >> /\ lru' = << >> /\ dirty_pages' = 0
    /\ readahead' = [last |-> -1, count |-> 0]
    /\ Goto(t, "dropsize")
    /\ UNCHANGED <<scenario, fileVars, spinning, fdlock, version>>

DropSize(t) ==
    /\ at[t].pc = "dropsize"
    /\ sizes' = NoSize
    /\ registered' = (at[t].call = "replace")
    /\ Goto(t, IF at[t].call = "replace" THEN "setsize" ELSE "remove")
    /\ UNCHANGED <<scenario, disk, dsize, linked, cacheVars, fdlock, version>>

SetSize(t) ==
    /\ at[t].pc = "setsize"
    /\ sizes' = at[t].to
    /\ at' = [at EXCEPT ![t] = Idle]
    /\ UNCHANGED <<scenario, disk, dsize, linked, registered, cacheVars, fdlock, version>>

RemoveFile(t) ==
    /\ at[t].pc = "remove"
    /\ linked' = FALSE
    /\ disk' = [u \in Units |-> 0] /\ dsize' = 0
    /\ at' = [at EXCEPT ![t] = Idle]
    /\ UNCHANGED <<scenario, registered, sizes, cacheVars, fdlock, version>>
-----------------------------------------------------------------------------
(* A task in a call goes on; a call is begun by a program or by the        *)
(* desktop's loop.                                                         *)
PageStep(t) ==
    \/ Find(t) \/ Load(t) \/ Insert(t) \/ Spin(t) \/ ReadAhead(t) \/ Fetch(t) \/ InsertFetched(t)
    \/ Deliver(t) \/ NoteSize(t)
    \/ Orphans(t) \/ Collect(t) \/ FlushSize(t) \/ Mark(t) \/ PWrite(t) \/ PWriteFails(t) \/ ClearFlags(t)
    \/ Invalidate(t) \/ DropSize(t) \/ SetSize(t) \/ RemoveFile(t)

PageCall(t) ==
    \/ StartRead(t) \/ StartFault(t) \/ StartPrefetch(t) \/ StartWrite(t) \/ StartFsync(t) \/ StartSync(t)
    \/ StartTick(t) \/ Shrink(t) \/ DontNeed(t) \/ Truncate(t) \/ Replace(t) \/ Unlink(t)

PageNext == \E t \in Tasks : PageStep(t) \/ PageCall(t)

PageFairness == \A t \in Tasks : WF_pageVars(PageStep(t)) /\ SF_pageVars(StartTick(t))
-----------------------------------------------------------------------------
PageType ==
    /\ scenario \in PageScenarios
    /\ disk \in [Units -> 0 .. MaxVersion] /\ dsize \in 0 .. Cardinality(Units)
    /\ sizes \in -1 .. Cardinality(Units)
    /\ Cached \subseteq Pages
    /\ \A p \in Cached : cache[p] \in [data : [0 .. PerPage - 1 -> 0 .. MaxVersion],
                                       dirty : BOOLEAN, writeback : BOOLEAN]
    /\ ToSet(lru) = Cached /\ Len(lru) = Cardinality(Cached)
    /\ Cardinality(Cached) <= scenario.capacity
    /\ \A p \in Cached : cache[p].writeback => cache[p].dirty
    /\ fdlock \in Tasks \cup {NoTask}

ViewPending ==
    IF \E t \in Tasks : at[t].call = "write"
    THEN LET t == CHOOSE t \in Tasks : at[t].call = "write"
         IN  [from |-> at[t].from, to |-> at[t].to, version |-> at[t].version]
    ELSE [from |-> 0, to |-> 0, version |-> 0]

File == INSTANCE CachedFile WITH file <- View, size <- ViewSize, pending <- ViewPending,
                                 linked <- ViewLinked, Versions <- 1 .. MaxVersion

(* The cache and the disk together are the file of CachedFile: flush,      *)
(* eviction, loading and read-ahead never change what a reader sees, and   *)
(* write returns when all it wrote can be read.                            *)
CachedFileKept == File!FInit /\ [][scenario.coherent => File!FNext]_(File!fvars)

(* read and a page fault return nothing older than what the file held when *)
(* the call began.                                                         *)
ReadsRecent ==
    scenario.coherent =>
      \A t \in Tasks :
        at[t].call \in {"read", "fault"} /\ at[t].pc \in {"ahead", "fetch", "fetched", "deliver"} =>
          \A u \in UnitsOf(at[t].page) :
            at[t].from <= u /\ u < at[t].to => at[t].buf[u % PerPage] >= at[t].must[u]

(* sync and fsync are a barrier (syscall/advanced/file.rs:99): when one    *)
(* returns, what was written before it was called is on the disk.          *)
SyncBarrier ==
    [][\A t \in Tasks :
         scenario.coherent /\ at[t].call \in {"fsync", "sync"} /\ at'[t] = Idle =>
           \A u \in Units : disk'[u] >= at[t].must[u]]_pageVars

(* writeback_tick looks at the counter stats.dirty_pages only: it is never *)
(* below the number of dirty pages, so no dirty page is overlooked.        *)
DirtyCounted == Cardinality(Dirty) <= dirty_pages

(* insert_page always finds a page to evict.                               *)
InsertEnds == scenario.coherent => ~ spinning

(* Write-back catches up: whatever is dirty, there comes a time when every *)
(* page is on the disk.                                                    *)
DirtyWritten == scenario.coherent /\ Dirty # {} ~> Dirty = {}

(* The cache keeps to its capacity, finds a page to evict, overlooks no    *)
(* dirty page, and gives no reader old data.                               *)
CacheSound == PageType /\ DirtyCounted /\ InsertEnds /\ ReadsRecent
=============================================================================
