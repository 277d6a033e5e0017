---------------------------- MODULE AddressSpace ----------------------------
(***************************************************************************)
(* User address spaces (mm/vmm/space.rs, mm/vmm/page_table.rs, mm/swap.rs, *)
(* the page-fault handler of arch/interrupts.rs): anonymous mappings, the  *)
(* heap, copy-on-write fork, clone(CLONE_VM), execve, exit and swap.       *)
(*                                                                         *)
(* A page is a mapping of one page, so every VMA is one page long.  The    *)
(* L1, L2 and L3 tables of an address space are one frame, dirs.  The      *)
(* global lock ADDRESS_SPACES makes each handler one step; a page fault is *)
(* two, the trap and the handler, and clone and swap_out_page release the  *)
(* lock on their way.                                                      *)
(*                                                                         *)
(* expect is the value a correct memory would hold for each process and    *)
(* page; programs touch the pages it has.                                  *)
(***************************************************************************)
EXTENDS Integers, FiniteSets

CONSTANTS
    Pids,
    Frames,     \* physical frames
    MmapPages,  \* pages of the mmap region
    Heap,       \* the page above the initial break
    Values,     \* what a program writes
    Scenarios   \* the machines and workloads to look at, see scenario

Zero == 0
NoFrame == 0
Absent == -1
Pages == MmapPages \cup {Heap}

ASSUME PageAssumption == Heap \notin MmapPages
ASSUME FrameAssumption == Frames \subseteq Nat \ {NoFrame} /\ IsFiniteSet(Frames)
ASSUME ValueAssumption == Values \subseteq Nat \ {Zero}
ASSUME ScenarioAssumption ==
    \A s \in Scenarios :
        /\ s.pids \subseteq Pids /\ s.frames \subseteq Frames /\ s.frames # {}
        /\ s.pages \subseteq MmapPages /\ s.values \subseteq Values
        /\ s.concurrent \in BOOLEAN

VARIABLES
    scenario,   \* never changes: what is used of each set, and the fields below
    pool,       \* FRAME_POOL: the free frames
    data,       \* what each frame holds
    space,      \* ADDRESS_SPACES
    table,      \* the page table under each L4 frame
    dirs,       \* the lower tables of each L4 frame
    extra,      \* CR3_EXTRA_REFS
    lru,        \* SWAP_MANAGER.lru_pages: <<pid, page>>
    swapped,    \* SWAP_MANAGER.swapped_pages and slot_data
    trap,       \* the page fault each process is in
    clone,      \* the share_address_space under way
    sw,         \* the swap_out_page under way
    mm,         \* processes with one mm share their memory; 0 before birth
    expect,     \* what each process should read
    wrongly     \* history: processes killed on a legal access

vars == <<scenario, pool, data, space, table, dirs, extra, lru, swapped, trap, clone, sw,
          mm, expect, wrongly>>

Concurrent == scenario.concurrent   \* other CPUs run during a multi-step operation
Workload == scenario.calls          \* the operations that happen

NoPages == [g \in Pages |-> NoFrame]
NoSpace == [cr3 |-> NoFrame, vma |-> [g \in Pages |-> "none"], brk |-> FALSE, owned |-> {},
            cow |-> NoPages]
Unmapped == [frame |-> NoFrame, write |-> FALSE]
NoTrap == [page |-> Heap, write |-> FALSE, on |-> FALSE]
NoClone == [from |-> 0, to |-> 0, as |-> NoSpace]
NoSwap == [pid |-> 0, page |-> Heap, frame |-> NoFrame, stage |-> "none"]

Live(p) == space[p].cr3 # NoFrame
Unborn(p) == mm[p] = 0 /\ p \in scenario.pids
Pte(p, g) == table[space[p].cr3][g]
Mapped(p, g) == Live(p) /\ Pte(p, g) # Unmapped
Peers(p) == {q \in Pids : mm[q] = mm[p]}
FreshMm == CHOOSE i \in 1 .. Cardinality(Pids) + 1 : \A q \in Pids : mm[q] # i

(* Whether a new operation may start on another CPU. *)
Free == Concurrent \/ (clone = NoClone /\ sw = NoSwap /\ \A q \in Pids : ~trap[q].on)

(* A process in user mode makes a call. *)
Runs(p, call) == call \in Workload /\ Live(p) /\ ~trap[p].on /\ clone.from # p /\ Free

ExpectAll(p, g, v) ==
    expect' = [q \in Pids |-> IF q \in Peers(p) THEN [expect[q] EXCEPT ![g] = v] ELSE expect[q]]
(* The frame an allocation takes.  Frames are interchangeable: a fixed     *)
(* choice stands for the allocator's.                                      *)
Alloc(free) == {f \in free : \A x \in free : f <= x}
-----------------------------------------------------------------------------
Init ==
    LET first == CHOOSE p \in Pids : \A q \in Pids : p <= q
    IN  /\ scenario \in Scenarios
        /\ \E l4 \in Alloc(scenario.frames) :
              /\ pool = scenario.frames \ {l4}
              /\ space = [p \in Pids |-> IF p = first THEN [NoSpace EXCEPT !.cr3 = l4] ELSE NoSpace]
        /\ data = [f \in Frames |-> Zero]
        /\ table = [f \in Frames |-> [g \in Pages |-> Unmapped]]
        /\ dirs = [f \in Frames |-> NoFrame]
        /\ extra = [f \in Frames |-> 0]
        /\ lru = {}
        /\ swapped = [p \in Pids |-> [g \in Pages |-> Absent]]
        /\ trap = [p \in Pids |-> NoTrap]
        /\ clone = NoClone
        /\ sw = NoSwap
        /\ mm = [p \in Pids |-> IF p = first THEN 1 ELSE 0]
        /\ expect = [p \in Pids |-> [g \in Pages |-> Absent]]
        /\ wrongly = {}

(* Whether memory is left for a page and for its lower tables; with "oom"  *)
(* in the workload operations also run without.                            *)
Enough == "oom" \in Workload \/ Cardinality(pool) >= 2

(* map_page_in_table: frame f, already taken, goes into table t at page g; *)
(* without a frame for the lower tables nothing is mapped.                 *)
MapPage(t, g, f, write, free) ==
    LET entry == [frame |-> f, write |-> write]
    IN  IF dirs[t] # NoFrame
        THEN /\ table' = [table EXCEPT ![t][g] = entry]
             /\ pool' = free
             /\ UNCHANGED dirs
        ELSE \/ /\ free = {}
                /\ pool' = free
                /\ UNCHANGED <<table, dirs>>
             \/ \E d \in Alloc(free) :
                    /\ dirs' = [dirs EXCEPT ![t] = d]
                    /\ table' = [table EXCEPT ![t][g] = entry]
                    /\ pool' = free \ {d}

(* An allocation that finds the pool empty, under the lock: reclaim takes  *)
(* every victim off the list and swap_out_page fails on try_lock.          *)
LruAfter(p, taken) == IF pool = taken /\ dirs[space[p].cr3] = NoFrame THEN {} ELSE lru

(* create_address_space, for a program that is spawned. *)
Create(c) ==
    /\ "spawn" \in Workload
    /\ Free
    /\ Unborn(c)
    /\ \E f \in Alloc(pool) :
           /\ pool' = pool \ {f}
           /\ space' = [space EXCEPT ![c].cr3 = f]
           /\ data' = [data EXCEPT ![f] = Zero]
    /\ mm' = [mm EXCEPT ![c] = FreshMm]
    /\ UNCHANGED <<table, dirs, extra, lru, swapped, trap, clone, sw, expect, wrongly, scenario>>

(* mmap_anonymous without MAP_POPULATE, at a page no VMA of the process    *)
(* covers.  Without "threads_mmap" a process maps before it clones.        *)
Mmap(p, g, prot) ==
    /\ Runs(p, "mmap")
    /\ "threads_mmap" \in Workload \/ Peers(p) = {p}
    /\ space[p].vma[g] = "none"
    /\ space' = [space EXCEPT ![p].vma[g] = prot]
    /\ ExpectAll(p, g, Zero)
    /\ UNCHANGED <<pool, data, table, dirs, extra, lru, swapped, trap, clone, sw, mm, wrongly, scenario>>

(* munmap: the VMA and the page-table entry go, the frame, the entry of    *)
(* cow_pages, the swap slot and the LRU entry stay.                        *)
Munmap(p, g) ==
    /\ Runs(p, "munmap")
    /\ space[p].vma[g] # "none"
    /\ space' = [space EXCEPT ![p].vma[g] = "none"]
    /\ table' = [table EXCEPT ![space[p].cr3][g] = Unmapped]
    /\ ExpectAll(p, g, Absent)
    /\ UNCHANGED <<pool, data, dirs, extra, lru, swapped, trap, clone, sw, mm, wrongly, scenario>>

(* mprotect: the new flags go into the entry if there is one. *)
Mprotect(p, g, prot) ==
    /\ Runs(p, "mprotect")
    /\ space[p].vma[g] \notin {"none", prot}
    /\ space' = [space EXCEPT ![p].vma[g] = prot]
    /\ table' = IF Pte(p, g) # Unmapped
                THEN [table EXCEPT ![space[p].cr3][g].write = (prot = "rw")]
                ELSE table
    /\ UNCHANGED <<pool, data, dirs, extra, lru, swapped, trap, clone, sw, mm, expect, wrongly, scenario>>

(* brk over one page: mapped at once, without a VMA. *)
BrkGrow(p) ==
    /\ Runs(p, "brk")
    /\ Enough
    /\ "threads_mmap" \in Workload \/ Peers(p) = {p}
    /\ ~space[p].brk
    /\ \E f \in Alloc(pool) :
           /\ MapPage(space[p].cr3, Heap, f, TRUE, pool \ {f})
           /\ space' = [space EXCEPT ![p].owned = @ \cup {f}, ![p].brk = TRUE]
           /\ data' = [data EXCEPT ![f] = Zero]
           /\ lru' = LruAfter(p, {f})
    /\ ExpectAll(p, Heap, Zero)
    /\ UNCHANGED <<extra, swapped, trap, clone, sw, mm, wrongly, scenario>>

BrkShrink(p) ==
    /\ Runs(p, "brk")
    /\ "threads_mmap" \in Workload \/ Peers(p) = {p}
    /\ space[p].brk
    /\ space' = [space EXCEPT ![p].brk = FALSE]
    /\ table' = [table EXCEPT ![space[p].cr3][Heap] = Unmapped]
    /\ ExpectAll(p, Heap, Absent)
    /\ UNCHANGED <<pool, data, dirs, extra, lru, swapped, trap, clone, sw, mm, wrongly, scenario>>
-----------------------------------------------------------------------------
(* Frames a fork shares: those mapped in a VMA. *)
Shared(p) == {g \in Pages : space[p].vma[g] # "none" /\ Pte(p, g).frame # NoFrame}

(* Mutant: the parent keeps its write permission. *)
ForkedWritable(p) == table[space[p].cr3]

(* The parent's table after a fork: what is shared is read-only. *)
Forked(p) ==
    [g \in Pages |-> IF g \in Shared(p) THEN [Pte(p, g) EXCEPT !.write = FALSE] ELSE Pte(p, g)]

(* The child's record: only its cow_pages remember the shared frames. *)
ForkChild(p, f) ==
    [cr3 |-> f, vma |-> space[p].vma, brk |-> space[p].brk, owned |-> {},
     cow |-> [g \in Pages |-> IF g \in Shared(p) THEN Pte(p, g).frame ELSE NoFrame]]

(* AddressSpace::fork.  f is the child's L4, d the frame of its lower      *)
(* tables; when d cannot be had, map_page_in_table maps nothing and the    *)
(* fork goes on.                                                           *)
Fork(p, c) ==
    /\ Runs(p, "fork")
    /\ Enough
    /\ Unborn(c)
    /\ \E f \in Alloc(pool) :
          \E d \in IF Shared(p) # {} /\ pool # {f} THEN Alloc(pool \ {f}) ELSE {NoFrame} :
             /\ pool' = pool \ {f, d}
             /\ dirs' = [dirs EXCEPT ![f] = d]
             /\ table' = [table EXCEPT
                    ![f] = [g \in Pages |-> IF g \in Shared(p) /\ d # NoFrame
                                            THEN [Pte(p, g) EXCEPT !.write = FALSE]
                                            ELSE Unmapped],
                    ![space[p].cr3] = Forked(p)]
             /\ space' = [space EXCEPT ![c] = ForkChild(p, f)]
             /\ lru' = IF Shared(p) # {} /\ d = NoFrame THEN {} ELSE lru
    /\ mm' = [mm EXCEPT ![c] = FreshMm]
    /\ expect' = [expect EXCEPT ![c] = expect[p]]
    /\ UNCHANGED <<data, extra, swapped, trap, clone, sw, wrongly, scenario>>

(* share_address_space, with the lock: the copy of the parent's record. *)
CloneCopy(p, c) ==
    /\ Runs(p, "clone")
    /\ Unborn(c)
    /\ clone = NoClone
    /\ clone' = [from |-> p, to |-> c, as |-> [space[p] EXCEPT !.owned = {}]]
    /\ UNCHANGED <<pool, data, space, table, dirs, extra, lru, swapped, trap, sw, mm, expect,
                   wrongly, scenario>>

(* ... then cr3_share and the insertion. *)
CloneInsert ==
    /\ clone # NoClone
    /\ extra' = [extra EXCEPT ![clone.as.cr3] = @ + 1]
    /\ space' = [space EXCEPT ![clone.to] = clone.as]
    /\ mm' = [mm EXCEPT ![clone.to] = mm[clone.from]]
    /\ expect' = [expect EXCEPT ![clone.to] = expect[clone.from]]
    /\ clone' = NoClone
    /\ UNCHANGED <<pool, data, table, dirs, lru, swapped, trap, sw, wrongly, scenario>>

(* Drop for AddressSpace: the owned frames and the L4 are wiped and freed. *)
Dropped(as) == as.owned \cup ({as.cr3} \ {NoFrame})

Wipe(freed) ==
    /\ pool' = pool \cup freed
    /\ data' = [f \in Frames |-> IF f \in freed THEN Zero ELSE data[f]]
    /\ table' = [f \in Frames |-> IF f \in freed THEN [g \in Pages |-> Unmapped] ELSE table[f]]
    /\ dirs' = [f \in Frames |-> IF f \in freed THEN NoFrame ELSE dirs[f]]

(* Mutant: CR3_EXTRA_REFS is not consulted. *)
DestroyIgnoresSharing(p) ==
    /\ Wipe(Dropped(space[p]))
    /\ space' = [space EXCEPT ![p] = NoSpace]
    /\ UNCHANGED extra

(* destroy_address_space: shared tables and frames go to a sibling. *)
Destroy(p) ==
    LET dying == space[p]
        siblings == {q \in Pids \ {p} : space[q].cr3 = dying.cr3}
    IN  IF extra[dying.cr3] > 0
        THEN /\ extra' = [extra EXCEPT ![dying.cr3] = @ - 1]
             /\ space' = IF siblings = {} THEN [space EXCEPT ![p] = NoSpace]
                         ELSE LET s == CHOOSE q \in siblings : \A r \in siblings : q <= r
                              IN  [space EXCEPT ![p] = NoSpace, ![s].owned = @ \cup dying.owned]
             /\ UNCHANGED <<pool, data, table, dirs>>
        ELSE /\ Wipe(Dropped(dying))
             /\ space' = [space EXCEPT ![p] = NoSpace]
             /\ UNCHANGED extra

(* Exit, or a kill by another CPU.  Without "orphans" in the workload a    *)
(* process outlives the children that share its frames.                    *)
Exit(p) ==
    /\ "exit" \in Workload
    /\ Live(p)
    /\ Free
    /\ "orphans" \in Workload \/ \A q \in Pids \ Peers(p) : \A g \in Pages :
           Live(q) => Pte(q, g).frame \notin space[p].owned
    /\ clone.from = p => Concurrent
    /\ Destroy(p)
    /\ trap' = [trap EXCEPT ![p] = NoTrap]
    /\ expect' = [expect EXCEPT ![p] = [g \in Pages |-> Absent]]
    /\ UNCHANGED <<lru, swapped, clone, sw, mm, wrongly, scenario>>

(* The record of the new program. *)
Replaced(p, f) == [NoSpace EXCEPT !.cr3 = f]

(* execve: replace_address_space builds the new tables, then drops the old *)
(* record; CR3_EXTRA_REFS is not consulted.                                *)
Exec(p) ==
    /\ Runs(p, "exec")
    /\ \E f \in Alloc(pool) :
           LET freed == Dropped(space[p])
           IN  /\ pool' = (pool \cup freed) \ {f}
               /\ data' = [x \in Frames |-> IF x \in freed THEN Zero ELSE data[x]]
               /\ table' = [x \in Frames |->
                      IF x \in freed \cup {f} THEN [g \in Pages |-> Unmapped] ELSE table[x]]
               /\ dirs' = [x \in Frames |-> IF x \in freed \cup {f} THEN NoFrame ELSE dirs[x]]
               /\ space' = [space EXCEPT ![p] = Replaced(p, f)]
    /\ mm' = [mm EXCEPT ![p] = FreshMm]
    /\ expect' = [expect EXCEPT ![p] = [g \in Pages |-> Absent]]
    /\ UNCHANGED <<extra, lru, swapped, trap, clone, sw, wrongly, scenario>>
-----------------------------------------------------------------------------
(* A store the page table permits. *)
Write(p, g, v) ==
    /\ Runs(p, "write")
    /\ Pte(p, g).write
    /\ data[Pte(p, g).frame] # v
    /\ data' = [data EXCEPT ![Pte(p, g).frame] = v]
    /\ ExpectAll(p, g, IF expect[p][g] = Absent THEN Absent ELSE v)
    /\ UNCHANGED <<pool, space, table, dirs, extra, lru, swapped, trap, clone, sw, mm, wrongly, scenario>>

(* An access the page table does not permit: #PF.  Without "segv" in the   *)
(* workload programs make no access the handler would kill them for.       *)
Trap(p, g, write) ==
    /\ Runs(p, "write")
    /\ expect[p][g] # Absent
    /\ Enough
    /\ "segv" \in Workload \/
           /\ \/ write /\ space[p].cow[g] # NoFrame
              \/ swapped[p][g] # Absent
              \/ space[p].vma[g] # "none" /\ Pte(p, g) = Unmapped
    /\ IF write THEN ~Pte(p, g).write ELSE Pte(p, g) = Unmapped
    /\ trap' = [trap EXCEPT ![p] = [page |-> g, write |-> write, on |-> TRUE]]
    /\ UNCHANGED <<pool, data, space, table, dirs, extra, lru, swapped, clone, sw, mm, expect,
                   wrongly, scenario>>

IsCow(p) == trap[p].write /\ space[p].cow[trap[p].page] # NoFrame
IsSwapped(p) == swapped[p][trap[p].page] # Absent
IsDemand(p) == space[p].vma[trap[p].page] # "none" /\ Pte(p, trap[p].page) = Unmapped

(* The flags the handlers map with: those of the VMA, or all of them. *)
VmaWrite(p, g) == space[p].vma[g] \in {"rw", "none"}

(* A fault is served: frame f, filled with bytes, is mapped at page g. *)
Serve(p, g, f, bytes) ==
    /\ data' = [data EXCEPT ![f] = bytes]
    /\ MapPage(space[p].cr3, g, f, VmaWrite(p, g), pool \ {f})
    /\ space' = [space EXCEPT ![p].owned = @ \cup {f}, ![p].cow[g] = IF IsCow(p) THEN NoFrame ELSE @]
    /\ trap' = [trap EXCEPT ![p] = NoTrap]
    /\ UNCHANGED <<extra, clone, sw, mm, expect, wrongly, scenario>>

(* Mutant: the new frame is not filled. *)
CowFaultNoCopy(p) ==
    /\ trap[p].on /\ IsCow(p)
    /\ \E f \in Alloc(pool) : Serve(p, trap[p].page, f, Zero) /\ lru' = LruAfter(p, {f})
    /\ UNCHANGED swapped

(* handle_cow_fault *)
CowFault(p) ==
    LET g == trap[p].page
    IN  /\ trap[p].on /\ IsCow(p)
        /\ \E f \in Alloc(pool) :
               /\ Serve(p, g, f, data[space[p].cow[g]])
               /\ lru' = LruAfter(p, {f})
        /\ UNCHANGED swapped

(* handle_swap_in *)
SwapIn(p) ==
    LET g == trap[p].page
    IN  /\ trap[p].on /\ ~IsCow(p) /\ IsSwapped(p)
        /\ \E f \in Alloc(pool) :
               /\ Serve(p, g, f, swapped[p][g])
               /\ lru' = LruAfter(p, {f}) \cup {<<p, g>>}
        /\ swapped' = [swapped EXCEPT ![p][g] = Absent]

(* handle_demand_fault *)
DemandFault(p) ==
    LET g == trap[p].page
    IN  /\ trap[p].on /\ ~IsCow(p) /\ ~IsSwapped(p) /\ IsDemand(p)
        /\ \E f \in Alloc(pool) :
               /\ Serve(p, g, f, Zero)
               /\ lru' = LruAfter(p, {f}) \cup {<<p, g>>}
        /\ UNCHANGED swapped

(* No handler took the fault, or the pool is empty: SIGSEGV. *)
Unhandled(p) ==
    /\ trap[p].on
    /\ Live(p)
    /\ pool = {} \/ ~(IsCow(p) \/ IsSwapped(p) \/ IsDemand(p))
    /\ wrongly' = IF pool # {} /\ expect[p][trap[p].page] # Absent
                       /\ (trap[p].write => VmaWrite(p, trap[p].page))
                  THEN wrongly \cup {p} ELSE wrongly
    /\ lru' = IF pool = {} /\ (IsCow(p) \/ IsDemand(p)) THEN {} ELSE lru
    /\ Destroy(p)
    /\ trap' = [trap EXCEPT ![p] = NoTrap]
    /\ expect' = [expect EXCEPT ![p] = [g \in Pages |-> Absent]]
    /\ UNCHANGED <<swapped, clone, sw, mm, scenario>>
-----------------------------------------------------------------------------
(* reclaim_anonymous, for an allocation made without the lock (spawn,      *)
(* execve) that finds the pool empty.                                      *)
Reclaim ==
    /\ "swap" \in Workload
    /\ Free
    /\ sw = NoSwap
    /\ pool = {}
    /\ lru # {}
    /\ sw' = [NoSwap EXCEPT !.stage = "next"]
    /\ UNCHANGED <<pool, data, space, table, dirs, extra, lru, swapped, trap, clone, mm, expect,
                   wrongly, scenario>>

ReclaimEnds ==
    /\ sw.stage = "next"
    /\ lru = {}
    /\ sw' = NoSwap
    /\ UNCHANGED <<pool, data, space, table, dirs, extra, lru, swapped, trap, clone, mm, expect,
                   wrongly, scenario>>

(* swap_out_page: the victim has left the list; an unmapped page, or, on   *)
(* try_lock, a lock that another CPU holds, ends it.                       *)
SwapPick(p, g) ==
    /\ sw.stage = "next"
    /\ <<p, g>> \in lru
    /\ lru' = lru \ {<<p, g>>}
    /\ \/ /\ Mapped(p, g)
          /\ sw' = [pid |-> p, page |-> g, frame |-> Pte(p, g).frame, stage |-> "copy"]
       \/ /\ Mapped(p, g) => Concurrent
          /\ UNCHANGED sw
    /\ UNCHANGED <<pool, data, space, table, dirs, extra, swapped, trap, clone, mm, expect,
                   wrongly, scenario>>

(* ... its bytes are read through the page table and stored, ... *)
SwapCopy ==
    LET p == sw.pid
        g == sw.page
        bytes == IF Mapped(p, g) THEN data[Pte(p, g).frame] ELSE Zero
    IN  /\ sw.stage = "copy"
        /\ swapped' = [swapped EXCEPT ![p][g] = bytes]
        /\ sw' = [sw EXCEPT !.stage = "unmap"]
        /\ UNCHANGED <<pool, data, space, table, dirs, extra, lru, trap, clone, mm, expect,
                       wrongly, scenario>>

(* ... no slot may be left, or the second try_lock may fail, ... *)
SwapGivesUp ==
    /\ \/ sw.stage = "copy" /\ "swap_full" \in Workload
       \/ sw.stage = "unmap" /\ Concurrent
    /\ sw' = [NoSwap EXCEPT !.stage = "next"]
    /\ UNCHANGED <<pool, data, space, table, dirs, extra, lru, swapped, trap, clone, mm, expect,
                   wrongly, scenario>>

(* ... or the page is unmapped and its frame freed. *)
SwapUnmap ==
    LET p == sw.pid
    IN  /\ sw.stage = "unmap"
        /\ space' = IF Live(p) THEN [space EXCEPT ![p].owned = @ \ {sw.frame}] ELSE space
        /\ table' = IF Live(p) THEN [table EXCEPT ![space[p].cr3][sw.page] = Unmapped] ELSE table
        /\ pool' = pool \cup {sw.frame}
        /\ data' = [data EXCEPT ![sw.frame] = Zero]
        /\ sw' = [NoSwap EXCEPT !.stage = "next"]
        /\ UNCHANGED <<dirs, extra, lru, swapped, trap, clone, mm, expect, wrongly, scenario>>
-----------------------------------------------------------------------------
Next ==
    \/ \E p \in Pids :
          \/ \E g \in scenario.pages : \/ \E prot \in {"ro", "rw"} : Mmap(p, g, prot) \/ Mprotect(p, g, prot)
                                       \/ Munmap(p, g)
          \/ Create(p)
          \/ BrkGrow(p) \/ BrkShrink(p)
          \/ \E c \in Pids : Fork(p, c) \/ CloneCopy(p, c)
          \/ Exec(p) \/ Exit(p)
          \/ \E g \in Pages : \/ \E v \in scenario.values : Write(p, g, v)
                              \/ \E write \in BOOLEAN : Trap(p, g, write)
                              \/ SwapPick(p, g)
          \/ CowFault(p) \/ SwapIn(p) \/ DemandFault(p) \/ Unhandled(p)
    \/ CloneInsert
    \/ Reclaim \/ ReclaimEnds \/ SwapCopy \/ SwapGivesUp \/ SwapUnmap

Spec == Init /\ [][Next]_vars
-----------------------------------------------------------------------------
(* The frames, tables, records and pending operations have their types.    *)
TypeOK ==
    /\ pool \subseteq Frames
    /\ data \in [Frames -> Values \cup {Zero}]
    /\ table \in [Frames -> [Pages -> [frame : Frames \cup {NoFrame}, write : BOOLEAN]]]
    /\ dirs \in [Frames -> Frames \cup {NoFrame}]
    /\ extra \in [Frames -> 0 .. Cardinality(Pids)]
    /\ lru \subseteq Pids \X Pages
    /\ \A p \in Pids :
          /\ space[p].cr3 \in Frames \cup {NoFrame}
          /\ space[p].vma \in [Pages -> {"none", "ro", "rw"}]
          /\ space[p].brk \in BOOLEAN
          /\ space[p].owned \subseteq Frames
          /\ space[p].cow \in [Pages -> Frames \cup {NoFrame}]
          /\ \A g \in Pages : {swapped[p][g], expect[p][g]} \subseteq Values \cup {Zero, Absent}
    /\ sw.stage \in {"none", "next", "copy", "unmap"}

(* On one CPU, and on several as long as no process ends during a          *)
(* swap_out_page: every frame an address space will free has one owner and *)
(* is not free already.  owned_frames of live address spaces are disjoint  *)
(* from each other and from the pool, so Drop frees no frame twice.        *)
Ownership ==
    ~(Concurrent /\ "swap" \in Workload /\ Workload \cap {"exit", "segv", "exec"} # {}) =>
        \A p, q \in Pids :
            /\ space[p].owned \cap pool = {}
            /\ p # q => space[p].owned \cap space[q].owned = {}

(* A live process runs on page tables that nobody has freed, and two       *)
(* processes share them only after clone(CLONE_VM); programs with threads  *)
(* do not call execve and are not killed from another CPU.                 *)
TablesLive ==
    ("clone" \in Workload => ~Concurrent /\ "exec" \notin Workload) =>
        \A p, q \in Pids : Live(p) =>
            /\ space[p].cr3 \notin pool
            /\ space[p].cr3 = space[q].cr3 => mm[p] = mm[q]

(* Processes keep the frames their children share: they outlive them, and  *)
(* no execve, fatal fault or swap-out takes the frames away.               *)
ParentsStay == "fork" \in Workload => Workload \cap {"orphans", "exec", "segv", "swap"} = {}

(* No process maps a frame of the pool: a freed frame is not used after    *)
(* free_physical_frame returns (mm/vmm/frame.rs:238-239).                  *)
MappedFramesLive ==
    \A p \in Pids, g \in Pages : Live(p) => Pte(p, g).frame \notin pool

(* No freed frame is mapped as long as processes outlive the children that *)
(* share their frames, swap-out beside faults on other CPUs included.      *)
MappedWhileParentsStay == ParentsStay => MappedFramesLive

(* Copy-on-write: a frame that two memories map is writable in neither,    *)
(* through forks, exits and faults in any order.  mprotect ignores it.     *)
CowSound ==
    ParentsStay /\ "mprotect" \notin Workload =>
        \A p, q \in Pids, g, h \in Pages :
            Live(p) /\ Live(q) /\ mm[p] # mm[q] /\ Pte(p, g).frame = Pte(q, h).frame =>
                ~Pte(p, g).write

(* A process reads what it last wrote, what its parent had at the fork, or *)
(* zero in a new mapping, wherever the page is: in its frame, in swap, or  *)
(* not yet there.                                                          *)
ReadsExpected ==
    \A p \in Pids, g \in Pages :
        Live(p) /\ expect[p][g] # Absent =>
            expect[p][g] = IF Pte(p, g) # Unmapped THEN data[Pte(p, g).frame]
                           ELSE IF swapped[p][g] # Absent THEN swapped[p][g]
                           ELSE Zero

(* On one CPU memory is as expected through forks whose parents stay,      *)
(* through threads that exit in any order, and through swap: any one of    *)
(* the three, with mappings that are made and not taken away or changed.   *)
ReadsExpectedOneCpu ==
    /\ ~Concurrent
    /\ ParentsStay
    /\ Workload \cap {"munmap", "mprotect", "threads_mmap"} = {}
    /\ Cardinality(Workload \cap {"fork", "clone", "swap"}) <= 1
    /\ "fork" \in Workload => Workload \cap {"brk", "oom"} = {}
    => ReadsExpected

(* The page-fault handler never kills a process for an access its mappings *)
(* permit while memory is left.                                            *)
NoWrongKill == wrongly = {}

(* What a process frees at its end is its own: its frames have no other    *)
(* owner, and the page tables of a live process are not freed.             *)
FramesOwned == TypeOK /\ Ownership /\ TablesLive

(* A frame that is mapped is not free, and one that two memories map is    *)
(* writable in neither.                                                    *)
FramesShared == MappedWhileParentsStay /\ CowSound
=============================================================================
