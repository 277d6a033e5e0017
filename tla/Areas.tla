------------------------------- MODULE Areas -------------------------------
(***************************************************************************)
(* The virtual memory areas of one process (mm/vmm/space.rs): mmap, munmap *)
(* and mprotect cut, move and recolour intervals of pages, and a fault     *)
(* maps a page as the area over it says.                                   *)
(*                                                                         *)
(* Every call holds ADDRESS_SPACES from its first access to its last and   *)
(* is one action.  Addresses and lengths are counted in pages, as          *)
(* page_align_down and page_align_up leave them.  ar_work is what the      *)
(* program does: the kinds of mappings it asks for, and the habits after   *)
(* which the areas and the program no longer agree.                        *)
(***************************************************************************)
EXTENDS Integers

CONSTANTS
    MmapStart, MmapEnd,   \* the pages that mmap hands out by itself
    ArTop,                \* the last page of user memory, the stack
    ArSizes, ArHints,     \* lengths and addresses asked for: bounds
    ArProts,              \* protections asked for
    ArOffsets,            \* offsets of file mappings: a bound
    ArWorkloads           \* programs

Prots == {"none", "r", "rw"}

ASSUME ArAssumption ==
    /\ MmapStart \in Nat \ {0} /\ MmapEnd \in Nat /\ ArTop \in Nat
    /\ MmapStart <= MmapEnd /\ MmapEnd < ArTop
    /\ ArSizes \subseteq Nat \ {0} /\ ArProts \subseteq Prots /\ ArOffsets \subseteq Nat

VARIABLES
    vmas,        \* AddressSpace.vmas
    mmap_next,   \* AddressSpace.mmap_next
    ptes,        \* what the page tables map
    meant,       \* history: what the program's calls ask each page to be
    ar_work      \* the program

arVars == <<vmas, mmap_next, ptes, meant, ar_work>>

ArPages == 1 .. ArTop
Range(at, size) == at .. at + size - 1
Does(habit) == habit \in ar_work

(* A page holds zeros or a page of the file, and may be used as prot says. *)
Zeros == -1
Nothing == [prot |-> "gone", data |-> Zeros]

Area(start, end, prot, kind, offset) ==
    [start |-> start, end |-> end, prot |-> prot, kind |-> kind, offset |-> offset]
Contains(v, p) == v.start <= p /\ p < v.end
PageOf(v, p) == [prot |-> v.prot, data |-> IF v.kind = "file" THEN v.offset + (p - v.start) ELSE Zeros]

(* to_page_flags: a present page can be read, whatever the protection. *)
Mapped(page) == [page EXCEPT !.prot = IF page.prot = "rw" THEN "rw" ELSE "r"]

(* add_vma: a map from starts to areas. *)
AddVma(S, v) == {w \in S : w.start # v.start} \cup {v}

(* find_vma: the area with the last start at or below p, if it holds p. *)
FindVma(p) == {v \in vmas : Contains(v, p) /\ \A w \in vmas : w.start <= p => w.start <= v.start}

(* map_stack: a guard and the stack above it, which is mapped at once. *)
GuardArea == Area(ArTop - 1, ArTop, "none", "guard", 0)
StackArea == Area(ArTop, ArTop + 1, "rw", "stack", 0)

ArInit ==
    /\ ar_work \in ArWorkloads
    /\ vmas = {GuardArea, StackArea}
    /\ mmap_next = MmapEnd
    /\ ptes = [p \in ArPages |-> IF p = ArTop THEN Mapped(PageOf(StackArea, p)) ELSE Nothing]
    /\ meant = [p \in ArPages |-> IF p = ArTop THEN PageOf(StackArea, p)
                                  ELSE IF p = ArTop - 1 THEN PageOf(GuardArea, p) ELSE Nothing]
-----------------------------------------------------------------------------
IsRegionFree(start, size) == \A v \in vmas : ~(v.start < start + size /\ v.end > start)

(* allocate_mmap_region: below the last one, or the first free spot under  *)
(* that; the last size - 1 spots are not tried.                            *)
Lower(size) == mmap_next - size
HasRoom(size) == mmap_next >= MmapStart + size
Spots(size) == {c \in MmapStart + size - 1 .. Lower(size) - 1 : IsRegionFree(c, size)}

Allocated(size, at) ==
    /\ HasRoom(size)
    /\ IF IsRegionFree(Lower(size), size)
       THEN at = Lower(size)
       ELSE at \in Spots(size) /\ \A c \in Spots(size) : c <= at

TakesAddr(addr, size, fixed) == addr # 0 /\ (fixed \/ IsRegionFree(addr, size))

(* Where mmap_anonymous puts a mapping, and mmap_next after it. *)
Placed(addr, size, fixed, at, next) ==
    IF TakesAddr(addr, size, fixed)
    THEN at = addr /\ next = mmap_next
    ELSE Allocated(size, at) /\ next = at

(* mmap_anonymous and mmap_file, as seen when they return. *)
Mmap(addr, size, fixed, populate, prot, kind, offset) ==
    \E at \in ArPages, next \in MmapStart .. MmapEnd :
        LET new == Area(at, at + size, prot, kind, offset)
        IN  /\ Placed(addr, size, fixed, at, next)
            /\ Range(at, size) \subseteq ArPages
            /\ vmas' = AddVma(vmas, new)
            /\ mmap_next' = next
            /\ ptes' = [p \in ArPages |-> IF populate /\ p \in Range(at, size)
                                          THEN Mapped(PageOf(new, p)) ELSE ptes[p]]
            /\ meant' = [p \in ArPages |-> IF p \in Range(at, size) THEN PageOf(new, p) ELSE meant[p]]
            /\ UNCHANGED ar_work

(* ENOMEM: no spot, although mmap_next has gone down. *)
MmapNoSpot(size) ==
    /\ HasRoom(size) /\ ~IsRegionFree(Lower(size), size) /\ Spots(size) = {}
    /\ mmap_next' = Lower(size)
    /\ UNCHANGED <<vmas, ptes, meant, ar_work>>

(* ENOMEM: MAP_POPULATE finds no frame after n pages, which stay mapped. *)
MmapNoFrame(addr, size, fixed, prot, n) ==
    \E at \in ArPages, next \in MmapStart .. MmapEnd :
        LET new == Area(at, at + n, prot, "anon", 0)
        IN  /\ Placed(addr, size, fixed, at, next)
            /\ Range(at, size) \subseteq ArPages
            /\ mmap_next' = next
            /\ ptes' = [p \in ArPages |-> IF p \in Range(at, n) THEN Mapped(PageOf(new, p)) ELSE ptes[p]]
            /\ UNCHANGED <<vmas, meant, ar_work>>
-----------------------------------------------------------------------------
Hit(addr, end) == {v \in vmas : v.start < end /\ v.end > addr}
Heads(addr, end) == {[v EXCEPT !.end = addr] : v \in {w \in Hit(addr, end) : w.start < addr}}
Tails(addr, end) == {v \in Hit(addr, end) : v.end > end}

(* Mutant: what is behind the range goes with it. *)
CutHeadsOnly(addr, end) == vmas' = (vmas \ Hit(addr, end)) \cup Heads(addr, end)

(* The areas that munmap splits: a tail keeps the offset of its area, and  *)
(* of two tails at one address the last one stays.                         *)
Cut(addr, end) ==
    LET rest == (vmas \ Hit(addr, end)) \cup Heads(addr, end)
    IN  IF Tails(addr, end) = {}
        THEN vmas' = rest
        ELSE \E v \in Tails(addr, end) :
                /\ \A w \in Tails(addr, end) : w.start <= v.start
                /\ vmas' = AddVma(rest, [v EXCEPT !.start = end])

Unmap(addr, size) ==
    /\ Cut(addr, addr + size)
    /\ ptes' = [p \in ArPages |-> IF p \in Range(addr, size) /\ \E v \in vmas : Contains(v, p)
                                  THEN Nothing ELSE ptes[p]]
    /\ UNCHANGED <<mmap_next, ar_work>>

Munmap(addr, size) ==
    /\ Unmap(addr, size)
    /\ meant' = [p \in ArPages |-> IF p \in Range(addr, size) THEN Nothing ELSE meant[p]]

(* madvise(MADV_DONTNEED): the pages should come again when they are used. *)
MadviseDontneed(addr, size) == Unmap(addr, size) /\ UNCHANGED meant

(* mprotect: one area has to cover the range, and changes as a whole. *)
Mprotect(addr, size, prot) ==
    \E v \in FindVma(addr) :
        /\ v.end >= addr + size
        /\ vmas' = AddVma(vmas, [v EXCEPT !.prot = prot])
        /\ ptes' = [p \in ArPages |-> IF p \in Range(addr, size) /\ ptes[p] # Nothing
                                      THEN Mapped([ptes[p] EXCEPT !.prot = prot]) ELSE ptes[p]]
        /\ meant' = [p \in ArPages |-> IF p \in Range(addr, size) THEN [meant[p] EXCEPT !.prot = prot] ELSE meant[p]]
        /\ UNCHANGED <<mmap_next, ar_work>>

(* handle_demand_fault *)
DemandFault(p) ==
    \E v \in FindVma(p) :
        /\ v.kind # "guard" /\ ptes[p] = Nothing
        /\ ptes' = [ptes EXCEPT ![p] = Mapped(PageOf(v, p))]
        /\ UNCHANGED <<vmas, mmap_next, meant, ar_work>>
-----------------------------------------------------------------------------
(* A program that is careful maps MAP_FIXED where nothing is, protects     *)
(* whole areas, and does not cut off the head of a file mapping.           *)
MapsFree(addr, size, fixed) == Does("over") \/ (fixed /\ addr # 0 => Hit(addr, addr + size) = {})
ProtectsWhole(addr, size) == Does("part") \/ \A v \in FindVma(addr) : v.start = addr /\ v.end = addr + size
CutsBehind(addr, size) == Does("head") \/ \A v \in Tails(addr, addr + size) : v.kind # "file"

Addrs(size) == {a \in ArPages : a + size - 1 \in ArPages}
MapKinds == IF Does("file") THEN {"anon", "file"} ELSE {"anon"}
Hints(size) == IF Does("hint") THEN {0} \cup (ArHints \cap Addrs(size)) ELSE {0}

ArNext ==
    \/ \E size \in ArSizes : \E addr \in Hints(size), fixed, populate \in BOOLEAN, prot \in ArProts,
                                kind \in MapKinds, offset \in ArOffsets :
            /\ MapsFree(addr, size, fixed) /\ (kind # "file" => offset = 0)
            /\ \/ Mmap(addr, size, fixed, populate, prot, kind, offset)
               \/ Does("oom") /\ \E n \in 0 .. size - 1 : MmapNoFrame(addr, size, fixed, prot, n)
    \/ \E size \in ArSizes : MmapNoSpot(size)
    \/ \E size \in ArSizes : \E addr \in Addrs(size) : CutsBehind(addr, size) /\ Munmap(addr, size)
    \/ \E size \in ArSizes : \E addr \in Addrs(size) : Does("advise") /\ MadviseDontneed(addr, size)
    \/ \E size \in ArSizes, prot \in ArProts : \E addr \in Addrs(size) :
            ProtectsWhole(addr, size) /\ Mprotect(addr, size, prot)
    \/ \E p \in ArPages : DemandFault(p)

ArSpec == ArInit /\ [][ArNext]_arVars
-----------------------------------------------------------------------------
ArAreas == [start : Nat, end : Nat, prot : Prots, kind : {"anon", "file", "stack", "guard"}, offset : Nat]
ArEntries == [prot : Prots \cup {"gone"}, data : Nat \cup {Zeros}]

ArType ==
    /\ vmas \subseteq ArAreas
    /\ mmap_next \in MmapStart .. MmapEnd
    /\ ptes \in [ArPages -> ArEntries]
    /\ meant \in [ArPages -> ArEntries]

(* Areas are not empty and do not overlap, through splits, hints and       *)
(* searches for a spot, unless the program maps over others: is_region_free *)
(* and find_vma are right only then.                                       *)
AreasApart ==
    ~Does("over") =>
        /\ \A v \in vmas : v.start < v.end
        /\ \A v, w \in vmas : v # w => v.end <= w.start \/ w.end <= v.start

Careful == \A habit \in {"over", "part", "head", "advise"} : ~Does(habit)

(* For a careful program, what find_vma says of every page is what its     *)
(* calls asked for: the protection, and the page of the file.              *)
AreasExact ==
    Careful => \A p \in ArPages : {PageOf(v, p) : v \in FindVma(p)} = {meant[p]} \ {Nothing}

(* ... and what is mapped is that, if no MAP_POPULATE fails half way.      *)
PagesMatch ==
    Careful /\ ~Does("oom") => \A p \in ArPages : ptes[p] # Nothing => meant[p] # Nothing /\ ptes[p] = Mapped(meant[p])

(* After any sequence of mmap, munmap, mprotect and faults the areas are   *)
(* disjoint, and a page is what the program asked for.                     *)
AreasSound == ArType /\ AreasApart /\ AreasExact /\ PagesMatch
=============================================================================
