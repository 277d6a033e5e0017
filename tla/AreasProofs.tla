---------------------------- MODULE AreasProofs ----------------------------
(***************************************************************************)
(* AreasSound for every layout of the address space, every set of sizes,   *)
(* hints, protections and offsets, and every program.                      *)
(***************************************************************************)
EXTENDS Areas, TLAPS

(* AreasExact without find_vma: every area over a page, not only the one   *)
(* with the last start, says what the page is meant to be.                 *)
ExactAt(p) ==
    /\ \A v \in vmas : Contains(v, p) => PageOf(v, p) = meant[p]
    /\ meant[p] # Nothing => \E v \in vmas : Contains(v, p)

ArExact == Careful => \A p \in ArPages : ExactAt(p)

ArInv == ArType /\ AreasApart /\ ArExact /\ PagesMatch

(* What mmap may rely on: a spot that no area touches. *)
Free(at, size) == \A v \in vmas : v.end <= at \/ at + size <= v.start
-----------------------------------------------------------------------------
(* Where areas do not overlap, find_vma finds the area over a page. *)
LEMMA FindVmaFinds ==
    ASSUME ArType, AreasApart, ~Does("over"), NEW p \in ArPages
    PROVE  FindVma(p) = {v \in vmas : Contains(v, p)}
BY ArAssumption DEF ArType, AreasApart, FindVma, Contains, ArAreas, ArPages

(* What an area says of a page is a page, never Nothing. *)
LEMMA PageOfType ==
    ASSUME NEW v \in ArAreas, NEW p \in ArPages, Contains(v, p)
    PROVE  /\ PageOf(v, p) \in ArEntries /\ PageOf(v, p) # Nothing
           /\ PageOf(v, p).prot \in Prots
BY ArAssumption DEF ArAreas, ArPages, Contains, PageOf, ArEntries, Nothing, Prots, Zeros

LEMMA MappedType ==
    ASSUME NEW e \in ArEntries
    PROVE  Mapped(e) \in ArEntries /\ Mapped(e) # Nothing
BY DEF ArEntries, Mapped, Nothing, Prots

(* The invariant says of find_vma what AreasExact says. *)
LEMMA InvGivesSound == ArInv => AreasSound
<1> SUFFICES ASSUME ArInv PROVE AreasExact
  BY DEF ArInv, AreasSound
<1>1. SUFFICES ASSUME Careful, NEW p \in ArPages
               PROVE  {PageOf(v, p) : v \in FindVma(p)} = {meant[p]} \ {Nothing}
  BY DEF AreasExact
<1>2. FindVma(p) = {v \in vmas : Contains(v, p)}
  BY <1>1, FindVmaFinds DEF ArInv, Careful
<1>3. ExactAt(p)
  BY <1>1 DEF ArInv, ArExact
<1>4. \A v \in vmas : Contains(v, p) => PageOf(v, p) # Nothing
  BY PageOfType DEF ArInv, ArType
<1> HIDE DEF Nothing, PageOf, Contains
<1>5. QED BY <1>2, <1>3, <1>4 DEF ExactAt

LEMMA AreasInit == ArInit => ArInv
<1> SUFFICES ASSUME ArInit PROVE ArInv
  OBVIOUS
<1>1. ArTop \in ArPages /\ ArTop - 1 \in Nat /\ GuardArea \in ArAreas /\ StackArea \in ArAreas
  BY ArAssumption DEF ArPages, ArAreas, GuardArea, StackArea, Area, Prots
<1>2. Contains(StackArea, ArTop) /\ PageOf(StackArea, ArTop) \in ArEntries
  BY <1>1, PageOfType, ArAssumption DEF Contains, StackArea, Area
<1>3. \A p \in ArPages : /\ Contains(StackArea, p) <=> p = ArTop
                         /\ Contains(GuardArea, p) <=> p = ArTop - 1
  BY ArAssumption DEF Contains, StackArea, GuardArea, Area, ArPages
<1>4. \A p \in ArPages : p = ArTop - 1 => PageOf(GuardArea, p) \in ArEntries
  BY <1>1, <1>3, PageOfType
<1>5. Nothing \in ArEntries /\ Mapped(PageOf(StackArea, ArTop)) \in ArEntries
  BY <1>2, MappedType DEF ArEntries, Nothing, Zeros
<1>6. ArType
  <2>1. ptes \in [ArPages -> ArEntries]
    BY <1>5 DEF ArInit
  <2>2. meant \in [ArPages -> ArEntries]
    BY <1>2, <1>4, <1>5 DEF ArInit
  <2>3. QED BY <1>1, <2>1, <2>2, ArAssumption DEF ArInit, ArType
<1>7. AreasApart
  BY ArAssumption DEF ArInit, AreasApart, GuardArea, StackArea, Area
<1>8. ArExact
  <2> SUFFICES ASSUME NEW p \in ArPages PROVE ExactAt(p)
    BY DEF ArExact
  <2> ArTop # ArTop - 1
    BY ArAssumption
  <2> QED BY <1>3 DEF ExactAt, ArInit
<1>9. PagesMatch
  <2>1. PageOf(StackArea, ArTop) # Nothing
    BY <1>1, <1>2, PageOfType
  <2>2. QED BY <2>1 DEF PagesMatch, ArInit
<1> QED BY <1>6, <1>7, <1>8, <1>9 DEF ArInv
-----------------------------------------------------------------------------
(* Wherever mmap puts a mapping, mmap_next stays in its region. *)
LEMMA PlacedFree ==
    ASSUME ArInv, NEW addr \in Nat, NEW size \in ArSizes, NEW fixed \in BOOLEAN,
           NEW at \in ArPages, NEW next \in MmapStart .. MmapEnd,
           MapsFree(addr, size, fixed), ~Does("over"), Placed(addr, size, fixed, at, next)
    PROVE  Free(at, size)
<1> size \in Nat /\ at \in Nat /\ mmap_next \in Nat /\ MmapStart \in Nat
  BY ArAssumption DEF ArPages, ArInv, ArType
<1>1. \A a \in Int : IsRegionFree(a, size) => Free(a, size)
  BY DEF ArInv, ArType, IsRegionFree, Free, ArAreas
<1>2. Hit(addr, addr + size) = {} => Free(addr, size)
  BY DEF Hit, Free, ArInv, ArType, ArAreas
<1>3. CASE TakesAddr(addr, size, fixed)
  BY <1>1, <1>2, <1>3 DEF TakesAddr, Placed, MapsFree
<1>4. CASE ~TakesAddr(addr, size, fixed)
  BY <1>1, <1>4 DEF Placed, Allocated, Spots, Lower
<1> QED BY <1>3, <1>4

LEMMA MmapKeeps ==
    ASSUME ArInv, NEW size \in ArSizes, NEW addr \in Nat, NEW fixed \in BOOLEAN, NEW populate \in BOOLEAN,
           NEW prot \in ArProts, NEW kind \in {"anon", "file"}, NEW offset \in ArOffsets,
           MapsFree(addr, size, fixed), Mmap(addr, size, fixed, populate, prot, kind, offset)
    PROVE  ArInv'
<1>1. PICK at \in ArPages, next \in MmapStart .. MmapEnd :
        LET new == Area(at, at + size, prot, kind, offset)
        IN  /\ Placed(addr, size, fixed, at, next)
            /\ Range(at, size) \subseteq ArPages
            /\ vmas' = AddVma(vmas, new)
            /\ mmap_next' = next
            /\ ptes' = [p \in ArPages |-> IF populate /\ p \in Range(at, size)
                                          THEN Mapped(PageOf(new, p)) ELSE ptes[p]]
            /\ meant' = [p \in ArPages |-> IF p \in Range(at, size) THEN PageOf(new, p) ELSE meant[p]]
            /\ UNCHANGED ar_work
  BY DEF Mmap
<1> DEFINE new == Area(at, at + size, prot, kind, offset)
<1> size \in Nat \ {0} /\ at \in Nat /\ offset \in Nat
  BY ArAssumption DEF ArPages
<1>2. new \in ArAreas /\ new.start = at /\ new.end = at + size
  BY ArAssumption DEF Area, ArAreas
<1>3. \A p \in ArPages : p \in Range(at, size) <=> Contains(new, p)
  BY <1>2 DEF Range, Contains, ArPages
<1>4. \A habit : Does(habit)' = Does(habit)
  BY <1>1 DEF Does
<1>5. ~Does("over") => Free(at, size)
  BY <1>1, PlacedFree
<1> HIDE DEF new
<1>6. ArType'
  <2>1. vmas' \subseteq ArAreas
    BY <1>1, <1>2 DEF AddVma, ArInv, ArType, new
  <2>2. \A p \in ArPages : p \in Range(at, size) => PageOf(new, p) \in ArEntries /\ Mapped(PageOf(new, p)) \in ArEntries
    BY <1>2, <1>3, PageOfType, MappedType
  <2>3. ptes' \in [ArPages -> ArEntries] /\ meant' \in [ArPages -> ArEntries]
    BY <1>1, <2>2 DEF ArInv, ArType, new
  <2>4. QED BY <1>1, <2>1, <2>3 DEF ArType
<1>7. ~Does("over") => vmas' = vmas \cup {new} /\ \A v \in vmas : v.start < v.end
  BY <1>1, <1>2, <1>5 DEF AddVma, Free, ArInv, AreasApart, ArType, ArAreas, new
<1>8. AreasApart'
  BY <1>2, <1>4, <1>5, <1>7 DEF AreasApart, Free, ArInv, ArType, ArAreas
<1>9. ASSUME ~Does("over"), NEW p \in ArPages, p \in Range(at, size)
      PROVE  \A v \in vmas : ~Contains(v, p)
  BY <1>5, <1>9, ArAssumption DEF Free, Range, Contains, ArInv, ArType, ArAreas, ArPages
<1>10. ArExact'
  <2> SUFFICES ASSUME Careful, NEW p \in ArPages PROVE ExactAt(p)'
    BY <1>4 DEF ArExact, Careful
  <2>1. ~Does("over") /\ ExactAt(p)
    BY DEF Careful, ArInv, ArExact
  <2>2. CASE p \in Range(at, size)
    BY <1>1, <1>3, <1>7, <1>9, <2>1, <2>2 DEF ExactAt, new
  <2>3. CASE p \notin Range(at, size)
    BY <1>1, <1>3, <1>7, <2>1, <2>3 DEF ExactAt
  <2> QED BY <2>2, <2>3
<1>11. PagesMatch'
  <2> SUFFICES ASSUME Careful, ~Does("oom"), NEW p \in ArPages, ptes'[p] # Nothing
               PROVE  meant'[p] # Nothing /\ ptes'[p] = Mapped(meant'[p])
    BY <1>4 DEF PagesMatch, Careful
  <2>1. ~Does("over") /\ ExactAt(p) /\ (ptes[p] # Nothing => meant[p] # Nothing /\ ptes[p] = Mapped(meant[p]))
    BY DEF Careful, ArInv, ArExact, PagesMatch
  <2>2. CASE p \in Range(at, size)
    <3>1. PageOf(new, p) # Nothing
      BY <1>2, <1>3, <2>2, PageOfType
    <3>2. meant[p] = Nothing /\ ptes[p] = Nothing
      BY <1>9, <2>1, <2>2 DEF ExactAt
    <3>3. QED BY <1>1, <2>2, <3>1, <3>2 DEF new
  <2>3. CASE p \notin Range(at, size)
    BY <1>1, <2>1, <2>3
  <2> QED BY <2>2, <2>3
<1> QED BY <1>6, <1>8, <1>10, <1>11 DEF ArInv
-----------------------------------------------------------------------------
LEMMA NoSpotKeeps ==
    ASSUME ArInv, NEW size \in ArSizes, MmapNoSpot(size)
    PROVE  ArInv'
<1> mmap_next' \in MmapStart .. MmapEnd
  BY ArAssumption DEF MmapNoSpot, HasRoom, Lower, ArInv, ArType
<1> QED BY DEF MmapNoSpot, ArInv, ArType, AreasApart, ArExact, ExactAt, PagesMatch, Careful, Does

LEMMA NoFrameKeeps ==
    ASSUME ArInv, NEW size \in ArSizes, NEW addr \in Nat, NEW fixed \in BOOLEAN, NEW prot \in ArProts,
           NEW n \in 0 .. size - 1, Does("oom"), MmapNoFrame(addr, size, fixed, prot, n)
    PROVE  ArInv'
<1>1. PICK at \in ArPages, next \in MmapStart .. MmapEnd :
        /\ mmap_next' = next
        /\ ptes' = [p \in ArPages |-> IF p \in Range(at, n)
                                      THEN Mapped(PageOf(Area(at, at + n, prot, "anon", 0), p)) ELSE ptes[p]]
        /\ UNCHANGED <<vmas, meant, ar_work>>
  BY DEF MmapNoFrame
<1> DEFINE new == Area(at, at + n, prot, "anon", 0)
<1> n \in Nat /\ at \in Nat
  BY ArAssumption DEF ArPages
<1>2. new \in ArAreas /\ \A p \in ArPages : p \in Range(at, n) => Contains(new, p)
  BY ArAssumption DEF Area, ArAreas, Range, Contains, ArPages
<1> HIDE DEF new
<1>3. \A p \in ArPages : p \in Range(at, n) => Mapped(PageOf(new, p)) \in ArEntries
  BY <1>2, PageOfType, MappedType
<1>4. ptes' \in [ArPages -> ArEntries]
  BY <1>1, <1>3 DEF ArInv, ArType, new
<1>5. ArType' /\ AreasApart' /\ ArExact'
  BY <1>1, <1>4 DEF ArInv, ArType, AreasApart, ArExact, ExactAt, Careful, Does
<1>6. PagesMatch'
  BY <1>1 DEF PagesMatch, Does
<1> QED BY <1>5, <1>6 DEF ArInv
-----------------------------------------------------------------------------
(* What a cut leaves of the areas: those that do not touch the range, and  *)
(* of the others the part before it and, of one, the part behind it.       *)
LEMMA CutAreas ==
    ASSUME ArInv, NEW addr \in Nat, NEW end \in Nat, addr < end, Cut(addr, end),
           NEW u \in vmas'
    PROVE  \E v \in vmas :
              \/ u = v /\ (v.end <= addr \/ end <= v.start)
              \/ v.start < addr /\ addr < v.end /\ u = [v EXCEPT !.end = addr]
              \/ v \in Tails(addr, end) /\ u = [v EXCEPT !.start = end]
<1>1. CASE u \in vmas \ Hit(addr, end)
  BY <1>1 DEF Hit, ArInv, ArType, ArAreas
<1>2. CASE u \in Heads(addr, end)
  BY <1>2 DEF Heads, Hit
<1>3. CASE u \notin (vmas \ Hit(addr, end)) \cup Heads(addr, end)
  BY <1>3 DEF Cut, AddVma, Tails, Hit
<1> QED BY <1>1, <1>2, <1>3

LEMMA CutType ==
    ASSUME ArInv, NEW addr \in Nat, NEW end \in Nat, addr < end, Cut(addr, end)
    PROVE  vmas' \subseteq ArAreas
<1> SUFFICES ASSUME NEW u \in vmas' PROVE u \in ArAreas
  OBVIOUS
<1>1. PICK v \in vmas : \/ u = v
                        \/ u = [v EXCEPT !.end = addr]
                        \/ u = [v EXCEPT !.start = end]
  BY CutAreas
<1> v \in ArAreas
  BY DEF ArInv, ArType
<1> QED BY <1>1 DEF ArAreas

(* Two areas have at most one tail between them, and nothing starts where  *)
(* the tail will.                                                          *)
LEMMA OneTail ==
    ASSUME ArInv, ~Does("over"), NEW addr \in Nat, NEW end \in Nat, addr < end
    PROVE  /\ \A v, w \in Tails(addr, end) : v = w
           /\ \A v \in Tails(addr, end), w \in vmas : w.start # end
BY DEF ArInv, AreasApart, ArType, ArAreas, Tails, Hit

LEMMA CutApart ==
    ASSUME ArInv, ~Does("over"), NEW addr \in Nat, NEW end \in Nat, addr < end, Cut(addr, end)
    PROVE  /\ \A v \in vmas' : v.start < v.end
           /\ \A v, w \in vmas' : v # w => v.end <= w.start \/ w.end <= v.start
<1> DEFINE From(u, v) ==
              \/ u = v /\ (v.end <= addr \/ end <= v.start)
              \/ v.start < addr /\ addr < v.end /\ u = [v EXCEPT !.end = addr]
              \/ v \in Tails(addr, end) /\ u = [v EXCEPT !.start = end]
<1>1. \A u \in vmas' : \E v \in vmas : From(u, v)
  BY CutAreas
<1>2. ASSUME NEW v \in vmas, NEW u, From(u, v)
      PROVE  /\ u.start \in Nat /\ u.end \in Nat /\ u.start < u.end
             /\ v.start <= u.start /\ u.end <= v.end
             /\ u.end <= addr \/ end <= u.start
             /\ v \in ArAreas
  BY <1>2 DEF ArInv, AreasApart, ArType, ArAreas, Tails, Hit
<1>3. ASSUME NEW v \in vmas, NEW u, NEW w, From(u, v), From(w, v), u # w
      PROVE  u.end <= w.start \/ w.end <= u.start
  BY <1>3 DEF ArInv, AreasApart, ArType, ArAreas, Tails, Hit
<1> HIDE DEF From
<1>4. \A v \in vmas' : v.start < v.end
  BY <1>1, <1>2
<1>5. ASSUME NEW u \in vmas', NEW w \in vmas', u # w
      PROVE  u.end <= w.start \/ w.end <= u.start
  <2>1. PICK a \in vmas : From(u, a)
    BY <1>1
  <2>2. PICK b \in vmas : From(w, b)
    BY <1>1
  <2>3. CASE a = b
    BY <1>3, <1>5, <2>1, <2>2, <2>3
  <2>4. CASE a # b
    <3>1. a.end <= b.start \/ b.end <= a.start
      BY <2>4 DEF ArInv, AreasApart
    <3>2. /\ a.start \in Nat /\ a.end \in Nat /\ b.start \in Nat /\ b.end \in Nat
          /\ a.start <= u.start /\ u.end <= a.end /\ b.start <= w.start /\ w.end <= b.end
          /\ u.start \in Nat /\ u.end \in Nat /\ w.start \in Nat /\ w.end \in Nat
      BY <1>2, <2>1, <2>2 DEF ArAreas
    <3>3. QED BY <3>1, <3>2
  <2> QED BY <2>3, <2>4
<1> QED BY <1>4, <1>5

(* A page outside the range is under an area after the cut if it was, and  *)
(* a tail that is not of a file says the same of it.                       *)
LEMMA CutExact ==
    ASSUME ArInv, Careful, NEW addr \in Nat, NEW end \in Nat, addr < end, Cut(addr, end),
           \A v \in Tails(addr, end) : v.kind # "file",
           NEW p \in ArPages
    PROVE  /\ addr <= p /\ p < end => \A u \in vmas' : ~Contains(u, p)
           /\ ~(addr <= p /\ p < end) =>
                  /\ \A u \in vmas' : Contains(u, p) => PageOf(u, p) = meant[p]
                  /\ meant[p] # Nothing => \E u \in vmas' : Contains(u, p)
<1> p \in Nat /\ ~Does("over")
  BY ArAssumption DEF ArPages, Careful
<1>1. ExactAt(p) /\ vmas \subseteq ArAreas
  BY DEF ArInv, ArExact, ArType
<1>2. ASSUME NEW u \in vmas', Contains(u, p)
      PROVE  ~(addr <= p /\ p < end) /\ PageOf(u, p) = meant[p]
  <2>1. PICK v \in vmas :
              \/ u = v /\ (v.end <= addr \/ end <= v.start)
              \/ v.start < addr /\ addr < v.end /\ u = [v EXCEPT !.end = addr]
              \/ v \in Tails(addr, end) /\ u = [v EXCEPT !.start = end]
    BY CutAreas
  <2>2. v \in ArAreas
    BY <1>1
  <2>3. ~(addr <= p /\ p < end) /\ Contains(v, p)
    BY <1>2, <2>1, <2>2 DEF Contains, ArAreas, Tails, Hit
  <2>4. PageOf(u, p) = PageOf(v, p)
    BY <2>1, <2>2 DEF PageOf, ArAreas
  <2>5. QED BY <1>1, <2>3, <2>4 DEF ExactAt
<1>3. ASSUME ~(addr <= p /\ p < end), NEW v \in vmas, Contains(v, p)
      PROVE  \E u \in vmas' : Contains(u, p)
  <2>1. v \in ArAreas
    BY <1>1
  <2>2. CASE v \in Hit(addr, end) /\ p < addr
    <3> DEFINE h == [v EXCEPT !.end = addr]
    <3>1. h \in Heads(addr, end) /\ Contains(h, p) /\ h.start < end
      BY <1>3, <2>1, <2>2 DEF Heads, Contains, ArAreas
    <3>2. h.start # end
      BY <2>1, <3>1 DEF ArAreas
    <3> HIDE DEF h
    <3>3. h \in vmas'
      BY <3>1, <3>2 DEF Cut, AddVma
    <3>4. QED BY <3>1, <3>3
  <2>3. CASE v \in Hit(addr, end) /\ ~(p < addr)
    <3>1. v \in Tails(addr, end)
      BY <1>3, <2>1, <2>3 DEF Tails, Contains, ArAreas
    <3>2. [v EXCEPT !.start = end] \in vmas'
      BY <3>1, OneTail DEF Cut, AddVma
    <3>3. Contains([v EXCEPT !.start = end], p)
      BY <1>3, <2>1, <2>3 DEF Contains, ArAreas
    <3>4. QED BY <3>2, <3>3
  <2>4. CASE v \notin Hit(addr, end)
    <3>1. CASE Tails(addr, end) = {}
      BY <1>3, <2>4, <3>1 DEF Cut
    <3>2. CASE Tails(addr, end) # {}
      <4>1. v.start # end
        BY <3>2, OneTail
      <4>2. v \in vmas'
        BY <2>4, <3>2, <4>1 DEF Cut, AddVma
      <4>3. QED BY <1>3, <4>2
    <3> QED BY <3>1, <3>2
  <2> QED BY <2>2, <2>3, <2>4
<1> QED BY <1>1, <1>2, <1>3 DEF ExactAt

LEMMA UnmapKeeps ==
    ASSUME ArInv, NEW size \in ArSizes, NEW addr \in Addrs(size), Unmap(addr, size)
    PROVE  /\ vmas' \subseteq ArAreas /\ mmap_next' = mmap_next /\ ptes' \in [ArPages -> ArEntries]
           /\ AreasApart'
           /\ addr \in Nat /\ addr + size \in Nat /\ addr < addr + size
           /\ \A habit : Does(habit)' = Does(habit)
<1>1. addr \in Nat /\ addr + size \in Nat /\ addr < addr + size
  BY ArAssumption DEF Addrs, ArPages
<1>2. \A habit : Does(habit)' = Does(habit)
  BY DEF Unmap, Does
<1>3. Cut(addr, addr + size)
  BY DEF Unmap
<1>4. vmas' \subseteq ArAreas
  BY <1>1, <1>3, CutType
<1>5. AreasApart'
  BY <1>1, <1>2, <1>3, CutApart DEF AreasApart
<1>6. ptes' \in [ArPages -> ArEntries]
  BY DEF Unmap, ArInv, ArType, ArEntries, Nothing, Zeros
<1> QED BY <1>1, <1>2, <1>4, <1>5, <1>6 DEF Unmap

LEMMA MunmapKeeps ==
    ASSUME ArInv, NEW size \in ArSizes, NEW addr \in Addrs(size),
           CutsBehind(addr, size), Munmap(addr, size)
    PROVE  ArInv'
<1>1. /\ vmas' \subseteq ArAreas /\ mmap_next' = mmap_next /\ ptes' \in [ArPages -> ArEntries]
      /\ AreasApart'
      /\ addr \in Nat /\ addr + size \in Nat /\ addr < addr + size
      /\ \A habit : Does(habit)' = Does(habit)
  BY UnmapKeeps DEF Munmap
<1>2. ArType'
  <2>1. meant' \in [ArPages -> ArEntries]
    BY DEF Munmap, ArInv, ArType, ArEntries, Nothing, Zeros
  <2>2. QED BY <1>1, <2>1 DEF ArInv, ArType
<1>3. \A p \in ArPages : p \in Range(addr, size) <=> addr <= p /\ p < addr + size
  BY <1>1, ArAssumption DEF Range, ArPages
<1>4. ArExact'
  <2> SUFFICES ASSUME Careful, NEW p \in ArPages PROVE ExactAt(p)'
    BY <1>1 DEF ArExact, Careful
  <2>1. \A v \in Tails(addr, addr + size) : v.kind # "file"
    BY DEF CutsBehind, Careful
  <2>2. /\ p \in Range(addr, size) => \A u \in vmas' : ~Contains(u, p)
        /\ p \notin Range(addr, size) =>
                  /\ \A u \in vmas' : Contains(u, p) => PageOf(u, p) = meant[p]
                  /\ meant[p] # Nothing => \E u \in vmas' : Contains(u, p)
    BY <1>1, <1>3, <2>1, CutExact DEF Munmap, Unmap
  <2>3. meant'[p] = IF p \in Range(addr, size) THEN Nothing ELSE meant[p]
    BY DEF Munmap
  <2>4. QED BY <2>2, <2>3 DEF ExactAt
<1>5. PagesMatch'
  <2> SUFFICES ASSUME Careful, ~Does("oom"), NEW p \in ArPages, ptes'[p] # Nothing
               PROVE  meant'[p] # Nothing /\ ptes'[p] = Mapped(meant'[p])
    BY <1>1 DEF PagesMatch, Careful
  <2>1. ExactAt(p) /\ (ptes[p] # Nothing => meant[p] # Nothing /\ ptes[p] = Mapped(meant[p]))
    BY DEF ArInv, ArExact, PagesMatch
  <2>2. ptes'[p] = ptes[p] /\ ~(p \in Range(addr, size) /\ \E v \in vmas : Contains(v, p))
    BY DEF Munmap, Unmap
  <2>3. p \notin Range(addr, size)
    BY <2>1, <2>2 DEF ExactAt
  <2>4. meant'[p] = meant[p]
    BY <2>3 DEF Munmap
  <2>5. QED BY <2>1, <2>2, <2>4
<1> QED BY <1>1, <1>2, <1>4, <1>5 DEF ArInv

LEMMA AdviseKeeps ==
    ASSUME ArInv, NEW size \in ArSizes, NEW addr \in Addrs(size),
           Does("advise"), MadviseDontneed(addr, size)
    PROVE  ArInv'
<1>1. /\ vmas' \subseteq ArAreas /\ mmap_next' = mmap_next /\ ptes' \in [ArPages -> ArEntries]
      /\ AreasApart'
      /\ \A habit : Does(habit)' = Does(habit)
  BY UnmapKeeps DEF MadviseDontneed
<1>2. ~Careful'
  BY <1>1 DEF Careful
<1> QED BY <1>1, <1>2 DEF MadviseDontneed, ArInv, ArType, ArExact, PagesMatch
-----------------------------------------------------------------------------
LEMMA MprotectKeeps ==
    ASSUME ArInv, NEW size \in ArSizes, NEW addr \in Addrs(size), NEW prot \in ArProts,
           ProtectsWhole(addr, size), Mprotect(addr, size, prot)
    PROVE  ArInv'
<1>1. PICK v \in FindVma(addr) :
        /\ v.end >= addr + size
        /\ vmas' = AddVma(vmas, [v EXCEPT !.prot = prot])
        /\ ptes' = [p \in ArPages |-> IF p \in Range(addr, size) /\ ptes[p] # Nothing
                                      THEN Mapped([ptes[p] EXCEPT !.prot = prot]) ELSE ptes[p]]
        /\ meant' = [p \in ArPages |-> IF p \in Range(addr, size) THEN [meant[p] EXCEPT !.prot = prot] ELSE meant[p]]
        /\ UNCHANGED <<mmap_next, ar_work>>
  BY DEF Mprotect
<1>0. PICK new : new = [v EXCEPT !.prot = prot]
  OBVIOUS
<1>2. /\ v \in vmas /\ v \in ArAreas /\ Contains(v, addr)
      /\ size \in Nat /\ addr \in Nat /\ prot \in Prots
  BY ArAssumption DEF FindVma, ArInv, ArType, Addrs, ArPages
<1>3. new \in ArAreas /\ new.start = v.start /\ new.end = v.end
  BY <1>0, <1>2 DEF ArAreas
<1>4. \A habit : Does(habit)' = Does(habit)
  BY <1>1 DEF Does
<1>5. \A p \in ArPages : /\ Contains(new, p) <=> Contains(v, p)
                         /\ PageOf(new, p) = [prot |-> prot, data |-> PageOf(v, p).data]
  BY <1>0, <1>2 DEF Contains, PageOf, ArAreas
<1>6. ArType'
  <2>1. vmas' \subseteq ArAreas
    BY <1>0, <1>1, <1>3 DEF AddVma, ArInv, ArType
  <2>2. \A e \in ArEntries : [e EXCEPT !.prot = prot] \in ArEntries /\ Mapped([e EXCEPT !.prot = prot]) \in ArEntries
    BY <1>2 DEF ArEntries, Mapped, Prots
  <2>3. ptes' \in [ArPages -> ArEntries] /\ meant' \in [ArPages -> ArEntries]
    BY <1>1, <2>2 DEF ArInv, ArType
  <2>4. QED BY <1>1, <2>1, <2>3 DEF ArInv, ArType
<1>7. ~Does("over") => \A w \in vmas : w.start = v.start => w = v
  BY <1>2 DEF ArInv, ArType, AreasApart, ArAreas
<1>8. ~Does("over") => vmas' = (vmas \ {v}) \cup {new}
  BY <1>0, <1>1, <1>3, <1>7 DEF AddVma
<1>9. AreasApart'
  BY <1>2, <1>3, <1>4, <1>8 DEF ArInv, AreasApart
<1>10. ASSUME Careful, NEW p \in ArPages
       PROVE  /\ p \in Range(addr, size) <=> Contains(v, p)
              /\ p \in Range(addr, size) => meant[p] = PageOf(v, p) /\ meant'[p] = PageOf(new, p)
              /\ p \notin Range(addr, size) => meant'[p] = meant[p]
              /\ ExactAt(p) /\ ~Does("over")
  <2>1. v.start = addr /\ v.end = addr + size
    BY <1>1, <1>10 DEF ProtectsWhole, Careful
  <2>2. p \in Range(addr, size) <=> Contains(v, p)
    BY <1>2, <2>1, ArAssumption DEF Range, Contains, ArPages
  <2>3. ExactAt(p) /\ ~Does("over")
    BY <1>10 DEF ArInv, ArExact, Careful
  <2>4. Contains(v, p) => meant[p] = PageOf(v, p)
    BY <1>2, <2>3 DEF ExactAt
  <2>5. p \notin Range(addr, size) => meant'[p] = meant[p]
    BY <1>1
  <2>6. p \in Range(addr, size) => meant'[p] = [prot |-> prot, data |-> meant[p].data]
    BY <1>1 DEF ArInv, ArType, ArEntries
  <2>7. p \in Range(addr, size) => meant'[p] = PageOf(new, p)
    BY <1>5, <2>2, <2>4, <2>6
  <2>8. QED BY <2>2, <2>3, <2>4, <2>5, <2>7
<1>11. ArExact'
  <2> SUFFICES ASSUME Careful, NEW p \in ArPages PROVE ExactAt(p)'
    BY <1>4 DEF ArExact, Careful
  <2>1. CASE p \in Range(addr, size)
    <3>1. \A w \in vmas : Contains(w, p) => w = v
      <4>1. ~Does("over") /\ Contains(v, p)
        BY <1>10, <2>1
      <4>2. QED BY <1>2, <4>1, ArAssumption DEF ArInv, ArType, AreasApart, ArAreas, Contains, ArPages
    <3>2. Contains(new, p) /\ meant'[p] = PageOf(new, p) /\ vmas' = (vmas \ {v}) \cup {new}
      BY <1>5, <1>8, <1>10, <2>1
    <3>3. QED BY <3>1, <3>2 DEF ExactAt
  <2>2. CASE p \notin Range(addr, size)
    BY <1>5, <1>8, <1>10, <2>2 DEF ExactAt
  <2> QED BY <2>1, <2>2
<1>12. PagesMatch'
  <2> SUFFICES ASSUME Careful, ~Does("oom"), NEW p \in ArPages, ptes'[p] # Nothing
               PROVE  meant'[p] # Nothing /\ ptes'[p] = Mapped(meant'[p])
    BY <1>4 DEF PagesMatch, Careful
  <2>1. ptes[p] # Nothing => meant[p] # Nothing /\ ptes[p] = Mapped(meant[p])
    BY DEF ArInv, PagesMatch
  <2>2. CASE p \in Range(addr, size)
    <3>1. /\ ptes[p] \in ArEntries /\ ptes[p] # Nothing
          /\ ptes'[p] = Mapped([ptes[p] EXCEPT !.prot = prot])
      BY <1>1, <2>2 DEF ArInv, ArType
    <3>2. meant[p] \in ArEntries /\ meant'[p] = [meant[p] EXCEPT !.prot = prot]
      BY <1>1, <2>2 DEF ArInv, ArType
    <3>3. Contains(new, p) /\ meant'[p] = PageOf(new, p)
      BY <1>5, <1>10, <2>2
    <3>4. meant'[p] # Nothing
      BY <1>3, <3>3, PageOfType
    <3>5. ptes[p].data = meant[p].data
      BY <2>1, <3>1, <3>2 DEF Mapped, ArEntries
    <3>6. [ptes[p] EXCEPT !.prot = prot] = [meant[p] EXCEPT !.prot = prot]
      BY <3>1, <3>2, <3>5 DEF ArEntries
    <3>7. QED BY <3>1, <3>2, <3>4, <3>6
  <2>3. CASE p \notin Range(addr, size)
    BY <1>1, <2>1, <2>3
  <2> QED BY <2>2, <2>3
<1> QED BY <1>6, <1>9, <1>11, <1>12 DEF ArInv

LEMMA FaultKeeps ==
    ASSUME ArInv, NEW p \in ArPages, DemandFault(p)
    PROVE  ArInv'
<1>1. PICK v \in FindVma(p) :
        /\ ptes' = [ptes EXCEPT ![p] = Mapped(PageOf(v, p))]
        /\ UNCHANGED <<vmas, mmap_next, meant, ar_work>>
  BY DEF DemandFault
<1>2. v \in vmas /\ v \in ArAreas /\ Contains(v, p)
  BY DEF FindVma, ArInv, ArType
<1>3. PageOf(v, p) \in ArEntries /\ PageOf(v, p) # Nothing /\ Mapped(PageOf(v, p)) \in ArEntries
  BY <1>2, PageOfType, MappedType
<1>4. ArType' /\ AreasApart' /\ ArExact'
  BY <1>1, <1>3 DEF ArInv, ArType, AreasApart, ArExact, ExactAt, Careful, Does
<1>5. PagesMatch'
  <2> SUFFICES ASSUME Careful, ~Does("oom"), NEW q \in ArPages, ptes'[q] # Nothing
               PROVE  meant[q] # Nothing /\ ptes'[q] = Mapped(meant[q])
    BY <1>1 DEF PagesMatch, Careful, Does
  <2>1. CASE q = p
    <3>1. meant[p] = PageOf(v, p)
      BY <1>2 DEF ArInv, ArExact, ExactAt
    <3>2. QED BY <1>1, <1>3, <2>1, <3>1 DEF ArInv, ArType
  <2>2. CASE q # p
    BY <1>1, <2>2 DEF ArInv, ArType, PagesMatch
  <2> QED BY <2>1, <2>2
<1> QED BY <1>4, <1>5 DEF ArInv
-----------------------------------------------------------------------------
LEMMA AreasStep == ArInv /\ [ArNext]_arVars => ArInv'
<1> SUFFICES ASSUME ArInv, [ArNext]_arVars PROVE ArInv'
  OBVIOUS
<1>1. ASSUME NEW size \in ArSizes, NEW addr \in Hints(size), NEW fixed \in BOOLEAN, NEW populate \in BOOLEAN,
             NEW prot \in ArProts, NEW kind \in MapKinds, NEW offset \in ArOffsets,
             MapsFree(addr, size, fixed),
             \/ Mmap(addr, size, fixed, populate, prot, kind, offset)
             \/ Does("oom") /\ \E n \in 0 .. size - 1 : MmapNoFrame(addr, size, fixed, prot, n)
      PROVE  ArInv'
  <2>1. addr \in Nat /\ kind \in {"anon", "file"}
    BY ArAssumption DEF Hints, Addrs, ArPages, MapKinds
  <2>2. QED BY <1>1, <2>1, MmapKeeps, NoFrameKeeps
<1>2. CASE UNCHANGED arVars
  BY <1>2 DEF arVars, ArInv, ArType, AreasApart, ArExact, ExactAt, PagesMatch, Careful, Does
<1> QED BY <1>1, <1>2, NoSpotKeeps, MunmapKeeps, AdviseKeeps, MprotectKeeps, FaultKeeps DEF ArNext

(* Areas stay disjoint, find_vma says of every page what the program's     *)
(* mmap, munmap and mprotect calls asked for, and what is mapped is that   *)
(* page of the file or zeros, for every address space and every program    *)
(* without the habits that AreasSound names.                               *)
THEOREM AreasAreSound == ArSpec => []AreasSound
BY AreasInit, AreasStep, InvGivesSound, PTL DEF ArSpec
=============================================================================
