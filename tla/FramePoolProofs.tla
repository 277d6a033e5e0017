-------------------------- MODULE FramePoolProofs --------------------------
(***************************************************************************)
(* Proofs about the buddy allocator of FramePool, for every memory map and *)
(* every maximal order.                                                    *)
(*                                                                         *)
(* The two operators that move blocks, FreeBlock and TakeBlock, get one    *)
(* lemma each: they keep the free lists aligned, disjoint and merged, and  *)
(* change the set of free frames by exactly the block given or taken.  The *)
(* orders a block passes through are handled with the least-number         *)
(* principle (LeastOrder).  The invariant then follows action by action.   *)
(***************************************************************************)
EXTENDS FramePool, FiniteSetTheorems, WellFoundedInduction, TLAPS

-----------------------------------------------------------------------------
(* Arithmetic *)

(* Division with remainder by a block size. *)
LEMMA DivMod ==
    ASSUME NEW a \in Nat, NEW s \in Nat \ {0}
    PROVE  /\ a = (a \div s) * s + (a % s)
           /\ a % s \in 0 .. s - 1
           /\ a \div s \in Nat
OBVIOUS

(* Quotient and remainder are unique. *)
LEMMA DivModUnique ==
    ASSUME NEW a \in Nat, NEW s \in Nat \ {0}, NEW q \in Nat,
           NEW r \in 0 .. s - 1, a = q * s + r
    PROVE  a \div s = q /\ a % s = r
OBVIOUS

LEMMA DivModExact ==
    ASSUME NEW s \in Nat \ {0}, NEW q \in Nat
    PROVE  (q * s) \div s = q /\ (q * s) % s = 0
OBVIOUS

(* The upper halves of a block of size 2s and one of size 2t do not meet.  *)
LEMMA HalvesApart ==
    ASSUME NEW a \in Nat, NEW s \in Nat, NEW t \in Nat, 2 * s <= t
    PROVE  (a + s .. a + 2 * s - 1) \cap (a + t .. a + 2 * t - 1) = {}
<1>1. ASSUME NEW x \in a + s .. a + 2 * s - 1, x \in a + t .. a + 2 * t - 1
      PROVE  FALSE
  BY <1>1
<1> QED BY <1>1

(* Every nonempty set of orders has a least element. *)
LEMMA LeastOrder ==
    ASSUME NEW T \in SUBSET Nat, T # {}
    PROVE  \E k \in T : \A j \in T : k <= j
<1>1. IsWellFoundedOn(OpToRel(<, Nat), Nat)
  BY NatLessThanWellFounded
<1>2. PICK k \in T : \A j \in T : ~(<<j, k>> \in OpToRel(<, Nat))
  BY <1>1, WFMin
<1>3. \A j \in T : ~(j < k)
  BY <1>2 DEF OpToRel
<1> QED BY <1>3

(* A block of order i is at least twice as large as one of a lower order. *)
LEMMA SizesGrow ==
    ASSUME NEW i \in Orders, NEW j \in Orders, i < j
    PROVE  2 * BlockFrames[i] <= BlockFrames[j]
<1> DEFINE T == {k \in Orders : i < k /\ ~(2 * BlockFrames[i] <= BlockFrames[k])}
<1>1. SUFFICES ASSUME T # {} PROVE FALSE
  OBVIOUS
<1>2. PICK k \in T : \A m \in T : k <= m
  <2>1. T \in SUBSET Nat
    BY OrderAssumption DEF Orders
  <2> QED BY <1>1, <2>1, LeastOrder
<1>3. k - 1 \in 0 .. MaxOrder - 1 /\ i <= k - 1
  BY <1>2, OrderAssumption DEF Orders
<1>4. BlockFrames[k] = 2 * BlockFrames[k - 1]
  BY <1>3, SizeAssumption, OrderAssumption DEF Orders
<1>5. BlockFrames[k - 1] \in Nat /\ BlockFrames[i] \in Nat
  BY <1>3, SizeAssumption, OrderAssumption DEF Orders
<1>6. CASE i = k - 1
  BY <1>2, <1>4, <1>5, <1>6
<1>7. CASE i < k - 1
  <2>1. k - 1 \notin T
    BY <1>2, <1>3, OrderAssumption DEF Orders
  <2>2. 2 * BlockFrames[i] <= BlockFrames[k - 1]
    BY <2>1, <1>7, <1>3, OrderAssumption DEF Orders
  <2> QED BY <2>2, <1>2, <1>4, <1>5
<1> QED BY <1>3, <1>6, <1>7, OrderAssumption DEF Orders

(* A frame address at or beyond size o but below size k lies in the upper  *)
(* half of exactly one of the blocks that a split goes through.            *)
LEMMA SplitLevel ==
    ASSUME NEW o \in Orders, NEW k \in Orders, NEW d \in Nat,
           BlockFrames[o] <= d, d < BlockFrames[k]
    PROVE  \E j \in o .. k - 1 : BlockFrames[j] <= d /\ d < 2 * BlockFrames[j]
<1> DEFINE T == {i \in Orders : o <= i /\ d < BlockFrames[i]}
<1>1. o <= k
  <2>1. SUFFICES ASSUME k < o PROVE FALSE
    BY OrderAssumption DEF Orders
  <2>2. 2 * BlockFrames[k] <= BlockFrames[o]
    BY <2>1, SizesGrow
  <2> QED BY <2>2, SizeAssumption DEF Orders
<1>2. PICK i \in T : \A m \in T : i <= m
  <2>1. k \in T
    BY <1>1
  <2>2. T \in SUBSET Nat
    BY OrderAssumption DEF Orders
  <2>3. T # {}
    BY <2>1
  <2> HIDE DEF T
  <2> QED BY <2>2, <2>3, LeastOrder
<1>3. i # o /\ i <= k
  BY <1>1, <1>2, SizeAssumption DEF Orders
<1>4. i - 1 \in Orders /\ i - 1 \in 0 .. MaxOrder - 1 /\ o <= i - 1
  BY <1>2, <1>3, OrderAssumption DEF Orders
<1>5. i - 1 \notin T
  BY <1>2, <1>4, OrderAssumption DEF Orders
<1>6. BlockFrames[i] = 2 * BlockFrames[i - 1] /\ BlockFrames[i - 1] \in Nat
  BY <1>4, SizeAssumption DEF Orders
<1>7. BlockFrames[i - 1] <= d
  BY <1>4, <1>5, <1>6
<1> QED BY <1>2, <1>3, <1>4, <1>6, <1>7, OrderAssumption DEF Orders
-----------------------------------------------------------------------------
(* Blocks and their buddies *)

(* The block of order k that holds address a is aligned and inside Nat. *)
LEMMA MergedAligned ==
    ASSUME NEW a \in Nat, NEW k \in Orders
    PROVE  /\ MergedAddr(a, k) \in Nat
           /\ Aligned(MergedAddr(a, k), k)
           /\ a \in Frames(MergedAddr(a, k), k)
           /\ Aligned(a, k) => MergedAddr(a, k) = a
<1> DEFINE s == BlockFrames[k]
           q == a \div s
           r == a % s
<1>1. s \in Nat \ {0}
  BY SizeAssumption
<1>2. a = q * s + r /\ r \in 0 .. s - 1 /\ q \in Nat
  BY <1>1, DivMod
<1>3. MergedAddr(a, k) = q * s
  BY <1>1, <1>2 DEF MergedAddr
<1> HIDE DEF q, r, s
<1>4. q * s \in Nat /\ 0 \in 0 .. s - 1 /\ q * s = q * s + 0
  BY <1>1, <1>2
<1>5. (q * s) % s = 0
  BY <1>1, <1>2, <1>4, DivModUnique
<1>6. Aligned(MergedAddr(a, k), k)
  BY <1>3, <1>5 DEF Aligned, s
<1>7. a \in q * s .. (q * s + s - 1)
  BY <1>1, <1>2, <1>4
<1>8. a \in Frames(MergedAddr(a, k), k)
  BY <1>3, <1>7 DEF Frames, s
<1>9. Aligned(a, k) => MergedAddr(a, k) = a
  BY DEF Aligned, MergedAddr
<1> QED BY <1>3, <1>4, <1>6, <1>8, <1>9

(* Merging a block with its buddy gives the block of the next order: the   *)
(* lower of the two addresses is its address and the two halves are        *)
(* disjoint.  A buddy is the buddy of its buddy.                           *)
LEMMA MergeLevel ==
    ASSUME NEW a \in Nat, NEW k \in 0 .. MaxOrder - 1,
           NEW b, b = MergedAddr(a, k), NEW y, y = BuddyAddr(b, k)
    PROVE  /\ y \in Nat
           /\ Aligned(y, k)
           /\ BuddyAddr(y, k) = b
           /\ Frames(MergedAddr(a, k + 1), k + 1) = Frames(b, k) \cup Frames(y, k)
           /\ Frames(b, k) \cap Frames(y, k) = {}
<1> DEFINE s == BlockFrames[k]
           q == a \div (2 * s)
           r == a % (2 * s)
<1>1. s \in Nat \ {0} /\ BlockFrames[k + 1] = 2 * s
  BY SizeAssumption, OrderAssumption DEF Orders
<1> HIDE DEF s
<1>2. a = q * (2 * s) + r /\ r \in 0 .. 2 * s - 1 /\ q \in Nat
  <2>1. 2 * s \in Nat \ {0}
    BY <1>1
  <2> QED BY <2>1, DivMod
<1>3. MergedAddr(a, k + 1) = (2 * q) * s
  <2>1. MergedAddr(a, k + 1) = a - r
    BY <1>1 DEF MergedAddr
  <2> HIDE DEF q, r
  <2>2. q * (2 * s) = (2 * q) * s /\ (2 * q) * s \in Nat
    BY <1>1, <1>2
  <2> QED BY <1>1, <1>2, <2>1, <2>2
<1> HIDE DEF q, r
<1> DEFINE lo == (2 * q) * s
           hi == (2 * q + 1) * s
<1>4. lo \in Nat /\ hi = lo + s
  BY <1>1, <1>2
<1>5. lo \div s = 2 * q /\ lo % s = 0 /\ hi \div s = 2 * q + 1 /\ hi % s = 0
  <2>1. 2 * q \in Nat /\ 2 * q + 1 \in Nat
    BY <1>1, <1>2
  <2>2. lo \in Nat /\ hi \in Nat /\ lo = (2 * q) * s /\ hi = (2 * q + 1) * s
    BY <1>1, <1>2
  <2> HIDE DEF lo, hi
  <2>3. lo \div s = 2 * q /\ lo % s = 0
    BY <1>1, <2>1, <2>2, DivModExact, Zenon
  <2>4. hi \div s = 2 * q + 1 /\ hi % s = 0
    BY <1>1, <2>1, <2>2, DivModExact, Zenon
  <2> QED BY <2>3, <2>4
<1>6. BuddyAddr(lo, k) = hi /\ BuddyAddr(hi, k) = lo
  <2>1. (2 * q) % 2 = 0 /\ (2 * q + 1) % 2 = 1
    BY <1>2
  <2> HIDE DEF lo, hi
  <2> QED BY <1>1, <1>4, <1>5, <2>1 DEF BuddyAddr, s
<1>7. b = lo \/ b = hi
  <2>1. CASE r < s
    <3>1. a = (2 * q) * s + r /\ r \in 0 .. s - 1 /\ 2 * q \in Nat
      BY <1>1, <1>2, <2>1
    <3>2. a % s = r
      BY <1>1, <3>1, DivModUnique
    <3> QED BY <1>1, <1>2, <3>1, <3>2 DEF MergedAddr, s
  <2>2. CASE r >= s
    <3>1. a = (2 * q + 1) * s + (r - s) /\ r - s \in 0 .. s - 1 /\ 2 * q + 1 \in Nat
      BY <1>1, <1>2, <2>2
    <3>2. a % s = r - s
      BY <1>1, <3>1, DivModUnique
    <3> QED BY <1>1, <1>2, <1>4, <3>1, <3>2 DEF MergedAddr, s
  <2> QED BY <1>1, <1>2, <2>1, <2>2
<1> HIDE DEF lo, hi
<1>8. {b, y} = {lo, hi} /\ BuddyAddr(y, k) = b
  BY <1>6, <1>7
<1>9. Frames(lo, k) \cap Frames(hi, k) = {}
  BY <1>1, <1>4 DEF Frames, s
<1>10. Frames(lo, k + 1) = Frames(lo, k) \cup Frames(hi, k)
  BY <1>1, <1>4 DEF Frames, s
<1>11. MergedAddr(a, k + 1) = lo
  BY <1>3 DEF lo
<1>12. Aligned(lo, k) /\ Aligned(hi, k) /\ hi \in Nat
  BY <1>1, <1>4, <1>5 DEF Aligned, s
<1>13. CASE b = lo /\ y = hi
  BY <1>8, <1>9, <1>10, <1>11, <1>12, <1>13
<1>14. CASE b = hi /\ y = lo
  BY <1>4, <1>8, <1>9, <1>10, <1>11, <1>12, <1>14
<1> QED BY <1>6, <1>7, <1>13, <1>14

(* The block a merge has reached at an order contains those of all lower   *)
(* orders.                                                                 *)
LEMMA MergeNested ==
    ASSUME NEW a \in Nat, NEW i \in Orders, NEW j \in Orders, i <= j
    PROVE  Frames(MergedAddr(a, i), i) \subseteq Frames(MergedAddr(a, j), j)
<1> DEFINE W(k) == Frames(MergedAddr(a, k), k)
           T == {k \in Orders : i <= k /\ ~(W(i) \subseteq W(k))}
<1>1. SUFFICES ASSUME T # {} PROVE FALSE
  OBVIOUS
<1>2. PICK k \in T : \A m \in T : k <= m
  <2>1. T \in SUBSET Nat
    BY OrderAssumption DEF Orders
  <2> HIDE DEF T
  <2> QED BY <1>1, <2>1, LeastOrder
<1>3. k \in Orders /\ i <= k /\ ~(W(i) \subseteq W(k))
  OBVIOUS
<1>4. k # i
  BY <1>3
<1>5. k - 1 \in 0 .. MaxOrder - 1 /\ k - 1 \in Orders /\ i <= k - 1 /\ (k - 1) + 1 = k
  BY <1>3, <1>4, OrderAssumption DEF Orders
<1>6. W(i) \subseteq W(k - 1)
  <2>1. ~(k <= k - 1)
    BY <1>5
  <2> QED BY <1>2, <1>5, <2>1
<1>7. W(k - 1) \subseteq W(k)
  <2> DEFINE b == MergedAddr(a, k - 1)
             y == BuddyAddr(b, k - 1)
  <2>1. Frames(MergedAddr(a, (k - 1) + 1), (k - 1) + 1) = Frames(b, k - 1) \cup Frames(y, k - 1)
    BY <1>5, MergeLevel
  <2> QED BY <2>1, <1>5
<1> QED BY <1>3, <1>6, <1>7

(* What a merge from order o to order k gains is the buddies it removes.   *)
LEMMA MergeChain ==
    ASSUME NEW a \in Nat, NEW o \in Orders, NEW k \in Orders, o <= k,
           NEW x \in Frames(MergedAddr(a, k), k),
           x \notin Frames(MergedAddr(a, o), o)
    PROVE  \E j \in o .. k - 1 : x \in Frames(BuddyAddr(MergedAddr(a, j), j), j)
<1> DEFINE W(n) == Frames(MergedAddr(a, n), n)
           T == {n \in Orders : o <= n /\ x \in W(n)}
<1>1. PICK n \in T : \A m \in T : n <= m
  <2>1. T \in SUBSET Nat /\ k \in T
    BY OrderAssumption DEF Orders
  <2> HIDE DEF T
  <2> QED BY <2>1, LeastOrder
<1>2. n \in Orders /\ o <= n /\ x \in W(n) /\ n <= k
  BY <1>1
<1>3. n # o
  BY <1>2
<1>4. n - 1 \in 0 .. MaxOrder - 1 /\ n - 1 \in Orders /\ (n - 1) + 1 = n /\ n - 1 \in o .. k - 1
  BY <1>2, <1>3, OrderAssumption DEF Orders
<1>5. x \notin W(n - 1)
  <2>1. ~(n <= n - 1)
    BY <1>4
  <2> QED BY <1>1, <1>4, <2>1
<1> DEFINE b == MergedAddr(a, n - 1)
           y == BuddyAddr(b, n - 1)
<1>6. Frames(MergedAddr(a, (n - 1) + 1), (n - 1) + 1) = Frames(b, n - 1) \cup Frames(y, n - 1)
  BY <1>4, MergeLevel
<1> QED BY <1>2, <1>4, <1>5, <1>6

(* The buddies a merge removes lie inside the block it ends with.          *)
LEMMA BuddyInside ==
    ASSUME NEW a \in Nat, NEW k \in Orders, NEW j \in Orders, j < k
    PROVE  /\ Frames(BuddyAddr(MergedAddr(a, j), j), j) \subseteq Frames(MergedAddr(a, k), k)
           /\ BuddyAddr(MergedAddr(a, j), j) \in Nat
<1>1. j \in 0 .. MaxOrder - 1 /\ j + 1 \in Orders /\ j + 1 <= k
  BY OrderAssumption DEF Orders
<1> DEFINE b == MergedAddr(a, j)
           y == BuddyAddr(b, j)
<1>2. Frames(MergedAddr(a, j + 1), j + 1) = Frames(b, j) \cup Frames(y, j) /\ y \in Nat
  BY <1>1, MergeLevel
<1>3. Frames(MergedAddr(a, j + 1), j + 1) \subseteq Frames(MergedAddr(a, k), k)
  BY <1>1, MergeNested
<1> QED BY <1>2, <1>3

(* Membership in the set of free frames. *)
LEMMA FreeFramesMember ==
    ASSUME NEW F \in [Orders -> SUBSET RAM], NEW x
    PROVE  x \in FreeFrames(F) <=> \E o \in Orders : \E a \in F[o] : x \in Frames(a, o)
<1>1. ASSUME x \in FreeFrames(F)
      PROVE  \E o \in Orders : \E a \in F[o] : x \in Frames(a, o)
  <2>1. PICK b \in {c \in Orders \X RAM : c[2] \in F[c[1]]} : x \in Frames(b[2], b[1])
    BY <1>1 DEF FreeFrames
  <2>2. b[1] \in Orders /\ b[2] \in F[b[1]]
    BY <2>1
  <2> QED BY <2>1, <2>2
<1>2. ASSUME NEW o \in Orders, NEW a \in F[o], x \in Frames(a, o)
      PROVE  x \in FreeFrames(F)
  <2> DEFINE b == <<o, a>>
  <2>1. b \in {c \in Orders \X RAM : c[2] \in F[c[1]]} /\ b[1] = o /\ b[2] = a
    OBVIOUS
  <2> QED BY <1>2, <2>1 DEF FreeFrames
<1> QED BY <1>1, <1>2
-----------------------------------------------------------------------------
(* What free_block and take_block do to the free lists *)

(* free_block always stops: at the first order whose buddy is not free.    *)
LEMMA MergeOrderExists ==
    ASSUME NEW F, NEW a \in Nat, NEW o \in Orders
    PROVE  LET k == MergeOrder(F, a, o)
           IN  /\ k \in o .. MaxOrder
               /\ \A j \in o .. k - 1 : BuddyFree(F, a, j)
               /\ k < MaxOrder => ~BuddyFree(F, a, k)
<1> DEFINE T == {k \in o .. MaxOrder : k < MaxOrder => ~BuddyFree(F, a, k)}
           P(k) == /\ \A j \in o .. k - 1 : BuddyFree(F, a, j)
                   /\ k < MaxOrder => ~BuddyFree(F, a, k)
<1>1. PICK k \in T : \A m \in T : k <= m
  <2>1. T \in SUBSET Nat /\ MaxOrder \in T
    BY OrderAssumption DEF Orders
  <2> HIDE DEF T
  <2> QED BY <2>1, LeastOrder
<1>2. ASSUME NEW j \in o .. k - 1
      PROVE  BuddyFree(F, a, j)
  <2>1. j \in o .. MaxOrder /\ ~(k <= j) /\ j < MaxOrder
    BY <1>1, OrderAssumption DEF Orders
  <2>2. j \notin T
    BY <1>1, <2>1
  <2> QED BY <2>1, <2>2
<1>3. \E m \in o .. MaxOrder : P(m)
  BY <1>1, <1>2
<1> HIDE DEF P
<1>4. LET m == CHOOSE m \in o .. MaxOrder : P(m) IN m \in o .. MaxOrder /\ P(m)
  BY <1>3
<1> QED BY <1>4 DEF P, MergeOrder

(* Giving a block back keeps the lists aligned, disjoint and merged, and   *)
(* makes exactly its frames free: none is lost in a merge.                 *)
LEMMA FreeBlockLemma ==
    ASSUME NEW F \in [Orders -> SUBSET RAM], NEW a \in Nat, NEW o \in Orders,
           Separate(F), FreeFrames(F) \subseteq RAM,
           Aligned(a, o), Frames(a, o) \subseteq RAM,
           Frames(a, o) \cap FreeFrames(F) = {}
    PROVE  LET G == FreeBlock(F, a, o)
           IN  /\ G \in [Orders -> SUBSET RAM]
               /\ Separate(G)
               /\ FreeFrames(G) = FreeFrames(F) \cup Frames(a, o)
               /\ Merged(F) => Merged(G)
<1> DEFINE G == FreeBlock(F, a, o)
           top == MergeOrder(F, a, o)
           B(j) == MergedAddr(a, j)
           Y(j) == BuddyAddr(B(j), j)
<1>1. /\ top \in o .. MaxOrder
      /\ \A j \in o .. top - 1 : BuddyFree(F, a, j)
      /\ top < MaxOrder => ~BuddyFree(F, a, top)
  BY MergeOrderExists
<1>2. G = [j \in Orders |->
              IF j = top THEN F[j] \cup {B(j)}
              ELSE IF j \in o .. top - 1 THEN F[j] \ {Y(j)} ELSE F[j]]
  BY DEF FreeBlock
<1>3. top \in Orders /\ o <= top /\ o \in Nat /\ \A j \in o .. top - 1 : j \in Orders /\ j < top
  BY <1>1, OrderAssumption DEF Orders
<1>4. \A j \in o .. top - 1 : Y(j) \in F[j]
  BY <1>1 DEF BuddyFree
<1>5. top < MaxOrder => Y(top) \notin F[top]
  BY <1>1 DEF BuddyFree
<1>6. B(o) = a /\ B(top) \in Nat /\ Aligned(B(top), top) /\ a \in Frames(B(top), top)
  BY <1>3, MergedAligned
<1> HIDE DEF G, top
<1>7. \A x \in Frames(B(top), top) :
        x \in Frames(a, o) \/ \E j \in o .. top - 1 : x \in Frames(Y(j), j)
  BY <1>3, <1>6, MergeChain
<1>8. Frames(a, o) \subseteq Frames(B(top), top)
  BY <1>3, <1>6, MergeNested
<1>9. \A j \in o .. top - 1 : Frames(Y(j), j) \subseteq Frames(B(top), top)
  BY <1>3, BuddyInside
<1> HIDE DEF B, Y
<1>10. Frames(B(top), top) \subseteq FreeFrames(F) \cup Frames(a, o)
  BY <1>3, <1>4, <1>7, FreeFramesMember
<1>11. B(top) \in Frames(B(top), top)
  BY <1>3, <1>6, SizeAssumption DEF Frames
<1>12. G \in [Orders -> SUBSET RAM]
  BY <1>2, <1>10, <1>11
<1>13. \A j \in Orders : \A b \in G[j] : b \in F[j] \/ (j = top /\ b = B(top))
  BY <1>2
<1>14. \A j \in o .. top - 1 : Y(j) \notin G[j]
  BY <1>2, <1>3
<1>15. \A j \in Orders : \A b \in F[j] : b \in G[j] \/ (j \in o .. top - 1 /\ b = Y(j))
  BY <1>2
<1>16. FreeFrames(G) = FreeFrames(F) \cup Frames(a, o)
  <2>1. ASSUME NEW x \in FreeFrames(G) PROVE x \in FreeFrames(F) \cup Frames(a, o)
    BY <1>10, <1>12, <1>13, FreeFramesMember
  <2>2. B(top) \in G[top]
    BY <1>2, <1>3
  <2>3. \A x \in Frames(B(top), top) : x \in FreeFrames(G)
    BY <1>3, <1>12, <2>2, FreeFramesMember
  <2>4. ASSUME NEW x \in FreeFrames(F) PROVE x \in FreeFrames(G)
    <3>1. PICK j \in Orders : \E b \in F[j] : x \in Frames(b, j)
      BY FreeFramesMember
    <3>2. PICK b \in F[j] : x \in Frames(b, j)
      BY <3>1
    <3>3. CASE b \in G[j]
      BY <1>12, <3>2, <3>3, FreeFramesMember
    <3>4. CASE j \in o .. top - 1 /\ b = Y(j)
      BY <1>9, <2>3, <3>2, <3>4
    <3> QED BY <1>15, <3>3, <3>4
  <2> QED BY <1>8, <2>1, <2>3, <2>4
<1>17. Separate(G)
  <2>1. \A j \in Orders : \A b \in G[j] : Aligned(b, j)
    BY <1>6, <1>13 DEF Separate
  <2>2. ASSUME NEW j \in Orders, NEW b \in G[j], NEW x \in Frames(b, j),
               x \in Frames(B(top), top), <<j, b>> # <<top, B(top)>>
        PROVE  FALSE
    <3>1. b \in F[j]
      BY <1>13, <2>2
    <3>2. x \in FreeFrames(F)
      BY <3>1, <2>2, FreeFramesMember
    <3>3. PICK i \in o .. top - 1 : x \in Frames(Y(i), i)
      BY <1>7, <2>2, <3>2
    <3>4. i \in Orders /\ Y(i) \in F[i] /\ Y(i) \notin G[i]
      BY <1>3, <1>4, <1>14
    <3>5. <<j, b>> # <<i, Y(i)>>
      BY <3>4
    <3>6. Frames(b, j) \cap Frames(Y(i), i) = {}
      BY <3>1, <3>4, <3>5 DEF Separate
    <3> QED BY <2>2, <3>3, <3>6
  <2>3. ASSUME NEW j \in Orders, NEW i \in Orders, NEW b \in G[j], NEW c \in G[i],
               <<j, b>> # <<i, c>>
        PROVE  Frames(b, j) \cap Frames(c, i) = {}
    <3>1. CASE j = top /\ b = B(top)
      BY <2>2, <2>3, <3>1
    <3>2. CASE i = top /\ c = B(top)
      BY <2>2, <2>3, <3>2
    <3>3. CASE b \in F[j] /\ c \in F[i]
      BY <2>3, <3>3 DEF Separate
    <3> QED BY <1>13, <3>1, <3>2, <3>3
  <2> QED BY <2>1, <2>3 DEF Separate
<1>18. ASSUME Merged(F) PROVE Merged(G)
  <2>1. ASSUME NEW j \in 0 .. MaxOrder - 1, NEW b \in G[j], BuddyAddr(b, j) \in G[j]
        PROVE  FALSE
    <3>0. j \in Orders /\ j < MaxOrder
      BY OrderAssumption DEF Orders
    <3>1. CASE b \in F[j] /\ BuddyAddr(b, j) \in F[j]
      BY <1>18, <3>1 DEF Merged
    <3>2. CASE j = top /\ b = B(top)
      <4>1. BuddyAddr(b, j) = Y(top)
        BY <3>2 DEF Y
      <4>2. Y(top) # B(top)
        BY <1>3, <1>6, SizeAssumption DEF Y, BuddyAddr
      <4> QED BY <1>5, <1>13, <2>1, <3>0, <3>2, <4>1, <4>2
    <3>3. CASE j = top /\ BuddyAddr(b, j) = B(top) /\ b \in F[j]
      <4>1. b \in Nat /\ Aligned(b, j)
        BY <3>0, <3>3, RAMAssumption DEF Separate
      <4>2. b = MergedAddr(b, j)
        BY <3>0, <4>1, MergedAligned
      <4>3. BuddyAddr(BuddyAddr(b, j), j) = b
        BY <4>1, <4>2, MergeLevel
      <4>4. Y(top) = b
        BY <3>3, <4>3 DEF Y
      <4> QED BY <1>5, <3>0, <3>3, <4>4
    <3> QED BY <1>13, <2>1, <3>0, <3>1, <3>2, <3>3
  <2> QED BY <2>1 DEF Merged
<1> QED BY <1>12, <1>16, <1>17, <1>18 DEF G

(* A block aligned to an order is aligned to every lower one, and so are   *)
(* the upper halves a split pushes.                                        *)
LEMMA SplitAligned ==
    ASSUME NEW a \in Nat, NEW k \in Orders, NEW j \in Orders, j < k, Aligned(a, k)
    PROVE  /\ Aligned(a, j)
           /\ Aligned(a + BlockFrames[j], j)
           /\ BuddyAddr(a + BlockFrames[j], j) = a
<1> DEFINE s == BlockFrames[j]
<1>1. \A i \in Orders : i <= k => Aligned(a, i)
  <2> DEFINE U == {n \in Nat : n <= k /\ ~Aligned(a, k - n)}
  <2>1. SUFFICES ASSUME NEW i \in Orders, i <= k, ~Aligned(a, i) PROVE FALSE
    OBVIOUS
  <2>2. k - i \in U /\ U \in SUBSET Nat
    BY <2>1, OrderAssumption DEF Orders
  <2>3. PICK n \in U : \A m \in U : n <= m
    <3> HIDE DEF U
    <3> QED BY <2>2, LeastOrder
  <2>4. n # 0
    BY <2>3, OrderAssumption DEF Orders
  <2>5. n - 1 \in Nat /\ n - 1 <= k /\ ~(n <= n - 1)
    BY <2>3, <2>4, OrderAssumption DEF Orders
  <2>6. Aligned(a, k - (n - 1))
    BY <2>3, <2>5
  <2> DEFINE t == BlockFrames[k - n]
             q == a \div (2 * t)
  <2>7. k - n \in 0 .. MaxOrder - 1 /\ k - (n - 1) = (k - n) + 1
    BY <2>3, <2>4, OrderAssumption DEF Orders
  <2>8. t \in Nat \ {0} /\ BlockFrames[k - (n - 1)] = 2 * t
    BY <2>7, SizeAssumption, OrderAssumption DEF Orders
  <2>9. a = q * (2 * t) + (a % (2 * t)) /\ q \in Nat
    <3>1. 2 * t \in Nat \ {0}
      BY <2>8
    <3> QED BY <3>1, DivMod
  <2>10. a % (2 * t) = 0
    BY <2>6, <2>8 DEF Aligned
  <2> HIDE DEF t, q
  <2>11. a = (2 * q) * t + 0 /\ 2 * q \in Nat /\ 0 \in 0 .. t - 1
    BY <2>8, <2>9, <2>10
  <2>12. a % t = 0
    BY <2>8, <2>11, DivModUnique
  <2> QED BY <2>3, <2>12 DEF Aligned, t
<1>2. s \in Nat \ {0} /\ j + 1 \in Orders /\ j + 1 <= k /\ j < MaxOrder /\ j \in 0 .. MaxOrder - 1
  BY SizeAssumption, OrderAssumption DEF Orders
<1>3. BlockFrames[j + 1] = 2 * s
  BY <1>2, SizeAssumption
<1>4. Aligned(a, j) /\ Aligned(a, j + 1)
  BY <1>1, <1>2
<1>5. MergedAddr(a, j) = a /\ MergedAddr(a, j + 1) = a
  BY <1>2, <1>4, MergedAligned
<1> DEFINE y == BuddyAddr(a, j)
<1>6. /\ y \in Nat /\ Aligned(y, j) /\ BuddyAddr(y, j) = a
      /\ Frames(a, j + 1) = Frames(a, j) \cup Frames(y, j)
  BY <1>2, <1>5, MergeLevel
<1>7. y = a + s
  <2>1. y = a + s \/ y = a - s
    BY <1>2 DEF BuddyAddr
  <2>2. y \in Frames(a, j + 1)
    BY <1>2, <1>6 DEF Frames
  <2> QED BY <1>2, <2>1, <2>2 DEF Frames
<1> QED BY <1>4, <1>6, <1>7

(* Taking a block keeps the lists aligned, disjoint and merged, and takes  *)
(* exactly its frames off them: what a split leaves over stays free.       *)
LEMMA TakeBlockLemma ==
    ASSUME NEW F \in [Orders -> SUBSET RAM], NEW o \in Orders, NEW k \in Orders,
           NEW a \in F[k], PopOrder(F, o, k),
           Separate(F), FreeFrames(F) \subseteq RAM
    PROVE  LET G == TakeBlock(F, o, k, a)
           IN  /\ G \in [Orders -> SUBSET RAM]
               /\ Separate(G)
               /\ Frames(a, o) \subseteq FreeFrames(F)
               /\ FreeFrames(G) = FreeFrames(F) \ Frames(a, o)
               /\ Merged(F) => Merged(G)
<1> DEFINE G == TakeBlock(F, o, k, a)
           U(j) == a + BlockFrames[j]
<1>1. o <= k /\ a \in Nat /\ Aligned(a, k) /\ \A j \in o .. k - 1 : F[j] = {}
  BY RAMAssumption DEF PopOrder, Separate, Orders
<1>2. \A j \in o .. k - 1 : j \in Orders /\ j < k
  BY OrderAssumption DEF Orders
<1>3. \A j \in Orders : BlockFrames[j] \in Nat \ {0}
  BY SizeAssumption
<1>4. G = [j \in Orders |-> IF j = k THEN F[j] \ {a}
                            ELSE IF j \in o .. k - 1 THEN F[j] \cup {U(j)} ELSE F[j]]
  BY DEF TakeBlock
<1>5. \A j \in o .. k - 1 : Frames(U(j), j) = (a + BlockFrames[j]) .. (a + 2 * BlockFrames[j] - 1)
  BY <1>1, <1>2, <1>3 DEF Frames
<1> HIDE DEF G
<1>6. \A j \in o .. k - 1 : Frames(U(j), j) \subseteq Frames(a, k) \ Frames(a, o)
  <2>1. ASSUME NEW j \in o .. k - 1, NEW x \in Frames(U(j), j)
        PROVE  x \in Frames(a, k) \ Frames(a, o)
    <3>1. 2 * BlockFrames[j] <= BlockFrames[k]
      BY <1>2, SizesGrow
    <3>2. o = j \/ 2 * BlockFrames[o] <= BlockFrames[j]
      BY <1>2, SizesGrow, OrderAssumption DEF Orders
    <3>3. x \in Int /\ a + BlockFrames[j] <= x /\ x < a + 2 * BlockFrames[j]
      BY <1>1, <1>2, <1>3, <1>5
    <3> QED BY <1>1, <1>2, <1>3, <3>1, <3>2, <3>3 DEF Frames
  <2> QED BY <2>1
<1>7. \A x \in Frames(a, k) \ Frames(a, o) : \E j \in o .. k - 1 : x \in Frames(U(j), j)
  <2>1. ASSUME NEW x \in Frames(a, k), x \notin Frames(a, o)
        PROVE  \E j \in o .. k - 1 : x \in Frames(U(j), j)
    <3> DEFINE d == x - a
    <3>1. d \in Nat /\ BlockFrames[o] <= d /\ d < BlockFrames[k] /\ x = a + d
      BY <1>1, <1>3, <2>1 DEF Frames
    <3> HIDE DEF d
    <3>2. PICK j \in o .. k - 1 : BlockFrames[j] <= d /\ d < 2 * BlockFrames[j]
      BY <3>1, SplitLevel
    <3> QED BY <1>1, <1>2, <1>3, <1>5, <3>1, <3>2
  <2> QED BY <2>1
<1>8. Frames(a, o) \subseteq Frames(a, k)
  <2>1. o = k \/ 2 * BlockFrames[o] <= BlockFrames[k]
    BY <1>1, SizesGrow, OrderAssumption DEF Orders
  <2> QED BY <1>1, <1>3, <2>1 DEF Frames
<1>9. Frames(a, k) \subseteq FreeFrames(F)
  BY FreeFramesMember
<1>10. \A j \in o .. k - 1 : U(j) \in Frames(U(j), j)
  BY <1>1, <1>2, <1>3, <1>5
<1>11. \A j \in o .. k - 1 : Aligned(U(j), j) /\ BuddyAddr(U(j), j) = a
  BY <1>1, <1>2, SplitAligned, OrderAssumption DEF Orders
<1> HIDE DEF U
<1>12. G \in [Orders -> SUBSET RAM]
  <2>1. \A j \in o .. k - 1 : U(j) \in RAM
    BY <1>6, <1>9, <1>10
  <2> QED BY <1>4, <2>1
<1>13. \A j \in Orders : \A b \in G[j] :
          (b \in F[j] /\ <<j, b>> # <<k, a>>) \/ (j \in o .. k - 1 /\ b = U(j))
  BY <1>4
<1>14. \A j \in Orders : \A b \in F[j] : b \in G[j] \/ (j = k /\ b = a)
  BY <1>4
<1>15. \A j \in o .. k - 1 : U(j) \in G[j] /\ G[j] = {U(j)}
  BY <1>1, <1>2, <1>4
<1>16. FreeFrames(G) = FreeFrames(F) \ Frames(a, o)
  <2>1. ASSUME NEW x \in FreeFrames(G) PROVE x \in FreeFrames(F) \ Frames(a, o)
    <3>1. PICK j \in Orders : \E b \in G[j] : x \in Frames(b, j)
      BY <1>12, FreeFramesMember
    <3>2. PICK b \in G[j] : x \in Frames(b, j)
      BY <3>1
    <3>3. CASE j \in o .. k - 1 /\ b = U(j)
      BY <1>6, <1>9, <3>2, <3>3
    <3>4. CASE b \in F[j] /\ <<j, b>> # <<k, a>>
      <4>1. x \in FreeFrames(F)
        BY <3>2, <3>4, FreeFramesMember
      <4>2. Frames(b, j) \cap Frames(a, k) = {}
        BY <3>4 DEF Separate
      <4> QED BY <1>8, <3>2, <4>1, <4>2
    <3> QED BY <1>13, <3>3, <3>4
  <2>2. ASSUME NEW x \in FreeFrames(F), x \notin Frames(a, o) PROVE x \in FreeFrames(G)
    <3>1. PICK j \in Orders : \E b \in F[j] : x \in Frames(b, j)
      BY FreeFramesMember
    <3>2. PICK b \in F[j] : x \in Frames(b, j)
      BY <3>1
    <3>3. CASE b \in G[j]
      BY <1>12, <3>2, <3>3, FreeFramesMember
    <3>4. CASE j = k /\ b = a
      <4>1. PICK i \in o .. k - 1 : x \in Frames(U(i), i)
        BY <1>7, <2>2, <3>2, <3>4
      <4> QED BY <1>2, <1>12, <1>15, <4>1, FreeFramesMember
    <3> QED BY <1>14, <3>3, <3>4
  <2> QED BY <2>1, <2>2
<1>17. Separate(G)
  <2>1. \A j \in Orders : \A b \in G[j] : Aligned(b, j)
    BY <1>11, <1>13 DEF Separate
  <2>2. ASSUME NEW j \in Orders, NEW i \in Orders, NEW b \in G[j], NEW c \in G[i],
               <<j, b>> # <<i, c>>
        PROVE  Frames(b, j) \cap Frames(c, i) = {}
    <3>1. CASE b \in F[j] /\ <<j, b>> # <<k, a>> /\ c \in F[i] /\ <<i, c>> # <<k, a>>
      BY <2>2, <3>1 DEF Separate
    <3>2. CASE b \in F[j] /\ <<j, b>> # <<k, a>> /\ i \in o .. k - 1 /\ c = U(i)
      <4>1. Frames(b, j) \cap Frames(a, k) = {}
        BY <3>2 DEF Separate
      <4> QED BY <1>6, <3>2, <4>1
    <3>3. CASE c \in F[i] /\ <<i, c>> # <<k, a>> /\ j \in o .. k - 1 /\ b = U(j)
      <4>1. Frames(c, i) \cap Frames(a, k) = {}
        BY <3>3 DEF Separate
      <4> QED BY <1>6, <3>3, <4>1
    <3>4. CASE j \in o .. k - 1 /\ b = U(j) /\ i \in o .. k - 1 /\ c = U(i)
      <4>1. i # j
        BY <2>2, <3>4
      <4>2. 2 * BlockFrames[i] <= BlockFrames[j] \/ 2 * BlockFrames[j] <= BlockFrames[i]
        BY <4>1, SizesGrow, OrderAssumption DEF Orders
      <4>3. /\ Frames(b, j) = (a + BlockFrames[j]) .. (a + 2 * BlockFrames[j] - 1)
            /\ Frames(c, i) = (a + BlockFrames[i]) .. (a + 2 * BlockFrames[i] - 1)
        BY <1>5, <3>4
      <4>4. BlockFrames[i] \in Nat /\ BlockFrames[j] \in Nat
        BY <1>3
      <4> QED BY <1>1, <4>2, <4>3, <4>4, HalvesApart
    <3> QED BY <1>13, <3>1, <3>2, <3>3, <3>4
  <2> QED BY <2>1, <2>2 DEF Separate
<1>18. ASSUME Merged(F) PROVE Merged(G)
  <2>1. ASSUME NEW j \in 0 .. MaxOrder - 1, NEW b \in G[j], BuddyAddr(b, j) \in G[j]
        PROVE  FALSE
    <3>0. j \in Orders
      BY OrderAssumption DEF Orders
    <3>1. CASE j \in o .. k - 1
      <4>1. b = U(j) /\ BuddyAddr(b, j) = U(j)
        BY <1>15, <2>1, <3>1
      <4>2. U(j) = a
        BY <1>11, <3>1, <4>1
      <4> QED BY <1>1, <1>3, <3>0, <4>2 DEF U
    <3>2. CASE j \notin o .. k - 1
      BY <1>13, <1>18, <2>1, <3>0, <3>2 DEF Merged
    <3> QED BY <3>1, <3>2
  <2> QED BY <2>1 DEF Merged
<1> QED BY <1>8, <1>9, <1>12, <1>16, <1>17, <1>18 DEF G
-----------------------------------------------------------------------------
(* The inductive invariant *)

(* Every frame is in exactly one of five places. *)
Apart ==
    /\ FreeFrames(free) \cap held = {}
    /\ FreeFrames(free) \cap StolenFrames = {}
    /\ FreeFrames(free) \cap boot = {}
    /\ FreeFrames(free) \cap IngestFrames = {}
    /\ held \cap StolenFrames = {}
    /\ held \cap boot = {}
    /\ held \cap IngestFrames = {}
    /\ StolenFrames \cap boot = {}
    /\ StolenFrames \cap IngestFrames = {}
    /\ boot \cap IngestFrames = {}

StolenSeparate ==
    /\ \A b \in stolen : Aligned(b[2], b[1])
    /\ \A b, c \in stolen : b # c => Frames(b[2], b[1]) \cap Frames(c[2], c[1]) = {}

IndInv ==
    /\ TypeOK
    /\ Separate(free)
    /\ Merged(free)
    /\ Apart
    /\ StolenSeparate
    /\ Conservation

(* The types of the pool's variables that the inductive invariant gives.   *)
LEMMA IndInvTypes ==
    ASSUME IndInv
    PROVE  /\ FreeFrames(free) \in SUBSET RAM /\ StolenFrames \in SUBSET RAM
           /\ boot \in SUBSET RAM /\ IngestFrames \in SUBSET RAM
           /\ held \in SUBSET RAM /\ IsFiniteSet(held)
           /\ IsFiniteSet(RAM \ (boot \cup IngestFrames))
<1>1. FreeFrames(free) \cup held \cup StolenFrames \cup boot \cup IngestFrames = RAM
  BY DEF IndInv, Conservation
<1>2. held \in SUBSET RAM /\ RAM \ (boot \cup IngestFrames) \in SUBSET RAM
  BY <1>1
<1>3. IsFiniteSet(held) /\ IsFiniteSet(RAM \ (boot \cup IngestFrames))
  BY <1>2, FS_Subset, RAMAssumption
<1> QED BY <1>1, <1>3

(* A block has as many frames as its size says. *)
LEMMA FramesCardinality ==
    ASSUME NEW a \in Nat, NEW o \in Orders
    PROVE  IsFiniteSet(Frames(a, o)) /\ Cardinality(Frames(a, o)) = BlockFrames[o]
<1>1. BlockFrames[o] \in Nat \ {0}
  BY SizeAssumption
<1> DEFINE e == a + BlockFrames[o] - 1
<1>2. a \in Int /\ e \in Int /\ ~(a > e) /\ e - a + 1 = BlockFrames[o]
  BY <1>1
<1> HIDE DEF e
<1>3. IsFiniteSet(a .. e) /\ Cardinality(a .. e) = IF a > e THEN 0 ELSE e - a + 1
  BY <1>2, FS_Interval
<1> QED BY <1>2, <1>3 DEF Frames, e

(* Disjoint finite sets of frames add up. *)
LEMMA CardDisjointUnion ==
    ASSUME NEW S, NEW T, IsFiniteSet(S), IsFiniteSet(T), S \cap T = {}
    PROVE  /\ IsFiniteSet(S \cup T)
           /\ Cardinality(S \cup T) = Cardinality(S) + Cardinality(T)
<1>1. /\ IsFiniteSet(S \cup T)
      /\ Cardinality(S \cup T) = Cardinality(S) + Cardinality(T) - Cardinality(S \cap T)
  BY FS_Union
<1>2. Cardinality(S \cap T) = 0
  BY FS_EmptySet
<1>3. Cardinality(S) \in Nat /\ Cardinality(T) \in Nat
  BY FS_CardinalityType
<1> QED BY <1>1, <1>2, <1>3

(* Taking frames from a finite set subtracts their number. *)
LEMMA CardSubset ==
    ASSUME NEW S, NEW T, IsFiniteSet(S), T \subseteq S
    PROVE  /\ IsFiniteSet(S \ T)
           /\ Cardinality(S \ T) = Cardinality(S) - Cardinality(T)
<1>1. /\ IsFiniteSet(S \ T)
      /\ Cardinality(S \ T) = Cardinality(S) - Cardinality(S \cap T)
  BY FS_Difference
<1>2. S \cap T = T
  OBVIOUS
<1> QED BY <1>1, <1>2

(* PhysicalFramePool::new gives a pool that satisfies the invariant.       *)
LEMMA InitIndInv == Init => IndInv
<1> SUFFICES ASSUME Init PROVE IndInv
  OBVIOUS
<1>1. TypeOK
  BY OrderAssumption, RAMAssumption DEF Init, TypeOK
<1>2. FreeFrames(free) = {}
  <2>1. \A o \in Orders : free[o] = {}
    BY DEF Init
  <2> QED BY <1>1, <2>1, FreeFramesMember DEF TypeOK
<1>3. StolenFrames = {} /\ IngestFrames = {}
  BY DEF Init, StolenFrames, IngestFrames
<1>4. Separate(free) /\ Merged(free)
  BY OrderAssumption DEF Init, Separate, Merged, Orders
<1>5. Conservation
  <2>1. RAM \ (boot \cup IngestFrames) = {}
    BY <1>3 DEF Init
  <2> QED BY <1>2, <1>3, <2>1, FS_EmptySet DEF Init, Conservation
<1>6. Apart
  BY <1>2, <1>3 DEF Init, Apart
<1>7. StolenSeparate
  BY DEF Init, StolenSeparate
<1> QED BY <1>1, <1>4, <1>5, <1>6, <1>7 DEF IndInv

(* Every operation of the pool preserves the invariant: one step for each  *)
(* action, one below it for each conjunct the action can disturb.          *)
LEMMA NextIndInv == IndInv /\ [Next]_vars => IndInv'
<1> SUFFICES ASSUME IndInv, [Next]_vars PROVE IndInv'
  OBVIOUS
<1> USE DEF IndInv
<1>0. /\ FreeFrames(free) \in SUBSET RAM /\ StolenFrames \in SUBSET RAM
      /\ boot \in SUBSET RAM /\ IngestFrames \in SUBSET RAM
      /\ held \in SUBSET RAM /\ IsFiniteSet(held)
      /\ IsFiniteSet(RAM \ (boot \cup IngestFrames))
  BY IndInvTypes
<1>1. /\ free \in [Orders -> SUBSET RAM] /\ Separate(free) /\ Merged(free)
      /\ total_frames \in Nat /\ allocated_frames \in Nat
      /\ RAM \in SUBSET Nat
  BY RAMAssumption DEF TypeOK
<1>2. CASE AddFrame
  <2>1. PICK f \in boot : /\ free' = FreeBlock(free, f, 0)
                          /\ boot' = boot \ {f}
    BY <1>2 DEF AddFrame
  <2>2. /\ total_frames' = total_frames + 1
        /\ UNCHANGED <<allocated_frames, phase, ingest, held, stolen, restoring>>
    BY <1>2 DEF AddFrame
  <2>3. f \in RAM /\ f \in Nat /\ 0 \in Orders /\ Aligned(f, 0) /\ Frames(f, 0) = {f}
    BY <1>0, <1>1, OrderAssumption, SizeAssumption DEF Orders, Aligned, Frames
  <2>4. Frames(f, 0) \subseteq RAM /\ Frames(f, 0) \cap FreeFrames(free) = {}
    BY <2>3 DEF Apart
  <2>5. /\ free' \in [Orders -> SUBSET RAM] /\ Separate(free') /\ Merged(free')
        /\ FreeFrames(free') = FreeFrames(free) \cup {f}
    BY <1>0, <1>1, <2>1, <2>3, <2>4, FreeBlockLemma
  <2>6. StolenFrames' = StolenFrames /\ IngestFrames' = IngestFrames
    BY <2>2 DEF StolenFrames, IngestFrames
  <2>7. Conservation'
    <3>1. RAM \ (boot' \cup IngestFrames) = (RAM \ (boot \cup IngestFrames)) \cup {f}
      BY <2>1, <2>3 DEF Apart
    <3>2. Cardinality(RAM \ (boot' \cup IngestFrames)) = Cardinality(RAM \ (boot \cup IngestFrames)) + 1
      BY <1>0, <3>1, FS_AddElement
    <3> QED BY <2>1, <2>2, <2>5, <2>6, <3>2 DEF Conservation
  <2>8. Apart'
    BY <2>1, <2>2, <2>5, <2>6 DEF Apart
  <2>9. TypeOK' /\ StolenSeparate'
    BY <1>1, <2>1, <2>2, <2>5 DEF TypeOK, StolenSeparate
  <2> QED BY <2>5, <2>7, <2>8, <2>9
<1>3. CASE TakeRange
  <2>1. PICK f \in boot, n \in 1 .. Cardinality(RAM) :
            /\ f .. (f + n - 1) \subseteq boot
            /\ ingest' = [addr |-> f, nframes |-> n]
            /\ boot' = boot \ (f .. (f + n - 1))
    BY <1>3 DEF TakeRange
  <2>2. /\ ingest.nframes = 0 /\ phase' = "ingest"
        /\ UNCHANGED <<free, total_frames, allocated_frames, held, stolen, restoring>>
    BY <1>3 DEF TakeRange
  <2>3. Cardinality(RAM) \in Nat /\ f \in Nat /\ n \in Nat
    BY <1>0, <1>1, RAMAssumption, FS_CardinalityType
  <2>4. IngestFrames' = f .. (f + n - 1)
    BY <2>1, <2>3 DEF IngestFrames
  <2>5. IngestFrames = {}
    BY <2>2 DEF IngestFrames, TypeOK
  <2>6. StolenFrames' = StolenFrames
    BY <2>2 DEF StolenFrames
  <2>7. boot' \cup IngestFrames' = boot \cup IngestFrames
    BY <2>1, <2>4, <2>5
  <2>8. Conservation' /\ Apart'
    BY <2>1, <2>2, <2>4, <2>5, <2>6, <2>7 DEF Conservation, Apart
  <2>9. TypeOK' /\ StolenSeparate'
    BY <2>1, <2>2, <2>3 DEF TypeOK, StolenSeparate
  <2> QED BY <2>2, <2>8, <2>9 DEF Separate, Merged
<1>4. CASE AddRange
  <2> DEFINE a == ingest.addr
             n == ingest.nframes
  <2>1. PICK o \in Orders :
            /\ RangeOrder(o)
            /\ free' = FreeBlock(free, a, o)
            /\ total_frames' = total_frames + BlockFrames[o]
            /\ ingest' = [addr |-> a + BlockFrames[o], nframes |-> n - BlockFrames[o]]
    BY <1>4 DEF AddRange
  <2>2. /\ n > 0
        /\ UNCHANGED <<allocated_frames, boot, phase, held, stolen, restoring>>
    BY <1>4 DEF AddRange
  <2>3. a \in Nat /\ n \in Nat /\ BlockFrames[o] \in Nat \ {0}
    BY SizeAssumption DEF TypeOK
  <2>4. BlockFrames[o] <= n /\ Aligned(a, o)
    <3>1. CASE o = 0
      BY <2>2, <2>3, <3>1, SizeAssumption DEF Aligned
    <3>2. CASE o # 0
      <4>1. o \in 1 .. o
        BY <3>2, OrderAssumption DEF Orders
      <4> QED BY <2>1, <4>1 DEF RangeOrder, FitsRange
    <3> QED BY <3>1, <3>2
  <2>5. /\ IngestFrames = Frames(a, o) \cup IngestFrames'
        /\ Frames(a, o) \cap IngestFrames' = {}
    BY <2>1, <2>3, <2>4 DEF IngestFrames, Frames
  <2>6. Frames(a, o) \subseteq RAM /\ Frames(a, o) \cap FreeFrames(free) = {}
    BY <1>0, <2>5 DEF Apart
  <2>7. /\ free' \in [Orders -> SUBSET RAM] /\ Separate(free') /\ Merged(free')
        /\ FreeFrames(free') = FreeFrames(free) \cup Frames(a, o)
    BY <1>0, <1>1, <2>1, <2>3, <2>4, <2>6, FreeBlockLemma
  <2>8. StolenFrames' = StolenFrames
    BY <2>2 DEF StolenFrames
  <2>9. Conservation'
    <3>1. /\ RAM \ (boot \cup IngestFrames') = (RAM \ (boot \cup IngestFrames)) \cup Frames(a, o)
          /\ (RAM \ (boot \cup IngestFrames)) \cap Frames(a, o) = {}
      BY <1>0, <2>5, <2>6 DEF Apart
    <3>2. Cardinality(RAM \ (boot \cup IngestFrames'))
            = Cardinality(RAM \ (boot \cup IngestFrames)) + BlockFrames[o]
      BY <1>0, <2>3, <3>1, FramesCardinality, CardDisjointUnion
    <3> QED BY <2>1, <2>2, <2>5, <2>7, <2>8, <3>2 DEF Conservation
  <2>10. Apart'
    BY <2>2, <2>5, <2>7, <2>8 DEF Apart
  <2>11. TypeOK' /\ StolenSeparate'
    BY <1>1, <2>1, <2>2, <2>3, <2>4, <2>7 DEF TypeOK, StolenSeparate
  <2> QED BY <2>7, <2>9, <2>10, <2>11
<1>5. CASE EndBoot
  <2>1. UNCHANGED <<free, total_frames, allocated_frames, boot, ingest, held, stolen, restoring>>
        /\ phase' = "run"
    BY <1>5 DEF EndBoot
  <2> QED BY <2>1 DEF TypeOK, Separate, Merged, Apart, StolenSeparate, Conservation,
                      StolenFrames, IngestFrames
<1>6. ASSUME NEW o \in Orders, AllocateOrder(o) PROVE IndInv'
  <2>0. PICK k \in Orders : \E a \in free[k] :
            /\ PopOrder(free, o, k)
            /\ free' = TakeBlock(free, o, k, a)
            /\ held' = held \cup Frames(a, o)
    BY <1>6 DEF AllocateOrder
  <2>1. PICK a \in free[k] :
            /\ PopOrder(free, o, k)
            /\ free' = TakeBlock(free, o, k, a)
            /\ held' = held \cup Frames(a, o)
    BY <2>0
  <2>2. /\ allocated_frames' = allocated_frames + BlockFrames[o]
        /\ UNCHANGED <<total_frames, boot, phase, ingest, stolen, restoring>>
    BY <1>6 DEF AllocateOrder
  <2>3. /\ free' \in [Orders -> SUBSET RAM] /\ Separate(free') /\ Merged(free')
        /\ Frames(a, o) \subseteq FreeFrames(free)
        /\ FreeFrames(free') = FreeFrames(free) \ Frames(a, o)
    BY <1>0, <1>1, <2>1, TakeBlockLemma
  <2>4. StolenFrames' = StolenFrames /\ IngestFrames' = IngestFrames
    BY <2>2 DEF StolenFrames, IngestFrames
  <2>5. a \in Nat /\ BlockFrames[o] \in Nat
    BY <1>1, SizeAssumption
  <2>6. Conservation'
    <3>1. held \cap Frames(a, o) = {}
      BY <2>3 DEF Apart
    <3>2. IsFiniteSet(Frames(a, o)) /\ Cardinality(Frames(a, o)) = BlockFrames[o]
      BY <2>5, FramesCardinality
    <3>3. Cardinality(held \cup Frames(a, o)) = Cardinality(held) + BlockFrames[o]
      BY <1>0, <3>1, <3>2, CardDisjointUnion
    <3> QED BY <2>1, <2>2, <2>3, <2>4, <3>3 DEF Conservation
  <2>7. Apart'
    BY <2>1, <2>2, <2>3, <2>4 DEF Apart
  <2>8. TypeOK' /\ StolenSeparate'
    <3>1. held' \subseteq RAM
      BY <1>0, <2>1, <2>3
    <3>2. allocated_frames' \in Nat
      BY <1>1, <2>2, <2>5
    <3> QED BY <2>2, <2>3, <3>1, <3>2 DEF TypeOK, StolenSeparate
  <2> QED BY <2>3, <2>6, <2>7, <2>8
<1>7. ASSUME NEW o \in Orders, NEW a \in held, FreeOrder(a, o) PROVE IndInv'
  <2>1. /\ Aligned(a, o)
        /\ Frames(a, o) \subseteq held
        /\ free' = FreeBlock(free, a, o)
        /\ held' = held \ Frames(a, o)
        /\ allocated_frames' = IF allocated_frames >= BlockFrames[o]
                               THEN allocated_frames - BlockFrames[o] ELSE 0
        /\ UNCHANGED <<total_frames, boot, phase, ingest, stolen, restoring>>
    BY <1>7 DEF FreeOrder
  <2>2. a \in Nat /\ BlockFrames[o] \in Nat
    BY <1>0, <1>1, SizeAssumption
  <2>3. Frames(a, o) \subseteq RAM /\ Frames(a, o) \cap FreeFrames(free) = {}
    BY <1>0, <2>1 DEF Apart
  <2>4. /\ free' \in [Orders -> SUBSET RAM] /\ Separate(free') /\ Merged(free')
        /\ FreeFrames(free') = FreeFrames(free) \cup Frames(a, o)
    BY <1>0, <1>1, <2>1, <2>2, <2>3, FreeBlockLemma
  <2>5. StolenFrames' = StolenFrames /\ IngestFrames' = IngestFrames
    BY <2>1 DEF StolenFrames, IngestFrames
  <2>6. Conservation'
    <3>0. Cardinality(Frames(a, o)) = BlockFrames[o]
      BY <2>2, FramesCardinality
    <3>1. Cardinality(held \ Frames(a, o)) = Cardinality(held) - BlockFrames[o]
      BY <1>0, <2>1, <3>0, CardSubset
    <3>2. Cardinality(held \ Frames(a, o)) \in Nat /\ Cardinality(held) \in Nat
      <4>1. IsFiniteSet(held \ Frames(a, o))
        BY <1>0, <2>1, CardSubset
      <4> QED BY <1>0, <4>1, FS_CardinalityType
    <3>3. allocated_frames' = Cardinality(held')
      BY <2>1, <2>2, <3>1, <3>2 DEF Conservation
    <3> QED BY <2>1, <2>4, <2>5, <3>3 DEF Conservation
  <2>7. Apart'
    BY <2>1, <2>4, <2>5 DEF Apart
  <2>8. allocated_frames' \in Nat
    BY <1>1, <2>1, <2>2
  <2>9. TypeOK' /\ StolenSeparate'
    BY <1>0, <1>1, <2>1, <2>4, <2>8 DEF TypeOK, StolenSeparate
  <2> QED BY <2>4, <2>6, <2>7, <2>9
<1>8. CASE StealFreeFrames
  <2>1. /\ stolen = {}
        /\ stolen' = {b \in Orders \X RAM : b[2] \in free[b[1]]}
        /\ free' = [o \in Orders |-> {}]
        /\ UNCHANGED <<total_frames, allocated_frames, boot, phase, ingest, held, restoring>>
    BY <1>8 DEF StealFreeFrames
  <2>2. free' \in [Orders -> SUBSET RAM] /\ \A o \in Orders : free'[o] = {}
    BY <2>1
  <2>3. FreeFrames(free') = {}
    BY <2>2, FreeFramesMember
  <2>4. StolenFrames = {}
    BY <2>1 DEF StolenFrames
  <2>5. StolenFrames' = FreeFrames(free)
    BY <2>1 DEF StolenFrames, FreeFrames
  <2>6. IngestFrames' = IngestFrames
    BY <2>1 DEF IngestFrames
  <2>7. Separate(free') /\ Merged(free')
    BY <2>2, OrderAssumption DEF Separate, Merged, Orders
  <2>8. StolenSeparate'
    <3>1. ASSUME NEW b \in stolen' PROVE Aligned(b[2], b[1])
      BY <1>1, <2>1 DEF Separate
    <3>2. ASSUME NEW b \in stolen', NEW c \in stolen', b # c
          PROVE  Frames(b[2], b[1]) \cap Frames(c[2], c[1]) = {}
      <4>1. /\ b[1] \in Orders /\ c[1] \in Orders
            /\ b[2] \in free[b[1]] /\ c[2] \in free[c[1]]
            /\ b = <<b[1], b[2]>> /\ c = <<c[1], c[2]>>
        BY <2>1
      <4> QED BY <1>1, <3>2, <4>1 DEF Separate
    <3> QED BY <3>1, <3>2 DEF StolenSeparate
  <2>9. Conservation' /\ Apart'
    BY <2>1, <2>3, <2>4, <2>5, <2>6 DEF Conservation, Apart
  <2>10. TypeOK'
    BY <2>1, <2>2 DEF TypeOK
  <2> QED BY <2>7, <2>8, <2>9, <2>10
<1>9. CASE RestoreFreeFrames
  <2>1. PICK b \in stolen :
            /\ free' = FreeBlock(free, b[2], b[1])
            /\ stolen' = stolen \ {b}
            /\ restoring' = (stolen # {b})
    BY <1>9 DEF RestoreFreeFrames
  <2>2. UNCHANGED <<total_frames, allocated_frames, boot, phase, ingest, held>>
    BY <1>9 DEF RestoreFreeFrames
  <2>3. b[1] \in Orders /\ b[2] \in Nat /\ Aligned(b[2], b[1])
    BY <1>1 DEF TypeOK, StolenSeparate
  <2>4. Frames(b[2], b[1]) \subseteq StolenFrames
    BY DEF StolenFrames
  <2>5. Frames(b[2], b[1]) \subseteq RAM /\ Frames(b[2], b[1]) \cap FreeFrames(free) = {}
    BY <1>0, <2>4 DEF Apart
  <2>6. /\ free' \in [Orders -> SUBSET RAM] /\ Separate(free') /\ Merged(free')
        /\ FreeFrames(free') = FreeFrames(free) \cup Frames(b[2], b[1])
    BY <1>0, <1>1, <2>1, <2>3, <2>5, FreeBlockLemma
  <2>7. /\ StolenFrames = StolenFrames' \cup Frames(b[2], b[1])
        /\ StolenFrames' \cap Frames(b[2], b[1]) = {}
    <3>1. ASSUME NEW x \in StolenFrames PROVE x \in StolenFrames' \cup Frames(b[2], b[1])
      BY <2>1 DEF StolenFrames
    <3>2. ASSUME NEW x \in StolenFrames'
          PROVE  x \in StolenFrames /\ x \notin Frames(b[2], b[1])
      <4>1. PICK c \in stolen' : x \in Frames(c[2], c[1])
        BY DEF StolenFrames
      <4>2. c \in stolen /\ c # b
        BY <2>1
      <4>3. Frames(c[2], c[1]) \cap Frames(b[2], b[1]) = {}
        BY <4>2 DEF StolenSeparate
      <4> QED BY <4>1, <4>2, <4>3 DEF StolenFrames
    <3> QED BY <2>4, <3>1, <3>2
  <2>8. IngestFrames' = IngestFrames
    BY <2>2 DEF IngestFrames
  <2>9. Conservation' /\ Apart'
    BY <2>2, <2>6, <2>7, <2>8 DEF Conservation, Apart
  <2>10. StolenSeparate'
    BY <2>1 DEF StolenSeparate
  <2>11. TypeOK'
    BY <2>1, <2>2, <2>6 DEF TypeOK
  <2> QED BY <2>6, <2>9, <2>10, <2>11
<1>10. CASE UNCHANGED vars
  BY <1>10 DEF vars, TypeOK, Separate, Merged, Apart, StolenSeparate, Conservation,
               StolenFrames, IngestFrames
<1> QED BY <1>2, <1>3, <1>4, <1>5, <1>6, <1>7, <1>8, <1>9, <1>10 DEF Next

(* No frame is ever handed out twice and none is lost, on every memory map *)
(* and for every sequence of requests: the pool's state keeps its type,    *)
(* its blocks stay disjoint and aligned, its counters exact, and its free  *)
(* blocks merged (free_block, take_block and all their callers).           *)
THEOREM FramePoolInductive == Spec => []IndInv
<1>1. Init => IndInv
  BY InitIndInv
<1>2. IndInv /\ [Next]_vars => IndInv'
  BY NextIndInv
<1> QED BY <1>1, <1>2, PTL DEF Spec

(* The state of the frame pool is always well formed. *)
THEOREM FramePoolType == Spec => []TypeOK
<1>1. IndInv => TypeOK
  BY DEF IndInv
<1> QED BY <1>1, FramePoolInductive, PTL

(* take_block never hands out a frame that is still in use: free blocks    *)
(* are aligned, disjoint from each other and from every frame out of the   *)
(* pool.                                                                   *)
THEOREM FramePoolNoOverlap == Spec => []NoOverlap
<1>1. IndInv => NoOverlap
  BY DEF IndInv, Apart, NoOverlap
<1> QED BY <1>1, FramePoolInductive, PTL

(* Splits, merges, steals and restores neither lose nor invent a frame,    *)
(* and total_frames and allocated_frames are exact.                        *)
THEOREM FramePoolConservation == Spec => []Conservation
<1>1. IndInv => Conservation
  BY DEF IndInv
<1> QED BY <1>1, FramePoolInductive, PTL

(* free_block always merges as far as it can: no block and its buddy are   *)
(* ever both free at one order.                                            *)
THEOREM FramePoolCoalesced == Spec => []Coalesced
<1>1. IndInv => Coalesced
  BY DEF IndInv, Coalesced
<1> QED BY <1>1, FramePoolInductive, PTL
-----------------------------------------------------------------------------
(* Fragmentation *)

(* The aligned block of an order that holds a frame is unique. *)
LEMMA BlockOfFrame ==
    ASSUME NEW c \in Nat, NEW m \in Orders, Aligned(c, m), NEW x \in Frames(c, m)
    PROVE  x \in Nat /\ MergedAddr(x, m) = c
<1> DEFINE s == BlockFrames[m]
           q == c \div s
<1>1. s \in Nat \ {0}
  BY SizeAssumption
<1>2. x \in Nat /\ x - c \in 0 .. s - 1
  BY <1>1 DEF Frames
<1>3. c = q * s + (c % s) /\ q \in Nat /\ c % s = 0
  BY <1>1, DivMod DEF Aligned
<1> HIDE DEF s, q
<1> DEFINE r == x - c
<1>4. x = q * s + r /\ r \in 0 .. s - 1
  BY <1>1, <1>2, <1>3
<1>5. x - r = c
  BY <1>2
<1> HIDE DEF r
<1>6. q \in Nat /\ x \in Nat
  BY <1>2, <1>3
<1>7. x % s = r
  BY <1>1, <1>4, <1>6, DivModUnique
<1> QED BY <1>2, <1>5, <1>7 DEF MergedAddr, s

(* In merged lists an aligned run of free frames lies in one free block.   *)
LEMMA RunInOneBlock ==
    ASSUME NEW F \in [Orders -> SUBSET RAM], Separate(F), Merged(F),
           NEW o \in Orders, NEW a \in Nat, Aligned(a, o),
           Frames(a, o) \subseteq FreeFrames(F)
    PROVE  \E k \in o .. MaxOrder : \E c \in F[k] : Frames(a, o) \subseteq Frames(c, k)
<1> DEFINE Run(n, b) == Aligned(b, n) /\ Frames(b, n) \subseteq FreeFrames(F)
           One(n, b) == \E k \in n .. MaxOrder : \E c \in F[k] : Frames(b, n) \subseteq Frames(c, k)
           T == {n \in Orders : \E b \in Nat : Run(n, b) /\ ~One(n, b)}
<1>1. SUFFICES ASSUME T # {} PROVE FALSE
  OBVIOUS
<1>2. PICK n \in T : \A m \in T : n <= m
  <2>1. T \in SUBSET Nat
    BY OrderAssumption DEF Orders
  <2> HIDE DEF T
  <2> QED BY <1>1, <2>1, LeastOrder
<1>3. PICK b \in Nat : Run(n, b) /\ ~One(n, b)
  OBVIOUS
<1>4. n \in Orders /\ \A j \in Orders : BlockFrames[j] \in Nat \ {0}
  BY SizeAssumption
(* A free block of at least order n that meets the run contains it. *)
<1>5. ASSUME NEW k \in Orders, n <= k, NEW c \in F[k], NEW x \in Frames(b, n), x \in Frames(c, k)
      PROVE  FALSE
  <2>1. c \in Nat /\ Aligned(c, k)
    BY RAMAssumption DEF Separate
  <2>2. x \in Nat /\ MergedAddr(x, k) = c
    BY <1>5, <2>1, BlockOfFrame
  <2>3. MergedAddr(x, n) = b
    BY <1>3, <1>4, BlockOfFrame
  <2>4. Frames(b, n) \subseteq Frames(c, k)
    BY <1>4, <1>5, <2>2, <2>3, MergeNested
  <2>5. k \in n .. MaxOrder
    BY <1>4, <1>5, OrderAssumption DEF Orders
  <2> QED BY <1>3, <2>4, <2>5
<1>6. b \in Frames(b, n)
  BY <1>4 DEF Frames
<1>7. n # 0
  <2>1. SUFFICES ASSUME n = 0 PROVE FALSE
    OBVIOUS
  <2>2. PICK k \in Orders : \E c \in F[k] : b \in Frames(c, k)
    BY <1>3, <1>6, FreeFramesMember
  <2>3. n <= k
    BY <2>1, OrderAssumption DEF Orders
  <2> QED BY <1>5, <1>6, <2>2, <2>3
<1> DEFINE m == n - 1
<1>8. m \in 0 .. MaxOrder - 1 /\ m \in Orders /\ m + 1 = n /\ m < n /\ ~(n <= m)
  BY <1>4, <1>7, OrderAssumption DEF Orders
<1> HIDE DEF m
(* The two halves of the run. *)
<1>9. PICK y \in Nat : /\ Aligned(b, m) /\ Aligned(y, m) /\ BuddyAddr(b, m) = y
                       /\ Frames(b, n) = Frames(b, m) \cup Frames(y, m)
  <2>1. Aligned(b, m)
    BY <1>3, <1>4, <1>8, SplitAligned
  <2>2. MergedAddr(b, m) = b /\ MergedAddr(b, n) = b
    BY <1>3, <1>4, <1>8, <2>1, MergedAligned
  <2> DEFINE z == BuddyAddr(b, m)
  <2>3. z \in Nat /\ Aligned(z, m) /\ Frames(MergedAddr(b, m + 1), m + 1) = Frames(b, m) \cup Frames(z, m)
    BY <1>8, <2>2, MergeLevel
  <2> QED BY <1>8, <2>1, <2>2, <2>3
(* By the choice of n each half lies in one block, of order m exactly. *)
<1>10. ASSUME NEW h \in Nat, Aligned(h, m), Frames(h, m) \subseteq Frames(b, n)
       PROVE  h \in F[m]
  <2>1. Run(m, h)
    BY <1>3, <1>10
  <2>2. One(m, h)
    <3>1. m \notin T
      BY <1>2, <1>8
    <3> HIDE DEF Run, One
    <3> QED BY <1>8, <2>1, <3>1
  <2>3. PICK k \in m .. MaxOrder : \E c \in F[k] : Frames(h, m) \subseteq Frames(c, k)
    BY <2>2
  <2>4. PICK c \in F[k] : Frames(h, m) \subseteq Frames(c, k)
    BY <2>3
  <2>5. h \in Frames(h, m) /\ k \in Orders
    BY <1>4, <1>8, OrderAssumption DEF Frames, Orders
  <2>6. k = m
    <3>1. ~(n <= k)
      BY <1>5, <1>10, <2>4, <2>5
    <3> QED BY <1>8, <2>5, <3>1, OrderAssumption DEF Orders
  <2>7. c \in Nat /\ Aligned(c, m)
    BY <2>5, <2>6, RAMAssumption DEF Separate
  <2>8. MergedAddr(h, m) = c
    BY <1>8, <2>4, <2>5, <2>6, <2>7, BlockOfFrame
  <2>9. MergedAddr(h, m) = h
    BY <1>8, <1>10, MergedAligned
  <2> QED BY <2>6, <2>8, <2>9
<1>11. b \in F[m] /\ y \in F[m]
  BY <1>9, <1>10
<1> QED BY <1>8, <1>9, <1>11 DEF Merged

(* allocate_order fails only when it must: if any aligned run of the       *)
(* requested size is completely free, take_block finds a block.            *)
THEOREM FramePoolNoFragmentation == Spec => []NoFragmentation
<1>1. IndInv => NoFragmentation
  <2>1. SUFFICES ASSUME IndInv, NEW o \in Orders, NEW a \in RAM, Aligned(a, o),
                        Frames(a, o) \subseteq FreeFrames(free)
                 PROVE  \E k \in o .. MaxOrder : free[k] # {}
    BY DEF NoFragmentation
  <2>2. a \in Nat /\ free \in [Orders -> SUBSET RAM] /\ Separate(free) /\ Merged(free)
    BY <2>1, RAMAssumption DEF IndInv, TypeOK
  <2>3. PICK k \in o .. MaxOrder : \E c \in free[k] : Frames(a, o) \subseteq Frames(c, k)
    BY <2>1, <2>2, RunInOneBlock
  <2> QED BY <2>3
<1> QED BY <1>1, FramePoolInductive, PTL

(* Every frame is in one place and counted there: FramesAccounted of the   *)
(* runs, for every memory map (free_block, take_block and their callers).  *)
THEOREM FramePoolAccounted == Spec => []FramesAccounted
BY FramePoolType, FramePoolNoOverlap, FramePoolConservation, PTL DEF FramesAccounted

(* Free memory is merged and can be had: Unfragmented of the runs, for     *)
(* every memory map (free_block, take_block).                              *)
THEOREM FramePoolUnfragmented == Spec => []Unfragmented
BY FramePoolCoalesced, FramePoolNoFragmentation, PTL DEF Unfragmented
=============================================================================
