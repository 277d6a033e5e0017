----------------------------- MODULE FramePool -----------------------------
(***************************************************************************)
(* The physical buddy allocator of the kernel (kernel/src/mm/vmm/frame.rs, *)
(* PhysicalFramePool and the functions around FRAME_POOL).                  *)
(*                                                                         *)
(* Addresses are counted in 4 KiB frames, so the masks "& !0xFFF" of the   *)
(* code are the identity.  A free list is a set: the code pops the last    *)
(* element of a Vec that swap_remove reorders, the model pops any element. *)
(* Every operation holds the FRAME_POOL lock from its first access to its  *)
(* last and is one action; the two loops under the lock (add_range and     *)
(* restore_free_frames) take one action per iteration, with every other    *)
(* operation shut out until they end.                                      *)
(***************************************************************************)
EXTENDS Integers, FiniteSets

CONSTANTS
    MaxOrder,      \* BUDDY_MAX_ORDER
    BlockFrames,   \* block_size(order), in frames: 2^order
    RAM            \* the usable frames of the bootloader's memory map

Orders == 0 .. MaxOrder

ASSUME OrderAssumption == MaxOrder \in Nat

(* block_size(order) = PAGE_SIZE << order: it doubles with the order. *)
ASSUME SizeAssumption ==
    /\ BlockFrames \in [Orders -> Nat \ {0}]
    /\ BlockFrames[0] = 1
    /\ \A o \in 0 .. MaxOrder - 1 : BlockFrames[o + 1] = 2 * BlockFrames[o]

ASSUME RAMAssumption == RAM \in SUBSET Nat /\ IsFiniteSet(RAM)

VARIABLES
    free,              \* the free list of each order: addresses of blocks
    total_frames,
    allocated_frames,
    boot,              \* frames the bootloader allocator still has
    phase,             \* "populate", "ingest" (boot), then "run"
    ingest,            \* what add_range has still to add: address and count
    held,              \* frames handed out and not yet given back
    stolen,            \* blocks out of the pool between steal and restore
    restoring          \* restore_free_frames is in its loop

vars == <<free, total_frames, allocated_frames, boot, phase, ingest, held,
          stolen, restoring>>

Frames(addr, order) == addr .. (addr + BlockFrames[order] - 1)

Aligned(addr, order) == addr % BlockFrames[order] = 0

(* The frames on the free lists F. *)
FreeFrames(F) == UNION {Frames(b[2], b[1]) : b \in {c \in Orders \X RAM : c[2] \in F[c[1]]}}

StolenFrames == UNION {Frames(b[2], b[1]) : b \in stolen}

IngestFrames == ingest.addr .. (ingest.addr + ingest.nframes - 1)
-----------------------------------------------------------------------------
(* addr ^ block_size(order): flips one bit of the address. *)
BuddyAddr(addr, order) ==
    IF (addr \div BlockFrames[order]) % 2 = 0
    THEN addr + BlockFrames[order]
    ELSE addr - BlockFrames[order]

(* The address free_block has reached after merging up to an order: each   *)
(* merge takes addr.min(buddy), which clears the bit of that order.        *)
MergedAddr(addr, order) == addr - (addr % BlockFrames[order])

BuddyFree(F, addr, order) ==
    BuddyAddr(MergedAddr(addr, order), order) \in F[order]

(* Mutant: one merge only. *)
MergeOrderOnce(F, addr, order) ==
    IF order < MaxOrder /\ BuddyFree(F, addr, order) THEN order + 1 ELSE order

(* The order at which free_block stops: it merges while the buddy is free. *)
MergeOrder(F, addr, order) ==
    CHOOSE k \in order .. MaxOrder :
        /\ \A j \in order .. k - 1 : BuddyFree(F, addr, j)
        /\ k < MaxOrder => ~BuddyFree(F, addr, k)

FreeBlock(F, addr, order) ==
    LET top == MergeOrder(F, addr, order)
    IN  [j \in Orders |->
            IF j = top THEN F[j] \cup {MergedAddr(addr, j)}
            ELSE IF j \in order .. top - 1
                 THEN F[j] \ {BuddyAddr(MergedAddr(addr, j), j)}
                 ELSE F[j]]

(* The order take_block pops from: the smallest that is not empty. *)
PopOrder(F, order, k) ==
    /\ k \in order .. MaxOrder
    /\ F[k] # {}
    /\ \A j \in order .. k - 1 : F[j] = {}

(* Mutant: the half that is pushed is the one handed out. *)
TakeBlockLowerHalf(F, order, k, addr) ==
    [j \in Orders |->
        IF j = k THEN F[j] \ {addr}
        ELSE IF j \in order .. k - 1 THEN F[j] \cup {addr} ELSE F[j]]

(* The free lists after take_block popped addr at order k: on the way back *)
(* each level pushes its upper half.                                       *)
TakeBlock(F, order, k, addr) ==
    [j \in Orders |->
        IF j = k THEN F[j] \ {addr}
        ELSE IF j \in order .. k - 1
             THEN F[j] \cup {addr + BlockFrames[j]}
             ELSE F[j]]
-----------------------------------------------------------------------------
Init ==
    /\ free = [o \in Orders |-> {}]
    /\ total_frames = 0
    /\ allocated_frames = 0
    /\ boot = RAM
    /\ phase = "populate"
    /\ ingest = [addr |-> 0, nframes |-> 0]
    /\ held = {}
    /\ stolen = {}
    /\ restoring = FALSE

(* The next frame of the bump allocator: the lowest that remains. *)
NextBoot(f) == f \in boot /\ \A g \in boot : f <= g

(* populate_frame_pool: one iteration. *)
AddFrame ==
    /\ phase = "populate"
    /\ \E f \in boot :
        /\ NextBoot(f)
        /\ free' = FreeBlock(free, f, 0)
        /\ boot' = boot \ {f}
    /\ total_frames' = total_frames + 1
    /\ UNCHANGED <<allocated_frames, phase, ingest, held, stolen, restoring>>

(* ingest_remaining_ram: takes the next range of the memory map. *)
TakeRange ==
    /\ phase \in {"populate", "ingest"}
    /\ ingest.nframes = 0
    /\ \E f \in boot, n \in 1 .. Cardinality(RAM) :
        /\ NextBoot(f)
        /\ f .. (f + n - 1) \subseteq boot
        /\ ingest' = [addr |-> f, nframes |-> n]
        /\ boot' = boot \ (f .. (f + n - 1))
    /\ phase' = "ingest"
    /\ UNCHANGED <<free, total_frames, allocated_frames, held, stolen, restoring>>

(* The order add_range picks: it grows while the next order still fits the *)
(* count and the alignment.                                                *)
FitsRange(order) ==
    BlockFrames[order] <= ingest.nframes /\ Aligned(ingest.addr, order)

RangeOrder(order) ==
    /\ \A o \in 1 .. order : FitsRange(o)
    /\ order < MaxOrder => ~FitsRange(order + 1)

(* add_range: one iteration of its loop. *)
AddRange ==
    /\ phase = "ingest"
    /\ ingest.nframes > 0
    /\ \E o \in Orders :
        /\ RangeOrder(o)
        /\ free' = FreeBlock(free, ingest.addr, o)
        /\ total_frames' = total_frames + BlockFrames[o]
        /\ ingest' = [addr    |-> ingest.addr + BlockFrames[o],
                      nframes |-> ingest.nframes - BlockFrames[o]]
    /\ UNCHANGED <<allocated_frames, boot, phase, held, stolen, restoring>>

EndBoot ==
    /\ phase \in {"populate", "ingest"}
    /\ boot = {}
    /\ ingest.nframes = 0
    /\ phase' = "run"
    /\ UNCHANGED <<free, total_frames, allocated_frames, boot, ingest, held,
                   stolen, restoring>>

Unlocked == phase = "run" /\ ~restoring

(* allocate (order 0) and allocate_order; None leaves the pool unchanged. *)
AllocateOrder(order) ==
    /\ Unlocked
    /\ \E k \in Orders : \E addr \in free[k] :
        /\ PopOrder(free, order, k)
        /\ free' = TakeBlock(free, order, k, addr)
        /\ held' = held \cup Frames(addr, order)
    /\ allocated_frames' = allocated_frames + BlockFrames[order]
    /\ UNCHANGED <<total_frames, boot, phase, ingest, stolen, restoring>>

(* free (order 0) and free_order.  A caller gives back frames it holds; it *)
(* need not give back the block it was given (nvme.rs:644 frees the first  *)
(* frame of a run of six).  saturating_sub guards the counter.             *)
FreeOrder(addr, order) ==
    /\ Unlocked
    /\ Aligned(addr, order)
    /\ Frames(addr, order) \subseteq held
    /\ free' = FreeBlock(free, addr, order)
    /\ held' = held \ Frames(addr, order)
    /\ allocated_frames' = IF allocated_frames >= BlockFrames[order]
                           THEN allocated_frames - BlockFrames[order]
                           ELSE 0
    /\ UNCHANGED <<total_frames, boot, phase, ingest, stolen, restoring>>

(* steal_free_frames: drains every list. *)
StealFreeFrames ==
    /\ Unlocked
    /\ stolen = {}
    /\ stolen' = {b \in Orders \X RAM : b[2] \in free[b[1]]}
    /\ free' = [o \in Orders |-> {}]
    /\ UNCHANGED <<total_frames, allocated_frames, boot, phase, ingest, held,
                   restoring>>

(* restore_free_frames: one iteration; blocks come back by rising order. *)
RestoreFreeFrames ==
    /\ phase = "run"
    /\ \E b \in stolen :
        /\ \A c \in stolen : b[1] <= c[1]
        /\ free' = FreeBlock(free, b[2], b[1])
        /\ stolen' = stolen \ {b}
        /\ restoring' = (stolen # {b})
    /\ UNCHANGED <<total_frames, allocated_frames, boot, phase, ingest, held>>

Next ==
    \/ AddFrame
    \/ TakeRange
    \/ AddRange
    \/ EndBoot
    \/ \E o \in Orders : AllocateOrder(o)
    \/ \E o \in Orders, a \in held : FreeOrder(a, o)
    \/ StealFreeFrames
    \/ RestoreFreeFrames

Spec == Init /\ [][Next]_vars
-----------------------------------------------------------------------------
(* The state of the pool is well formed: lists of frame addresses, Nat     *)
(* counters, and stolen blocks of a known order.                           *)
TypeOK ==
    /\ free \in [Orders -> SUBSET RAM]
    /\ total_frames \in Nat
    /\ allocated_frames \in Nat
    /\ boot \in SUBSET RAM
    /\ phase \in {"populate", "ingest", "run"}
    /\ ingest \in [addr : Nat, nframes : Nat]
    /\ held \in SUBSET RAM
    /\ stolen \in SUBSET (Orders \X RAM)
    /\ restoring \in BOOLEAN

(* Blocks aligned to their size and pairwise disjoint. *)
Separate(F) ==
    /\ \A o \in Orders : \A a \in F[o] : Aligned(a, o)
    /\ \A o, p \in Orders : \A a \in F[o], b \in F[p] :
          <<o, a>> # <<p, b>> => Frames(a, o) \cap Frames(b, p) = {}

(* No block and its buddy both on the list of their order. *)
Merged(F) ==
    \A o \in 0 .. MaxOrder - 1 : \A a \in F[o] : BuddyAddr(a, o) \notin F[o]

(* No frame is in two places: free blocks are aligned to their size and    *)
(* pairwise disjoint, and no free block overlaps a frame that was handed   *)
(* out, stolen, or not yet given to the pool.  So take_block never hands   *)
(* out a frame twice.                                                      *)
NoOverlap ==
    /\ Separate(free)
    /\ FreeFrames(free) \cap (held \cup StolenFrames \cup boot \cup IngestFrames) = {}

(* Nothing leaks: splitting, merging, stealing and restoring lose no frame *)
(* and invent none, and the two counters are exact.                        *)
Conservation ==
    /\ FreeFrames(free) \cup held \cup StolenFrames \cup boot \cup IngestFrames = RAM
    /\ total_frames = Cardinality(RAM \ (boot \cup IngestFrames))
    /\ allocated_frames = Cardinality(held)

(* Free blocks are merged as far as they go, whatever the order in which   *)
(* frames are added, split, freed, stolen and restored.                    *)
Coalesced == Merged(free)

(* A request fails only when it must: whenever some aligned run of 2^order *)
(* frames is completely free, take_block(order) finds a block.             *)
NoFragmentation ==
    \A o \in Orders :
        (\E a \in RAM : Aligned(a, o) /\ Frames(a, o) \subseteq FreeFrames(free))
            => \E k \in o .. MaxOrder : free[k] # {}

(* Every frame is in one place and counted there, whatever is split,       *)
(* merged, stolen and restored: take_block hands none out twice and        *)
(* free_block loses none.                                                  *)
FramesAccounted == TypeOK /\ NoOverlap /\ Conservation

(* Freed blocks are merged as far as they go, so that a request fails only *)
(* when it must.                                                           *)
Unfragmented == Coalesced /\ NoFragmentation
=============================================================================
