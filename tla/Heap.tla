-------------------------------- MODULE Heap --------------------------------
(***************************************************************************)
(* The kernel heap of kernel/memory/heap.c: a first-fit allocator whose    *)
(* free list is kept in address order so that neighbours coalesce.  Every  *)
(* action is one critical section of heap_lock; krealloc takes the lock    *)
(* twice, and others may allocate and free in between.                     *)
(***************************************************************************)
EXTENDS Naturals, Sequences, FiniteSets, FiniteSetsExt

CONSTANTS
    ArenaSize,      \* arena_sz, a multiple of 16
    Sizes           \* the sizes in bytes that callers ask for

HDR_SIZE == 16
ALIGN16(x) == ((x + 15) \div 16) * 16
MIN_SPLIT == HDR_SIZE + 16

ASSUME HeapAssumption ==
    /\ ArenaSize \in Nat \ {0} /\ ArenaSize % 16 = 0
    /\ Sizes \subseteq Nat \ {0}

VARIABLES
    free,           \* the free list: blocks [addr, size], first to last
    used,           \* the blocks handed out, with the size asked for
    used_sz,
    moving          \* pairs of blocks, old and new, inside krealloc

heapVars == <<free, used, used_sz, moving>>

HeapInit ==
    /\ free = <<[addr |-> 0, size |-> ArenaSize]>>
    /\ used = {} /\ used_sz = 0 /\ moving = {}

-----------------------------------------------------------------------------

Need(n) == ALIGN16(n) + HDR_SIZE

\* The block of the free list that a request gets: the first that is large
\* enough.
FirstFit(i, n) ==
    /\ free[i].size >= Need(n)
    /\ \A j \in 1..(i - 1) : free[j].size < Need(n)

Splits(b, n) == b.size - Need(n) >= MIN_SPLIT

\* The remainder of block i replaces it in the list when it is worth keeping,
\* otherwise the whole block is handed out.
Carve(i, n) ==
    LET b == free[i]
        size == IF Splits(b, n) THEN Need(n) ELSE b.size
        rest == IF Splits(b, n)
                THEN <<[addr |-> b.addr + size, size |-> b.size - size]>> ELSE <<>>
    IN  /\ free' = SubSeq(free, 1, i - 1) \o rest \o SubSeq(free, i + 1, Len(free))
        /\ used' = used \cup {[addr |-> b.addr, size |-> size, asked |-> n]}
        /\ used_sz' = used_sz + size

\* A request that no block fits returns NULL.  kcalloc is kmalloc and a memset.
kmalloc(n) ==
    \E i \in 1..Len(free) : FirstFit(i, n) /\ Carve(i, n) /\ UNCHANGED moving

Joins(a, b) == a.addr + a.size = b.addr
Join(a, b) == [addr |-> a.addr, size |-> a.size + b.size]

\* Mutant: only the next block is looked at.
InsertNoPrev(b) ==
    LET k == Cardinality({i \in 1..Len(free) : free[i].addr < b.addr})
        after == SubSeq(free, k + 1, Len(free))
    IN  IF after # <<>> /\ Joins(b, Head(after))
        THEN SubSeq(free, 1, k) \o <<Join(b, Head(after))>> \o Tail(after)
        ELSE SubSeq(free, 1, k) \o <<b>> \o after

\* Insert in address order, join with the next block, then with the previous.
insert_free(b) ==
    LET k == Cardinality({i \in 1..Len(free) : free[i].addr < b.addr})
        after == SubSeq(free, k + 1, Len(free))
        joinsNext == after # <<>> /\ Joins(b, Head(after))
        blk == IF joinsNext THEN Join(b, Head(after)) ELSE b
        tail == IF joinsNext THEN Tail(after) ELSE after
    IN  IF k > 0 /\ Joins(free[k], b)
        THEN SubSeq(free, 1, k - 1) \o <<Join(free[k], blk)>> \o tail
        ELSE SubSeq(free, 1, k) \o <<blk>> \o tail

Release(b) ==
    /\ free' = insert_free([addr |-> b.addr, size |-> b.size])
    /\ used' = used \ {b}
    /\ used_sz' = used_sz - b.size

\* The owner of a block frees it; one inside krealloc waits for its result.
Idle(b) == \A m \in moving : b \notin {m.old, m.new}

kfree(b) == Idle(b) /\ Release(b) /\ UNCHANGED moving

\* krealloc in place ...
ReallocStays(b, n) ==
    /\ Idle(b) /\ b.size - HDR_SIZE >= n
    /\ used' = (used \ {b}) \cup {[b EXCEPT !.asked = n]}
    /\ UNCHANGED <<free, used_sz, moving>>

\* ... and with a new block, into which the old payload is copied.
krealloc(b, n) ==
    /\ Idle(b) /\ b.size - HDR_SIZE < n
    /\ \E i \in 1..Len(free) : FirstFit(i, n) /\ Carve(i, n)
    /\ \E new \in used' \ used : moving' = moving \cup {[old |-> b, new |-> new]}

ReallocFree(m) == Release(m.old) /\ moving' = moving \ {m}

HeapNext ==
    \/ \E n \in Sizes : kmalloc(n)
    \/ \E b \in used : kfree(b) \/ \E n \in Sizes : ReallocStays(b, n) \/ krealloc(b, n)
    \/ \E m \in moving : ReallocFree(m)

HeapSpec == HeapInit /\ [][HeapNext]_heapVars

-----------------------------------------------------------------------------
(* Properties. *)

\* The types of the variables; blocks have positive sizes.
HeapTypeOK ==
    /\ free \in Seq([addr : 0..ArenaSize, size : 1..ArenaSize])
    /\ used \subseteq [addr : 0..ArenaSize, size : 1..ArenaSize, asked : Sizes]
    /\ used_sz \in 0..ArenaSize

Extent(b) == b.addr .. b.addr + b.size - 1

\* No byte belongs to two blocks, none is lost, and used_sz counts the bytes
\* that are handed out: after any mix of kmalloc, kfree and krealloc the free
\* and the used blocks tile the arena.
HeapExact ==
    LET blocks == used \cup {free[i] : i \in 1..Len(free)}
    IN  /\ \A a, b \in blocks : a.addr = b.addr => a = b
        /\ \A a \in blocks :
              a.addr + a.size = ArenaSize \/ \E b \in blocks : Joins(a, b)
        /\ \E a \in blocks : a.addr = 0
        /\ MapThenSumSet(LAMBDA b : b.size, blocks) = ArenaSize
        /\ used_sz = MapThenSumSet(LAMBDA b : b.size, used)

\* Every block holds what was asked for and its header, and starts on a
\* 16-byte boundary; no free block is too small to be handed out.
Sufficient ==
    /\ \A b \in used : b.size >= b.asked + HDR_SIZE /\ b.addr % 16 = 0
    /\ \A i \in 1..Len(free) : free[i].size >= MIN_SPLIT

\* kmalloc fails only when no run of free bytes is long enough: insert_free
\* never leaves two neighbours apart ("so neighbours can be coalesced").
FailsOnlyWhenFull ==
    \A n \in Sizes :
        (\A i \in 1..Len(free) : free[i].size < Need(n)) =>
            \A a \in 0..(ArenaSize - Need(n)) :
                \E b \in used : Extent(b) \cap (a .. a + Need(n) - 1) # {}

\* The heap is exact: its blocks tile the arena, are as large as asked for, and
\* a request fails only when it cannot be served.
HeapCorrect == HeapTypeOK /\ HeapExact /\ Sufficient /\ FailsOnlyWhenFull

=============================================================================
