--------------------------- MODULE BuddyAllocator ---------------------------
(***************************************************************************)
(* The buddy allocator of kernel/memory.c, of which kernel/shm/shm_mm.c is *)
(* a copy.  Block o of level l is the 2^l pages from page o * 2^l on.  The *)
(* loops that split a block and that merge buddies are written as what     *)
(* they leave behind.  az_alloc and az_free hold one spinlock from the     *)
(* first to the last line, so a call is one step.                          *)
(***************************************************************************)
EXTENDS Integers, FiniteSets, FiniteSetsExt

CONSTANTS
    Pages,      \* smallest_block, the number of pages in the pool
    MaxLevel,   \* max_level
    MaxSize,    \* bound: the pages one call asks for
    None        \* 0xFF

ASSUME PagesAssumption ==
    /\ Pages \in Nat \ {0} /\ MaxLevel \in Nat \ {0} /\ MaxSize \in Nat
    /\ 2^(MaxLevel - 1) <= Pages /\ Pages < 2^MaxLevel
ASSUME NoneAssumption == None \notin Nat

Page == 0 .. Pages - 1
Level == 0 .. MaxLevel - 1

\* The number of blocks of a level.
BlockCount(l) == Pages \div 2^l

VARIABLES
    bitmap,         \* bitmap[l].bitmap: the blocks of level l that are free
    bitmap_count,   \* bitmap[l].bitmap_count
    block_index,    \* block_index[]: the level of the block that begins at a page
    used_size       \* used_size, in pages

vars == <<bitmap, bitmap_count, block_index, used_size>>

TypeOK ==
    /\ bitmap \in [Level -> SUBSET Page]
    /\ \A l \in Level : bitmap[l] \subseteq 0 .. BlockCount(l) - 1
    /\ bitmap_count \in [Level -> 0 .. Pages]
    /\ block_index \in [Page -> Level \cup {None}]
    /\ used_size \in 0 .. Pages

\* free_mem_init: the last block of a level with an odd number of blocks has no
\* buddy and is free; all else is part of such a block.
Init ==
    /\ bitmap = [l \in Level |-> IF BlockCount(l) % 2 = 1 THEN {BlockCount(l) - 1} ELSE {}]
    /\ bitmap_count = [l \in Level |-> BlockCount(l) % 2]
    /\ block_index = [p \in Page |-> None]
    /\ used_size = 0

\* set_bitmap_flag counts a bit that changes.
SetBitmap(new) ==
    /\ bitmap' = new
    /\ bitmap_count' = [l \in Level |-> bitmap_count[l] + Cardinality(new[l] \ bitmap[l])
                                                        - Cardinality(bitmap[l] \ new[l])]

-----------------------------------------------------------------------------
(* az_alloc *)

\* align_buddy_block and block_list_index: the levels of blocks that are large
\* enough; the lowest is the one to use.
LargeEnough(size) == {l \in Level : size <= 2^l}

\* "if not enough memory, return NULL"
Fits(l) == used_size + 2^l <= Pages

\* find_free_block, for the levels from l on.
WithFree(l) == {i \in l .. MaxLevel - 1 : bitmap_count[i] # 0}

\* Mutant: the left half becomes free, and is split again.
SplitLeft(l, i) ==
    LET offset == Min(bitmap[i])
    IN  [j \in Level |->
            IF j = i THEN bitmap[j] \ {offset}
            ELSE IF j \in l .. i - 1 THEN bitmap[j] \cup {offset * 2^(i - j)}
            ELSE bitmap[j]]

\* The loop of alloc_buddy_block: the first free block of level i goes, and of
\* every level below, down to l, the right half of what is left becomes free.
Split(l, i) ==
    LET offset == Min(bitmap[i])
    IN  [j \in Level |->
            IF j = i THEN bitmap[j] \ {offset}
            ELSE IF j \in l .. i - 1 THEN bitmap[j] \cup {offset * 2^(i - j) + 1}
            ELSE bitmap[j]]

CanAlloc(size) ==
    /\ LargeEnough(size) # {}
    /\ Fits(Min(LargeEnough(size)))
    /\ WithFree(Min(LargeEnough(size))) # {}

\* The page at which the block begins.
AllocatedPage(size) ==
    LET i == Min(WithFree(Min(LargeEnough(size)))) IN Min(bitmap[i]) * 2^i

Alloc(size) ==
    LET l == Min(LargeEnough(size))
    IN  /\ CanAlloc(size)
        /\ block_index' = [block_index EXCEPT ![AllocatedPage(size)] = l]
        /\ used_size' = used_size + 2^l
        /\ SetBitmap(Split(l, Min(WithFree(l))))

-----------------------------------------------------------------------------
(* az_free *)

Buddy(o) == IF o % 2 = 0 THEN o + 1 ELSE o - 1

\* The loop of free_buddy_block: from level l on, a block whose buddy is free is
\* merged with it; the first that has none, at level m, becomes free.
Merge(l, o) ==
    LET At(i) == o \div 2^(i - l)
        Stops(i) == i = MaxLevel \/ Buddy(At(i)) \notin bitmap[i]
        m == Min({i \in l .. MaxLevel : Stops(i)})
    IN  [j \in Level |->
            IF j \in l .. m - 1 THEN bitmap[j] \ {At(j), Buddy(At(j))}
            ELSE IF j = m THEN bitmap[j] \cup {At(j)}
            ELSE bitmap[j]]

\* A page at which no block begins is refused: nothing changes.
Free(p) ==
    /\ block_index[p] # None
    /\ block_index' = [block_index EXCEPT ![p] = None]
    /\ used_size' = used_size - 2^block_index[p]
    /\ SetBitmap(Merge(block_index[p], p \div 2^block_index[p]))

Next == (\E size \in 0 .. MaxSize : Alloc(size)) \/ \E p \in Page : Free(p)

Spec == Init /\ [][Next]_vars

-----------------------------------------------------------------------------
(* Properties *)

Span(l, o) == o * 2^l .. (o + 1) * 2^l - 1

\* The blocks in use.
InUse == {Span(block_index[p], p \div 2^block_index[p]) :
              p \in {q \in Page : block_index[q] # None}}

\* The pool stays whole over all sequences of calls, at the levels with an odd
\* number of blocks too.  No page is lost or handed out twice: every page is in
\* one block, either in use or free, of one level.  Memory does not crumble: two
\* buddies are never both free.  And the counts that az_alloc and find_free_block
\* trust agree with the bitmaps.
PoolWhole ==
    /\ \A p \in Page :
          LET free == {l \in Level : p \div 2^l \in bitmap[l]}
              used == {q \in Page : block_index[q] # None /\ p \in q .. q + 2^block_index[q] - 1}
          IN  Cardinality(free) + Cardinality(used) = 1
    /\ \A l \in Level : /\ \A o \in bitmap[l] : Buddy(o) \notin bitmap[l]
                        /\ bitmap_count[l] = Cardinality(bitmap[l])
    /\ used_size = Cardinality({p \in Page : \E b \in InUse : p \in b})

Memory == INSTANCE Allocator WITH blocks <- InUse

\* What az_alloc returns is a block of the pool that overlaps no other in use,
\* and az_free takes back the block it is given, whole, and no other.
ImplementsAllocator == Memory!Spec

=============================================================================
