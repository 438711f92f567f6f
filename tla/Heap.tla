-------------------------------- MODULE Heap --------------------------------
(***************************************************************************)
(* uCalloc and uCFree of uTasker/uMalloc.c: a heap that grows upwards in a *)
(* region obtained once from uMalloc, and a table with an entry for each   *)
(* block in use and each hole below the top.  Both are called by tasks     *)
(* only, so that each call is one action.                                  *)
(*                                                                         *)
(* Memory is counted in long words, in which all sizes are rounded; of     *)
(* their content the model keeps which words may differ from zero.         *)
(* The size of a table entry that is not in use is dead and is cleared.    *)
(* The numbers of calls and the lowest margin are recorded by the code but *)
(* never used, and are left out.                                           *)
(***************************************************************************)
EXTENDS Integers, FiniteSets

CONSTANTS
    HeapSize,     (* SECURITY_HEAP_SIZE, in words                          *)
    HEAP_OBJECTS, (* entries of the table                                  *)
    BREAK_DOWN_BLOCKS_LIMIT,  (* holes this large are split first          *)
    Sizes         (* the sizes that are asked for                          *)

ASSUME HeapAssumption ==
    /\ HeapSize \in Nat
    /\ HEAP_OBJECTS \in Nat
    /\ BREAK_DOWN_BLOCKS_LIMIT \in Nat
    /\ Sizes \subseteq Nat

(* Word 1 is the first, as address 0 marks an entry that is not in use.    *)
HeapStart == 1
HeapEnd   == HeapSize + 1
Entries   == 1..HEAP_OBJECTS

VARIABLES
    entries,                   (* the table at ptrHeapManager              *)
    ptrSecurityHeapTop,        (* the first word above all blocks          *)
    ulMemoryAllocated,         (* words in blocks                          *)
    ulHoleCount,               (* number of holes                          *)
    ulAccumulatedHoleSize,     (* words in holes                           *)
    ulMaxUsedManagementBlocks, (* most entries seen in use                 *)
    dirty                      (* the words that are not zero              *)

statistics == <<ulMemoryAllocated, ulHoleCount, ulAccumulatedHoleSize,
                ulMaxUsedManagementBlocks>>
vars == <<entries, ptrSecurityHeapTop, statistics, dirty>>

NoBlock == [ptrMemory |-> 0, memorySize |-> 0, ucStatus |-> 0]

TypeOK ==
    /\ entries \in [Entries -> [ptrMemory  : 0..HeapEnd,
                                memorySize : 0..HeapSize,
                                ucStatus   : {0, 1}]]
    /\ ptrSecurityHeapTop \in HeapStart..HeapEnd
    /\ ulMemoryAllocated \in 0..HeapSize
    /\ ulHoleCount \in 0..HEAP_OBJECTS
    /\ ulAccumulatedHoleSize \in 0..HeapSize
    /\ ulMaxUsedManagementBlocks \in 0..HEAP_OBJECTS
    /\ dirty \subseteq HeapStart..HeapSize

-----------------------------------------------------------------------------

Above(b) == b.ptrMemory + b.memorySize
Words(b) == b.ptrMemory .. Above(b) - 1

Live   == {e \in Entries : entries[e].ptrMemory # 0}
Unused == Entries \ Live
Holes  == {e \in Live : entries[e].ucStatus # 0}
Blocks == Live \ Holes

IsFirst(e, S) == e \in S /\ \A f \in S : e <= f

Init ==
    /\ entries = [e \in Entries |-> NoBlock]
    /\ ptrSecurityHeapTop = HeapStart
    /\ ulMemoryAllocated = 0
    /\ ulHoleCount = 0
    /\ ulAccumulatedHoleSize = 0
    /\ ulMaxUsedManagementBlocks = 0
    /\ dirty = {}

-----------------------------------------------------------------------------
(*                                uCalloc                                  *)

(* Faulty: the search for holes ends one hole early.                       *)
ScannedFewer ==
    {h \in Holes : Cardinality({g \in Holes : g <= h}) < ulHoleCount}

(* The search for holes ends when as many have been seen as there are.     *)
Scanned == {h \in Holes : Cardinality({g \in Holes : g <= h}) <= ulHoleCount}

Perfect(n)  == {h \in Scanned : entries[h].memorySize = n}
Adequate(n) == {h \in Scanned : entries[h].memorySize > n}

(* A large hole, if there is one, is broken down, and the largest first;   *)
(* otherwise the smallest is used that fits.  The first of equals wins.    *)
IsPreferred(h, n) ==
    LET size(k)  == entries[k].memorySize
        breaking == \E k \in Adequate(n) : size(k) >= BREAK_DOWN_BLOCKS_LIMIT
    IN  /\ h \in Adequate(n)
        /\ \A k \in Adequate(n) \ {h} :
              \/ IF breaking THEN size(k) < size(h) ELSE size(k) > size(h)
              \/ size(k) = size(h) /\ h < k

(* Faulty: the pointer of the hole is not moved.                           *)
RestUnmoved(b, n) == [b EXCEPT !.memorySize = @ - n]

(* A hole whose first n words are given away.                              *)
Rest(b, n) == [ptrMemory  |-> b.ptrMemory + n,
               memorySize |-> b.memorySize - n,
               ucStatus   |-> b.ucStatus]

Block(p, n) == [ptrMemory |-> p, memorySize |-> n, ucStatus |-> 0]

(* e is the first free entry: all entries before it are in use.            *)
PeakUse(e) ==
    ulMaxUsedManagementBlocks' =
        IF ulMaxUsedManagementBlocks < e THEN e ELSE ulMaxUsedManagementBlocks

Allocated(n) ==
    /\ ulMemoryAllocated' = ulMemoryAllocated + n
    /\ UNCHANGED dirty

(* A hole of this very size is used again with its own entry ...           *)
ReuseHole(e, n) ==
    \E h \in Entries :
        /\ IsFirst(h, Perfect(n))
        /\ entries' = [entries EXCEPT ![h].ucStatus = 0]
        /\ ulHoleCount' = ulHoleCount - 1
        /\ ulAccumulatedHoleSize' = ulAccumulatedHoleSize - n
        /\ PeakUse(e)
        /\ Allocated(n)
        /\ UNCHANGED ptrSecurityHeapTop

(* ... else the start of a larger hole ...                                 *)
SplitHole(e, n) ==
    \E h \in Entries :
        /\ Perfect(n) = {}
        /\ IsPreferred(h, n)
        /\ entries' = [entries EXCEPT
                          ![e] = Block(entries[h].ptrMemory, n),
                          ![h] = Rest(@, n)]
        /\ ulAccumulatedHoleSize' = ulAccumulatedHoleSize - n
        /\ PeakUse(e)
        /\ Allocated(n)
        /\ UNCHANGED <<ptrSecurityHeapTop, ulHoleCount>>

(* ... else the heap grows ...                                             *)
Grow(e, n) ==
    /\ Perfect(n) \cup Adequate(n) = {}
    /\ n <= HeapEnd - ptrSecurityHeapTop
    /\ entries' = [entries EXCEPT ![e] = Block(ptrSecurityHeapTop, n)]
    /\ ptrSecurityHeapTop' = ptrSecurityHeapTop + n
    /\ PeakUse(e)
    /\ Allocated(n)
    /\ UNCHANGED <<ulHoleCount, ulAccumulatedHoleSize>>

(* ... or is exhausted.                                                    *)
NoRoom(n) == /\ Perfect(n) \cup Adequate(n) = {}
             /\ n > HeapEnd - ptrSecurityHeapTop

Exhausted(e, n) ==
    /\ NoRoom(n)
    /\ PeakUse(e)
    /\ UNCHANGED <<entries, ptrSecurityHeapTop, ulMemoryAllocated,
                   ulHoleCount, ulAccumulatedHoleSize, dirty>>

(* Without a free entry nothing is tried.                                  *)
NoObjects ==
    /\ Unused = {}
    /\ UNCHANGED vars

uCalloc(n) ==
    \/ \E e \in Entries :
          /\ IsFirst(e, Unused)
          /\ \/ ReuseHole(e, n)
             \/ SplitHole(e, n)
             \/ Grow(e, n)
             \/ Exhausted(e, n)
    \/ NoObjects

-----------------------------------------------------------------------------
(*                                 uCFree                                  *)

(* The entry that uCFree finds for a pointer, whatever its status.         *)
Finds(e, ptr) == IsFirst(e, {f \in Entries : entries[f].ptrMemory = ptr})

Before(e) == {h \in Holes : Above(entries[h]) = entries[e].ptrMemory}

(* Faulty: the hole above the block is not merged with it.                 *)
AfterIgnored(e) == {}

After(e) == {h \in Holes : entries[h].ptrMemory = Above(entries[e])}

TheOne(S) == CHOOSE h \in S : TRUE

(* Faulty: the last word of the block keeps its content.                   *)
ZeroedButLast(e) == Words(entries[e]) \ {Above(entries[e]) - 1}

Zeroed(e) == Words(entries[e])
HolesLeft(before, after, onTop) ==
    ulHoleCount + 1 - Cardinality(before) - Cardinality(after)
                    - (IF onTop THEN 1 ELSE 0)

(* The hole that the block becomes, merged with the ones below and above,  *)
(* the entry that describes it and the entries that do no longer.          *)
Kept(e)   == IF Before(e) = {} THEN e ELSE TheOne(Before(e))
From(e)   == entries[Kept(e)].ptrMemory
To(e)     == IF After(e) = {} THEN Above(entries[e])
                              ELSE Above(entries[TheOne(After(e))])
Merged(e) == {e} \cup Before(e) \cup After(e)

(* A hole below the free space at the top merges with it and is none.      *)
(* What follows when the entry found is not the one of the block, or the   *)
(* block is empty, is not modelled.                                        *)
uCFree(e) ==
    LET size  == entries[e].memorySize
        onTop == To(e) = ptrSecurityHeapTop
        hole  == [ptrMemory  |-> From(e),
                  memorySize |-> To(e) - From(e),
                  ucStatus   |-> 1]
    IN  /\ Finds(e, entries[e].ptrMemory)
        /\ size # 0
        /\ entries' = [f \in Entries |->
              IF f = Kept(e) /\ ~onTop THEN hole
              ELSE IF f \in Merged(e) THEN NoBlock ELSE entries[f]]
        /\ ptrSecurityHeapTop' = IF onTop THEN From(e) ELSE ptrSecurityHeapTop
        /\ ulMemoryAllocated' = ulMemoryAllocated - size
        /\ ulHoleCount' = HolesLeft(Before(e), After(e), onTop)
        /\ ulAccumulatedHoleSize' = ulAccumulatedHoleSize + size
                                       - (IF onTop THEN To(e) - From(e) ELSE 0)
        /\ dirty' = dirty \ Zeroed(e)
        /\ UNCHANGED ulMaxUsedManagementBlocks

-----------------------------------------------------------------------------

(* The owner of a block writes to it.                                      *)
WriteBlock(e) ==
    /\ dirty' = dirty \cup Words(entries[e])
    /\ UNCHANGED <<entries, ptrSecurityHeapTop, statistics>>

Next ==
    \/ \E n \in Sizes : uCalloc(n)
    \/ \E e \in Blocks : uCFree(e) \/ WriteBlock(e)

Spec == Init /\ [][Next]_vars

-----------------------------------------------------------------------------
(*                               Properties                                *)

(* No word belongs to two blocks or holes, and none lies above the top:    *)
(* splitting, reusing, merging and shrinking never hand a word out twice.  *)
BlocksDisjoint ==
    /\ \A e \in Live : Words(entries[e]) \subseteq HeapStart..ptrSecurityHeapTop-1
    /\ \A e, f \in Live :
          e # f => Words(entries[e]) \cap Words(entries[f]) = {}

(* No word below the top is lost: it belongs to a block or to a hole that  *)
(* a later uCalloc can find.                                               *)
NothingLost ==
    \A w \in HeapStart..ptrSecurityHeapTop-1 :
        \E e \in Live : w \in Words(entries[e])

(* Two holes never touch each other, and no hole touches the free space at *)
(* the top, in whatever order blocks are freed: a request that fits into   *)
(* the free memory around it is not refused for being in two pieces.       *)
HolesMerged ==
    \A h \in Holes :
        /\ Above(entries[h]) # ptrSecurityHeapTop
        /\ \A g \in Holes : entries[g].ptrMemory # Above(entries[h])

(* uMalloc.c:372: "Return always zeroed memory".  uCalloc clears nothing:  *)
(* all words outside the blocks are zero at all times.                     *)
FreeMemoryIsZero == dirty \subseteq UNION {Words(entries[e]) : e \in Blocks}

(* The counts follow every split and merge; the search for a hole relies   *)
(* on the number of holes to end.                                          *)
StatisticsExact ==
    LET Total(S) == Cardinality(UNION {Words(entries[e]) : e \in S})
    IN  /\ ulMemoryAllocated = Total(Blocks)
        /\ ulHoleCount = Cardinality(Holes)
        /\ ulAccumulatedHoleSize = Total(Holes)
        /\ Cardinality(Live) <= ulMaxUsedManagementBlocks

(* uCalloc reports an exhausted heap only if the memory outside the blocks *)
(* has no run of so many words: the search for holes misses none of them,  *)
(* and none is cut in two by the table or by the top.                      *)
RefusedOnlyWithoutRoom ==
    \A n \in Sizes : NoRoom(n) =>
        \A p \in HeapStart..HeapEnd-n : \E e \in Blocks :
            Words(entries[e]) \cap p..p+n-1 # {}

(* uCalloc and uCFree are an allocator of zeroed, disjoint blocks.         *)
Allocator == INSTANCE BlockAllocator WITH
    HeapWords <- HeapStart..HeapSize,
    blocks    <- {[ptr  |-> entries[e].ptrMemory,
                   size |-> entries[e].memorySize] : e \in Blocks}

ImplementsAllocator == Allocator!AllocatorSpec

=============================================================================
