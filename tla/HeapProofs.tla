----------------------------- MODULE HeapProofs -----------------------------
(***************************************************************************)
(* Theorems about Heap, for every size of the heap and of the table, every *)
(* limit, and all sizes but zero: a request of size zero is given an entry *)
(* whose address another block, or the free space, has too.  Blocks, holes *)
(* and free space first, then the counters that uCalloc and uCFree keep.   *)
(***************************************************************************)
EXTENDS Heap, FiniteSetTheorems, TLAPS

(* No request has size zero.                                               *)
NoEmptyRequest == 0 \notin Sizes

Chunk == [ptrMemory : 0..HeapEnd, memorySize : 0..HeapSize, ucStatus : {0, 1}]

TableOK ==
    /\ entries \in [Entries -> Chunk]
    /\ ptrSecurityHeapTop \in HeapStart..HeapEnd

Apart(b, c) == Above(b) <= c.ptrMemory \/ Above(c) <= b.ptrMemory

(* The layout in terms of addresses rather than of sets of words.          *)
Layout ==
    /\ \A e \in Live : /\ entries[e].memorySize >= 1
                       /\ Above(entries[e]) <= ptrSecurityHeapTop
    /\ \A e, f \in Live : e # f => Apart(entries[e], entries[f])

(* The inductive invariant: what has no two owners stays so only because   *)
(* no entry is empty, holes are known to touch nothing that is free, and   *)
(* each of them lies below the top.                                        *)
HeapInv == /\ TableOK
           /\ Layout
           /\ NothingLost
           /\ HolesMerged
           /\ FreeMemoryIsZero

-----------------------------------------------------------------------------
(*                          The layout of the heap                         *)

LEMMA Constants == /\ HeapSize \in Nat
                   /\ HEAP_OBJECTS \in Nat
                   /\ Sizes \subseteq Nat
                   /\ HeapStart = 1
                   /\ HeapEnd = HeapSize + 1
                   /\ Entries \subseteq Nat
BY HeapAssumption DEF HeapStart, HeapEnd, Entries

(* What is known of an entry in use.                                       *)
LEMMA LiveChunk ==
    ASSUME TableOK, Layout, NEW e \in Live
    PROVE  /\ e \in Entries
           /\ entries[e] \in Chunk
           /\ entries[e].ptrMemory \in Nat
           /\ entries[e].memorySize \in Nat
           /\ entries[e].ptrMemory >= 1
           /\ entries[e].memorySize >= 1
           /\ Above(entries[e]) = entries[e].ptrMemory + entries[e].memorySize
           /\ Above(entries[e]) \in Nat
           /\ Above(entries[e]) <= ptrSecurityHeapTop
           /\ \A w : w \in Words(entries[e]) <=>
                 /\ w \in Int
                 /\ entries[e].ptrMemory <= w
                 /\ w < Above(entries[e])
<1>1. /\ e \in Entries
      /\ entries[e] \in Chunk
      /\ entries[e].ptrMemory # 0
  BY DEF TableOK, Live
<1>2. /\ entries[e].ptrMemory \in Nat
      /\ entries[e].memorySize \in Nat
      /\ entries[e].ptrMemory >= 1
  BY <1>1, Constants DEF Chunk
<1>3. /\ entries[e].memorySize >= 1
      /\ Above(entries[e]) <= ptrSecurityHeapTop
  BY DEF Layout
<1>4. /\ Above(entries[e]) = entries[e].ptrMemory + entries[e].memorySize
      /\ Above(entries[e]) \in Nat
  BY <1>2 DEF Above
<1>5. \A w : w \in Words(entries[e]) <=>
          /\ w \in Int
          /\ entries[e].ptrMemory <= w
          /\ w < Above(entries[e])
  BY <1>2, <1>4 DEF Words
<1> QED
  BY <1>1, <1>2, <1>3, <1>4, <1>5

(* The layout in words is the layout in addresses.                         *)
LEMMA LayoutDisjoint == TableOK /\ Layout => BlocksDisjoint
<1> SUFFICES ASSUME TableOK, Layout
             PROVE  BlocksDisjoint
  OBVIOUS
<1>1. ASSUME NEW e \in Live
      PROVE  Words(entries[e]) \subseteq HeapStart..ptrSecurityHeapTop-1
  BY LiveChunk, Constants DEF TableOK
<1>2. ASSUME NEW e \in Live, NEW f \in Live, e # f
      PROVE  Words(entries[e]) \cap Words(entries[f]) = {}
  <2>1. Apart(entries[e], entries[f])
    BY <1>2 DEF Layout
  <2> QED
    BY <2>1, LiveChunk DEF Apart
<1> QED
  BY <1>1, <1>2 DEF BlocksDisjoint

-----------------------------------------------------------------------------
(*                                 uCalloc                                 *)

LEMMA HoleChosen ==
    ASSUME NEW n, NEW h \in Perfect(n) \cup Adequate(n)
    PROVE  h \in Holes /\ h \in Live /\ h \in Entries
BY DEF Perfect, Adequate, Scanned, Holes, Live

LEMMA ReuseHoleKeepsInv ==
    ASSUME HeapInv, NEW n \in Sizes, NEW e \in Entries, ReuseHole(e, n)
    PROVE  HeapInv'
<1> USE DEF HeapInv
<1>1. PICK h \in Entries :
         /\ h \in Perfect(n)
         /\ entries' = [entries EXCEPT ![h].ucStatus = 0]
  BY DEF ReuseHole, IsFirst
<1>2. /\ h \in Holes
      /\ h \in Live
      /\ UNCHANGED <<ptrSecurityHeapTop, dirty>>
  BY <1>1, HoleChosen DEF ReuseHole, Allocated
<1>3. /\ entries' \in [Entries -> Chunk]
      /\ \A x \in Entries :
            /\ entries'[x].ptrMemory = entries[x].ptrMemory
            /\ entries'[x].memorySize = entries[x].memorySize
            /\ entries'[x].ucStatus = IF x = h THEN 0 ELSE entries[x].ucStatus
  BY <1>1 DEF TableOK, Chunk
<1>4. /\ Live' = Live
      /\ Holes' = Holes \ {h}
      /\ Blocks' = Blocks \cup {h}
  BY <1>2, <1>3 DEF Live, Holes, Blocks
<1>5. \A x \in Entries : /\ Above(entries'[x]) = Above(entries[x])
                         /\ Words(entries'[x]) = Words(entries[x])
  BY <1>3 DEF Above, Words
<1>6. TableOK'
  BY <1>2, <1>3 DEF TableOK, Chunk, HeapEnd, HeapStart
<1>7. Layout'
  BY <1>2, <1>3, <1>4, <1>5 DEF Layout, Apart, Live
<1>8. NothingLost'
  BY <1>2, <1>4, <1>5 DEF NothingLost, Live, HeapStart
<1>9. HolesMerged'
  BY <1>2, <1>3, <1>4, <1>5 DEF HolesMerged, Holes, Live
<1>10. FreeMemoryIsZero'
  <2> SUFFICES ASSUME NEW w \in dirty'
               PROVE  \E b \in Blocks' : w \in Words(entries'[b])
    BY DEF FreeMemoryIsZero
  <2>1. PICK b \in Blocks : w \in Words(entries[b])
    BY <1>2 DEF FreeMemoryIsZero
  <2> QED
    BY <2>1, <1>4, <1>5 DEF Blocks, Live
<1> QED
  BY <1>6, <1>7, <1>8, <1>9, <1>10

LEMMA SplitHoleKeepsInv ==
    ASSUME HeapInv, NoEmptyRequest, NEW n \in Sizes,
           NEW e \in Unused, SplitHole(e, n)
    PROVE  HeapInv'
<1> USE DEF HeapInv
<1>1. PICK h \in Entries :
         /\ h \in Adequate(n)
         /\ entries' = [entries EXCEPT
                           ![e] = Block(entries[h].ptrMemory, n),
                           ![h] = Rest(@, n)]
  BY DEF SplitHole, IsPreferred
<1>2. /\ h \in Holes
      /\ h \in Live
      /\ entries[h].memorySize > n
      /\ n \in Nat /\ n >= 1
      /\ e \in Entries
      /\ e # h
      /\ UNCHANGED <<ptrSecurityHeapTop, dirty>>
  BY <1>1, HoleChosen, Constants
     DEF SplitHole, Allocated, NoEmptyRequest, Adequate, Unused
<1> DEFINE p == entries[h].ptrMemory
           s == entries[h].memorySize
<1>3. /\ p \in Nat /\ p >= 1
      /\ s \in Nat /\ s > n
      /\ p + s <= ptrSecurityHeapTop
      /\ ptrSecurityHeapTop \in 1..HeapEnd
      /\ s \in 0..HeapSize
  BY <1>2, LiveChunk, Constants DEF TableOK, Chunk
<1>4. /\ entries' \in [Entries -> Chunk]
      /\ entries'[e] = [ptrMemory |-> p, memorySize |-> n, ucStatus |-> 0]
      /\ entries'[h] = [ptrMemory |-> p + n, memorySize |-> s - n,
                        ucStatus |-> entries[h].ucStatus]
      /\ \A x \in Entries \ {e, h} : entries'[x] = entries[x]
  <2>1. entries[h] \in Chunk
    BY <1>2, LiveChunk
  <2>2. Rest(entries[h], n) = [ptrMemory |-> p + n, memorySize |-> s - n,
                               ucStatus |-> entries[h].ucStatus]
    BY <2>1 DEF Rest, Chunk
  <2>3. /\ entries'[e] = Block(p, n)
        /\ entries'[h] = Rest(entries[h], n)
        /\ \A x \in Entries \ {e, h} : entries'[x] = entries[x]
        /\ entries' = [x \in Entries |-> entries'[x]]
    BY <1>1, <1>2 DEF TableOK
  <2>4. Block(p, n) \in Chunk /\ Rest(entries[h], n) \in Chunk
    BY <2>1, <2>2, <1>2, <1>3, Constants DEF Block, Chunk
  <2>5. \A x \in Entries : entries'[x] \in Chunk
    BY <2>3, <2>4 DEF TableOK
  <2> QED
    BY <2>2, <2>3, <2>5 DEF Block
<1>5. /\ Live' = Live \cup {e}
      /\ Holes' = Holes
      /\ Blocks' = Blocks \cup {e}
      /\ e \notin Live
      /\ h \notin Blocks
  <2>1. e \notin Live /\ h \notin Blocks
    BY <1>2 DEF Unused, Blocks
  <2>2. \A x \in Entries : entries'[x].ptrMemory # 0 <=> x \in Live \cup {e}
    BY <1>2, <1>3, <1>4 DEF Live
  <2>3. Live' = Live \cup {e}
    BY <2>2, <1>2 DEF Live
  <2>4. Holes' = Holes
    BY <2>1, <2>3, <1>2, <1>4 DEF Holes, Live
  <2> QED
    BY <2>1, <2>3, <2>4 DEF Blocks, Holes
<1>6. /\ Above(entries'[e]) = p + n
      /\ Above(entries'[h]) = p + s
      /\ Above(entries[h]) = p + s
      /\ \A x \in Entries \ {e, h} : Above(entries'[x]) = Above(entries[x])
  BY <1>2, <1>3, <1>4 DEF Above
<1>7. /\ \A w : w \in Words(entries[h]) <=>
             w \in Words(entries'[e]) \/ w \in Words(entries'[h])
      /\ \A x \in Entries \ {e, h} : Words(entries'[x]) = Words(entries[x])
  BY <1>2, <1>3, <1>4, <1>6 DEF Words
<1>8. TableOK'
  BY <1>2, <1>4 DEF TableOK, Chunk, HeapEnd, HeapStart
<1>9. Layout'
  <2>1. ASSUME NEW x \in Live'
        PROVE  /\ entries'[x].memorySize >= 1
               /\ Above(entries'[x]) <= ptrSecurityHeapTop'
    <3>1. CASE x = e \/ x = h
      BY <3>1, <1>2, <1>3, <1>4, <1>6, Constants
    <3>2. CASE x # e /\ x # h
      BY <3>2, <1>2, <1>4, <1>5, <1>6 DEF Layout, Live
    <3> QED
      BY <3>1, <3>2
  <2>2. ASSUME NEW x \in Live \ {h}
        PROVE  /\ entries'[x] = entries[x]
               /\ x \in Entries /\ x # e
               /\ entries[x].ptrMemory \in Nat
               /\ Above(entries[x]) \in Nat
               /\ Above(entries'[x]) = Above(entries[x])
               /\ Above(entries[x]) <= p \/ p + s <= entries[x].ptrMemory
    <3>1. x \in Entries /\ x # e
      BY <1>5 DEF Live
    <3>2. Apart(entries[x], entries[h])
      BY <1>2 DEF Layout
    <3> QED
      BY <3>1, <3>2, <1>4, <1>6, LiveChunk DEF Apart
  <2>3. ASSUME NEW x \in Live', NEW y \in Live', x # y
        PROVE  Apart(entries'[x], entries'[y])
    <3>1. CASE x \in Live \ {h} /\ y \in Live \ {h}
      <4>1. Apart(entries[x], entries[y])
        BY <2>3, <3>1 DEF Layout
      <4> QED
        BY <4>1, <3>1, <2>2
    <3>2. CASE x \in Live \ {h} /\ y \notin Live \ {h}
      <4>1. y = e \/ y = h
        BY <3>2, <1>5
      <4> QED
        BY <4>1, <3>2, <2>2, <1>2, <1>3, <1>4, <1>6 DEF Apart
    <3>3. CASE x \notin Live \ {h} /\ y \in Live \ {h}
      <4>1. x = e \/ x = h
        BY <3>3, <1>5
      <4> QED
        BY <4>1, <3>3, <2>2, <1>2, <1>3, <1>4, <1>6 DEF Apart
    <3>4. CASE x \notin Live \ {h} /\ y \notin Live \ {h}
      <4>1. (x = e /\ y = h) \/ (x = h /\ y = e)
        BY <3>4, <2>3, <1>5
      <4> QED
        BY <4>1, <1>2, <1>3, <1>4, <1>6 DEF Apart
    <3> QED
      BY <3>1, <3>2, <3>3, <3>4
  <2> QED
    BY <2>1, <2>3 DEF Layout
<1>10. NothingLost'
  <2> SUFFICES ASSUME NEW w \in HeapStart..ptrSecurityHeapTop-1
               PROVE  \E x \in Live' : w \in Words(entries'[x])
    BY <1>2 DEF NothingLost, HeapStart
  <2>1. PICK x \in Live : w \in Words(entries[x])
    BY DEF NothingLost
  <2> QED
    BY <2>1, <1>2, <1>5, <1>7 DEF Live
<1>11. HolesMerged'
  <2>1. ASSUME NEW g \in Holes'
        PROVE  /\ g \in Holes
               /\ Above(entries'[g]) = Above(entries[g])
               /\ Above(entries[g]) # ptrSecurityHeapTop
    BY <1>2, <1>5, <1>6 DEF HolesMerged, Holes, Live
  <2>2. ASSUME NEW g \in Holes', NEW k \in Holes'
        PROVE  entries'[k].ptrMemory # Above(entries'[g])
    <3>1. CASE k # h
      <4>1. entries'[k].ptrMemory = entries[k].ptrMemory
        BY <3>1, <1>4, <1>5 DEF Holes, Live
      <4> QED
        BY <4>1, <2>1 DEF HolesMerged
    <3>2. CASE k = h /\ g = h
      BY <3>2, <1>2, <1>3, <1>4, <1>6
    <3>3. CASE k = h /\ g # h
      <4>1. g \in Live /\ Apart(entries[g], entries[h])
        BY <3>3, <2>1, <1>2 DEF Layout, Holes
      <4>2. /\ entries[g].memorySize >= 1
            /\ Above(entries[g]) = entries[g].ptrMemory + entries[g].memorySize
            /\ entries[g].ptrMemory \in Nat
            /\ entries[g].memorySize \in Nat
        BY <4>1, LiveChunk
      <4>3. Above(entries[g]) # p + n
        BY <4>1, <4>2, <1>2, <1>3, <1>6 DEF Apart
      <4> QED
        BY <4>3, <3>3, <2>1, <1>4
    <3> QED
      BY <3>1, <3>2, <3>3
  <2> QED
    BY <2>1, <2>2, <1>2 DEF HolesMerged
<1>12. FreeMemoryIsZero'
  <2> SUFFICES ASSUME NEW w \in dirty'
               PROVE  \E b \in Blocks' : w \in Words(entries'[b])
    BY DEF FreeMemoryIsZero
  <2>1. PICK b \in Blocks : w \in Words(entries[b])
    BY <1>2 DEF FreeMemoryIsZero
  <2>2. b # h /\ b # e /\ b \in Entries
    BY <1>5 DEF Blocks, Live
  <2> QED
    BY <2>1, <2>2, <1>5, <1>7
<1> QED
  BY <1>8, <1>9, <1>10, <1>11, <1>12

-----------------------------------------------------------------------------
LEMMA GrowKeepsInv ==
    ASSUME HeapInv, NoEmptyRequest, NEW n \in Sizes,
           NEW e \in Unused, Grow(e, n)
    PROVE  HeapInv'
<1> USE DEF HeapInv
<1> DEFINE top == ptrSecurityHeapTop
<1>1. /\ n \in Nat /\ n >= 1
      /\ top \in Nat /\ top >= 1 /\ top + n <= HeapEnd
      /\ e \in Entries
      /\ entries' = [entries EXCEPT ![e] = Block(top, n)]
      /\ ptrSecurityHeapTop' = top + n
      /\ dirty' = dirty
  BY Constants DEF Grow, Allocated, TableOK, NoEmptyRequest, Unused
<1>2. /\ entries' \in [Entries -> Chunk]
      /\ entries'[e] = [ptrMemory |-> top, memorySize |-> n, ucStatus |-> 0]
      /\ \A x \in Entries \ {e} : entries'[x] = entries[x]
  <2>1. Block(top, n) \in Chunk
    BY <1>1, Constants DEF Block, Chunk
  <2> QED
    BY <2>1, <1>1 DEF TableOK, Block
<1>3. /\ Live' = Live \cup {e}
      /\ Holes' = Holes
      /\ Blocks' = Blocks \cup {e}
      /\ e \notin Live
  <2>1. e \notin Live
    BY DEF Unused
  <2>2. Live' = Live \cup {e}
    BY <1>1, <1>2 DEF Live
  <2>3. Holes' = Holes
    BY <2>1, <2>2, <1>1, <1>2 DEF Holes, Live
  <2> QED
    BY <2>1, <2>2, <2>3 DEF Blocks, Holes
<1>4. /\ Above(entries'[e]) = top + n
      /\ \A w : w \in Words(entries'[e]) <=> w \in Int /\ top <= w /\ w < top + n
  BY <1>1, <1>2 DEF Above, Words
<1>5. \A x \in Live : /\ x \in Entries /\ x # e
                      /\ entries'[x] = entries[x]
                      /\ Above(entries[x]) \in Nat
                      /\ Above(entries[x]) <= top
                      /\ entries[x].memorySize >= 1
  BY <1>2, <1>3, LiveChunk DEF Live
<1>6. TableOK'
  BY <1>1, <1>2, Constants DEF TableOK, Chunk, HeapEnd, HeapStart
<1>7. Layout'
  <2>1. ASSUME NEW x \in Live'
        PROVE  /\ entries'[x].memorySize >= 1
               /\ Above(entries'[x]) <= ptrSecurityHeapTop'
    <3>1. CASE x = e
      BY <3>1, <1>1, <1>2, <1>4
    <3>2. CASE x \in Live
      BY <3>2, <1>1, <1>5
    <3> QED
      BY <3>1, <3>2, <1>3
  <2>2. ASSUME NEW x \in Live', NEW y \in Live', x # y
        PROVE  Apart(entries'[x], entries'[y])
    <3>1. CASE x \in Live /\ y \in Live
      BY <3>1, <2>2, <1>5 DEF Layout
    <3>2. CASE x = e /\ y \in Live
      BY <3>2, <1>2, <1>5 DEF Apart
    <3>3. CASE x \in Live /\ y = e
      BY <3>3, <1>2, <1>5 DEF Apart
    <3> QED
      BY <3>1, <3>2, <3>3, <2>2, <1>3
  <2> QED
    BY <2>1, <2>2 DEF Layout
<1>8. NothingLost'
  <2> SUFFICES ASSUME NEW w \in HeapStart..ptrSecurityHeapTop'-1
               PROVE  \E x \in Live' : w \in Words(entries'[x])
    BY DEF NothingLost, HeapStart
  <2>1. CASE w < top
    <3>1. PICK x \in Live : w \in Words(entries[x])
      BY <2>1, <1>1 DEF NothingLost, HeapStart
    <3> QED
      BY <3>1, <1>3, <1>5
  <2>2. CASE ~(w < top)
    BY <2>2, <1>1, <1>3, <1>4 DEF HeapStart
  <2> QED
    BY <2>1, <2>2
<1>9. HolesMerged'
  <2>1. \A g \in Holes' : /\ g \in Holes /\ g \in Live
                          /\ entries'[g] = entries[g]
    BY <1>3, <1>5 DEF Holes
  <2>2. \A g \in Holes' : Above(entries'[g]) # ptrSecurityHeapTop'
    BY <2>1, <1>1, <1>5
  <2>3. \A g, k \in Holes' : entries'[k].ptrMemory # Above(entries'[g])
    BY <2>1 DEF HolesMerged
  <2> QED
    BY <2>2, <2>3 DEF HolesMerged
<1>10. FreeMemoryIsZero'
  <2> SUFFICES ASSUME NEW w \in dirty'
               PROVE  \E b \in Blocks' : w \in Words(entries'[b])
    BY DEF FreeMemoryIsZero
  <2>1. PICK b \in Blocks : w \in Words(entries[b])
    BY <1>1 DEF FreeMemoryIsZero
  <2> QED
    BY <2>1, <1>3, <1>5 DEF Blocks
<1> QED
  BY <1>6, <1>7, <1>8, <1>9, <1>10

LEMMA CallocKeepsInv ==
    ASSUME HeapInv, NoEmptyRequest, NEW n \in Sizes, uCalloc(n)
    PROVE  HeapInv'
<1>1. CASE NoObjects
  BY <1>1 DEF NoObjects, vars, HeapInv, TableOK, Layout, NothingLost,
     HolesMerged, FreeMemoryIsZero, Live, Holes, Blocks, Apart, Above, Words
<1>2. ASSUME NEW e \in Entries, IsFirst(e, Unused),
             \/ ReuseHole(e, n) \/ SplitHole(e, n)
             \/ Grow(e, n) \/ Exhausted(e, n)
      PROVE  HeapInv'
  <2>1. e \in Unused
    BY <1>2 DEF IsFirst
  <2>2. CASE ReuseHole(e, n)
    BY <2>2, ReuseHoleKeepsInv
  <2>3. CASE SplitHole(e, n)
    BY <2>1, <2>3, SplitHoleKeepsInv
  <2>4. CASE Grow(e, n)
    BY <2>1, <2>4, GrowKeepsInv
  <2>5. CASE Exhausted(e, n)
    BY <2>5 DEF Exhausted, HeapInv, TableOK, Layout, NothingLost,
       HolesMerged, FreeMemoryIsZero, Live, Holes, Blocks, Apart, Above, Words
  <2> QED
    BY <1>2, <2>2, <2>3, <2>4, <2>5
<1> QED
  BY <1>1, <1>2 DEF uCalloc

-----------------------------------------------------------------------------
(*                                  uCFree                                 *)

(* At most one hole ends where the block starts.                           *)
LEMMA Below ==
    ASSUME HeapInv, NEW e \in Blocks
    PROVE  \/ Before(e) = {} /\ Kept(e) = e
           \/ /\ Before(e) = {Kept(e)}
              /\ Kept(e) \in Holes
              /\ Above(entries[Kept(e)]) = entries[e].ptrMemory
<1> USE DEF HeapInv
<1>1. CASE Before(e) = {}
  BY <1>1 DEF Kept
<1>2. CASE Before(e) # {}
  <2>1. Kept(e) \in Before(e)
    BY <1>2 DEF Kept, TheOne
  <2>2. ASSUME NEW h \in Before(e) PROVE h = Kept(e)
    <3>1. /\ h \in Live /\ Kept(e) \in Live
          /\ Above(entries[h]) = Above(entries[Kept(e)])
      BY <2>1 DEF Before, Holes
    <3>2. h # Kept(e) => Apart(entries[h], entries[Kept(e)])
      BY <3>1 DEF Layout
    <3> HIDE DEF HeapInv
    <3> QED
      BY <3>1, <3>2, LiveChunk DEF Apart, HeapInv
  <2> QED
    BY <2>1, <2>2 DEF Before
<1> QED
  BY <1>1, <1>2

(* At most one hole starts where the block ends.                           *)
LEMMA Beyond ==
    ASSUME HeapInv, NEW e \in Blocks
    PROVE  \/ After(e) = {} /\ To(e) = Above(entries[e])
           \/ \E a \in Holes : /\ After(e) = {a}
                               /\ entries[a].ptrMemory = Above(entries[e])
                               /\ To(e) = Above(entries[a])
<1>1. CASE After(e) = {}
  BY <1>1 DEF To
<1>2. CASE After(e) # {}
  <2> DEFINE a == TheOne(After(e))
  <2>1. a \in After(e) /\ To(e) = Above(entries[a])
    BY <1>2 DEF To, TheOne
  <2>2. ASSUME NEW h \in After(e) PROVE h = a
    <3>1. /\ h \in Live /\ a \in Live
          /\ entries[h].ptrMemory = entries[a].ptrMemory
      BY <2>1 DEF After, Holes
    <3>2. h # a => Apart(entries[h], entries[a])
      BY <3>1 DEF Layout, HeapInv
    <3> QED
      BY <3>1, <3>2, LiveChunk DEF Apart, HeapInv
  <2>3. After(e) = {a} /\ a \in Holes /\ entries[a].ptrMemory = Above(entries[e])
    BY <2>1, <2>2 DEF After
  <2> QED
    BY <2>1, <2>3
<1> QED
  BY <1>1, <1>2

(* What uCFree knows of the hole that it makes.                            *)
LEMMA HoleMade ==
    ASSUME HeapInv, NEW e \in Blocks
    PROVE  /\ Kept(e) \in Merged(e)
           /\ Merged(e) \subseteq Live
           /\ Merged(e) \ {e} \subseteq Holes
           /\ From(e) \in Nat /\ From(e) >= 1
           /\ To(e) \in Nat /\ From(e) < To(e)
           /\ To(e) <= ptrSecurityHeapTop
           /\ \A x \in Live \ Merged(e) : Apart(entries[x],
                 [ptrMemory |-> From(e), memorySize |-> To(e) - From(e)])
           /\ \A w \in Int : From(e) <= w /\ w < To(e)
                 <=> \E x \in Merged(e) : w \in Words(entries[x])
           /\ \A g \in Holes \ Merged(e) : /\ Above(entries[g]) # From(e)
                                           /\ entries[g].ptrMemory # To(e)
<1> DEFINE k == Kept(e)
<1>1. /\ TableOK
      /\ Layout
      /\ e \in Live
      /\ e \notin Holes
  BY DEF HeapInv, Blocks
<1>2. \/ Before(e) = {} /\ k = e
      \/ /\ Before(e) = {k}
         /\ k \in Holes
         /\ Above(entries[k]) = entries[e].ptrMemory
  BY Below
<1>3. \/ After(e) = {} /\ To(e) = Above(entries[e])
      \/ \E a \in Holes : /\ After(e) = {a}
                          /\ entries[a].ptrMemory = Above(entries[e])
                          /\ To(e) = Above(entries[a])
  BY Beyond
<1>4. /\ k \in Merged(e)
      /\ Merged(e) \subseteq Live
      /\ Merged(e) \ {e} \subseteq Holes
      /\ Before(e) \subseteq {k}
      /\ \A x \in Merged(e) \ {e, k} : x \in After(e)
  BY <1>1, <1>2 DEF Merged, Before, After, Holes
<1>5. k \in Live
  BY <1>4
<1>6. /\ From(e) = entries[k].ptrMemory
      /\ From(e) \in Nat /\ From(e) >= 1
      /\ From(e) <= entries[e].ptrMemory
      /\ k = e \/ Above(entries[k]) = entries[e].ptrMemory
  BY <1>1, <1>2, <1>5, LiveChunk DEF From
<1>7. /\ To(e) \in Nat
      /\ Above(entries[e]) <= To(e)
      /\ To(e) <= ptrSecurityHeapTop
  BY <1>1, <1>3, LiveChunk DEF Holes
<1>8. From(e) < To(e)
  BY <1>1, <1>6, <1>7, LiveChunk
<1>9. ASSUME NEW x \in Live \ Merged(e)
      PROVE  Above(entries[x]) <= From(e) \/ To(e) <= entries[x].ptrMemory
  <2>1. x # e /\ x # k /\ x \in Live
    BY <1>4 DEF Merged
  <2>2. Apart(entries[x], entries[e]) /\ Apart(entries[x], entries[k])
    BY <1>1, <1>5, <2>1 DEF Layout
  <2>3. CASE After(e) = {}
    <3>1. To(e) = Above(entries[e])
      BY <1>3, <2>3
    <3> QED
      BY <3>1, <2>1, <2>2, <1>1, <1>5, <1>6, LiveChunk DEF Apart
  <2>4. CASE After(e) # {}
    <3>1. PICK a \in Holes : /\ After(e) = {a}
                             /\ entries[a].ptrMemory = Above(entries[e])
                             /\ To(e) = Above(entries[a])
      BY <1>3, <2>4
    <3>2. a \in Live /\ x # a
      BY <3>1 DEF Holes, Merged
    <3>3. Apart(entries[x], entries[a])
      BY <1>1, <2>1, <3>2 DEF Layout
    <3> QED
      BY <3>1, <3>2, <3>3, <2>1, <2>2, <1>1, <1>5, <1>6, LiveChunk DEF Apart
  <2> QED
    BY <2>3, <2>4
<1>10. \A x \in Live \ Merged(e) : Apart(entries[x],
           [ptrMemory |-> From(e), memorySize |-> To(e) - From(e)])
  BY <1>6, <1>7, <1>9 DEF Apart, Above
<1>11. ASSUME NEW w \in Int
       PROVE  From(e) <= w /\ w < To(e)
                 <=> \E x \in Merged(e) : w \in Words(entries[x])
  <2>1. ASSUME From(e) <= w, w < To(e)
        PROVE  \E x \in Merged(e) : w \in Words(entries[x])
    <3>1. CASE w < entries[e].ptrMemory
      BY <3>1, <2>1, <1>1, <1>4, <1>5, <1>6, LiveChunk
    <3>2. CASE w >= Above(entries[e])
      <4>1. PICK a \in Holes : /\ After(e) = {a}
                               /\ entries[a].ptrMemory = Above(entries[e])
                               /\ To(e) = Above(entries[a])
        BY <3>2, <2>1, <1>1, <1>3, <1>7, LiveChunk
      <4>2. a \in Live /\ a \in Merged(e)
        BY <4>1 DEF Holes, Merged
      <4> QED
        BY <4>1, <4>2, <3>2, <2>1, <1>1, LiveChunk
    <3>3. CASE entries[e].ptrMemory <= w /\ w < Above(entries[e])
      BY <3>3, <1>1, LiveChunk DEF Merged
    <3> QED
      BY <3>1, <3>2, <3>3, <1>1, LiveChunk
  <2>2. ASSUME NEW x \in Merged(e), w \in Words(entries[x])
        PROVE  From(e) <= w /\ w < To(e)
    <3>1. x \in Live
      BY <1>4
    <3>2. CASE x = e
      BY <3>2, <3>1, <2>2, <1>1, <1>6, <1>7, LiveChunk
    <3>3. CASE x = k /\ x # e
      BY <3>3, <3>1, <2>2, <1>1, <1>6, <1>7, LiveChunk
    <3>4. CASE x # e /\ x # k
      <4>1. x \in After(e)
        BY <3>4, <1>4
      <4>2. entries[x].ptrMemory = Above(entries[e]) /\ To(e) = Above(entries[x])
        BY <4>1, <1>3
      <4> QED
        BY <4>2, <3>1, <2>2, <1>1, <1>6, LiveChunk
    <3> QED
      BY <3>2, <3>3, <3>4
  <2> QED
    BY <2>1, <2>2
<1>12. ASSUME NEW g \in Holes \ Merged(e)
       PROVE  Above(entries[g]) # From(e) /\ entries[g].ptrMemory # To(e)
  <2>1. Above(entries[g]) # From(e)
    <3>1. CASE k = e
      BY <3>1, <1>6 DEF Merged, Before
    <3>2. CASE k # e
      <4>1. k \in Holes
        BY <3>2, <1>2
      <4> QED
        BY <4>1, <1>6 DEF HolesMerged, HeapInv
    <3> QED
      BY <3>1, <3>2
  <2>2. entries[g].ptrMemory # To(e)
    <3>1. CASE After(e) = {}
      BY <3>1, <1>3 DEF After
    <3>2. CASE After(e) # {}
      BY <3>2, <1>3 DEF HolesMerged, HeapInv
    <3> QED
      BY <3>1, <3>2
  <2> QED
    BY <2>1, <2>2
<1> QED
  BY <1>4, <1>6, <1>7, <1>8, <1>10, <1>11, <1>12

(* The entries after uCFree: the merged ones are gone but for the new hole.*)
LEMMA TableFreed ==
    ASSUME HeapInv, NEW e \in Blocks, uCFree(e)
    PROVE  LET onTop == To(e) = ptrSecurityHeapTop
               rest  == Live \ Merged(e)
           IN  /\ entries' \in [Entries -> Chunk]
               /\ \A x \in rest : entries'[x] = entries[x]
               /\ ~onTop =>
                     /\ entries'[Kept(e)] = [ptrMemory  |-> From(e),
                                             memorySize |-> To(e) - From(e),
                                             ucStatus   |-> 1]
                     /\ Live' = rest \cup {Kept(e)}
                     /\ Holes' = (Holes \ Merged(e)) \cup {Kept(e)}
               /\ onTop =>
                     /\ Live' = rest
                     /\ Holes' = Holes \ Merged(e)
               /\ Blocks' = Blocks \ {e}
               /\ Kept(e) \in Live
<1> DEFINE onTop == To(e) = ptrSecurityHeapTop
           rest  == Live \ Merged(e)
           hole  == [ptrMemory  |-> From(e),
                     memorySize |-> To(e) - From(e),
                     ucStatus   |-> 1]
<1>1. entries' = [f \in Entries |->
          IF f = Kept(e) /\ ~onTop THEN hole
          ELSE IF f \in Merged(e) THEN NoBlock ELSE entries[f]]
  BY DEF uCFree
<1>2. /\ Kept(e) \in Merged(e)
      /\ Merged(e) \subseteq Live
      /\ Merged(e) \ {e} \subseteq Holes
      /\ e \notin Holes
      /\ e \in Merged(e)
      /\ Live \subseteq Entries
      /\ Holes \subseteq Live
  BY HoleMade DEF Blocks, Merged, Live, Holes
<1>3. /\ From(e) \in Nat /\ From(e) >= 1
      /\ To(e) \in Nat /\ From(e) < To(e)
      /\ To(e) <= ptrSecurityHeapTop
      /\ ptrSecurityHeapTop \in 1..HeapEnd
      /\ HeapEnd = HeapSize + 1 /\ HeapSize \in Nat
  BY HoleMade, Constants DEF HeapInv, TableOK
<1>4. hole \in Chunk /\ NoBlock \in Chunk /\ entries \in [Entries -> Chunk]
  BY <1>3 DEF Chunk, NoBlock, HeapInv, TableOK
<1>5. entries' \in [Entries -> Chunk]
  BY <1>1, <1>4
<1>6. \A x \in rest : entries'[x] = entries[x]
  BY <1>1, <1>2
<1>7. \A x \in Merged(e) : entries'[x] =
          IF x = Kept(e) /\ ~onTop THEN hole ELSE NoBlock
  BY <1>1, <1>2
<1>8. \A x \in Entries \ Live : entries'[x] = entries[x]
  BY <1>1, <1>2
<1>9. Live' = IF onTop THEN rest ELSE rest \cup {Kept(e)}
  <2>1. \A x \in Entries : entries'[x].ptrMemory # 0
            <=> (x \in rest \/ (x = Kept(e) /\ ~onTop))
    <3>1. \A x \in rest : entries'[x].ptrMemory # 0 /\ x # Kept(e)
      BY <1>2, <1>6 DEF Live
    <3>2. \A x \in Merged(e) : x \notin rest /\
              (entries'[x].ptrMemory # 0 <=> (x = Kept(e) /\ ~onTop))
      BY <1>3, <1>7 DEF NoBlock
    <3>3. \A x \in Entries \ Live : /\ entries'[x].ptrMemory = 0
                                     /\ x \notin rest /\ x # Kept(e)
      BY <1>2, <1>8 DEF Live
    <3> QED
      BY <3>1, <3>2, <3>3, <1>2
  <2> QED
    BY <2>1, <1>2 DEF Live
<1>10. Holes' = IF onTop THEN Holes \ Merged(e)
                ELSE (Holes \ Merged(e)) \cup {Kept(e)}
  <2>1. \A x \in rest : entries'[x].ucStatus # 0 <=> x \in Holes
    BY <1>6 DEF Holes
  <2>2. ~onTop => entries'[Kept(e)].ucStatus # 0
    BY <1>2, <1>7
  <2> QED
    BY <2>1, <2>2, <1>2, <1>9 DEF Holes
<1>11. Blocks' = Blocks \ {e}
  <2>1. Blocks' = (Live \ Merged(e)) \ Holes
    BY <1>2, <1>9, <1>10 DEF Blocks
  <2> QED
    BY <2>1, <1>2 DEF Blocks
<1> QED
  BY <1>2, <1>5, <1>6, <1>7, <1>9, <1>10, <1>11

LEMMA FreeKeepsInv ==
    ASSUME HeapInv, NEW e \in Blocks, uCFree(e)
    PROVE  HeapInv'
<1> DEFINE onTop == To(e) = ptrSecurityHeapTop
           rest  == Live \ Merged(e)
<1>1. /\ entries' \in [Entries -> Chunk]
      /\ \A x \in rest : entries'[x] = entries[x]
      /\ Blocks' = Blocks \ {e}
      /\ Kept(e) \in Live
  BY TableFreed
<1>2. ~onTop => /\ entries'[Kept(e)] = [ptrMemory  |-> From(e),
                                        memorySize |-> To(e) - From(e),
                                        ucStatus   |-> 1]
                /\ Live' = rest \cup {Kept(e)}
                /\ Holes' = (Holes \ Merged(e)) \cup {Kept(e)}
  BY TableFreed
<1>3. onTop => Live' = rest /\ Holes' = Holes \ Merged(e)
  BY TableFreed
<1>4. /\ TableOK /\ Layout
      /\ Kept(e) \in Merged(e)
      /\ Merged(e) \subseteq Live
      /\ From(e) \in Nat /\ From(e) >= 1
      /\ To(e) \in Nat /\ From(e) < To(e)
      /\ To(e) <= ptrSecurityHeapTop
      /\ ptrSecurityHeapTop \in 1..HeapEnd
      /\ HeapEnd \in Nat
  <2>1. TableOK /\ Layout /\ ptrSecurityHeapTop \in 1..HeapEnd
    BY Constants DEF HeapInv, TableOK
  <2>2. /\ Kept(e) \in Merged(e)
        /\ Merged(e) \subseteq Live
        /\ From(e) \in Nat /\ From(e) >= 1
        /\ To(e) \in Nat /\ From(e) < To(e)
        /\ To(e) <= ptrSecurityHeapTop
    BY HoleMade
  <2>3. HeapEnd \in Nat
    BY Constants
  <2> QED
    BY <2>1, <2>2, <2>3
<1>5. /\ ptrSecurityHeapTop' = IF onTop THEN From(e) ELSE ptrSecurityHeapTop
      /\ dirty' = dirty \ Words(entries[e])
  BY DEF uCFree, Zeroed
<1>6. ASSUME NEW x \in rest
      PROVE  /\ entries'[x] = entries[x]
             /\ entries[x].ptrMemory \in Nat
             /\ entries[x].memorySize \in Nat
             /\ entries[x].memorySize >= 1
             /\ Above(entries[x]) = entries[x].ptrMemory + entries[x].memorySize
             /\ Above(entries[x]) <= ptrSecurityHeapTop
             /\ Above(entries[x]) <= From(e) \/ To(e) <= entries[x].ptrMemory
  <2>1. Apart(entries[x],
              [ptrMemory |-> From(e), memorySize |-> To(e) - From(e)])
    BY HoleMade
  <2>2. Above(entries[x]) <= From(e) \/ To(e) <= entries[x].ptrMemory
    BY <2>1, <1>4 DEF Apart, Above
  <2> QED
    BY <2>2, <1>1, <1>4, LiveChunk
<1>7. ~onTop => /\ Above(entries'[Kept(e)]) = To(e)
                /\ entries'[Kept(e)].ptrMemory = From(e)
  BY <1>2, <1>4 DEF Above
<1>8. TableOK'
  BY <1>1, <1>4, <1>5 DEF TableOK, Chunk, HeapEnd, HeapStart
<1>9. Layout'
  <2>1. ASSUME NEW x \in Live'
        PROVE  /\ entries'[x].memorySize >= 1
               /\ Above(entries'[x]) <= ptrSecurityHeapTop'
    <3>1. CASE x \in rest
      BY <3>1, <1>4, <1>5, <1>6
    <3>2. CASE x \notin rest
      BY <3>2, <1>2, <1>3, <1>4, <1>5, <1>7
    <3> QED
      BY <3>1, <3>2
  <2>2. ASSUME NEW x \in Live', NEW y \in Live', x # y
        PROVE  Apart(entries'[x], entries'[y])
    <3>1. CASE x \in rest /\ y \in rest
      BY <3>1, <2>2, <1>4, <1>6 DEF Layout
    <3>2. CASE x \in rest /\ y \notin rest
      BY <3>2, <1>2, <1>3, <1>6, <1>7 DEF Apart
    <3>3. CASE x \notin rest /\ y \in rest
      BY <3>3, <1>2, <1>3, <1>6, <1>7 DEF Apart
    <3> QED
      BY <3>1, <3>2, <3>3, <2>2, <1>2, <1>3
  <2> QED
    BY <2>1, <2>2 DEF Layout
<1>10. NothingLost'
  <2> SUFFICES ASSUME NEW w \in HeapStart..ptrSecurityHeapTop'-1
               PROVE  \E x \in Live' : w \in Words(entries'[x])
    BY DEF NothingLost, HeapStart
  <2>1. PICK x \in Live : w \in Words(entries[x])
    BY <1>4, <1>5 DEF NothingLost, HeapInv, HeapStart
  <2>2. CASE x \in rest
    BY <2>1, <2>2, <1>2, <1>3, <1>6
  <2>3. CASE x \in Merged(e)
    <3>1. From(e) <= w /\ w < To(e)
      <4>1. w \in Int
        BY <1>4, <1>5 DEF HeapStart
      <4> QED
        BY <4>1, <2>1, <2>3, HoleMade
    <3>2. ~onTop
      BY <3>1, <1>4, <1>5 DEF HeapStart
    <3>3. w \in Words(entries'[Kept(e)])
      BY <3>1, <3>2, <1>4, <1>7 DEF Words, HeapStart
    <3> QED
      BY <3>2, <3>3, <1>2
  <2> QED
    BY <2>2, <2>3
<1>11. HolesMerged'
  <2>1. \A g \in Holes \ Merged(e) : /\ g \in rest /\ g \in Holes
                                     /\ Above(entries[g]) # From(e)
                                     /\ entries[g].ptrMemory # To(e)
                                     /\ Above(entries[g]) # ptrSecurityHeapTop
    BY HoleMade DEF HolesMerged, HeapInv, Holes
  <2>2. \A g \in Holes' : Above(entries'[g]) # ptrSecurityHeapTop'
    BY <2>1, <1>2, <1>3, <1>5, <1>6, <1>7
  <2>3. \A g, h \in Holes' : entries'[h].ptrMemory # Above(entries'[g])
    <3>1. \A g, h \in Holes \ Merged(e) :
              entries[h].ptrMemory # Above(entries[g])
      BY DEF HolesMerged, HeapInv
    <3> QED
      BY <3>1, <2>1, <1>2, <1>3, <1>4, <1>6, <1>7
  <2> QED
    BY <2>2, <2>3 DEF HolesMerged
<1>12. FreeMemoryIsZero'
  <2> SUFFICES ASSUME NEW w \in dirty'
               PROVE  \E b \in Blocks' : w \in Words(entries'[b])
    BY DEF FreeMemoryIsZero
  <2>1. PICK b \in Blocks : w \in Words(entries[b])
    BY <1>5 DEF FreeMemoryIsZero, HeapInv
  <2>2. b # e
    BY <2>1, <1>5
  <2>3. b \in rest
    BY <2>2, HoleMade DEF Blocks
  <2> QED
    BY <2>1, <2>2, <2>3, <1>1
<1> QED
  BY <1>8, <1>9, <1>10, <1>11, <1>12 DEF HeapInv

LEMMA WriteKeepsInv ==
    ASSUME HeapInv, NEW e \in Blocks, WriteBlock(e)
    PROVE  HeapInv'
<1>1. UNCHANGED <<entries, ptrSecurityHeapTop>>
  BY DEF WriteBlock
<1>2. TableOK' /\ Layout' /\ NothingLost' /\ HolesMerged' /\ Blocks' = Blocks
  BY <1>1 DEF HeapInv, TableOK, Layout, NothingLost, HolesMerged,
     Live, Holes, Blocks, Apart, Above, Words
<1>3. FreeMemoryIsZero'
  BY <1>1, <1>2 DEF WriteBlock, FreeMemoryIsZero, HeapInv
<1> QED
  BY <1>2, <1>3 DEF HeapInv

-----------------------------------------------------------------------------
(*                                Theorems                                 *)

LEMMA InitInv == Init => HeapInv
<1> SUFFICES ASSUME Init PROVE HeapInv
  OBVIOUS
<1>1. \A e \in Entries : entries[e] = NoBlock
  BY DEF Init
<1>2. Live = {} /\ Holes = {}
  BY <1>1 DEF Live, Holes, NoBlock
<1>3. NoBlock \in Chunk
  BY Constants DEF NoBlock, Chunk
<1> QED
  BY <1>2, <1>3, Constants DEF Init, HeapInv, TableOK, Layout, NothingLost,
     HolesMerged, FreeMemoryIsZero

LEMMA StepKeepsInv ==
    ASSUME HeapInv, NoEmptyRequest, [Next]_vars
    PROVE  HeapInv'
<1>1. ASSUME NEW n \in Sizes, uCalloc(n) PROVE HeapInv'
  BY <1>1, CallocKeepsInv
<1>2. ASSUME NEW e \in Blocks, uCFree(e) PROVE HeapInv'
  BY <1>2, FreeKeepsInv
<1>3. ASSUME NEW e \in Blocks, WriteBlock(e) PROVE HeapInv'
  BY <1>3, WriteKeepsInv
<1>4. CASE UNCHANGED vars
  BY <1>4 DEF vars, HeapInv, TableOK, Layout, NothingLost, HolesMerged,
     FreeMemoryIsZero, Live, Holes, Blocks, Apart, Above, Words
<1> QED
  BY <1>1, <1>2, <1>3, <1>4 DEF Next

(* In every reachable state of the heap the inductive invariant holds.     *)
LEMMA HeapInvariant == NoEmptyRequest => (Spec => []HeapInv)
<1> SUFFICES ASSUME NoEmptyRequest
             PROVE  Spec => []HeapInv
  OBVIOUS
<1> QED
  BY InitInv, StepKeepsInv, PTL DEF Spec

(* No word of the heap is ever handed out twice, whatever is split, reused *)
(* and merged: uCalloc and uCFree keep blocks and holes apart.             *)
THEOREM NoWordHandedOutTwice == NoEmptyRequest => (Spec => []BlocksDisjoint)
<1>1. HeapInv => BlocksDisjoint
  BY LayoutDisjoint DEF HeapInv
<1> QED
  BY <1>1, HeapInvariant, PTL

(* No word below the top of the heap drops out of the table.               *)
THEOREM NoWordLost == NoEmptyRequest => (Spec => []NothingLost)
<1>1. HeapInv => NothingLost
  BY DEF HeapInv
<1> QED
  BY <1>1, HeapInvariant, PTL

(* uCFree leaves no two holes side by side and none below the free space.  *)
THEOREM HolesStayMerged == NoEmptyRequest => (Spec => []HolesMerged)
<1>1. HeapInv => HolesMerged
  BY DEF HeapInv
<1> QED
  BY <1>1, HeapInvariant, PTL

(* What uCalloc returns is zero, though only uCFree ever clears memory.    *)
THEOREM MemoryReturnedZero == NoEmptyRequest => (Spec => []FreeMemoryIsZero)
<1>1. HeapInv => FreeMemoryIsZero
  BY DEF HeapInv
<1> QED
  BY <1>1, HeapInvariant, PTL

-----------------------------------------------------------------------------
(*                       The allocator it implements                       *)

(* The block of an entry, as the abstract allocator sees it.               *)
Seen(c) == [ptr |-> c.ptrMemory, size |-> c.memorySize]

LEMMA SeenWords ==
    ASSUME NEW c \in Chunk
    PROVE  Allocator!WordsOf(Seen(c)) = Words(c)
<1>1. c.ptrMemory \in Nat /\ c.memorySize \in Nat
  BY Constants DEF Chunk
<1>2. Seen(c).ptr = c.ptrMemory /\ Seen(c).size = c.memorySize
  BY DEF Seen
<1>3. Allocator!WordsOf(Seen(c)) = c.ptrMemory .. c.ptrMemory + c.memorySize - 1
  BY <1>1, <1>2 DEF Allocator!WordsOf
<1>4. Words(c) = c.ptrMemory .. c.ptrMemory + c.memorySize - 1
  BY <1>1 DEF Words, Above
<1> QED
  BY <1>3, <1>4

LEMMA DisjointNext == HeapInv' => BlocksDisjoint'
<1>1. HeapInv => BlocksDisjoint
  BY LayoutDisjoint DEF HeapInv
<1> QED
  BY <1>1, PTL

(* A step that turns entry x into a new block of n words, and clears and   *)
(* writes nothing ...                                                      *)
MakesBlock(x, n) ==
    /\ x \notin Blocks
    /\ Blocks' = Blocks \cup {x}
    /\ \A b \in Blocks : Seen(entries'[b]) = Seen(entries[b])
    /\ entries'[x].memorySize = n
    /\ UNCHANGED dirty

(* ... is an allocation.                                                   *)
LEMMA NewBlockAllocates ==
    ASSUME HeapInv, HeapInv', NEW n \in Sizes, NEW x, MakesBlock(x, n)
    PROVE  Allocator!Allocate(n)
<1> USE DEF MakesBlock
<1> DEFINE p == entries'[x].ptrMemory
           b == [ptr |-> p, size |-> n]
           seen == {Seen(entries[e]) : e \in Blocks}
<1>1. /\ x \in Live'
      /\ \A e \in Blocks : e \in Live' /\ e # x
  BY DEF Blocks
<1>2. /\ entries'[x] \in Chunk
      /\ entries'[x].memorySize >= 1
      /\ ptrSecurityHeapTop' \in HeapStart..HeapEnd
  BY <1>1 DEF HeapInv, TableOK, Layout, HeapStart, HeapEnd, Chunk, Entries, Live
<1>3. /\ p \in Nat
      /\ n \in Nat /\ n >= 1
      /\ ptrSecurityHeapTop' <= HeapSize + 1
      /\ ptrSecurityHeapTop' \in Int
      /\ HeapSize \in Nat
  BY <1>2, Constants DEF Chunk
<1>4. Words(entries'[x]) = p..p+n-1 /\ Allocator!WordsOf(b) = p..p+n-1
  <2>1. Words(entries'[x]) = p..p+n-1
    BY <1>2, <1>3 DEF Words, Above
  <2>2. b = Seen(entries'[x])
    BY DEF Seen
  <2> QED
    BY <2>1, <2>2, <1>2, SeenWords
<1>5. /\ Words(entries'[x]) \subseteq HeapStart..ptrSecurityHeapTop'-1
      /\ \A e \in Blocks : Words(entries'[x]) \cap Words(entries'[e]) = {}
  BY <1>1, DisjointNext DEF BlocksDisjoint, HeapStart, HeapEnd
<1>6. p \in HeapStart..HeapSize /\ p..p+n-1 \subseteq HeapStart..HeapSize
  BY <1>3, <1>4, <1>5 DEF HeapStart
<1>7. \A e \in Blocks : /\ Words(entries'[e]) = Words(entries[e])
                        /\ Allocator!WordsOf(Seen(entries[e])) = Words(entries[e])
  <2> SUFFICES ASSUME NEW e \in Blocks
               PROVE  /\ Words(entries'[e]) = Words(entries[e])
                      /\ Allocator!WordsOf(Seen(entries[e])) = Words(entries[e])
    OBVIOUS
  <2>1. e \in Entries
    BY DEF Blocks, Live
  <2>2. entries[e] \in Chunk /\ entries'[e] \in Chunk
    BY <2>1 DEF HeapInv, TableOK, Chunk, HeapEnd, Entries
  <2>3. Seen(entries'[e]) = Seen(entries[e])
    OBVIOUS
  <2> QED
    BY <2>2, <2>3, SeenWords
<1>8. \A w \in p..p+n-1 : \A e \in Blocks : w \notin Words(entries[e])
  BY <1>4, <1>5, <1>7
<1>9. (p..p+n-1) \cap dirty = {}
  BY <1>8 DEF HeapInv, FreeMemoryIsZero
<1>10. \A w \in p..p+n-1 :
           w \notin UNION {Allocator!WordsOf(c) : c \in seen}
  BY <1>7, <1>8
<1>11. {Seen(entries[e]) : e \in Blocks}' = seen \cup {b}
  BY DEF Seen
<1> QED
  BY <1>4, <1>6, <1>9, <1>10, <1>11
     DEF Allocator!Allocate, Allocator!Free, Seen

(* A hole of the right size, the start of a larger one, or the start of    *)
(* the free space becomes the block.                                       *)
LEMMA ReuseMakesBlock ==
    ASSUME HeapInv, NEW n \in Sizes, NEW e, ReuseHole(e, n)
    PROVE  \E h \in Holes : /\ MakesBlock(h, n)
                            /\ Live' = Live /\ Holes' = Holes \ {h}
<1>1. TableOK
  BY DEF HeapInv
<1>2. PICK h \in Entries :
          /\ h \in Perfect(n)
          /\ entries' = [entries EXCEPT ![h].ucStatus = 0]
  BY DEF ReuseHole, IsFirst
<1>3. h \in Holes /\ entries[h].memorySize = n
  BY <1>2 DEF Perfect, Scanned
<1>4. /\ \A f \in Entries : Seen(entries'[f]) = Seen(entries[f])
      /\ \A f \in Entries \ {h} : entries'[f] = entries[f]
      /\ entries'[h].ucStatus = 0
      /\ entries'[h].ptrMemory = entries[h].ptrMemory
      /\ entries'[h].memorySize = n
  BY <1>1, <1>2, <1>3 DEF Seen, TableOK, Chunk
<1>5. /\ Live' = Live /\ Holes' = Holes \ {h}
      /\ Blocks' = Blocks \cup {h} /\ h \notin Blocks
  BY <1>3, <1>4 DEF Blocks, Holes, Live
<1>6. \A f \in Blocks : f \in Entries
  BY DEF Blocks, Live
<1>7. UNCHANGED dirty
  BY DEF ReuseHole, Allocated
<1> QED
  BY <1>3, <1>4, <1>5, <1>6, <1>7 DEF MakesBlock

LEMMA SplitMakesBlock ==
    ASSUME HeapInv, NEW n \in Sizes, NEW e \in Unused, SplitHole(e, n)
    PROVE  MakesBlock(e, n) /\ Live' = Live \cup {e} /\ Holes' = Holes
<1>1. TableOK /\ Layout
  BY DEF HeapInv
<1>2. PICK h \in Entries :
          /\ h \in Adequate(n)
          /\ entries' = [entries EXCEPT
                            ![e] = Block(entries[h].ptrMemory, n),
                            ![h] = Rest(@, n)]
  BY DEF SplitHole, IsPreferred
<1>3. h \in Holes /\ h \in Live /\ e \notin Live /\ e # h /\ e \in Entries
  BY <1>2 DEF Adequate, Scanned, Holes, Unused
<1>4. /\ entries'[e] = Block(entries[h].ptrMemory, n)
      /\ entries'[h] = Rest(entries[h], n)
      /\ \A f \in Entries \ {e, h} : entries'[f] = entries[f]
  BY <1>1, <1>2, <1>3 DEF TableOK
<1>5. /\ entries'[e].ptrMemory # 0
      /\ entries'[e].ucStatus = 0
      /\ entries'[e].memorySize = n
      /\ entries'[h].ucStatus # 0
      /\ entries'[h].ptrMemory # 0
  <2>1. n \in Nat /\ entries[h].ptrMemory \in Nat /\ entries[h].ptrMemory # 0
    BY <1>1, <1>3, LiveChunk, Constants
  <2>2. entries[h].ptrMemory + n # 0
    BY <2>1
  <2> QED
    BY <1>3, <1>4, <2>1, <2>2 DEF Block, Rest, Holes
<1>6. /\ Live' = Live \cup {e} /\ Holes' = Holes
      /\ Blocks' = Blocks \cup {e} /\ e \notin Blocks
  BY <1>3, <1>4, <1>5 DEF Blocks, Holes, Live
<1>7. \A f \in Blocks : entries'[f] = entries[f]
  BY <1>3, <1>4 DEF Blocks, Live
<1>8. UNCHANGED dirty
  BY DEF SplitHole, Allocated
<1> QED
  BY <1>5, <1>6, <1>7, <1>8 DEF MakesBlock

LEMMA GrowMakesBlock ==
    ASSUME HeapInv, NEW n \in Sizes, NEW e \in Unused, Grow(e, n)
    PROVE  MakesBlock(e, n) /\ Live' = Live \cup {e} /\ Holes' = Holes
<1>1. TableOK
  BY DEF HeapInv
<1>2. entries' = [entries EXCEPT ![e] = Block(ptrSecurityHeapTop, n)]
  BY DEF Grow
<1>3. /\ e \notin Live /\ e \in Entries
      /\ ptrSecurityHeapTop >= 1 /\ ptrSecurityHeapTop \in Int
  BY <1>1, Constants DEF Unused, TableOK
<1>4. /\ entries'[e] = Block(ptrSecurityHeapTop, n)
      /\ \A f \in Entries \ {e} : entries'[f] = entries[f]
  BY <1>1, <1>2, <1>3 DEF TableOK
<1>5. /\ entries'[e].ptrMemory # 0
      /\ entries'[e].ucStatus = 0
      /\ entries'[e].memorySize = n
  BY <1>3, <1>4 DEF Block
<1>6. /\ Live' = Live \cup {e} /\ Holes' = Holes
      /\ Blocks' = Blocks \cup {e} /\ e \notin Blocks
  BY <1>3, <1>4, <1>5 DEF Blocks, Holes, Live
<1>7. \A f \in Blocks : entries'[f] = entries[f]
  BY <1>3, <1>4 DEF Blocks, Live
<1>8. UNCHANGED dirty
  BY DEF Grow, Allocated
<1> QED
  BY <1>5, <1>6, <1>7, <1>8 DEF MakesBlock

LEMMA CallocAllocates ==
    ASSUME HeapInv, HeapInv', NoEmptyRequest, NEW n \in Sizes, uCalloc(n)
    PROVE  Allocator!Allocate(n) \/ UNCHANGED Allocator!avars
<1>1. ASSUME NEW e \in Entries, IsFirst(e, Unused),
             ReuseHole(e, n) \/ SplitHole(e, n) \/ Grow(e, n)
      PROVE  Allocator!Allocate(n)
  <2>1. \E x : MakesBlock(x, n)
    BY <1>1, ReuseMakesBlock, SplitMakesBlock, GrowMakesBlock DEF IsFirst
  <2> QED
    BY <2>1, NewBlockAllocates
<1>2. ASSUME NEW e \in Entries, Exhausted(e, n) \/ NoObjects
      PROVE  UNCHANGED <<entries, dirty>>
  BY <1>2 DEF Exhausted, NoObjects, vars
<1>3. NoObjects => UNCHANGED <<entries, dirty>>
  BY DEF NoObjects, vars
<1>4. ASSUME UNCHANGED <<entries, dirty>>
      PROVE  UNCHANGED Allocator!avars
  BY <1>4 DEF Allocator!avars, Blocks, Holes, Live
<1> QED
  BY <1>1, <1>2, <1>3, <1>4 DEF uCalloc

LEMMA FreeReleases ==
    ASSUME HeapInv, NEW e \in Blocks, uCFree(e)
    PROVE  Allocator!Release(Seen(entries[e]))
<1>1. /\ \A x \in Live \ Merged(e) : entries'[x] = entries[x]
      /\ Blocks' = Blocks \ {e}
  BY TableFreed
<1>2. \A x \in Blocks \ {e} : entries'[x] = entries[x]
  BY <1>1, HoleMade DEF Blocks
<1>3. \A x \in Blocks \ {e} : entries[x].ptrMemory # entries[e].ptrMemory
  <2> SUFFICES ASSUME NEW x \in Blocks \ {e}
               PROVE  entries[x].ptrMemory # entries[e].ptrMemory
    OBVIOUS
  <2>1. TableOK /\ Layout /\ x \in Live /\ e \in Live /\ x # e
    BY DEF HeapInv, Blocks
  <2>2. Apart(entries[x], entries[e])
    BY <2>1 DEF Layout
  <2> QED
    BY <2>1, <2>2, LiveChunk DEF Apart
<1>4. {Seen(entries[x]) : x \in Blocks}' =
          {Seen(entries[x]) : x \in Blocks} \ {Seen(entries[e])}
  BY <1>1, <1>2, <1>3 DEF Seen
<1>5. dirty' = dirty \ Allocator!WordsOf(Seen(entries[e]))
  <2>1. entries[e] \in Chunk
    BY DEF HeapInv, TableOK, Blocks, Live
  <2> QED
    BY <2>1, SeenWords DEF uCFree, Zeroed
<1> QED
  BY <1>4, <1>5 DEF Allocator!Release, Seen

LEMMA WriteWrites ==
    ASSUME HeapInv, NEW e \in Blocks, WriteBlock(e)
    PROVE  Allocator!Write(Seen(entries[e]))
<1>1. Blocks' = Blocks /\ entries' = entries
  BY DEF WriteBlock, Blocks, Holes, Live
<1>2. entries[e] \in Chunk
  BY DEF HeapInv, TableOK, Blocks, Live
<1> QED
  BY <1>1, <1>2, SeenWords DEF WriteBlock, Allocator!Write

(* uCalloc and uCFree, with their table of blocks and holes, are the plain *)
(* allocator: each call is one of its steps or, if refused, changes nothing*)
(* that a caller sees.                                                     *)
THEOREM HeapIsAllocator == NoEmptyRequest => (Spec => ImplementsAllocator)
<1> SUFFICES ASSUME NoEmptyRequest
             PROVE  Spec => ImplementsAllocator
  OBVIOUS
<1>1. Init => Allocator!AllocatorInit
  <2> SUFFICES ASSUME Init PROVE Allocator!AllocatorInit
    OBVIOUS
  <2>1. Blocks = {} /\ dirty = {}
    BY DEF Init, Blocks, Live, NoBlock
  <2> QED
    BY <2>1 DEF Allocator!AllocatorInit
<1>2. HeapInv /\ HeapInv' /\ [Next]_vars
          => [Allocator!AllocatorNext]_(Allocator!avars)
  <2> SUFFICES ASSUME HeapInv, HeapInv', [Next]_vars
               PROVE  [Allocator!AllocatorNext]_(Allocator!avars)
    OBVIOUS
  <2> USE DEF Allocator!AllocatorNext
  <2>1. ASSUME NEW n \in Sizes, uCalloc(n)
        PROVE  [Allocator!AllocatorNext]_(Allocator!avars)
    BY <2>1, CallocAllocates
  <2>2. \A e \in Blocks :
            Seen(entries[e]) \in {[ptr  |-> entries[f].ptrMemory,
                                   size |-> entries[f].memorySize] : f \in Blocks}
    BY DEF Seen
  <2>3. ASSUME NEW e \in Blocks, uCFree(e)
        PROVE  Allocator!AllocatorNext
    <3>1. Allocator!Release(Seen(entries[e]))
      BY <2>3, FreeReleases
    <3> QED
      BY <2>2, <3>1 DEF Allocator!Release
  <2>4. ASSUME NEW e \in Blocks, WriteBlock(e)
        PROVE  Allocator!AllocatorNext
    <3>1. Allocator!Write(Seen(entries[e]))
      BY <2>4, WriteWrites
    <3> QED
      BY <2>2, <3>1
  <2>5. CASE UNCHANGED vars
    BY <2>5 DEF vars, Allocator!avars, Blocks, Holes, Live
  <2> QED
    BY <2>1, <2>3, <2>4, <2>5 DEF Next
<1>3. Spec => []HeapInv
  BY HeapInvariant
<1> QED
  BY <1>1, <1>2, <1>3, PTL DEF Spec, ImplementsAllocator, Allocator!AllocatorSpec

-----------------------------------------------------------------------------
(*                            The statistics                               *)

(* The words of some entries.                                              *)
Room(S) == UNION {Words(entries[e]) : e \in S}

(* The holes need not be measured: blocks and holes fill all below the top.*)
Counted ==
    /\ ulMemoryAllocated = Cardinality(Room(Blocks))
    /\ ulAccumulatedHoleSize = ptrSecurityHeapTop - 1 - ulMemoryAllocated
    /\ ulHoleCount = Cardinality(Holes)
    /\ Live \subseteq 1..ulMaxUsedManagementBlocks
    /\ ulMaxUsedManagementBlocks \in 0..HEAP_OBJECTS

CountInv == HeapInv /\ Counted

-----------------------------------------------------------------------------
(*                              Sizes of sets                              *)

LEMMA HolesFinite ==
    /\ IsFiniteSet(Holes) /\ IsFiniteSet(Live)
    /\ Cardinality(Holes) \in Nat /\ Cardinality(Live) \in Nat
    /\ Cardinality(Holes) <= HEAP_OBJECTS
<1>1. IsFiniteSet(Entries) /\ Cardinality(Entries) = HEAP_OBJECTS
  <2>1. /\ IsFiniteSet(1..HEAP_OBJECTS)
        /\ Cardinality(1..HEAP_OBJECTS) =
              IF 1 > HEAP_OBJECTS THEN 0 ELSE HEAP_OBJECTS - 1 + 1
    BY Constants, FS_Interval
  <2> QED
    BY <2>1, Constants DEF Entries
<1>2. Live \in SUBSET Entries /\ Holes \in SUBSET Entries
  BY DEF Live, Holes
<1> QED
  BY <1>1, <1>2, FS_Subset, FS_CardinalityType

LEMMA WordsCounted ==
    ASSUME HeapInv, NEW e \in Live
    PROVE  /\ IsFiniteSet(Words(entries[e]))
           /\ Cardinality(Words(entries[e])) = entries[e].memorySize
<1>1. /\ entries[e].ptrMemory \in Nat /\ entries[e].memorySize \in Nat
      /\ entries[e].memorySize >= 1
      /\ Above(entries[e]) = entries[e].ptrMemory + entries[e].memorySize
  BY LiveChunk DEF HeapInv
<1> DEFINE first == entries[e].ptrMemory
           last  == Above(entries[e]) - 1
<1>2. first \in Int /\ last \in Int /\ ~(first > last)
      /\ last - first + 1 = entries[e].memorySize
  BY <1>1
<1> HIDE DEF first, last
<1>3. /\ IsFiniteSet(first..last)
      /\ Cardinality(first..last) = IF first > last THEN 0 ELSE last - first + 1
  BY <1>2, FS_Interval
<1>4. Words(entries[e]) = first..last
  BY DEF Words, first, last
<1> QED
  BY <1>2, <1>3, <1>4

LEMMA WordsCountedNext ==
    HeapInv' => (\A e \in Live :
                   /\ IsFiniteSet(Words(entries[e]))
                   /\ Cardinality(Words(entries[e])) = entries[e].memorySize)'
<1>1. HeapInv => \A e \in Live :
                   /\ IsFiniteSet(Words(entries[e]))
                   /\ Cardinality(Words(entries[e])) = entries[e].memorySize
  BY WordsCounted
<1> QED
  BY <1>1, PTL

LEMMA RoomFinite ==
    ASSUME HeapInv, NEW S \in SUBSET Live
    PROVE  /\ Room(S) \subseteq 1..ptrSecurityHeapTop-1
           /\ IsFiniteSet(Room(S))
           /\ Cardinality(Room(S)) \in Nat
           /\ Cardinality(Room(S)) <= ptrSecurityHeapTop - 1
<1>1. BlocksDisjoint
  BY LayoutDisjoint DEF HeapInv
<1>2. Room(S) \in SUBSET (1..ptrSecurityHeapTop-1)
  BY <1>1, Constants DEF BlocksDisjoint, Room
<1>3. ptrSecurityHeapTop \in Nat /\ ptrSecurityHeapTop >= 1
  BY Constants DEF HeapInv, TableOK
<1>4. /\ IsFiniteSet(1..ptrSecurityHeapTop-1)
      /\ Cardinality(1..ptrSecurityHeapTop-1) = ptrSecurityHeapTop - 1
  <2> DEFINE last == ptrSecurityHeapTop - 1
  <2>1. last \in Nat
    BY <1>3
  <2> HIDE DEF last
  <2>2. /\ IsFiniteSet(1..last)
        /\ Cardinality(1..last) = IF 1 > last THEN 0 ELSE last - 1 + 1
    BY <2>1, FS_Interval
  <2>3. IsFiniteSet(1..last) /\ Cardinality(1..last) = last
    BY <2>1, <2>2
  <2> QED
    BY <2>3 DEF last
<1>5. IsFiniteSet(Room(S)) /\ Cardinality(Room(S)) <= ptrSecurityHeapTop - 1
  BY <1>2, <1>4, FS_Subset
<1> QED
  BY <1>2, <1>5, FS_CardinalityType

(* Blocks and holes fill the heap.                                         *)
LEMMA HolesFillUp ==
    ASSUME HeapInv
    PROVE  Cardinality(Room(Holes)) =
              ptrSecurityHeapTop - 1 - Cardinality(Room(Blocks))
<1>1. Blocks \in SUBSET Live /\ Holes \in SUBSET Live /\ Live = Blocks \cup Holes
      /\ Blocks \cap Holes = {}
  BY DEF Blocks, Holes
<1>2. BlocksDisjoint /\ NothingLost /\ HeapStart = 1
  BY LayoutDisjoint, Constants DEF HeapInv
<1>3. Room(Blocks) \cup Room(Holes) = 1..ptrSecurityHeapTop-1
  BY <1>1, <1>2 DEF BlocksDisjoint, NothingLost, Room
<1>4. Room(Blocks) \cap Room(Holes) = {}
  BY <1>1, <1>2 DEF BlocksDisjoint, Room
<1>5. /\ IsFiniteSet(Room(Blocks)) /\ IsFiniteSet(Room(Holes))
      /\ Cardinality(Room(Blocks)) \in Nat /\ Cardinality(Room(Holes)) \in Nat
  BY <1>1, RoomFinite
<1>6. Cardinality(Room(Blocks) \cup Room(Holes)) =
         Cardinality(Room(Blocks)) + Cardinality(Room(Holes))
            - Cardinality(Room(Blocks) \cap Room(Holes))
  BY <1>5, FS_Union
<1>7. Cardinality(Room(Blocks) \cap Room(Holes)) = 0
  BY <1>4, FS_EmptySet
<1>8. Cardinality(1..ptrSecurityHeapTop-1) = ptrSecurityHeapTop - 1
      /\ ptrSecurityHeapTop \in Nat
  <2>1. ptrSecurityHeapTop \in Nat /\ ptrSecurityHeapTop >= 1
    BY Constants DEF HeapInv, TableOK
  <2> DEFINE last == ptrSecurityHeapTop - 1
  <2>2. last \in Nat
    BY <2>1
  <2> HIDE DEF last
  <2>3. Cardinality(1..last) = IF 1 > last THEN 0 ELSE last - 1 + 1
    BY <2>2, FS_Interval
  <2>4. Cardinality(1..last) = last
    BY <2>2, <2>3
  <2> QED
    BY <2>1, <2>4 DEF last
<1>9. Cardinality(Room(Blocks) \cup Room(Holes)) = ptrSecurityHeapTop - 1
  BY <1>3, <1>8
<1> QED
  BY <1>5, <1>6, <1>7, <1>8, <1>9

-----------------------------------------------------------------------------
(*                                 uCalloc                                 *)

LEMMA BlockAdded ==
    ASSUME HeapInv, HeapInv', NEW n \in Sizes, NEW x, MakesBlock(x, n)
    PROVE  Cardinality(Room(Blocks))' = Cardinality(Room(Blocks)) + n
<1> USE DEF MakesBlock
<1>1. /\ x \in Live' /\ Blocks' \subseteq Live' /\ Blocks \in SUBSET Live
      /\ \A b \in Blocks : b \in Live' /\ b # x
  BY DEF Blocks
<1>2. BlocksDisjoint'
  BY DisjointNext
<1>3. \A b \in Blocks : Words(entries'[b]) = Words(entries[b])
  <2> SUFFICES ASSUME NEW b \in Blocks PROVE Words(entries'[b]) = Words(entries[b])
    OBVIOUS
  <2>1. /\ entries'[b].ptrMemory = entries[b].ptrMemory
        /\ entries'[b].memorySize = entries[b].memorySize
    BY DEF Seen
  <2> QED
    BY <2>1 DEF Words, Above
<1>4. Room(Blocks)' = Room(Blocks) \cup Words(entries'[x])
  BY <1>3 DEF Room
<1>5. Room(Blocks) \cap Words(entries'[x]) = {}
  BY <1>1, <1>2, <1>3 DEF BlocksDisjoint, Room
<1>6. /\ IsFiniteSet(Words(entries'[x]))
      /\ Cardinality(Words(entries'[x])) = n
  BY <1>1, WordsCountedNext
<1>7. IsFiniteSet(Room(Blocks)) /\ Cardinality(Room(Blocks)) \in Nat
  BY <1>1, RoomFinite
<1>8. Cardinality(Room(Blocks) \cup Words(entries'[x])) =
        Cardinality(Room(Blocks)) + Cardinality(Words(entries'[x]))
          - Cardinality(Room(Blocks) \cap Words(entries'[x]))
  BY <1>6, <1>7, FS_Union
<1>9. Cardinality(Room(Blocks) \cap Words(entries'[x])) = 0
  BY <1>5, FS_EmptySet
<1>10. n \in Nat
  BY Constants
<1>11. Cardinality(Room(Blocks))' = Cardinality(Room(Blocks) \cup Words(entries'[x]))
  BY <1>4
<1> QED
  BY <1>6, <1>7, <1>8, <1>9, <1>10, <1>11

(* The first unused entry is counted, used or not.                         *)
LEMMA PeakCounts ==
    ASSUME Counted, NEW e \in Entries, PeakUse(e), Live' \subseteq Live \cup {e}
    PROVE  /\ Live' \subseteq 1..ulMaxUsedManagementBlocks'
           /\ ulMaxUsedManagementBlocks' \in 0..HEAP_OBJECTS
  BY Constants DEF Counted, PeakUse, Entries

LEMMA CallocCounts ==
    ASSUME CountInv, HeapInv', NEW n \in Sizes, uCalloc(n)
    PROVE  Counted'
<1> USE DEF CountInv
<1>1. /\ ulMemoryAllocated \in Nat /\ n \in Nat /\ ptrSecurityHeapTop \in Nat
      /\ IsFiniteSet(Holes) /\ Cardinality(Holes) \in Nat
  <2>1. Blocks \in SUBSET Live
    BY DEF Blocks
  <2> QED
    BY <2>1, RoomFinite, HolesFinite, Constants DEF Counted, HeapInv, TableOK
<1>2. ASSUME NEW e \in Entries, IsFirst(e, Unused), ReuseHole(e, n)
      PROVE  Counted'
  <2>1. PICK h \in Holes : /\ MakesBlock(h, n)
                           /\ Live' = Live /\ Holes' = Holes \ {h}
    BY <1>2, ReuseMakesBlock
  <2>2. Cardinality(Room(Blocks))' = Cardinality(Room(Blocks)) + n
    BY <2>1, BlockAdded
  <2>3. Cardinality(Holes') = Cardinality(Holes) - 1
    BY <1>1, <2>1, FS_RemoveElement
  <2>4. /\ ulMemoryAllocated' = ulMemoryAllocated + n
        /\ ulHoleCount' = ulHoleCount - 1
        /\ ulAccumulatedHoleSize' = ulAccumulatedHoleSize - n
        /\ ptrSecurityHeapTop' = ptrSecurityHeapTop
        /\ PeakUse(e)
    BY <1>2 DEF ReuseHole, Allocated
  <2>5. /\ Live' \subseteq 1..ulMaxUsedManagementBlocks'
        /\ ulMaxUsedManagementBlocks' \in 0..HEAP_OBJECTS
    BY <2>1, <2>4, PeakCounts
  <2>6. ulAccumulatedHoleSize' = ptrSecurityHeapTop' - 1 - ulMemoryAllocated'
    BY <1>1, <2>4 DEF Counted
  <2> QED
    BY <2>2, <2>3, <2>4, <2>5, <2>6 DEF Counted
<1>3. ASSUME NEW e \in Entries, IsFirst(e, Unused), SplitHole(e, n) \/ Grow(e, n)
      PROVE  Counted'
  <2>1. MakesBlock(e, n) /\ Live' = Live \cup {e} /\ Holes' = Holes
    BY <1>3, SplitMakesBlock, GrowMakesBlock DEF IsFirst
  <2>2. Cardinality(Room(Blocks))' = Cardinality(Room(Blocks)) + n
    BY <2>1, BlockAdded
  <2>3. /\ ulMemoryAllocated' = ulMemoryAllocated + n
        /\ ulHoleCount' = ulHoleCount
        /\ PeakUse(e)
    BY <1>3 DEF SplitHole, Grow, Allocated
  <2>4. \/ /\ ulAccumulatedHoleSize' = ulAccumulatedHoleSize - n
           /\ ptrSecurityHeapTop' = ptrSecurityHeapTop
        \/ /\ ulAccumulatedHoleSize' = ulAccumulatedHoleSize
           /\ ptrSecurityHeapTop' = ptrSecurityHeapTop + n
    BY <1>3 DEF SplitHole, Grow
  <2>5. /\ Live' \subseteq 1..ulMaxUsedManagementBlocks'
        /\ ulMaxUsedManagementBlocks' \in 0..HEAP_OBJECTS
    BY <2>1, <2>3, PeakCounts
  <2>6. ulAccumulatedHoleSize' = ptrSecurityHeapTop' - 1 - ulMemoryAllocated'
    BY <1>1, <2>3, <2>4 DEF Counted
  <2> QED
    BY <2>1, <2>2, <2>3, <2>5, <2>6 DEF Counted
<1>4. ASSUME UNCHANGED <<entries, ptrSecurityHeapTop, ulMemoryAllocated,
                         ulHoleCount, ulAccumulatedHoleSize>>
      PROVE  /\ Live' = Live /\ Holes' = Holes /\ Blocks' = Blocks
             /\ Room(Blocks)' = Room(Blocks)
  BY <1>4 DEF Live, Holes, Blocks, Room
<1>5. ASSUME NEW e \in Entries, IsFirst(e, Unused), Exhausted(e, n)
      PROVE  Counted'
  <2>1. /\ UNCHANGED <<entries, ptrSecurityHeapTop, ulMemoryAllocated,
                       ulHoleCount, ulAccumulatedHoleSize>>
        /\ PeakUse(e)
    BY <1>5 DEF Exhausted
  <2>2. /\ Live' \subseteq 1..ulMaxUsedManagementBlocks'
        /\ ulMaxUsedManagementBlocks' \in 0..HEAP_OBJECTS
    BY <1>4, <2>1, PeakCounts
  <2> QED
    BY <1>4, <2>1, <2>2 DEF Counted
<1>6. CASE NoObjects
  BY <1>4, <1>6 DEF NoObjects, vars, statistics, Counted
<1> QED
  BY <1>2, <1>3, <1>5, <1>6 DEF uCalloc

-----------------------------------------------------------------------------
(*                                  uCFree                                 *)

LEMMA BlockGone ==
    ASSUME HeapInv, NEW e \in Blocks, Blocks' = Blocks \ {e},
           \A x \in Blocks \ {e} : entries'[x] = entries[x]
    PROVE  Cardinality(Room(Blocks))' =
              Cardinality(Room(Blocks)) - entries[e].memorySize
<1>1. Blocks \in SUBSET Live /\ e \in Live
  BY DEF Blocks
<1>2. BlocksDisjoint
  BY LayoutDisjoint DEF HeapInv
<1>3. Room(Blocks)' = Room(Blocks) \ Words(entries[e])
  BY <1>1, <1>2 DEF BlocksDisjoint, Room
<1>4. Room(Blocks) \cap Words(entries[e]) = Words(entries[e])
  BY DEF Room
<1>5. IsFiniteSet(Room(Blocks))
  BY <1>1, RoomFinite
<1>6. Cardinality(Room(Blocks) \ Words(entries[e])) =
        Cardinality(Room(Blocks)) - Cardinality(Room(Blocks) \cap Words(entries[e]))
  BY <1>5, FS_Difference
<1>7. Cardinality(Words(entries[e])) = entries[e].memorySize
  BY <1>1, WordsCounted
<1> QED
  BY <1>3, <1>4, <1>6, <1>7

(* One hole more, but one less for each that is merged with it, and one    *)
(* less if it becomes free space at the top.                               *)
LEMMA HolesCounted ==
    ASSUME HeapInv, NEW e \in Blocks, uCFree(e)
    PROVE  Cardinality(Holes') =
              Cardinality(Holes) + 1 - Cardinality(Before(e)) - Cardinality(After(e))
                - (IF To(e) = ptrSecurityHeapTop THEN 1 ELSE 0)
<1> DEFINE onTop == To(e) = ptrSecurityHeapTop
           others == Holes \ (Before(e) \cup After(e))
<1>1. /\ ~onTop => Holes' = (Holes \ Merged(e)) \cup {Kept(e)}
      /\ onTop => Holes' = Holes \ Merged(e)
      /\ Kept(e) \in Merged(e)
  BY TableFreed, HoleMade
<1>2. Holes \ Merged(e) = others
  BY DEF Merged, Blocks
<1>3. Before(e) \subseteq Holes /\ After(e) \subseteq Holes
  BY DEF Before, After
<1>4. Before(e) \cap After(e) = {}
  <2> SUFFICES ASSUME NEW h \in Before(e), h \in After(e) PROVE FALSE
    OBVIOUS
  <2>1. /\ h \in Live /\ e \in Live
        /\ Above(entries[h]) = entries[e].ptrMemory
        /\ entries[h].ptrMemory = Above(entries[e])
    BY DEF Before, After, Holes, Blocks
  <2> QED
    BY <2>1, LiveChunk DEF HeapInv
<1>5. /\ IsFiniteSet(Holes) /\ Cardinality(Holes) \in Nat
      /\ IsFiniteSet(Before(e)) /\ Cardinality(Before(e)) \in Nat
      /\ IsFiniteSet(After(e)) /\ Cardinality(After(e)) \in Nat
  BY <1>3, HolesFinite, FS_Subset, FS_CardinalityType
<1>6. IsFiniteSet(Holes \ Before(e)) /\
      Cardinality(Holes \ Before(e)) = Cardinality(Holes) - Cardinality(Before(e))
  <2>1. Holes \cap Before(e) = Before(e)
    BY <1>3
  <2> QED
    BY <1>5, <2>1, FS_Difference
<1>7. /\ IsFiniteSet(others)
      /\ Cardinality(others) =
            Cardinality(Holes) - Cardinality(Before(e)) - Cardinality(After(e))
  <2>1. (Holes \ Before(e)) \cap After(e) = After(e)
    BY <1>3, <1>4
  <2>2. others = (Holes \ Before(e)) \ After(e)
    OBVIOUS
  <2>3. /\ IsFiniteSet((Holes \ Before(e)) \ After(e))
        /\ Cardinality((Holes \ Before(e)) \ After(e)) =
             Cardinality(Holes \ Before(e)) - Cardinality((Holes \ Before(e)) \cap After(e))
    BY <1>6, FS_Difference
  <2> QED
    BY <1>6, <2>1, <2>2, <2>3
<1> HIDE DEF others
<1>8. CASE onTop
  <2>1. Holes' = others
    BY <1>1, <1>2, <1>8
  <2> QED
    BY <1>5, <1>7, <1>8, <2>1
<1>9. CASE ~onTop
  <2>1. Holes' = others \cup {Kept(e)} /\ Kept(e) \notin others
    BY <1>1, <1>2, <1>9
  <2>2. Cardinality(others \cup {Kept(e)}) = Cardinality(others) + 1
    BY <1>7, <2>1, FS_AddElement
  <2> QED
    BY <1>5, <1>7, <1>9, <2>1, <2>2
<1> QED
  BY <1>8, <1>9

LEMMA FreeCounts ==
    ASSUME CountInv, NEW e \in Blocks, uCFree(e)
    PROVE  Counted'
<1> USE DEF CountInv
<1>1. /\ \A x \in Live \ Merged(e) : entries'[x] = entries[x]
      /\ Blocks' = Blocks \ {e}
      /\ Live' \subseteq Live
  <2>1. Merged(e) \subseteq Live /\ Kept(e) \in Live
    BY HoleMade
  <2> QED
    BY <2>1, TableFreed
<1>2. \A x \in Blocks \ {e} : entries'[x] = entries[x]
  BY <1>1, HoleMade DEF Blocks
<1>3. Cardinality(Room(Blocks))' =
         Cardinality(Room(Blocks)) - entries[e].memorySize
  BY <1>1, <1>2, BlockGone
<1>4. ulMemoryAllocated' = ulMemoryAllocated - entries[e].memorySize
  BY DEF uCFree
<1>5. ulHoleCount' = Cardinality(Holes')
  BY HolesCounted DEF uCFree, HolesLeft, Counted
<1>6. Live' \subseteq 1..ulMaxUsedManagementBlocks'
      /\ ulMaxUsedManagementBlocks' \in 0..HEAP_OBJECTS
  BY <1>1 DEF uCFree, Counted
<1>7. ulAccumulatedHoleSize' = ptrSecurityHeapTop' - 1 - ulMemoryAllocated'
  <2>1. /\ ulAccumulatedHoleSize' = ulAccumulatedHoleSize + entries[e].memorySize
              - (IF To(e) = ptrSecurityHeapTop THEN To(e) - From(e) ELSE 0)
        /\ ptrSecurityHeapTop' =
              IF To(e) = ptrSecurityHeapTop THEN From(e) ELSE ptrSecurityHeapTop
    BY DEF uCFree
  <2>2. /\ From(e) \in Nat /\ To(e) \in Nat /\ ptrSecurityHeapTop \in Nat
        /\ entries[e].memorySize \in Nat
    <3>1. From(e) \in Nat /\ To(e) \in Nat
      BY HoleMade
    <3>2. e \in Live /\ TableOK /\ Layout
      BY DEF Blocks, HeapInv
    <3> QED
      BY <3>1, <3>2, LiveChunk, Constants DEF TableOK
  <2>3. ulMemoryAllocated \in Nat
    <3>1. Blocks \in SUBSET Live
      BY DEF Blocks
    <3> QED
      BY <3>1, RoomFinite DEF Counted
  <2> QED
    BY <1>4, <2>1, <2>2, <2>3 DEF Counted
<1> QED
  BY <1>3, <1>4, <1>5, <1>6, <1>7 DEF Counted

-----------------------------------------------------------------------------
(*                               The theorems                              *)

LEMMA CountInit == Init => CountInv
<1> SUFFICES ASSUME Init PROVE CountInv
  OBVIOUS
<1>1. HeapInv
  BY InitInv
<1>2. Live = {} /\ Holes = {} /\ Blocks = {}
  BY DEF Init, Live, Holes, Blocks, NoBlock
<1>3. Room(Blocks) = {} /\ Cardinality({}) = 0
  BY <1>2, FS_EmptySet DEF Room
<1>4. /\ ulMemoryAllocated = 0 /\ ulHoleCount = 0 /\ ulAccumulatedHoleSize = 0
      /\ ulMaxUsedManagementBlocks = 0 /\ ptrSecurityHeapTop = 1
  BY Constants DEF Init
<1>5. ulMemoryAllocated = Cardinality(Room(Blocks)) /\ ulHoleCount = Cardinality(Holes)
  BY <1>2, <1>3, <1>4
<1>6. /\ ulAccumulatedHoleSize = ptrSecurityHeapTop - 1 - ulMemoryAllocated
      /\ ulMaxUsedManagementBlocks \in 0..HEAP_OBJECTS
  BY <1>4, Constants
<1> QED
  BY <1>1, <1>2, <1>5, <1>6 DEF CountInv, Counted

LEMMA CountStep == NoEmptyRequest /\ CountInv /\ [Next]_vars => CountInv'
<1> SUFFICES ASSUME NoEmptyRequest, CountInv, [Next]_vars
             PROVE  CountInv'
  OBVIOUS
<1>1. HeapInv'
  BY StepKeepsInv DEF CountInv
<1>2. ASSUME NEW n \in Sizes, uCalloc(n) PROVE Counted'
  BY <1>1, <1>2, CallocCounts
<1>3. ASSUME NEW e \in Blocks, uCFree(e) PROVE Counted'
  BY <1>3, FreeCounts
<1>4. ASSUME UNCHANGED <<entries, ptrSecurityHeapTop, statistics>> PROVE Counted'
  <2>1. /\ Live' = Live /\ Holes' = Holes /\ Blocks' = Blocks
        /\ Room(Blocks)' = Room(Blocks)
    BY <1>4 DEF Live, Holes, Blocks, Room
  <2> QED
    BY <1>4, <2>1 DEF CountInv, Counted, statistics
<1>5. ASSUME NEW e \in Blocks, WriteBlock(e) PROVE Counted'
  BY <1>4, <1>5 DEF WriteBlock, statistics
<1>6. ASSUME UNCHANGED vars PROVE Counted'
  BY <1>4, <1>6 DEF vars, statistics
<1>7. Counted'
  BY <1>2, <1>3, <1>5, <1>6 DEF Next
<1> QED
  BY <1>1, <1>7 DEF CountInv

LEMMA CountInvariant == NoEmptyRequest => (Spec => []CountInv)
<1> SUFFICES ASSUME NoEmptyRequest PROVE Spec => []CountInv
  OBVIOUS
<1>1. Init => CountInv
  BY CountInit
<1>2. CountInv /\ [Next]_vars => CountInv'
  BY CountStep
<1> QED
  BY <1>1, <1>2, PTL DEF Spec

(* What the heap says of itself is true: the words it has given away, the  *)
(* number of holes, on which the search for one relies, and their size.    *)
THEOREM CountsExact == NoEmptyRequest => (Spec => []StatisticsExact)
<1>1. CountInv => StatisticsExact
  <2> SUFFICES ASSUME CountInv PROVE StatisticsExact
    OBVIOUS
  <2>1. ulAccumulatedHoleSize = Cardinality(Room(Holes))
    BY HolesFillUp DEF CountInv, Counted
  <2>2. Cardinality(Live) <= ulMaxUsedManagementBlocks
    <3> DEFINE max == ulMaxUsedManagementBlocks
    <3>1. max \in Nat /\ Live \in SUBSET (1..max)
      BY Constants DEF CountInv, Counted
    <3> HIDE DEF max
    <3>2. /\ IsFiniteSet(1..max)
          /\ Cardinality(1..max) = IF 1 > max THEN 0 ELSE max - 1 + 1
      BY <3>1, FS_Interval
    <3>3. Cardinality(1..max) = max
      BY <3>1, <3>2
    <3>4. Cardinality(Live) <= max
      BY <3>1, <3>2, <3>3, FS_Subset
    <3> QED
      BY <3>4 DEF max
  <2> QED
    BY <2>1, <2>2 DEF CountInv, Counted, StatisticsExact, Room
<1> QED
  BY <1>1, CountInvariant, PTL

(* The types hold: no counter leaves its range.                            *)
THEOREM TypesHold == NoEmptyRequest => (Spec => []TypeOK)
<1>1. CountInv => TypeOK
  <2> SUFFICES ASSUME CountInv PROVE TypeOK
    OBVIOUS
  <2>1. Blocks \in SUBSET Live
    BY DEF Blocks
  <2>2. TableOK /\ ptrSecurityHeapTop \in 1..HeapSize+1 /\ HeapSize \in Nat
    BY Constants DEF CountInv, HeapInv, TableOK
  <2>3. /\ ulMemoryAllocated \in Nat
        /\ ulMemoryAllocated <= ptrSecurityHeapTop - 1
    BY <2>1, RoomFinite DEF CountInv, Counted
  <2>4. ulMemoryAllocated \in 0..HeapSize /\ ulAccumulatedHoleSize \in 0..HeapSize
    BY <2>2, <2>3 DEF CountInv, Counted
  <2>5. ulHoleCount \in 0..HEAP_OBJECTS
    BY HolesFinite, Constants DEF CountInv, Counted
  <2>6. dirty \subseteq HeapStart..HeapSize
    <3>1. Room(Blocks) \subseteq 1..ptrSecurityHeapTop-1
      BY <2>1, RoomFinite DEF CountInv
    <3>2. dirty \subseteq Room(Blocks)
      BY DEF CountInv, HeapInv, FreeMemoryIsZero, Room
    <3> QED
      BY <2>2, <3>1, <3>2, Constants
  <2> QED
    BY <2>2, <2>4, <2>5, <2>6 DEF CountInv, Counted, TableOK, Chunk, TypeOK
<1> QED
  BY <1>1, CountInvariant, PTL

(* All holes are searched.                                                 *)
LEMMA AllScanned == CountInv => Scanned = Holes
<1> SUFFICES ASSUME CountInv, NEW h \in Holes
             PROVE  Cardinality({g \in Holes : g <= h}) <= ulHoleCount
  BY DEF Scanned
<1>1. {g \in Holes : g <= h} \in SUBSET Holes
  OBVIOUS
<1> QED
  BY <1>1, HolesFinite, FS_Subset DEF CountInv, Counted

(* Nothing that would fit is refused: a request fails only when every run  *)
(* of that many words meets a block.  As holes never touch each other or   *)
(* the free space, a run of free words lies within one of them.            *)
THEOREM RefusalsAreJustified == NoEmptyRequest => (Spec => []RefusedOnlyWithoutRoom)
<1> SUFFICES ASSUME NoEmptyRequest PROVE Spec => []RefusedOnlyWithoutRoom
  OBVIOUS
<1>1. CountInv => RefusedOnlyWithoutRoom
  <2> SUFFICES ASSUME CountInv, NEW n \in Sizes, NoRoom(n),
                      NEW p \in HeapStart..HeapEnd-n,
                      \A e \in Blocks : Words(entries[e]) \cap p..p+n-1 = {}
               PROVE  FALSE
    BY DEF RefusedOnlyWithoutRoom
  <2> USE DEF CountInv
  <2>1. /\ n \in Nat /\ n >= 1 /\ HeapEnd \in Nat /\ ptrSecurityHeapTop \in Nat
        /\ p \in Int /\ p >= 1 /\ p <= HeapEnd - n
        /\ n > HeapEnd - ptrSecurityHeapTop
    BY Constants DEF NoEmptyRequest, HeapInv, TableOK, NoRoom
  <2>2. TableOK /\ Layout /\ NothingLost /\ HolesMerged /\ HeapStart = 1
    BY Constants DEF HeapInv
  <2>3. ASSUME NEW w \in p..p+n-1, w < ptrSecurityHeapTop
        PROVE  \E h \in Holes : w \in Words(entries[h])
    <3>1. w \in HeapStart..ptrSecurityHeapTop-1
      BY <2>1, <2>2, <2>3
    <3>2. PICK h \in Live : w \in Words(entries[h])
      BY <2>2, <3>1 DEF NothingLost
    <3>3. h \notin Blocks
      BY <3>2
    <3> QED
      BY <3>2, <3>3 DEF Blocks
  <2>4. p \in p..p+n-1 /\ p < ptrSecurityHeapTop
    BY <2>1
  <2>5. PICK h \in Holes : p \in Words(entries[h])
    BY <2>3, <2>4
  <2>6. /\ entries[h].ptrMemory <= p /\ p < Above(entries[h])
        /\ entries[h].ptrMemory \in Nat /\ entries[h].memorySize \in Nat
        /\ Above(entries[h]) = entries[h].ptrMemory + entries[h].memorySize
        /\ Above(entries[h]) <= ptrSecurityHeapTop
        /\ Above(entries[h]) # ptrSecurityHeapTop
    BY <2>2, <2>5, LiveChunk DEF Holes, HolesMerged
  <2>7. entries[h].memorySize < n
    <3>1. h \in Scanned /\ h \notin Perfect(n) /\ h \notin Adequate(n)
      BY <2>5, AllScanned DEF NoRoom
    <3>2. ~(entries[h].memorySize = n) /\ ~(entries[h].memorySize > n)
      BY <3>1 DEF Perfect, Adequate
    <3> QED
      BY <2>1, <2>6, <3>2
  <2>8. /\ Above(entries[h]) \in p..p+n-1
        /\ Above(entries[h]) < ptrSecurityHeapTop
    BY <2>1, <2>6, <2>7
  <2>9. PICK g \in Holes : Above(entries[h]) \in Words(entries[g])
    BY <2>3, <2>8
  <2>10. /\ entries[g].ptrMemory <= Above(entries[h])
         /\ Above(entries[h]) < Above(entries[g])
         /\ entries[g].ptrMemory \in Nat
         /\ entries[g].ptrMemory # Above(entries[h])
    BY <2>2, <2>5, <2>9, LiveChunk DEF Holes, HolesMerged
  <2>11. g # h /\ Above(entries[g]) \in Nat
    BY <2>2, <2>6, <2>9, <2>10, LiveChunk DEF Holes
  <2>12. Apart(entries[g], entries[h])
    BY <2>2, <2>5, <2>9, <2>11 DEF Holes, Layout
  <2> QED
    BY <2>6, <2>10, <2>11, <2>12 DEF Apart
<1> QED
  BY <1>1, CountInvariant, PTL

=============================================================================
