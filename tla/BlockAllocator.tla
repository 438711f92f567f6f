--------------------------- MODULE BlockAllocator ---------------------------
(***************************************************************************)
(* What uCalloc and uCFree of uTasker/uMalloc.c promise, without the table *)
(* of blocks and holes, the top of the heap and the choice of a hole: an   *)
(* allocation returns zeroed words that belong to no other block, until it *)
(* is freed, and one block is freed at a time.  Heap implements it.        *)
(***************************************************************************)
EXTENDS Integers

CONSTANTS
    HeapWords,    (* the addresses of the heap                             *)
    Sizes         (* the sizes, in words, that are asked for               *)

VARIABLES
    blocks,       (* the allocated blocks                                  *)
    dirty         (* the words that are not zero                           *)

avars == <<blocks, dirty>>

WordsOf(b) == b.ptr .. b.ptr + b.size - 1
Free == HeapWords \ UNION {WordsOf(b) : b \in blocks}

AllocatorInit ==
    /\ blocks = {}
    /\ dirty = {}

Allocate(n) ==
    \E p \in HeapWords :
        LET b == [ptr |-> p, size |-> n]
        IN  /\ WordsOf(b) \subseteq Free \ dirty
            /\ blocks' = blocks \cup {b}
            /\ UNCHANGED dirty

Write(b) ==
    /\ dirty' = dirty \cup WordsOf(b)
    /\ UNCHANGED blocks

Release(b) ==
    /\ blocks' = blocks \ {b}
    /\ dirty' = dirty \ WordsOf(b)

AllocatorNext ==
    \/ \E n \in Sizes : Allocate(n)
    \/ \E b \in blocks : Write(b)
    \/ \E b \in blocks : Release(b)

AllocatorSpec == AllocatorInit /\ [][AllocatorNext]_avars

=============================================================================
