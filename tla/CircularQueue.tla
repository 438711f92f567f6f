--------------------------- MODULE CircularQueue ----------------------------
(***************************************************************************)
(* One software queue of uTasker/Driver.c: the circular buffer a QUEQUE    *)
(* controls, written by fnFillBuf and read by fnGetBuf.                    *)
(*                                                                         *)
(* Both copy with interrupts enabled, so a write by an interrupt can start *)
(* and complete inside a read or a write of the main context, and inside a *)
(* write of a lower interrupt: the writes under way form a stack, and only *)
(* the top one makes progress.  The main context reads and writes, but not *)
(* both at once.  Each protected section is one action, as is each copy.   *)
(*                                                                         *)
(* A write stores n equal bytes: enough to see order, loss and tearing.    *)
(***************************************************************************)
EXTENDS Integers, Sequences

CONSTANTS
    Values,       (* the bytes                                             *)
    buf_length,   (* size of the buffer                                    *)
    Sizes,        (* the lengths that are written and read                 *)
    MaxNesting,   (* interrupt levels above the main context               *)
    Bursts        (* interrupts write again inside the copy of one write   *)

ASSUME QueueAssumption ==
    /\ buf_length \in Nat \ {0}
    /\ Sizes \subseteq Nat
    /\ MaxNesting \in Nat
    /\ Bursts \in BOOLEAN

Positions == 0..buf_length-1

VARIABLES
    QUEbuffer,      (* the buffer                                          *)
    put, get,       (* offsets of the next byte to write and to read       *)
    chars,          (* bytes a read may get                                *)
    reserved_chars, (* bytes of the writes under way                       *)
    new_chars,      (* bytes of completed writes inside another one        *)
    writes,         (* the writes under way, innermost last                *)
    read,           (* the read under way                                  *)
    out,            (* the bytes the last read copied to its caller        *)
    unpublished     (* history: bytes reserved since new_chars was reset   *)

counters == <<chars, reserved_chars, new_chars>>
vars == <<QUEbuffer, put, get, counters, writes, read, out, unpublished>>

(* The locals of fnFillBuf: nr_of_bytes after the cut, ptrTo, and whether  *)
(* it has copied.  "from" is history: reserved_chars when the write began. *)
WriteFrames == [val : Values, n : 0..buf_length, ptrTo : Positions,
                from : 0..buf_length, copied : BOOLEAN]

(* The locals of fnGetBuf: nr_of_bytes and ptrGet, and how far it is.      *)
NoRead == [n |-> 0, ptrGet |-> 0, step |-> "idle"]
ReadFrames == [n : 0..buf_length, ptrGet : Positions,
               step : {"idle", "copy", "finish"}]

TypeOK ==
    /\ QUEbuffer \in [Positions -> Values]
    /\ put \in Positions
    /\ get \in Positions
    /\ chars \in 0..buf_length
    /\ reserved_chars \in 0..buf_length
    /\ new_chars \in 0..buf_length
    /\ writes \in Seq(WriteFrames)
    /\ read \in ReadFrames

-----------------------------------------------------------------------------


(* Pointers wrap at buffer_end.                                            *)
Wrap(p) == IF p >= buf_length THEN p - buf_length ELSE p

(* The n bytes of a buffer that start at p.                                *)
Bytes(p, n) == [i \in 1..n |-> QUEbuffer[Wrap(p + i - 1)]]
Region(p, n) == {Wrap(p + i) : i \in 0..n-1}

Innermost == writes[Len(writes)]

Init ==
    /\ QUEbuffer \in [Positions -> Values]
    /\ put = 0
    /\ get = 0
    /\ chars = 0
    /\ reserved_chars = 0
    /\ new_chars = 0
    /\ writes = <<>>
    /\ read = NoRead
    /\ out = <<>>
    /\ unpublished = <<>>

-----------------------------------------------------------------------------
(*                               fnFillBuf                                 *)

(* Faulty: the space reserved by the writes under way is not counted.      *)
AcceptedOverReserved(size) ==
    IF chars + size > buf_length THEN buf_length - chars ELSE size

(* The bytes fnFillBuf accepts of a message of this size.                  *)
Accepted(size) ==
    IF chars + reserved_chars + size > buf_length
    THEN buf_length - chars - reserved_chars ELSE size

(* An interrupt calls fnFillBuf, or the main context if it is not reading. *)
(* The first protected section: cut to the free space and reserve it.      *)
(* What the code does once chars has passed buf_length, where the free     *)
(* space wraps to a large number, is not modelled.                         *)
BeginWrite(v, size) ==
    LET n == Accepted(size)
    IN  /\ Len(writes) < MaxNesting + (IF read.step = "idle" THEN 1 ELSE 0)
        /\ Bursts \/ new_chars = 0
        /\ n >= 0
        /\ writes' = Append(writes, [val |-> v, n |-> n, ptrTo |-> put,
                                     from |-> reserved_chars, copied |-> FALSE])
        /\ reserved_chars' = reserved_chars + n
        /\ put' = Wrap(put + n)
        /\ unpublished' = unpublished \o [i \in 1..n |-> v]
        /\ UNCHANGED <<QUEbuffer, get, chars, new_chars, read, out>>

(* The copy, to one region or to the end and the start of the buffer.      *)
CopyIn ==
    LET w == Innermost
    IN  /\ writes # <<>>
        /\ ~w.copied
        /\ QUEbuffer' = [p \in Positions |->
              IF p \in Region(w.ptrTo, w.n) THEN w.val ELSE QUEbuffer[p]]
        /\ writes' = [writes EXCEPT ![Len(writes)].copied = TRUE]
        /\ UNCHANGED <<put, get, counters, read, out, unpublished>>

(* Faulty: a write that had others inside it is not seen as the outermost  *)
(* one; every write publishes at once.                                     *)
OutermostUndisturbed(w) == reserved_chars = w.n /\ new_chars = 0
OutermostAlways(w) == TRUE

(* The second protected section: the write that finds only its own bytes   *)
(* reserved is the outermost one and makes all of them readable.           *)
Outermost(w) == reserved_chars = w.n

Commit ==
    LET w == Innermost
        outermost == Outermost(w)
    IN  /\ writes # <<>>
        /\ w.copied
        /\ chars' = IF outermost THEN chars + w.n + new_chars ELSE chars
        /\ reserved_chars' = IF outermost THEN 0 ELSE reserved_chars - w.n
        /\ new_chars' = IF outermost THEN 0 ELSE new_chars + w.n
        /\ unpublished' = IF outermost THEN <<>> ELSE unpublished
        /\ writes' = SubSeq(writes, 1, Len(writes) - 1)
        /\ UNCHANGED <<QUEbuffer, put, get, read, out>>

-----------------------------------------------------------------------------
(*                               fnGetBuf                                  *)

(* The get pointer moves before the copy, the count is reduced after it.   *)
BeginRead(size) ==
    LET n == IF size > chars THEN chars ELSE size
    IN  /\ writes = <<>>
        /\ read.step = "idle"
        /\ n # 0
        /\ read' = [n |-> n, ptrGet |-> get, step |-> "copy"]
        /\ get' = Wrap(get + n)
        /\ UNCHANGED <<QUEbuffer, put, counters, writes, out, unpublished>>

CopyOut ==
    /\ writes = <<>>
    /\ read.step = "copy"
    /\ out' = Bytes(read.ptrGet, read.n)
    /\ read' = [read EXCEPT !.step = "finish"]
    /\ UNCHANGED <<QUEbuffer, put, get, counters, writes, unpublished>>

FinishRead ==
    /\ writes = <<>>
    /\ read.step = "finish"
    /\ chars' = chars - read.n
    /\ read' = NoRead
    /\ UNCHANGED <<QUEbuffer, put, get, reserved_chars, new_chars, writes,
                   out, unpublished>>

(* entry_que(CALL_FLUSH): only the pointers and chars are reset.           *)
Flush ==
    /\ writes = <<>>
    /\ read.step = "idle"
    /\ get' = 0
    /\ put' = 0
    /\ chars' = 0
    /\ UNCHANGED <<QUEbuffer, reserved_chars, new_chars, writes, read, out,
                   unpublished>>

Next ==
    \/ \E v \in Values, s \in Sizes : BeginWrite(v, s)
    \/ CopyIn \/ Commit
    \/ \E s \in Sizes : BeginRead(s)
    \/ CopyOut \/ FinishRead
    \/ Flush

Spec == Init /\ [][Next]_vars

-----------------------------------------------------------------------------
(*                               Properties                                *)

(* Driver.c:462, "check that there is space (including any reserved        *)
(* count)": the bytes a queue owes its readers, those of the writes under  *)
(* way and of the ones completed inside them fit into the buffer together. *)
(* A write accepted on a wrong count overwrites bytes not yet read.        *)
BytesFit == chars + reserved_chars + new_chars <= buf_length

(* The counts of nested writes, which complete in an order of their own,   *)
(* always return to zero with the last one: nothing stays reserved, and    *)
(* no byte of a completed write remains unreadable.                        *)
NothingStaysReserved ==
    writes = <<>> => reserved_chars = 0 /\ new_chars = 0

(* The queue is a FIFO of bytes, whatever the nesting: a read takes what   *)
(* it gets at its copy, whose bytes nothing has overwritten since.         *)
Fifo == INSTANCE ByteFifo WITH
    Length  <- buf_length,
    content <- IF read.step = "copy" THEN Bytes(read.ptrGet, chars)
               ELSE Bytes(get, chars - read.n)

ImplementsByteFifo == Fifo!FifoSpec

=============================================================================
