------------------------ MODULE CircularQueueProofs ------------------------
(***************************************************************************)
(* What is proved of the software queues for every buffer length, set of   *)
(* message sizes and depth of interrupt nesting: CircularQueue under       *)
(* QueueAssumption.  The counts of nested writes come first, then the room *)
(* they leave, then where each byte is stored, from which it follows that  *)
(* the buffer is a FIFO.                                                   *)
(***************************************************************************)
EXTENDS CircularQueue, SequenceTheorems, TLAPS

-----------------------------------------------------------------------------
(*                    The counts of nested writes                          *)

(* As much of the types as the counts need.  It also holds where the queue *)
(* overflows, and TypeOK does not.                                         *)
Frames == [val : Values, n : Nat, ptrTo : Int, from : Nat, copied : BOOLEAN]
ReadLocals == [n : Int, ptrGet : Int, step : {"idle", "copy", "finish"}]

Numbers ==
    /\ chars \in Int
    /\ put \in Int
    /\ reserved_chars \in Nat
    /\ new_chars \in Nat
    /\ writes \in Seq(Frames)
    /\ read \in ReadLocals
    /\ get \in Int

(* Each write began with reserved_chars at what the writes around it had   *)
(* reserved, and finds it there again when it completes; bytes wait in     *)
(* new_chars only while another write holds a reservation.                 *)
Accounting ==
    /\ \A k \in 2..Len(writes) :
          writes[k].from = writes[k-1].from + writes[k-1].n
    /\ writes # <<>> => writes[1].from = 0
    /\ writes # <<>> => reserved_chars = Innermost.from + Innermost.n
    /\ writes = <<>> => reserved_chars = 0
    /\ reserved_chars = 0 => new_chars = 0

Counts == Numbers /\ Accounting

LEMMA WritesType ==
    ASSUME Numbers
    PROVE  /\ Len(writes) \in Nat
           /\ writes # <<>> <=> Len(writes) > 0
           /\ \A k \in 1..Len(writes) : writes[k] \in Frames
           /\ writes # <<>> => Innermost \in Frames
  BY LenProperties, EmptySeq, ElementOfSeq DEF Numbers, Innermost

LEMMA CountsInit == Init => Counts
  BY EmptySeq DEF Init, NoRead, ReadLocals, Counts, Numbers, Accounting

LEMMA CountsBegin ==
    ASSUME Counts, NEW v \in Values, NEW s \in Sizes, BeginWrite(v, s)
    PROVE  Counts'
  <1> DEFINE n == Accepted(s)
             w == [val |-> v, n |-> n, ptrTo |-> put,
                   from |-> reserved_chars, copied |-> FALSE]
  <1>1. n \in Nat /\ w \in Frames
    <2>1. s \in Nat /\ buf_length \in Nat
      BY QueueAssumption
    <2>2. n \in Int
      BY <2>1 DEF Accepted, Counts, Numbers
    <2>3. n >= 0
      BY DEF BeginWrite
    <2> QED
      BY <2>2, <2>3 DEF Frames, Counts, Numbers
  <1>2. /\ writes' = Append(writes, w)
        /\ reserved_chars' = reserved_chars + n
        /\ put' = Wrap(put + n)
        /\ chars' = chars
        /\ new_chars' = new_chars
        /\ UNCHANGED <<read, get>>
    BY DEF BeginWrite
  <1> HIDE DEF n, w
  <1>3. Numbers /\ Len(writes) \in Nat /\ writes \in Seq(Frames)
    BY WritesType DEF Counts, Numbers
  <1>4. /\ writes' \in Seq(Frames)
        /\ Len(writes') = Len(writes) + 1
        /\ \A k \in 1..Len(writes) : writes'[k] = writes[k]
        /\ writes'[Len(writes) + 1] = w
        /\ writes' # <<>>
    BY <1>1, <1>2, <1>3, AppendProperties
  <1>5. w.from = reserved_chars /\ w.n = n
    BY DEF w
  <1>6. Numbers'
    <2>1. put' \in Int
      BY <1>1, <1>2, <1>3, QueueAssumption DEF Wrap, Numbers
    <2> QED
      BY <2>1, <1>1, <1>2, <1>3, <1>4 DEF Numbers
  <1>7. ASSUME NEW k \in 2..Len(writes')
        PROVE  writes'[k].from = writes'[k-1].from + writes'[k-1].n
    <2>1. CASE k \in 2..Len(writes)
      <3>1. k \in 1..Len(writes) /\ k - 1 \in 1..Len(writes)
        BY <2>1, <1>3
      <3> QED
        BY <2>1, <3>1, <1>4 DEF Counts, Accounting
    <2>2. CASE k = Len(writes) + 1
      <3>1. k - 1 = Len(writes) /\ k - 1 \in 1..Len(writes)
        BY <2>2, <1>3
      <3>2. writes # <<>>
        BY <3>1, <1>3, WritesType
      <3> QED
        BY <2>2, <3>1, <3>2, <1>4, <1>5 DEF Counts, Accounting, Innermost
    <2> QED
      BY <2>1, <2>2, <1>3, <1>4
  <1>8. writes'[1].from = 0
    <2>1. CASE writes = <<>>
      BY <2>1, <1>3, <1>4, <1>5, WritesType DEF Counts, Accounting
    <2>2. CASE writes # <<>>
      <3>1. 1 \in 1..Len(writes)
        BY <2>2, <1>3, WritesType
      <3> QED
        BY <2>2, <3>1, <1>4 DEF Counts, Accounting
    <2> QED
      BY <2>1, <2>2
  <1>9. reserved_chars' = Innermost'.from + Innermost'.n
    BY <1>2, <1>4, <1>5 DEF Innermost
  <1>10. reserved_chars' = 0 => new_chars' = 0
    BY <1>1, <1>2, <1>3 DEF Counts, Accounting, Numbers
  <1> QED
    BY <1>4, <1>6, <1>7, <1>8, <1>9, <1>10 DEF Counts, Accounting

LEMMA CountsCopy ==
    ASSUME Counts, CopyIn
    PROVE  Counts'
  <1> DEFINE e == [Innermost EXCEPT !.copied = TRUE]
  <1>1. /\ Numbers /\ Len(writes) \in Nat /\ writes \in Seq(Frames)
        /\ writes # <<>> /\ Len(writes) \in 1..Len(writes)
        /\ Innermost \in Frames
    BY WritesType DEF Counts, Numbers, CopyIn
  <1>2. writes' = [writes EXCEPT ![Len(writes)] = e]
    BY <1>1 DEF CopyIn, Innermost
  <1>3. e \in Frames /\ e.from = Innermost.from /\ e.n = Innermost.n
    BY <1>1 DEF Frames
  <1> HIDE DEF e
  <1>4. /\ writes' \in Seq(Frames)
        /\ Len(writes') = Len(writes)
        /\ \A k \in 1..Len(writes) :
              writes'[k] = IF k = Len(writes) THEN e ELSE writes[k]
    BY <1>1, <1>2, <1>3, ExceptSeq
  <1>5. \A k \in 1..Len(writes) :
           writes'[k].from = writes[k].from /\ writes'[k].n = writes[k].n
    BY <1>3, <1>4 DEF Innermost
  <1>6. Numbers'
    BY <1>1, <1>4 DEF Numbers, CopyIn, counters
  <1>7. writes' # <<>>
    BY <1>1, <1>4, <1>6, WritesType, LenProperties, EmptySeq
  <1>8. \A k \in 2..Len(writes') :
           writes'[k].from = writes'[k-1].from + writes'[k-1].n
    BY <1>1, <1>4, <1>5 DEF Counts, Accounting
  <1>9. /\ writes'[1].from = 0
        /\ reserved_chars' = Innermost'.from + Innermost'.n
        /\ reserved_chars' = 0 => new_chars' = 0
    BY <1>1, <1>4, <1>5 DEF Counts, Accounting, Innermost, CopyIn, counters
  <1> QED
    BY <1>6, <1>7, <1>8, <1>9 DEF Counts, Accounting

LEMMA CountsCommit ==
    ASSUME Counts, Commit
    PROVE  Counts'
  <1> DEFINE w == Innermost
             m == Len(writes) - 1
  <1>1. /\ Numbers /\ Len(writes) \in Nat /\ writes \in Seq(Frames)
        /\ writes # <<>> /\ m \in Nat
        /\ w \in Frames
    BY WritesType DEF Counts, Numbers, Commit
  <1>2. w.n \in Nat /\ w.from \in Nat /\ reserved_chars = w.from + w.n
    BY <1>1 DEF Frames, Counts, Accounting
  <1>3. /\ writes' = SubSeq(writes, 1, m)
        /\ chars' = IF w.from = 0 THEN chars + w.n + new_chars ELSE chars
        /\ reserved_chars' = w.from
        /\ new_chars' = IF w.from = 0 THEN 0 ELSE new_chars + w.n
        /\ UNCHANGED <<put, read, get>>
    <2>1. Outermost(w) <=> w.from = 0
      BY <1>2 DEF Outermost
    <2>2. reserved_chars - w.n = w.from
      BY <1>2
    <2> HIDE DEF w
    <2> QED
      BY <1>2, <2>1, <2>2 DEF Commit, w
  <1>4. /\ writes' \in Seq(Frames)
        /\ Len(writes') = m
        /\ \A k \in 1..m : writes'[k] = writes[k]
    <2>1. \A k \in 1..m : writes[k] \in Frames
      BY <1>1, WritesType
    <2>2. 1 \in Int /\ m \in Int
      BY <1>1
    <2> HIDE DEF m
    <2>3. /\ SubSeq(writes, 1, m) \in Seq(Frames)
          /\ Len(SubSeq(writes, 1, m)) = IF 1 <= m THEN m - 1 + 1 ELSE 0
          /\ \A k \in 1..m-1+1 : SubSeq(writes, 1, m)[k] = writes[1+k-1]
      BY <2>1, <2>2, SubSeqProperties
    <2> QED
      BY <1>1, <1>3, <2>3
  <1>5. Numbers'
    BY <1>1, <1>2, <1>3, <1>4 DEF Numbers
  <1>6. \A k \in 2..Len(writes') :
           writes'[k].from = writes'[k-1].from + writes'[k-1].n
    <2> TAKE k \in 2..Len(writes')
    <2>1. k \in 1..m /\ k - 1 \in 1..m /\ k \in 2..Len(writes)
      BY <1>1, <1>4
    <2> QED
      BY <2>1, <1>4 DEF Counts, Accounting
  <1>7. writes' # <<>> <=> m > 0
    BY <1>4, LenProperties, EmptySeq
  <1>8. writes' # <<>> => writes'[1].from = 0
    BY <1>1, <1>4, <1>7 DEF Counts, Accounting
  <1>9. writes' # <<>> => reserved_chars' = Innermost'.from + Innermost'.n
    <2> HAVE writes' # <<>>
    <2>1. m \in 1..m /\ Len(writes) \in 2..Len(writes) /\ m = Len(writes) - 1
      BY <1>1, <1>7
    <2>2. w.from = writes[m].from + writes[m].n
      BY <2>1 DEF Counts, Accounting, Innermost
    <2> QED
      BY <2>1, <2>2, <1>3, <1>4 DEF Innermost
  <1>10. writes' = <<>> => reserved_chars' = 0
    <2> HAVE writes' = <<>>
    <2>1. m = 0
      <3>1. m \in Nat /\ ~(m > 0)
        BY <1>1, <1>7
      <3> HIDE DEF m
      <3> QED
        BY <3>1
    <2>2. Len(writes) = 1 /\ w = writes[1]
      BY <2>1, <1>1 DEF Innermost
    <2> QED
      BY <2>2, <1>1, <1>3 DEF Counts, Accounting
  <1>11. reserved_chars' = 0 => new_chars' = 0
    BY <1>2, <1>3
  <1> QED
    BY <1>5, <1>6, <1>8, <1>9, <1>10, <1>11 DEF Counts, Accounting

LEMMA CountsRest ==
    ASSUME Counts,
           \/ \E s \in Sizes : BeginRead(s)
           \/ CopyOut \/ FinishRead \/ Flush
           \/ UNCHANGED vars
    PROVE  Counts'
  <1>1. UNCHANGED <<reserved_chars, new_chars, writes>> /\ put' \in {put, 0}
    BY DEF BeginRead, CopyOut, FinishRead, Flush, counters, vars
  <1>2. /\ chars' \in Int
        /\ get' \in Int
        /\ read' \in ReadLocals
    <2>1. ASSUME NEW s \in Sizes, BeginRead(s)
          PROVE  /\ chars' \in Int
                 /\ get' \in Int
                 /\ read' \in ReadLocals
      BY <2>1, QueueAssumption
      DEF BeginRead, Wrap, ReadLocals, counters, Counts, Numbers
    <2>2. CASE CopyOut \/ FinishRead \/ Flush \/ UNCHANGED vars
      BY <2>2
      DEF CopyOut, FinishRead, Flush, NoRead, counters, vars, Counts, Numbers, ReadLocals
    <2> QED
      BY <2>1, <2>2
  <1> QED
    BY <1>1, <1>2 DEF Counts, Numbers, Accounting, Innermost

LEMMA CountsNext == Counts /\ [Next]_vars => Counts'
  BY CountsBegin, CountsCopy, CountsCommit, CountsRest DEF Next

(* However interrupts nest their writes, and also where they overflow the  *)
(* queue: the counts return to zero with the last write.                   *)
THEOREM ReservationsReturned == Spec => []NothingStaysReserved
  <1>1. Counts => NothingStaysReserved
    BY DEF Counts, Accounting, NothingStaysReserved
  <1> QED
    BY <1>1, CountsInit, CountsNext, PTL DEF Spec

-----------------------------------------------------------------------------
(*                     Types and the room in the buffer                    *)

(* The bytes of the read under way are still counted by chars.             *)
ReadCounted == read.n <= chars /\ (read.step = "idle" => read.n = 0)

Room == TypeOK /\ BytesFit /\ ReadCounted

LEMMA BufferLength == buf_length \in Nat /\ buf_length > 0 /\ Sizes \subseteq Nat
  BY QueueAssumption

(* A pointer moved by no more than the length of the buffer stays inside.  *)
LEMMA WrapType ==
    ASSUME NEW p \in Nat, p < 2 * buf_length
    PROVE  Wrap(p) \in Positions
  BY BufferLength DEF Wrap, Positions

LEMMA BytesType ==
    ASSUME TypeOK, NEW p \in Positions, NEW n \in 0..buf_length
    PROVE  Bytes(p, n) \in [1..n -> Values]
  <1>1. ASSUME NEW i \in 1..n
        PROVE  QUEbuffer[Wrap(p + i - 1)] \in Values
    <2>1. p + i - 1 \in Nat /\ p + i - 1 < 2 * buf_length
      BY BufferLength DEF Positions
    <2>2. Wrap(p + i - 1) \in Positions
      BY <2>1, WrapType
    <2> QED
      BY <2>2 DEF TypeOK
  <1> QED
    BY <1>1 DEF Bytes

LEMMA RoomInit == Init => Room
  <1> SUFFICES ASSUME Init
               PROVE  Room
    OBVIOUS
  <1>1. writes \in Seq(WriteFrames) /\ 0 \in Positions /\ 0 \in 0..buf_length
    BY EmptySeq, BufferLength DEF Init, Positions
  <1>2. read \in ReadFrames
    BY <1>1 DEF Init, NoRead, ReadFrames
  <1> QED
    BY <1>1, <1>2, BufferLength
    DEF Init, Room, TypeOK, BytesFit, ReadCounted, NoRead

LEMMA RoomBegin ==
    ASSUME ~Bursts, Room,
           NEW v \in Values, NEW s \in Sizes, BeginWrite(v, s)
    PROVE  Room'
  <1> DEFINE n == Accepted(s)
             w == [val |-> v, n |-> n, ptrTo |-> put,
                   from |-> reserved_chars, copied |-> FALSE]
  <1>1. /\ chars \in 0..buf_length
        /\ reserved_chars \in 0..buf_length
        /\ put \in Positions
        /\ new_chars = 0
        /\ writes \in Seq(WriteFrames)
    BY DEF Room, TypeOK, BeginWrite
  <1>2. n \in 0..buf_length /\ chars + reserved_chars + n <= buf_length
    BY <1>1, BufferLength DEF BeginWrite, Accepted
  <1>3. w \in WriteFrames
    BY <1>1, <1>2 DEF WriteFrames
  <1>4. /\ writes' = Append(writes, w)
        /\ reserved_chars' = reserved_chars + n
        /\ put' = Wrap(put + n)
        /\ UNCHANGED <<QUEbuffer, get, chars, new_chars, read>>
    BY DEF BeginWrite
  <1> HIDE DEF n, w
  <1>5. writes' \in Seq(WriteFrames)
    BY <1>1, <1>3, <1>4, AppendProperties
  <1>6. put' \in Positions
    <2>1. put + n \in Nat /\ put + n < 2 * buf_length
      BY <1>1, <1>2, BufferLength DEF Positions
    <2> QED
      BY <2>1, <1>4, WrapType
  <1>7. reserved_chars' \in 0..buf_length
    BY <1>1, <1>2, <1>4, BufferLength
  <1>8. TypeOK'
    BY <1>4, <1>5, <1>6, <1>7 DEF Room, TypeOK, Positions
  <1>9. BytesFit'
    BY <1>1, <1>2, <1>4, BufferLength DEF BytesFit
  <1>10. ReadCounted'
    BY <1>4 DEF Room, ReadCounted
  <1> QED
    BY <1>8, <1>9, <1>10 DEF Room

LEMMA RoomCopyIn ==
    ASSUME Room, CopyIn
    PROVE  Room'
  <1> DEFINE e == [Innermost EXCEPT !.copied = TRUE]
  <1>1. /\ UNCHANGED <<put, get, chars, reserved_chars, new_chars, read>>
        /\ writes # <<>>
        /\ writes \in Seq(WriteFrames)
    BY DEF CopyIn, counters, Room, TypeOK
  <1>2. Len(writes) \in 1..Len(writes)
    BY <1>1, LenProperties, EmptySeq
  <1>3. Innermost \in WriteFrames
    BY <1>1, <1>2, ElementOfSeq DEF Innermost
  <1>4. e \in WriteFrames
    BY <1>3 DEF WriteFrames
  <1>5. writes' = [writes EXCEPT ![Len(writes)] = e]
    BY <1>1, <1>2 DEF CopyIn, Innermost
  <1> HIDE DEF e
  <1>6. writes' \in Seq(WriteFrames)
    BY <1>1, <1>2, <1>4, <1>5, ExceptSeq
  <1>7. QUEbuffer' \in [Positions -> Values]
    <2>1. Innermost.val \in Values
      BY <1>3 DEF WriteFrames
    <2> QED
      BY <2>1 DEF CopyIn, Room, TypeOK
  <1> QED
    BY <1>1, <1>6, <1>7 DEF Room, TypeOK, BytesFit, ReadCounted, Positions

LEMMA RoomCommit ==
    ASSUME Counts, Room, Commit
    PROVE  Room'
  <1> DEFINE w == Innermost
             m == Len(writes) - 1
  <1>1. /\ writes # <<>> /\ writes \in Seq(WriteFrames)
        /\ UNCHANGED <<QUEbuffer, put, get, read>>
        /\ writes' = SubSeq(writes, 1, m)
    BY DEF Commit, Room, TypeOK
  <1>2. m \in Nat /\ \A k \in 1..Len(writes) : writes[k] \in WriteFrames
    BY <1>1, LenProperties, EmptySeq, ElementOfSeq
  <1>3. writes' \in Seq(WriteFrames)
    <2>1. \A k \in 1..m : writes[k] \in WriteFrames
      BY <1>2
    <2>2. 1 \in Int /\ m \in Int
      BY <1>2
    <2> HIDE DEF m
    <2> QED
      BY <1>1, <2>1, <2>2, SubSeqProperties
  <1>4. w \in WriteFrames /\ Len(writes) \in 1..Len(writes)
    BY <1>1, <1>2 DEF Innermost
  <1>5. w.n \in 0..buf_length /\ w.from \in Nat
    BY <1>4, BufferLength DEF WriteFrames
  <1>6. reserved_chars = w.from + w.n
    BY <1>1 DEF Counts, Accounting
  <1>7. \/ /\ chars' = chars + w.n + new_chars
           /\ reserved_chars' = 0
           /\ new_chars' = 0
           /\ w.n = reserved_chars
        \/ /\ chars' = chars
           /\ reserved_chars' = reserved_chars - w.n
           /\ new_chars' = new_chars + w.n
    BY DEF Commit, Outermost
  <1> HIDE DEF w
  <1>8. /\ chars' \in 0..buf_length
        /\ reserved_chars' \in 0..buf_length
        /\ new_chars' \in 0..buf_length
        /\ chars' + reserved_chars' + new_chars' <= buf_length
        /\ chars' >= chars
    <2>1. /\ chars \in 0..buf_length /\ reserved_chars \in 0..buf_length
          /\ new_chars \in 0..buf_length
          /\ chars + reserved_chars + new_chars <= buf_length
      BY DEF Room, TypeOK, BytesFit
    <2>2. w.n \in Nat /\ w.n <= reserved_chars
      BY <1>5, <1>6, BufferLength
    <2> QED
      BY <1>7, <2>1, <2>2, BufferLength
  <1>9. TypeOK' /\ BytesFit'
    BY <1>1, <1>3, <1>8 DEF Room, TypeOK, BytesFit, Positions
  <1>10. ReadCounted'
    <2>1. read.n \in 0..buf_length /\ chars \in 0..buf_length
      BY DEF Room, TypeOK, ReadFrames
    <2> QED
      BY <2>1, <1>1, <1>8, BufferLength DEF Room, ReadCounted
  <1> QED
    BY <1>9, <1>10 DEF Room

LEMMA RoomRead ==
    ASSUME Room,
           \/ \E s \in Sizes : BeginRead(s)
           \/ CopyOut \/ FinishRead \/ Flush
           \/ UNCHANGED vars
    PROVE  Room'
  <1>1. /\ chars \in 0..buf_length /\ reserved_chars \in 0..buf_length
        /\ new_chars \in 0..buf_length
        /\ chars + reserved_chars + new_chars <= buf_length
        /\ get \in Positions /\ put \in Positions
        /\ read \in ReadFrames /\ read.n \in 0..buf_length
        /\ read.n <= chars
    BY DEF Room, TypeOK, BytesFit, ReadCounted, ReadFrames
  <1>2. CASE \E s \in Sizes : BeginRead(s)
    <2> PICK s \in Sizes : BeginRead(s)
      BY <1>2
    <2> DEFINE n == IF s > chars THEN chars ELSE s
    <2>1. n \in 0..buf_length /\ n <= chars
      BY <1>1, BufferLength
    <2>2. /\ read' = [n |-> n, ptrGet |-> get, step |-> "copy"]
          /\ get' = Wrap(get + n)
          /\ UNCHANGED <<QUEbuffer, put, chars, reserved_chars, new_chars,
                         writes>>
      BY DEF BeginRead, counters
    <2> HIDE DEF n
    <2>3. get' \in Positions
      <3>1. get + n \in Nat /\ get + n < 2 * buf_length
        BY <1>1, <2>1, BufferLength DEF Positions
      <3> QED
        BY <3>1, <2>2, WrapType
    <2>4. read' \in ReadFrames /\ read'.n = n /\ read'.step = "copy"
      BY <1>1, <2>1, <2>2 DEF ReadFrames
    <2> QED
      BY <2>1, <2>2, <2>3, <2>4
      DEF Room, TypeOK, BytesFit, ReadCounted, Positions
  <1>3. CASE CopyOut
    <2>1. /\ read' \in ReadFrames /\ read'.n = read.n /\ read'.step = "finish"
          /\ UNCHANGED <<QUEbuffer, put, get, chars, reserved_chars, new_chars,
                         writes>>
      BY <1>1, <1>3 DEF CopyOut, counters, ReadFrames
    <2> QED
      BY <2>1 DEF Room, TypeOK, BytesFit, ReadCounted, Positions
  <1>4. CASE FinishRead
    <2>1. /\ read' \in ReadFrames /\ read'.n = 0 /\ read'.step = "idle"
          /\ chars' = chars - read.n
          /\ UNCHANGED <<QUEbuffer, put, get, reserved_chars, new_chars, writes>>
      BY <1>1, <1>4, BufferLength
      DEF FinishRead, NoRead, ReadFrames, Positions
    <2>2. /\ chars' \in 0..buf_length
          /\ chars' + reserved_chars + new_chars <= buf_length
      BY <1>1, <2>1, BufferLength
    <2> QED
      BY <2>1, <2>2 DEF Room, TypeOK, BytesFit, ReadCounted, Positions
  <1>5. CASE Flush
    <2>1. /\ get' = 0 /\ put' = 0 /\ chars' = 0 /\ read.n = 0
          /\ UNCHANGED <<QUEbuffer, reserved_chars, new_chars, writes, read>>
      BY <1>5 DEF Flush, Room, ReadCounted
    <2>2. 0 \in Positions /\ 0 \in 0..buf_length
      BY BufferLength DEF Positions
    <2>3. chars' + reserved_chars' + new_chars' <= buf_length
      BY <1>1, <2>1, BufferLength
    <2> QED
      BY <2>1, <2>2, <2>3 DEF Room, TypeOK, BytesFit, ReadCounted, Positions
  <1>6. CASE UNCHANGED vars
    BY <1>6
    DEF vars, counters, Room, TypeOK, BytesFit, ReadCounted, Positions
  <1> QED
    BY <1>2, <1>3, <1>4, <1>5, <1>6

(* As long as interrupts do not write again inside the copy of one write,  *)
(* the queue never owes more bytes than its buffer holds, at any depth of  *)
(* nesting, and all its counts and pointers stay in range.                 *)
THEOREM RoomKept ==
    ASSUME ~Bursts
    PROVE  Spec => []BytesFit
  <1>1. Counts /\ Room /\ [Next]_vars => Counts' /\ Room'
    BY CountsNext, RoomBegin, RoomCopyIn, RoomCommit, RoomRead DEF Next
  <1>2. Room => BytesFit
    BY DEF Room
  <1> QED
    BY <1>1, <1>2, CountsInit, RoomInit, PTL DEF Spec

(* Under the same condition the state keeps its types.                     *)
THEOREM QueueTypeCorrect ==
    ASSUME ~Bursts
    PROVE  Spec => []TypeOK
  <1>1. Counts /\ Room /\ [Next]_vars => Counts' /\ Room'
    BY CountsNext, RoomBegin, RoomCopyIn, RoomCommit, RoomRead DEF Next
  <1>2. Room => TypeOK
    BY DEF Room
  <1> QED
    BY <1>1, <1>2, CountsInit, RoomInit, PTL DEF Spec

-----------------------------------------------------------------------------
(*                          What the buffer holds                          *)

(* Where the first byte is that a read can get, and how many follow: until *)
(* a read has copied its bytes they are among them.                        *)
First == IF read.step = "copy" THEN read.ptrGet ELSE get
Depth == IF read.step = "copy" THEN chars ELSE chars - read.n

(* Behind the readable bytes lie those that are not published: byte j of   *)
(* the history has its place, and is there once its write has copied.      *)
Place(j) == Wrap(First + Depth + j - 1)
Stored(j) == QUEbuffer[Place(j)] = unpublished[j]
Span(w) == w.from + 1 .. w.from + w.n

ReadPlaced ==
    read.step # "idle" => read.n > 0 /\ get = Wrap(read.ptrGet + read.n)

(* The writes under way lie one behind the other; new_chars counts what    *)
(* lies behind them.  A write of no bytes has no place.                    *)
WritesPlaced ==
    /\ \A j, k \in 1..Len(writes) :
          j < k => writes[j].from + writes[j].n <= writes[k].from
    /\ \A k \in 1..Len(writes) :
          writes[k].n > 0 => writes[k].ptrTo = Wrap(First + Depth + writes[k].from)
    /\ put = Wrap(First + Depth + reserved_chars + new_chars)

HistoryKept ==
    /\ unpublished \in Seq(Values)
    /\ Len(unpublished) = reserved_chars + new_chars
    /\ \A k \in 1..Len(writes) :
          \A j \in Span(writes[k]) : unpublished[j] = writes[k].val

BytesStored ==
    /\ \A k \in 1..Len(writes) :
          writes[k].copied => \A j \in Span(writes[k]) : Stored(j)
    /\ \A j \in reserved_chars + 1 .. reserved_chars + new_chars : Stored(j)

Data == ReadPlaced /\ WritesPlaced /\ HistoryKept /\ BytesStored
QInv == Counts /\ Room /\ Data

(* Numbers less than a buffer's length apart are different places.         *)
LEMMA WrapDistinct ==
    ASSUME NEW p \in Positions, NEW i \in 0..buf_length-1, NEW j \in 0..buf_length-1,
           Wrap(p + i) = Wrap(p + j)
    PROVE  i = j
  BY BufferLength DEF Wrap, Positions

(* Two moves that together stay within the buffer's length are one.        *)
LEMMA WrapShift ==
    ASSUME NEW p \in Positions, NEW a \in Nat, NEW b \in Nat, a + b <= buf_length
    PROVE  Wrap(Wrap(p + a) + b) = Wrap(p + a + b)
  BY BufferLength DEF Wrap, Positions

(* The ranges of all that the steps below compute with.                    *)
LEMMA Ranges ==
    ASSUME QInv
    PROVE  /\ First \in Positions /\ Depth \in Nat
           /\ chars \in Nat /\ Depth <= chars
           /\ reserved_chars \in Nat /\ new_chars \in Nat
           /\ chars + reserved_chars + new_chars <= buf_length
           /\ read.n \in Nat /\ read.ptrGet \in Positions
           /\ read.step \in {"idle", "copy", "finish"}
           /\ get \in Positions
           /\ Len(writes) \in Nat
  <1>1. /\ chars \in Nat /\ reserved_chars \in Nat /\ new_chars \in Nat
        /\ read.n \in Nat /\ read.ptrGet \in Positions /\ get \in Positions
        /\ read.n <= chars
        /\ chars + reserved_chars + new_chars <= buf_length
        /\ read.step \in {"idle", "copy", "finish"}
    BY BufferLength
    DEF QInv, Room, TypeOK, BytesFit, ReadCounted, ReadFrames
  <1>2. First \in Positions /\ Depth \in Nat /\ Depth <= chars
    BY <1>1 DEF First, Depth
  <1>3. Len(writes) \in Nat
    BY WritesType DEF QInv, Counts
  <1> QED
    BY <1>1, <1>2, <1>3

(* The reserved bytes hold every write under way, the innermost last.      *)
LEMMA WritesReserved ==
    ASSUME QInv, NEW k \in 1..Len(writes)
    PROVE  /\ writes[k] \in WriteFrames
           /\ writes[k].from \in Nat /\ writes[k].n \in Nat
           /\ writes[k].val \in Values
           /\ writes[k].from + writes[k].n <= reserved_chars
           /\ k < Len(writes) => writes[k].from + writes[k].n <= Innermost.from
           /\ reserved_chars = Innermost.from + Innermost.n
           /\ Innermost.from \in Nat /\ Innermost.n \in Nat
  <1>1. Len(writes) \in Nat /\ Len(writes) \in 1..Len(writes) /\ writes # <<>>
    BY WritesType DEF QInv, Counts
  <1>2. \A i \in 1..Len(writes) : writes[i] \in WriteFrames
    BY ElementOfSeq DEF QInv, Room, TypeOK
  <1>3. \A i \in 1..Len(writes) : /\ writes[i].from \in Nat /\ writes[i].n \in Nat
                                  /\ writes[i].val \in Values
    BY <1>2, BufferLength DEF WriteFrames
  <1>4. reserved_chars = Innermost.from + Innermost.n
    BY <1>1 DEF QInv, Counts, Accounting
  <1>5. k < Len(writes) => writes[k].from + writes[k].n <= Innermost.from
    BY <1>1 DEF QInv, Data, WritesPlaced, Innermost
  <1>6. writes[k].from + writes[k].n <= reserved_chars
    <2>1. CASE k = Len(writes)
      BY <2>1, <1>1, <1>3, <1>4 DEF Innermost
    <2>2. CASE k < Len(writes)
      BY <2>2, <1>1, <1>3, <1>4, <1>5 DEF Innermost
    <2> QED
      BY <2>1, <2>2, <1>1
  <1> QED
    BY <1>1, <1>2, <1>3, <1>4, <1>5, <1>6 DEF Innermost

LEMMA DataInit == Init => QInv
  <1> SUFFICES ASSUME Init
               PROVE  QInv
    OBVIOUS
  <1>1. Counts /\ Room
    BY CountsInit, RoomInit
  <1>2. /\ First = 0 /\ Depth = 0 /\ put = 0 /\ reserved_chars = 0
        /\ new_chars = 0 /\ read.step = "idle" /\ writes = <<>>
        /\ unpublished = <<>>
    BY DEF Init, NoRead, First, Depth
  <1>3. Len(writes) = 0 /\ unpublished \in Seq(Values) /\ Len(unpublished) = 0
    BY <1>2, EmptySeq
  <1>4. Wrap(0) = 0
    BY BufferLength DEF Wrap
  <1> QED
    BY <1>1, <1>2, <1>3, <1>4
    DEF QInv, Data, ReadPlaced, WritesPlaced, HistoryKept, BytesStored

LEMMA DataBegin ==
    ASSUME ~Bursts, QInv,
           NEW v \in Values, NEW s \in Sizes, BeginWrite(v, s)
    PROVE  Data'
  <1> DEFINE n == Accepted(s)
             w == [val |-> v, n |-> n, ptrTo |-> put,
                   from |-> reserved_chars, copied |-> FALSE]
             new == [i \in 1..n |-> v]
  <1>1. /\ new_chars = 0
        /\ writes' = Append(writes, w)
        /\ reserved_chars' = reserved_chars + n
        /\ put' = Wrap(put + n)
        /\ unpublished' = unpublished \o new
        /\ UNCHANGED <<QUEbuffer, get, chars, new_chars, read>>
    BY DEF BeginWrite
  <1>2. n \in Nat /\ chars + reserved_chars + n <= buf_length
    <2>1. /\ chars \in Nat /\ reserved_chars \in Nat /\ s \in Nat /\ n >= 0
      BY Ranges, BufferLength DEF BeginWrite
    <2> QED
      BY <2>1, BufferLength DEF Accepted
  <1>3. /\ w.val = v /\ w.n = n /\ w.ptrTo = put
        /\ w.from = reserved_chars /\ ~w.copied
    OBVIOUS
  <1>4. /\ unpublished \in Seq(Values) /\ Len(unpublished) = reserved_chars
        /\ put = Wrap(First + Depth + reserved_chars)
    BY <1>1, Ranges DEF QInv, Data, HistoryKept, WritesPlaced, Positions
  <1>5. new \in Seq(Values) /\ Len(new) = n /\ \A i \in 1..n : new[i] = v
    BY <1>2
  <1> HIDE DEF n, w, new
  <1>6. /\ Len(writes) \in Nat
        /\ Len(writes') = Len(writes) + 1
        /\ \A k \in 1..Len(writes) : writes'[k] = writes[k]
        /\ writes'[Len(writes) + 1] = w
    BY <1>1, Ranges, AppendProperties DEF QInv, Room, TypeOK
  <1>7. First' = First /\ Depth' = Depth
    BY <1>1 DEF First, Depth
  <1>8. /\ unpublished' \in Seq(Values)
        /\ Len(unpublished') = reserved_chars + n
        /\ \A j \in 1..reserved_chars : unpublished'[j] = unpublished[j]
        /\ \A j \in reserved_chars+1..reserved_chars+n : unpublished'[j] = v
    <2>1. /\ unpublished' \in Seq(Values)
          /\ Len(unpublished') = Len(unpublished) + Len(new)
          /\ \A j \in 1..Len(unpublished) + Len(new) : unpublished'[j] =
               IF j <= Len(unpublished) THEN unpublished[j]
                                        ELSE new[j - Len(unpublished)]
      BY <1>1, <1>4, <1>5, ConcatProperties
    <2>2. \A j \in 1..reserved_chars : unpublished'[j] = unpublished[j]
      BY <2>1, <1>2, <1>4, <1>5, Ranges
    <2>3. ASSUME NEW j \in reserved_chars+1..reserved_chars+n
          PROVE  unpublished'[j] = v
      <3>1. /\ j \in 1..reserved_chars + n /\ ~(j <= reserved_chars)
            /\ j - reserved_chars \in 1..n
        BY <1>2, Ranges
      <3> QED
        BY <3>1, <2>1, <1>4, <1>5
    <2> QED
      BY <2>1, <2>2, <2>3, <1>4, <1>5
  <1>9. ASSUME NEW k \in 1..Len(writes), NEW j \in Span(writes[k])
        PROVE  j \in 1..reserved_chars
    <2>1. /\ writes[k].from \in Nat /\ writes[k].n \in Nat /\ reserved_chars \in Nat
          /\ writes[k].from + writes[k].n <= reserved_chars
      BY WritesReserved, Ranges
    <2> QED
      BY <1>9, <2>1 DEF Span
  <1>10. ReadPlaced'
    BY <1>1 DEF QInv, Data, ReadPlaced
  <1>11. WritesPlaced'
    <2>1. ASSUME NEW j \in 1..Len(writes'), NEW k \in 1..Len(writes'), j < k
          PROVE  writes'[j].from + writes'[j].n <= writes'[k].from
      <3>1. CASE k \in 1..Len(writes)
        <4>1. j \in 1..Len(writes)
          BY <3>1, <2>1, <1>6
        <4> QED
          BY <3>1, <4>1, <2>1, <1>6 DEF QInv, Data, WritesPlaced
      <3>2. CASE k = Len(writes) + 1
        <4>1. j \in 1..Len(writes)
          BY <3>2, <2>1, <1>6
        <4>2. writes[j].from + writes[j].n <= reserved_chars
          BY <4>1, WritesReserved
        <4> QED
          BY <3>2, <4>1, <4>2, <1>3, <1>6
      <3> QED
        BY <3>1, <3>2, <1>6
    <2>2. ASSUME NEW k \in 1..Len(writes'), writes'[k].n > 0
          PROVE  writes'[k].ptrTo = Wrap(First + Depth + writes'[k].from)
      <3>1. CASE k \in 1..Len(writes)
        BY <3>1, <2>2, <1>6 DEF QInv, Data, WritesPlaced
      <3>2. CASE k = Len(writes) + 1
        BY <3>2, <1>3, <1>4, <1>6
      <3> QED
        BY <3>1, <3>2, <1>6
    <2>3. put' = Wrap(First + Depth + reserved_chars + n)
      <3>1. First \in Positions /\ Depth + reserved_chars \in Nat
            /\ Depth + reserved_chars + n <= buf_length
        <4>1. /\ First \in Positions /\ Depth \in Nat /\ chars \in Nat
              /\ reserved_chars \in Nat /\ Depth <= chars
          BY Ranges
        <4>2. buf_length \in Nat
          BY BufferLength
        <4> QED
          BY <1>2, <4>1, <4>2
      <3>2. First + (Depth + reserved_chars) = First + Depth + reserved_chars
        BY Ranges DEF Positions
      <3> QED
        BY <3>1, <3>2, <1>1, <1>2, <1>4, WrapShift
    <2>4. put' = Wrap(First' + Depth' + reserved_chars' + new_chars')
      <3>1. /\ First' + Depth' + reserved_chars' + new_chars'
               = First + Depth + reserved_chars + n
        BY <1>1, <1>2, <1>7, Ranges DEF Positions
      <3> QED
        BY <3>1, <2>3
    <2> QED
      BY <2>1, <2>2, <2>4, <1>7 DEF WritesPlaced
  <1>12. HistoryKept'
    <2>1. Len(unpublished') = reserved_chars' + new_chars'
      BY <1>1, <1>2, <1>8, Ranges
    <2>2. ASSUME NEW k \in 1..Len(writes'), NEW j \in Span(writes'[k])
          PROVE  unpublished'[j] = writes'[k].val
      <3>1. CASE k \in 1..Len(writes)
        BY <3>1, <2>2, <1>6, <1>8, <1>9 DEF QInv, Data, HistoryKept
      <3>2. CASE k = Len(writes) + 1
        BY <3>2, <2>2, <1>3, <1>6, <1>8 DEF Span
      <3> QED
        BY <3>1, <3>2, <1>6
    <2> QED
      BY <2>1, <2>2, <1>8 DEF HistoryKept
  <1>13. BytesStored'
    <2>1. ASSUME NEW j \in 1..reserved_chars, Stored(j)
          PROVE  Stored(j)'
      BY <2>1, <1>1, <1>7, <1>8 DEF Stored, Place
    <2>2. ASSUME NEW k \in 1..Len(writes'), writes'[k].copied,
                 NEW j \in Span(writes'[k])
          PROVE  Stored(j)'
      <3>1. k \in 1..Len(writes) /\ writes'[k] = writes[k]
        BY <2>2, <1>3, <1>6
      <3>2. Stored(j) /\ j \in 1..reserved_chars
        BY <2>2, <3>1, <1>9 DEF QInv, Data, BytesStored
      <3> QED
        BY <3>2, <2>1
    <2>3. reserved_chars' + 1 .. reserved_chars' + new_chars' = {}
      BY <1>1, <1>2, Ranges
    <2> QED
      BY <2>2, <2>3 DEF BytesStored
  <1> QED
    BY <1>10, <1>11, <1>12, <1>13 DEF Data

(* A copy writes its own places and no other.                              *)
LEMMA CopyTouches ==
    ASSUME QInv, CopyIn, NEW i \in 0..buf_length-1
    PROVE  QUEbuffer'[Wrap(First + i)] =
             IF /\ Depth + Innermost.from <= i
                /\ i < Depth + Innermost.from + Innermost.n
             THEN Innermost.val ELSE QUEbuffer[Wrap(First + i)]
  <1> DEFINE w == Innermost
             b == Depth + w.from
  <1>1. /\ writes # <<>> /\ Len(writes) \in 1..Len(writes)
        /\ QUEbuffer' = [p \in Positions |->
              IF p \in Region(w.ptrTo, w.n) THEN w.val ELSE QUEbuffer[p]]
    BY WritesType DEF CopyIn, QInv, Counts
  <1>2. /\ w.from \in Nat /\ w.n \in Nat /\ b \in Nat
        /\ b + w.n <= buf_length
        /\ w.n > 0 => w.ptrTo = Wrap(First + Depth + w.from)
    <2>1. /\ w.from \in Nat /\ w.n \in Nat /\ reserved_chars = w.from + w.n
          /\ w.n > 0 => w.ptrTo = Wrap(First + Depth + w.from)
      BY <1>1, WritesReserved DEF Innermost, QInv, Data, WritesPlaced
    <2>2. /\ Depth \in Nat /\ chars \in Nat /\ new_chars \in Nat
          /\ Depth <= chars /\ chars + reserved_chars + new_chars <= buf_length
      BY Ranges
    <2>3. b \in Nat /\ b + w.n <= buf_length
      <3> HIDE DEF w
      <3>1. b + w.n = Depth + reserved_chars
        BY <2>1, <2>2
      <3> QED
        BY <2>1, <2>2, <3>1, BufferLength
    <2> QED
      BY <2>1, <2>3
  <1>3. First \in Positions
    BY Ranges
  <1>4. Wrap(First + i) \in Positions
    BY <1>3, BufferLength, WrapType DEF Positions
  <1>5. First + Depth + w.from = First + b
    BY <1>2, Ranges DEF Positions
  <1> HIDE DEF w
  <1>6. Wrap(First + i) \in Region(w.ptrTo, w.n) <=> (b <= i /\ i < b + w.n)
    <2> HIDE DEF b
    <2>1. ASSUME w.n > 0, NEW m \in 0..w.n-1
          PROVE  Wrap(w.ptrTo + m) = Wrap(First + (b + m)) /\ b + m \in 0..buf_length-1
      <3>1. w.ptrTo = Wrap(First + b) /\ m \in Nat /\ b + m < buf_length
        BY <2>1, <1>2, <1>5, BufferLength
      <3>2. Wrap(Wrap(First + b) + m) = Wrap(First + b + m)
        BY <3>1, <1>2, <1>3, WrapShift, BufferLength
      <3>3. First + b + m = First + (b + m) /\ b + m \in 0..buf_length-1
        BY <3>1, <1>2, <1>3, BufferLength DEF Positions
      <3> QED
        BY <3>1, <3>2, <3>3
    <2>2. ASSUME Wrap(First + i) \in Region(w.ptrTo, w.n)
          PROVE  b <= i /\ i < b + w.n
      <3>1. PICK m \in 0..w.n-1 : Wrap(First + i) = Wrap(w.ptrTo + m)
        BY <2>2 DEF Region
      <3>2. w.n > 0
        BY <3>1, <1>2
      <3>3. i = b + m
        BY <3>1, <3>2, <2>1, <1>3, WrapDistinct
      <3> QED
        BY <3>3, <1>2
    <2>3. ASSUME b <= i, i < b + w.n
          PROVE  Wrap(First + i) \in Region(w.ptrTo, w.n)
      <3>1. w.n > 0 /\ i - b \in 0..w.n-1 /\ b + (i - b) = i
        BY <2>3, <1>2, BufferLength
      <3>2. Wrap(First + i) = Wrap(w.ptrTo + (i - b))
        BY <3>1, <2>1
      <3> QED
        BY <3>1, <3>2 DEF Region
    <2> QED
      BY <2>2, <2>3
  <1>7. QUEbuffer'[Wrap(First + i)] =
          IF Wrap(First + i) \in Region(w.ptrTo, w.n)
          THEN w.val ELSE QUEbuffer[Wrap(First + i)]
    BY <1>1, <1>4
  <1> QED
    BY <1>6, <1>7 DEF w

LEMMA DataCopyIn ==
    ASSUME QInv, CopyIn
    PROVE  Data'
  <1> DEFINE e == [Innermost EXCEPT !.copied = TRUE]
  <1>1. /\ writes # <<>>
        /\ UNCHANGED <<put, get, chars, reserved_chars, new_chars, read,
                       unpublished>>
        /\ writes' = [writes EXCEPT ![Len(writes)] = e]
    BY DEF CopyIn, counters, Innermost
  <1>2. Len(writes) \in 1..Len(writes) /\ Innermost \in WriteFrames
    BY <1>1, WritesType, WritesReserved DEF QInv, Counts, Innermost
  <1>3. e.from = Innermost.from /\ e.n = Innermost.n
        /\ e.val = Innermost.val /\ e.ptrTo = Innermost.ptrTo
    BY <1>2 DEF WriteFrames
  <1> HIDE DEF e
  <1>4. /\ Len(writes') = Len(writes)
        /\ \A k \in 1..Len(writes) :
              writes'[k] = IF k = Len(writes) THEN e ELSE writes[k]
    BY <1>1, <1>2 DEF QInv, Room, TypeOK
  <1>5. ASSUME NEW k \in 1..Len(writes)
        PROVE  /\ writes'[k].from = writes[k].from
               /\ writes'[k].n = writes[k].n
               /\ writes'[k].val = writes[k].val
               /\ writes'[k].ptrTo = writes[k].ptrTo
               /\ k < Len(writes) => writes'[k] = writes[k]
    BY <1>3, <1>4 DEF Innermost
  <1>6. First' = First /\ Depth' = Depth
    BY <1>1 DEF First, Depth
  <1>7. ReadPlaced' /\ WritesPlaced' /\ HistoryKept'
    <2>1. ReadPlaced'
      BY <1>1 DEF QInv, Data, ReadPlaced
    <2>2. WritesPlaced'
      <3>1. \A j, k \in 1..Len(writes') :
               j < k => writes'[j].from + writes'[j].n <= writes'[k].from
        BY <1>4, <1>5 DEF QInv, Data, WritesPlaced
      <3>2. ASSUME NEW k \in 1..Len(writes'), writes'[k].n > 0
            PROVE  writes'[k].ptrTo = Wrap(First + Depth + writes'[k].from)
        BY <3>2, <1>4, <1>5 DEF QInv, Data, WritesPlaced
      <3>3. put' = Wrap(First' + Depth' + reserved_chars' + new_chars')
        BY <1>1, <1>6 DEF QInv, Data, WritesPlaced
      <3> QED
        BY <1>6, <3>1, <3>2, <3>3 DEF WritesPlaced
    <2>3. HistoryKept'
      <3>1. HistoryKept
        BY DEF QInv, Data
      <3>2. ASSUME NEW k \in 1..Len(writes), NEW j \in Span(writes'[k])
            PROVE  unpublished[j] = writes'[k].val
        <4>1. j \in Span(writes[k]) /\ writes'[k].val = writes[k].val
          BY <1>5, <3>2 DEF Span
        <4> QED
          BY <3>1, <4>1 DEF HistoryKept
      <3> QED
        BY <1>1, <1>4, <3>1, <3>2 DEF HistoryKept
    <2> QED
      BY <2>1, <2>2, <2>3
  <1>8. ASSUME NEW j \in Nat, 0 < j, Depth + j <= buf_length
        PROVE  QUEbuffer'[Place(j)'] =
                 IF Innermost.from < j /\ j <= Innermost.from + Innermost.n
                 THEN Innermost.val ELSE QUEbuffer[Place(j)]
    <2>1. /\ Depth \in Nat /\ First \in Nat
          /\ Innermost.from \in Nat /\ Innermost.n \in Nat
      BY <1>2, Ranges, WritesReserved DEF Positions
    <2>2. PICK i : i = Depth + j - 1
      OBVIOUS
    <2>3. i \in 0..buf_length-1 /\ First + Depth + j - 1 = First + i
      BY <1>8, <2>1, <2>2, BufferLength
    <2>4. /\ Depth + Innermost.from <= i <=> Innermost.from < j
          /\ i < Depth + Innermost.from + Innermost.n
               <=> j <= Innermost.from + Innermost.n
      BY <1>8, <2>1, <2>2
    <2>5. Place(j) = Wrap(First + i) /\ Place(j)' = Wrap(First + i)
      BY <1>6, <2>3 DEF Place
    <2> QED
      BY <2>3, <2>4, <2>5, CopyTouches
  <1>9. BytesStored'
    <2>1. ASSUME NEW k \in 1..Len(writes'), writes'[k].copied,
                 NEW j \in Span(writes'[k])
          PROVE  Stored(j)'
      <3>1. /\ k \in 1..Len(writes) /\ j \in Span(writes[k])
            /\ writes[k].from \in Nat /\ writes[k].n \in Nat
            /\ writes[k].from + writes[k].n <= reserved_chars
            /\ k < Len(writes) => writes[k].from + writes[k].n <= Innermost.from
        BY <1>4, <1>5, <2>1, WritesReserved DEF Span
      <3>2. j \in Nat /\ 0 < j /\ Depth + j <= buf_length
        <4>1. j \in Nat /\ 0 < j /\ j <= reserved_chars
          <5>1. reserved_chars \in Nat
            BY Ranges
          <5> QED
            BY <3>1, <5>1 DEF Span
        <4>2. /\ Depth \in Nat /\ reserved_chars \in Nat
              /\ Depth + reserved_chars <= buf_length
          BY Ranges, BufferLength
        <4> QED
          BY <4>1, <4>2, BufferLength
      <3>3. CASE k = Len(writes)
        <4>1. Innermost.from < j /\ j <= Innermost.from + Innermost.n
          BY <3>1, <3>3 DEF Span, Innermost
        <4>2. unpublished[j] = Innermost.val
          BY <3>1, <3>3 DEF QInv, Data, HistoryKept, Innermost
        <4> QED
          BY <4>1, <4>2, <3>2, <1>1, <1>8 DEF Stored
      <3>4. CASE k < Len(writes)
        <4>1. ~(Innermost.from < j) /\ writes[k].copied
          BY <2>1, <3>1, <3>4, <1>2, <1>5, WritesReserved DEF Span
        <4>2. Stored(j)
          BY <3>1, <4>1 DEF QInv, Data, BytesStored
        <4> QED
          BY <4>1, <4>2, <3>2, <1>1, <1>8 DEF Stored
      <3> QED
        BY <3>1, <3>3, <3>4, <1>2
    <2>2. ASSUME NEW j \in reserved_chars' + 1 .. reserved_chars' + new_chars'
          PROVE  Stored(j)'
      <3>1. j \in reserved_chars + 1 .. reserved_chars + new_chars
        BY <1>1, <2>2
      <3>2. j \in Nat /\ 0 < j /\ Depth + j <= buf_length
        BY <3>1, Ranges, BufferLength
      <3>3. ~(j <= Innermost.from + Innermost.n) /\ Stored(j)
        BY <3>1, <1>2, WritesReserved, Ranges DEF QInv, Data, BytesStored
      <3> QED
        BY <3>2, <3>3, <1>1, <1>8 DEF Stored
    <2> QED
      BY <2>1, <2>2 DEF BytesStored
  <1> QED
    BY <1>7, <1>9 DEF Data

(* What a write's second protected section does, as far as Data needs it.  *)
LEMMA CommitCases ==
    ASSUME QInv, Commit
    PROVE  /\ UNCHANGED <<QUEbuffer, put, get, read>>
           /\ Len(writes') = Len(writes) - 1
           /\ Len(writes) \in Nat /\ Len(writes) > 0
           /\ \A k \in 1..Len(writes) - 1 : writes'[k] = writes[k]
           /\ Innermost.from \in Nat /\ Innermost.n \in Nat
           /\ Innermost = writes[Len(writes)] /\ Innermost.copied
           /\ reserved_chars = Innermost.from + Innermost.n
           /\ \/ /\ Innermost.from = 0
                 /\ chars' = chars + Innermost.n + new_chars
                 /\ reserved_chars' = 0 /\ new_chars' = 0
                 /\ unpublished' = <<>>
              \/ /\ Innermost.from > 0
                 /\ chars' = chars
                 /\ reserved_chars' = Innermost.from
                 /\ new_chars' = new_chars + Innermost.n
                 /\ unpublished' = unpublished
  <1>1. writes # <<>> /\ writes \in Seq(WriteFrames)
    BY DEF Commit, QInv, Room, TypeOK
  <1>2. Len(writes) \in Nat /\ Len(writes) > 0
    BY <1>1, LenProperties, EmptySeq
  <1>3. /\ Innermost.from \in Nat /\ Innermost.n \in Nat
        /\ reserved_chars = Innermost.from + Innermost.n
    BY <1>2, WritesReserved
  <1>4. /\ Len(writes') = Len(writes) - 1
        /\ \A k \in 1..Len(writes) - 1 : writes'[k] = writes[k]
    <2> DEFINE m == Len(writes) - 1
    <2>1. m \in Nat /\ \A k \in 1..m : writes[k] \in WriteFrames
      BY <1>1, <1>2, ElementOfSeq
    <2>2. writes' = SubSeq(writes, 1, m)
      BY DEF Commit
    <2> HIDE DEF m
    <2>3. Len(writes') = m /\ \A k \in 1..m : writes'[k] = writes[k]
      BY <2>1, <2>2, SubSeqProperties
    <2> QED
      BY <2>3 DEF m
  <1>5. /\ UNCHANGED <<QUEbuffer, put, get, read>>
        /\ Innermost = writes[Len(writes)] /\ Innermost.copied
    BY DEF Commit, Innermost
  <1>6. \/ /\ reserved_chars = Innermost.n
           /\ chars' = chars + Innermost.n + new_chars
           /\ reserved_chars' = 0 /\ new_chars' = 0
           /\ unpublished' = <<>>
        \/ /\ reserved_chars # Innermost.n
           /\ chars' = chars
           /\ reserved_chars' = reserved_chars - Innermost.n
           /\ new_chars' = new_chars + Innermost.n
           /\ unpublished' = unpublished
    BY DEF Commit, Outermost
  <1> QED
    BY <1>2, <1>3, <1>4, <1>5, <1>6

(* The bytes of the completing write and those behind it are in place.     *)
LEMMA CommittedStored ==
    ASSUME QInv, Commit,
           NEW j \in Innermost.from + 1 .. reserved_chars + new_chars
    PROVE  Stored(j)
  <1>1. Innermost.from \in Nat /\ Len(writes) \in 1..Len(writes)
    BY CommitCases
  <1>2. CASE j <= reserved_chars
    <2>1. j \in Span(writes[Len(writes)]) /\ writes[Len(writes)].copied
      BY <1>1, <1>2, CommitCases DEF Span
    <2> QED
      BY <1>1, <2>1 DEF QInv, Data, BytesStored
  <1>3. CASE j > reserved_chars
    <2>1. j \in reserved_chars + 1 .. reserved_chars + new_chars
      BY <1>1, <1>3, Ranges
    <2> QED
      BY <2>1 DEF QInv, Data, BytesStored
  <1> QED
    BY <1>1, <1>2, <1>3, Ranges

(* A sum that a completing write rearranges.                               *)
LEMMA Published ==
    ASSUME NEW c \in Nat, NEW r \in Nat, NEW m \in Nat, NEW n \in Nat, n <= c
    PROVE  /\ c + m + r \in Nat
           /\ (c + m + r) - n = (c - n) + m + r
    OBVIOUS

LEMMA DataCommit ==
    ASSUME QInv, Commit
    PROVE  Data'
  <1>1. ReadPlaced'
    BY CommitCases DEF QInv, Data, ReadPlaced
  <1>2. First' = First /\ First \in Nat /\ Depth \in Nat
    BY CommitCases, Ranges DEF First, Positions
  <1>3. \A k \in 1..Len(writes') : k \in 1..Len(writes) /\ writes'[k] = writes[k]
                                   /\ k < Len(writes)
    BY CommitCases
  <1>4. ASSUME NEW k \in 1..Len(writes')
        PROVE  /\ writes'[k].from \in Nat /\ writes'[k].n \in Nat
               /\ writes'[k].from + writes'[k].n <= Innermost.from
    BY <1>3, WritesReserved
  <1>5. CASE Innermost.from = 0
    <2>1. /\ chars' = chars + Innermost.n + new_chars
          /\ reserved_chars' = 0 /\ new_chars' = 0 /\ unpublished' = <<>>
          /\ reserved_chars = Innermost.n /\ Innermost.n \in Nat
          /\ read' = read
      BY <1>5, CommitCases
    <2>2. \A k \in 1..Len(writes') : writes'[k].n = 0 /\ writes'[k].from = 0
      BY <1>4, <1>5
    <2>3. Depth' = Depth + Innermost.n + new_chars
      <3>1. /\ chars \in Nat /\ read.n \in Nat /\ new_chars \in Nat
            /\ read.n <= chars
        BY Ranges DEF QInv, Room, ReadCounted
      <3>2. (chars + Innermost.n + new_chars) - read.n
              = (chars - read.n) + Innermost.n + new_chars
        BY <2>1, <3>1, Published
      <3>3. read' = read /\ chars' = chars + Innermost.n + new_chars
        BY <2>1
      <3> QED
        BY <3>2, <3>3, Zenon DEF Depth
    <2>4. WritesPlaced'
      <3>1. First + Depth + reserved_chars + new_chars
              = First' + Depth' + reserved_chars' + new_chars'
        <4>1. /\ Innermost.n \in Nat /\ new_chars \in Nat
              /\ First \in Nat /\ Depth \in Nat
          BY <1>2, <2>1, Ranges
        <4>2. First + Depth + reserved_chars + new_chars
                = First + Depth + Innermost.n + new_chars
          BY <2>1, Zenon
        <4>3. First' + Depth' + reserved_chars' + new_chars'
                = First + (Depth + Innermost.n + new_chars) + 0 + 0
          BY <1>2, <2>1, <2>3, Zenon
        <4>4. First + Depth + Innermost.n + new_chars
                = First + (Depth + Innermost.n + new_chars) + 0 + 0
          <5> PICK f \in Nat : f = First
            BY <4>1
          <5> PICK d \in Nat : d = Depth
            BY <4>1
          <5> PICK n \in Nat : n = Innermost.n
            BY <4>1
          <5> PICK c \in Nat : c = new_chars
            BY <4>1
          <5>1. f + d + n + c = f + (d + n + c) + 0 + 0
            OBVIOUS
          <5> QED
            BY <5>1, Zenon
        <4> QED
          BY <4>2, <4>3, <4>4, Zenon
      <3>2. put' = Wrap(First' + Depth' + reserved_chars' + new_chars')
        BY <3>1, CommitCases DEF QInv, Data, WritesPlaced
      <3> QED
        BY <3>2, <2>2 DEF WritesPlaced
    <2>5. HistoryKept' /\ BytesStored'
      <3>1. \A k \in 1..Len(writes') : Span(writes'[k]) = {}
        BY <2>2 DEF Span
      <3>2. reserved_chars' + 1 .. reserved_chars' + new_chars' = {}
        BY <2>1
      <3>3. unpublished' \in Seq(Values) /\ Len(unpublished') = reserved_chars' + new_chars'
        BY <2>1, EmptySeq
      <3> QED
        BY <3>1, <3>2, <3>3 DEF HistoryKept, BytesStored
    <2> QED
      BY <1>1, <2>4, <2>5 DEF Data
  <1>6. CASE Innermost.from > 0
    <2>1. /\ chars' = chars /\ reserved_chars' = Innermost.from
          /\ new_chars' = new_chars + Innermost.n /\ unpublished' = unpublished
          /\ reserved_chars = Innermost.from + Innermost.n
          /\ Innermost.n \in Nat /\ Innermost.from \in Nat
          /\ UNCHANGED <<read, put, QUEbuffer>>
      BY <1>6, CommitCases
    <2>2. Depth' = Depth
      BY <2>1 DEF Depth
    <2>3. /\ reserved_chars' + new_chars' = reserved_chars + new_chars
          /\ First + Depth + reserved_chars' + new_chars'
               = First + Depth + reserved_chars + new_chars
      <3> PICK m \in Nat, f \in Nat, a \in Nat, c \in Nat :
              /\ m = Innermost.n /\ f = Innermost.from
              /\ a = First + Depth /\ c = new_chars
        <4>1. First + Depth \in Nat /\ new_chars \in Nat
          BY <1>2, Ranges
        <4> QED
          BY <2>1, <4>1, Zenon
      <3>1. reserved_chars' = f /\ new_chars' = c + m /\ reserved_chars = f + m
        BY <2>1
      <3>2. f + (c + m) = f + m + c /\ a + f + (c + m) = a + (f + m) + c
        OBVIOUS
      <3> QED
        BY <3>1, <3>2, Zenon
    <2>4. WritesPlaced'
      <3>1. First + Depth + reserved_chars + new_chars
              = First' + Depth' + reserved_chars' + new_chars'
        BY <1>2, <2>2, <2>3, Zenon
      <3>2. put' = Wrap(First' + Depth' + reserved_chars' + new_chars')
        BY <2>1, <3>1 DEF QInv, Data, WritesPlaced
      <3> QED
        BY <1>2, <1>3, <2>2, <3>2 DEF QInv, Data, WritesPlaced
    <2>5. HistoryKept'
      BY <1>3, <2>1, <2>3 DEF QInv, Data, HistoryKept
    <2>6. \A j : Stored(j)' <=> Stored(j)
      BY <1>2, <2>1, <2>2 DEF Stored, Place
    <2>7. BytesStored'
      <3>1. ASSUME NEW j \in reserved_chars' + 1 .. reserved_chars' + new_chars'
            PROVE  Stored(j)
        BY <2>1, <2>3, CommittedStored
      <3> QED
        BY <1>3, <2>6, <3>1 DEF QInv, Data, BytesStored
    <2> QED
      BY <1>1, <2>4, <2>5, <2>7 DEF Data
  <1> QED
    BY <1>5, <1>6, CommitCases

(* Without a write under way only the place of the next byte matters.      *)
LEMMA NoWrites ==
    ASSUME QInv, writes = <<>>
    PROVE  /\ reserved_chars = 0 /\ new_chars = 0 /\ unpublished = <<>>
           /\ Len(writes) = 0
           /\ put = Wrap(First + Depth)
  <1>1. reserved_chars = 0 /\ new_chars = 0 /\ Len(writes) = 0
    BY EmptySeq DEF QInv, Counts, Accounting
  <1>2. unpublished = <<>>
    <2>1. unpublished \in Seq(Values) /\ Len(unpublished) = 0
      BY <1>1 DEF QInv, Data, HistoryKept
    <2> QED
      BY <2>1, EmptySeq
  <1>3. put = Wrap(First + Depth)
    <2>1. First + Depth + 0 + 0 = First + Depth
      BY Ranges DEF Positions
    <2> QED
      BY <1>1, <2>1 DEF QInv, Data, WritesPlaced
  <1> QED
    BY <1>1, <1>2, <1>3

LEMMA DataWithoutWrites ==
    ASSUME QInv, writes = <<>>, ReadPlaced',
           UNCHANGED <<reserved_chars, new_chars, writes, unpublished>>,
           First' \in Positions, Depth' \in Nat, put' = Wrap(First' + Depth')
    PROVE  Data'
  <1>1. /\ reserved_chars' = 0 /\ new_chars' = 0 /\ unpublished' = <<>>
        /\ Len(writes') = 0
    BY NoWrites
  <1>2. put' = Wrap(First' + Depth' + reserved_chars' + new_chars')
    <2>1. First' + Depth' + 0 + 0 = First' + Depth'
      BY DEF Positions
    <2> QED
      BY <1>1, <2>1
  <1>3. unpublished' \in Seq(Values) /\ Len(unpublished') = reserved_chars' + new_chars'
    BY <1>1, EmptySeq
  <1>4. 1..Len(writes') = {} /\ reserved_chars' + 1 .. reserved_chars' + new_chars' = {}
    BY <1>1
  <1> QED
    BY <1>2, <1>3, <1>4 DEF Data, WritesPlaced, HistoryKept, BytesStored

(* What the steps of a read and a flush leave to be read.                  *)
LEMMA ReadMoves ==
    ASSUME QInv,
           \/ \E s \in Sizes : BeginRead(s)
           \/ CopyOut \/ FinishRead \/ Flush
    PROVE  /\ writes = <<>>
           /\ UNCHANGED <<QUEbuffer, reserved_chars, new_chars, writes, unpublished>>
           /\ ReadPlaced'
           /\ First' \in Positions /\ Depth' \in Nat
           /\ put' = Wrap(First' + Depth')
           /\ ~(CopyOut \/ Flush) => First' = First /\ Depth' = Depth
           /\ CopyOut => /\ read.step = "copy" /\ read.n \in 1..Depth
                         /\ First' = Wrap(First + read.n)
                         /\ Depth' = Depth - read.n
           /\ Flush => Depth' = 0
  <1>1. CASE \E s \in Sizes : BeginRead(s)
    <2> PICK s \in Sizes : BeginRead(s)
      BY <1>1
    <2> DEFINE n == IF s > chars THEN chars ELSE s
    <2>1. /\ writes = <<>> /\ read.step = "idle" /\ n # 0
          /\ read' = [n |-> n, ptrGet |-> get, step |-> "copy"]
          /\ get' = Wrap(get + n)
          /\ UNCHANGED <<QUEbuffer, put, chars, reserved_chars, new_chars,
                         writes, unpublished>>
      BY DEF BeginRead, counters
    <2>2. n \in Nat
      BY Ranges, BufferLength
    <2> HIDE DEF n
    <2>3. First' = get /\ Depth' = chars
      BY <2>1 DEF First, Depth
    <2>4. First = get /\ Depth = chars
      BY <2>1, Ranges DEF First, Depth, QInv, Room, ReadCounted
    <2>5. ReadPlaced'
      BY <2>1, <2>2 DEF ReadPlaced
    <2> QED
      BY <2>1, <2>3, <2>4, <2>5, Ranges, NoWrites DEF CopyOut, Flush
  <1>2. CASE CopyOut
    <2>1. /\ writes = <<>> /\ read.step = "copy"
          /\ read' = [read EXCEPT !.step = "finish"]
          /\ UNCHANGED <<QUEbuffer, put, get, chars, reserved_chars, new_chars,
                         writes, unpublished>>
      BY <1>2 DEF CopyOut, counters
    <2>2. read'.step = "finish" /\ read'.n = read.n /\ read'.ptrGet = read.ptrGet
      BY <2>1 DEF QInv, Room, TypeOK, ReadFrames
    <2>3. /\ First = read.ptrGet /\ Depth = chars
          /\ get = Wrap(read.ptrGet + read.n) /\ read.n \in 1..chars
          /\ put = Wrap(First + chars)
      BY <2>1, Ranges, NoWrites
      DEF First, Depth, QInv, Data, ReadPlaced, Room, ReadCounted
    <2>4. First' = Wrap(First + read.n) /\ Depth' = Depth - read.n
      BY <2>1, <2>2, <2>3 DEF First, Depth
    <2>5. put' = Wrap(First' + Depth')
      <3> PICK n \in Nat, f \in Positions :  n = read.n /\ f = First
        BY Ranges
      <3>1. n <= chars /\ chars \in Nat /\ chars <= buf_length
        BY <2>3, Ranges, BufferLength
      <3>2. /\ chars - n \in Nat /\ n + (chars - n) <= buf_length
            /\ f + n + (chars - n) = f + chars
        BY <3>1, BufferLength DEF Positions
      <3>3. Wrap(Wrap(f + n) + (chars - n)) = Wrap(f + chars)
        BY <3>2, WrapShift
      <3> QED
        BY <2>1, <2>3, <2>4, <3>3
    <2>6. ReadPlaced' /\ First' \in Positions /\ Depth' \in Nat
      BY <2>1, <2>2, <2>3, <2>4, Ranges DEF QInv, Data, ReadPlaced
    <2> QED
      BY <1>2, <2>1, <2>3, <2>4, <2>5, <2>6 DEF Flush
  <1>3. CASE FinishRead
    <2>1. /\ writes = <<>> /\ read.step = "finish" /\ read' = NoRead
          /\ chars' = chars - read.n
          /\ UNCHANGED <<QUEbuffer, put, get, reserved_chars, new_chars,
                         writes, unpublished>>
      BY <1>3 DEF FinishRead
    <2>2. First = get /\ Depth = chars - read.n /\ put = Wrap(First + Depth)
      BY <2>1, NoWrites DEF First, Depth
    <2>3. First' = get /\ Depth' = chars - read.n
      BY <2>1, Ranges DEF First, Depth, NoRead
    <2>4. ReadPlaced'
      BY <2>1 DEF NoRead, ReadPlaced
    <2> QED
      BY <2>1, <2>2, <2>3, <2>4, Ranges DEF CopyOut, Flush
  <1>4. CASE Flush
    <2>1. /\ writes = <<>> /\ read.step = "idle" /\ read' = read
          /\ get' = 0 /\ put' = 0 /\ chars' = 0 /\ read.n = 0
          /\ UNCHANGED <<QUEbuffer, reserved_chars, new_chars, writes, unpublished>>
      BY <1>4 DEF Flush, QInv, Room, ReadCounted
    <2>2. First' = 0 /\ Depth' = 0 /\ 0 \in Positions /\ Wrap(0) = 0
      BY <2>1, BufferLength DEF First, Depth, Positions, Wrap
    <2>3. ReadPlaced'
      BY <2>1 DEF ReadPlaced
    <2> QED
      BY <1>4, <2>1, <2>2, <2>3 DEF CopyOut
  <1> QED
    BY <1>1, <1>2, <1>3, <1>4

LEMMA DataStutter ==
    ASSUME QInv, UNCHANGED vars
    PROVE  Data'
  <1>1. /\ First' = First /\ Depth' = Depth
        /\ UNCHANGED <<QUEbuffer, put, get, reserved_chars, new_chars, writes,
                       read, unpublished>>
    BY DEF vars, counters, First, Depth
  <1>2. ReadPlaced' /\ WritesPlaced' /\ HistoryKept'
    BY <1>1 DEF QInv, Data, ReadPlaced, WritesPlaced, HistoryKept
  <1>3. BytesStored'
    BY <1>1 DEF QInv, Data, BytesStored, Stored, Place
  <1> QED
    BY <1>2, <1>3 DEF Data

LEMMA QInvNext ==
    ASSUME ~Bursts
    PROVE  QInv /\ [Next]_vars => QInv'
  <1> SUFFICES ASSUME QInv, [Next]_vars
               PROVE  QInv'
    OBVIOUS
  <1>1. Counts' /\ Room'
    BY CountsNext, RoomBegin, RoomCopyIn, RoomCommit, RoomRead DEF QInv, Next
  <1>2. Data'
    <2>1. CASE \/ \E s \in Sizes : BeginRead(s)
               \/ CopyOut \/ FinishRead \/ Flush
      BY <2>1, ReadMoves, DataWithoutWrites
    <2> QED
      BY <2>1, DataBegin, DataCopyIn, DataCommit, DataStutter DEF Next
  <1> QED
    BY <1>1, <1>2 DEF QInv

-----------------------------------------------------------------------------
(*                           The queue is a FIFO                           *)

Content == IF read.step = "copy" THEN Bytes(read.ptrGet, chars)
           ELSE Bytes(get, chars - read.n)

(* The bytes a read can get, by their places.                              *)
LEMMA ContentIs ==
    ASSUME QInv
    PROVE  /\ Content = [i \in 1..Depth |-> QUEbuffer[Wrap(First + i - 1)]]
           /\ Content \in Seq(Values) /\ Len(Content) = Depth
           /\ \A i \in 1..Depth : Content[i] = QUEbuffer[Wrap(First + i - 1)]
  <1>1. Content = Bytes(First, Depth)
    BY DEF Content, First, Depth
  <1>2. Bytes(First, Depth) \in [1..Depth -> Values]
    <2>1. Depth \in 0..buf_length /\ First \in Positions
      BY Ranges, BufferLength
    <2> QED
      BY <2>1, BytesType DEF QInv, Room
  <1>3. Depth \in Nat
    BY Ranges
  <1>4. Content = [i \in 1..Depth |-> QUEbuffer[Wrap(First + i - 1)]]
    BY <1>1 DEF Bytes
  <1>5. Content \in Seq(Values) /\ Len(Content) = Depth
    BY <1>1, <1>2, <1>3
  <1> QED
    BY <1>4, <1>5

(* Steps that leave the readable bytes where they are and as they are.     *)
LEMMA ContentKept ==
    ASSUME First' = First, Depth' = Depth,
           \A i \in 1..Depth :
              QUEbuffer'[Wrap(First + i - 1)] = QUEbuffer[Wrap(First + i - 1)]
    PROVE  Content' = Content
  <1>1. Content = [i \in 1..Depth |-> QUEbuffer[Wrap(First + i - 1)]]
    BY DEF Content, First, Depth, Bytes
  <1>2. Content' = [i \in 1..Depth' |-> QUEbuffer'[Wrap(First' + i - 1)]]
    BY DEF Content, First, Depth, Bytes
  <1> QED
    BY <1>1, <1>2

LEMMA SequenceIsFunction ==
    ASSUME NEW S, NEW q \in Seq(S)
    PROVE  q = [i \in 1..Len(q) |-> q[i]]
    OBVIOUS

LEMMA RestOfSequence ==
    ASSUME NEW S, NEW q \in Seq(S), NEW n \in 1..Len(q)
    PROVE  SubSeq(q, n + 1, Len(q)) = [i \in 1..Len(q) - n |-> q[i + n]]
  <1> PICK d \in Nat : d = Len(q)
    BY LenProperties
  <1> PICK m \in Nat : m = n + 1
    OBVIOUS
  <1>1. \A i \in m..d : q[i] \in S
    BY ElementOfSeq
  <1> DEFINE r == SubSeq(q, m, d)
  <1>2. /\ r \in Seq(S)
        /\ Len(r) = IF m <= d THEN d - m + 1 ELSE 0
        /\ \A i \in 1..d - m + 1 : r[i] = q[m + i - 1]
    BY <1>1, SubSeqProperties
  <1> HIDE DEF r
  <1>3. Len(r) = d - n
    BY <1>2
  <1>4. \A i \in 1..d - n : r[i] = q[i + n]
    <2> TAKE i \in 1..d - n
    <2>1. i \in 1..d - m + 1 /\ m + i - 1 = i + n
      OBVIOUS
    <2> QED
      BY <2>1, <1>2
  <1>5. r = [i \in 1..d - n |-> r[i]]
    BY <1>2, <1>3, SequenceIsFunction
  <1> QED
    BY <1>4, <1>5 DEF r

(* Each step of the queue is one of the FIFO's, or none of its concern.    *)
LEMMA FifoBegin ==
    ASSUME ~Bursts, QInv,
           NEW v \in Values, NEW s \in Sizes, BeginWrite(v, s)
    PROVE  /\ Content' = Content /\ out' = out
           /\ \E n \in 0..buf_length :
                 /\ Len(Content) + Len(unpublished) + n <= buf_length
                 /\ unpublished' = unpublished \o [i \in 1..n |-> v]
  <1> DEFINE n == Accepted(s)
  <1>1. /\ new_chars = 0 /\ n >= 0
        /\ unpublished' = unpublished \o [i \in 1..n |-> v]
        /\ UNCHANGED <<QUEbuffer, get, chars, read, out>>
    BY DEF BeginWrite
  <1>2. n \in Nat /\ chars + reserved_chars + n <= buf_length
    BY <1>1, Ranges, BufferLength DEF Accepted
  <1> HIDE DEF n
  <1>3. Len(Content) = Depth /\ Len(unpublished) = reserved_chars
    <2>1. reserved_chars + 0 = reserved_chars
      BY Ranges
    <2> QED
      BY <1>1, <2>1, ContentIs DEF QInv, Data, HistoryKept
  <1>4. n \in 0..buf_length /\ Depth + reserved_chars + n <= buf_length
    BY <1>2, Ranges, BufferLength
  <1>5. Content' = Content
    BY <1>1 DEF Content, Bytes
  <1>6. Len(Content) + Len(unpublished) + n <= buf_length
    BY <1>3, <1>4
  <1> QED
    BY <1>1, <1>4, <1>5, <1>6

LEMMA FifoCopyIn ==
    ASSUME QInv, CopyIn
    PROVE  Content' = Content /\ unpublished' = unpublished /\ out' = out
  <1>1. First' = First /\ Depth' = Depth /\ UNCHANGED <<unpublished, out>>
    BY DEF CopyIn, counters, First, Depth
  <1>2. writes # <<>>
    BY DEF CopyIn
  <1>3. Innermost.from \in Nat
    <2>1. Len(writes) \in 1..Len(writes)
      BY <1>2, WritesType DEF QInv, Counts
    <2> QED
      BY <2>1, WritesReserved
  <1>4. ASSUME NEW i \in 1..Depth
        PROVE  QUEbuffer'[Wrap(First + i - 1)] = QUEbuffer[Wrap(First + i - 1)]
    <2> PICK k : k = i - 1
      OBVIOUS
    <2>1. /\ k \in 0..buf_length-1 /\ First + i - 1 = First + k
          /\ ~(Depth + Innermost.from <= k)
      <3>1. First \in Nat /\ Depth \in Nat /\ Depth <= buf_length
        <4>1. First \in Nat
          BY Ranges, BufferLength DEF Positions
        <4> QED
          BY <4>1, Ranges, BufferLength
      <3> QED
        BY <1>3, <3>1, BufferLength
    <2>2. QUEbuffer'[Wrap(First + k)] = QUEbuffer[Wrap(First + k)]
      BY <2>1, CopyTouches
    <2> QED
      BY <2>1, <2>2
  <1> QED
    BY <1>1, <1>4, ContentKept

LEMMA FifoCommit ==
    ASSUME QInv, Commit
    PROVE  /\ out' = out
           /\ \/ Content' = Content \o unpublished /\ unpublished' = <<>>
              \/ Content' = Content /\ unpublished' = unpublished
  <1>1. out' = out /\ UNCHANGED <<QUEbuffer, read>> /\ First' = First
    BY CommitCases DEF Commit, First
  <1>2. CASE Innermost.from > 0
    <2>1. unpublished' = unpublished /\ chars' = chars
      BY <1>2, CommitCases
    <2>2. Depth' = Depth
      BY <1>1, <2>1 DEF Depth
    <2> QED
      BY <1>1, <2>1, <2>2, ContentKept
  <1>3. CASE Innermost.from = 0
    <2>1. /\ chars' = chars + Innermost.n + new_chars /\ Innermost.n \in Nat
          /\ unpublished' = <<>> /\ reserved_chars = Innermost.n
      BY <1>3, CommitCases
    <2> PICK m \in Nat : m = Len(unpublished)
      BY LenProperties DEF QInv, Data, HistoryKept
    <2>2. m = Innermost.n + new_chars
      BY <2>1 DEF QInv, Data, HistoryKept
    <2>3. Depth' = Depth + m
      <3>1. /\ chars \in Nat /\ read.n \in Nat /\ new_chars \in Nat
            /\ read.n <= chars
        BY Ranges DEF QInv, Room, ReadCounted
      <3> PICK c \in Nat : c = new_chars
        BY <3>1
      <3> PICK w \in Nat : w = Innermost.n
        BY <2>1
      <3> PICK d \in Nat : d = chars
        BY <3>1
      <3> PICK r \in Nat : r = read.n
        BY <3>1
      <3>2. /\ d + w + c = d + (w + c)
            /\ (d + w + c) - r = (d - r) + (w + c)
        OBVIOUS
      <3>3. chars' = d + w + c /\ m = w + c
        BY <2>1, <2>2
      <3> QED
        BY <1>1, <3>2, <3>3, Zenon DEF Depth
    <2>4. Content' = [i \in 1..Depth + m |-> QUEbuffer[Wrap(First + i - 1)]]
      <3>1. Content' = [i \in 1..Depth' |-> QUEbuffer'[Wrap(First' + i - 1)]]
        BY DEF Content, First, Depth, Bytes
      <3> QED
        BY <3>1, <1>1, <2>3
    <2>5. /\ Content \o unpublished \in Seq(Values)
          /\ Len(Content \o unpublished) = Depth + m
          /\ \A i \in 1..Depth + m : (Content \o unpublished)[i] =
                IF i <= Depth THEN Content[i] ELSE unpublished[i - Depth]
      <3>1. /\ Content \in Seq(Values) /\ Len(Content) = Depth
            /\ unpublished \in Seq(Values)
        BY ContentIs DEF QInv, Data, HistoryKept
      <3> QED
        BY <3>1, ConcatProperties
    <2>6. ASSUME NEW i \in 1..Depth + m
          PROVE  (Content \o unpublished)[i] = QUEbuffer[Wrap(First + i - 1)]
      <3>1. CASE i <= Depth
        <4>1. i \in 1..Depth
          BY <3>1, Ranges
        <4> QED
          BY <3>1, <4>1, <2>5, ContentIs
      <3>2. CASE ~(i <= Depth)
        <4> PICK j : j = i - Depth
          OBVIOUS
        <4>1. j \in 1..m /\ First + Depth + j - 1 = First + i - 1
          <5> PICK d \in Nat, f \in Nat : d = Depth /\ f = First
            BY Ranges DEF Positions
          <5>1. i \in 1..d + m /\ ~(i <= d) /\ j = i - d
            BY <3>2
          <5>2. j \in 1..m /\ f + d + j - 1 = f + i - 1
            BY <5>1
          <5> QED
            BY <5>2
        <4>2. j \in Innermost.from + 1 .. reserved_chars + new_chars
          <5>1. j \in 0 + 1 .. m /\ m = reserved_chars + new_chars
            BY <2>1, <2>2, <4>1
          <5> QED
            BY <1>3, <5>1
        <4>3. QUEbuffer[Wrap(First + Depth + j - 1)] = unpublished[j]
          BY <4>2, CommittedStored DEF Stored, Place
        <4> QED
          BY <3>2, <4>1, <4>3, <2>5
      <3> QED
        BY <3>1, <3>2
    <2>7. Content \o unpublished = [i \in 1..Depth + m |-> (Content \o unpublished)[i]]
      BY <2>5, SequenceIsFunction
    <2>8. Content' = Content \o unpublished
      BY <2>4, <2>6, <2>7
    <2> QED
      BY <1>1, <2>1, <2>8
  <1> QED
    BY <1>2, <1>3, CommitCases

LEMMA FifoCopyOut ==
    ASSUME QInv, CopyOut
    PROVE  /\ unpublished' = unpublished
           /\ \E n \in 1..Len(Content) :
                 /\ out' = SubSeq(Content, 1, n)
                 /\ Content' = SubSeq(Content, n + 1, Len(Content))
  <1>1. /\ unpublished' = unpublished /\ QUEbuffer' = QUEbuffer
        /\ read.step = "copy" /\ out' = Bytes(read.ptrGet, read.n)
        /\ read.n \in 1..Depth
        /\ First' = Wrap(First + read.n) /\ Depth' = Depth - read.n
    BY ReadMoves DEF CopyOut
  <1> PICK n \in 1..Depth : n = read.n
    BY <1>1
  <1> PICK d \in Nat, f \in Positions : d = Depth /\ f = First
    BY Ranges
  <1>2. /\ n \in Nat /\ n >= 1 /\ n <= d /\ d <= buf_length
    BY Ranges, BufferLength
  <1>3. /\ Content = [i \in 1..d |-> QUEbuffer[Wrap(f + i - 1)]]
        /\ Content \in Seq(Values) /\ Len(Content) = d
        /\ \A i \in 1..d : Content[i] = QUEbuffer[Wrap(f + i - 1)]
    BY ContentIs
  <1>4. out' = SubSeq(Content, 1, n)
    <2>1. out' = [i \in 1..n |-> QUEbuffer[Wrap(f + i - 1)]]
      BY <1>1 DEF Bytes, First
    <2>2. SubSeq(Content, 1, n) = [i \in 1..n |-> Content[i]]
      BY <1>2, <1>3
    <2> QED
      BY <1>2, <1>3, <2>1, <2>2
  <1>5. Content' = SubSeq(Content, n + 1, d)
    <2>1. Content' = [i \in 1..d - n |-> QUEbuffer[Wrap(Wrap(f + n) + i - 1)]]
      <3>1. Content' = [i \in 1..Depth' |-> QUEbuffer'[Wrap(First' + i - 1)]]
        BY DEF Content, First, Depth, Bytes
      <3> QED
        BY <3>1, <1>1
    <2>2. SubSeq(Content, n + 1, d) = [i \in 1..d - n |-> Content[i + n]]
      <3>1. n \in 1..Len(Content)
        BY <1>2, <1>3
      <3>2. SubSeq(Content, n + 1, Len(Content))
              = [i \in 1..Len(Content) - n |-> Content[i + n]]
        <4>1. Content \in Seq(Values)
          BY <1>3
        <4> QED
          BY <3>1, <4>1, RestOfSequence, Zenon
      <3> QED
        BY <1>3, <3>2
    <2>3. ASSUME NEW i \in 1..d - n
          PROVE  Content[i + n] = QUEbuffer[Wrap(Wrap(f + n) + i - 1)]
      <3> PICK k : k = i - 1
        OBVIOUS
      <3>1. /\ k \in Nat /\ n + k <= buf_length /\ i + n \in 1..d
            /\ f + (i + n) - 1 = f + n + k
        BY <1>2, BufferLength DEF Positions
      <3>2. Wrap(f + n) \in Int /\ Wrap(f + n) + i - 1 = Wrap(f + n) + k
        BY <1>2, BufferLength DEF Positions, Wrap
      <3>3. Wrap(Wrap(f + n) + k) = Wrap(f + n + k)
        BY <1>2, <3>1, WrapShift
      <3> QED
        BY <1>3, <3>1, <3>2, <3>3
    <2> QED
      BY <2>1, <2>2, <2>3
  <1> QED
    BY <1>1, <1>3, <1>4, <1>5

LEMMA FifoStep ==
    ASSUME ~Bursts, QInv, [Next]_vars
    PROVE  [Fifo!FifoNext]_<<Content, unpublished, out>>
  <1>1. CASE \E v \in Values, s \in Sizes : BeginWrite(v, s)
    <2>1. PICK v \in Values, s \in Sizes : BeginWrite(v, s)
      BY <1>1
    <2>2. Fifo!BeginWrite
      BY <2>1, FifoBegin DEF Fifo!BeginWrite, Content
    <2> QED
      BY <2>2 DEF Fifo!FifoNext
  <1>2. CASE CopyIn
    BY <1>2, FifoCopyIn
  <1>3. CASE Commit
    BY <1>3, FifoCommit DEF Fifo!FifoNext, Fifo!Publish, Content
  <1>4. CASE \/ \E s \in Sizes : BeginRead(s)
             \/ FinishRead
    <2>1. CASE CopyOut \/ Flush
      BY <1>4, <2>1 DEF CopyOut, Flush, BeginRead, FinishRead, Innermost
    <2>2. CASE ~(CopyOut \/ Flush)
      <3>1. /\ QUEbuffer' = QUEbuffer /\ First' = First /\ Depth' = Depth
            /\ unpublished' = unpublished
        BY <1>4, <2>2, ReadMoves
      <3>2. out' = out
        BY <1>4 DEF BeginRead, FinishRead
      <3> QED
        BY <3>1, <3>2, ContentKept
    <2> QED
      BY <2>1, <2>2
  <1>5. CASE CopyOut
    BY <1>5, FifoCopyOut DEF Fifo!FifoNext, Fifo!Read, Content
  <1>6. CASE Flush
    <2>1. /\ out' = out /\ unpublished' = unpublished /\ Depth' = 0
      BY <1>6, ReadMoves DEF Flush
    <2>2. Content' = [i \in 1..Depth' |-> QUEbuffer'[Wrap(First' + i - 1)]]
      BY DEF Content, First, Depth, Bytes
    <2>3. Content' = <<>>
      BY <2>1, <2>2
    <2> QED
      BY <2>1, <2>3 DEF Fifo!FifoNext, Fifo!Flush, Content
  <1>7. CASE UNCHANGED vars
    BY <1>7 DEF vars, counters, Content, Bytes
  <1> QED
    BY <1>1, <1>2, <1>3, <1>4, <1>5, <1>6, <1>7 DEF Next

(* However the writes of interrupts nest and wherever they interrupt a     *)
(* read: the bytes of the queue leave it in the order in which their       *)
(* writes began, none is read before the outermost of the writes that      *)
(* overlap has completed, and no copy reaches a byte that is still to be   *)
(* read, as long as interrupts do not write again inside one write.        *)
THEOREM Refinement ==
    ASSUME ~Bursts
    PROVE  Spec => ImplementsByteFifo
  <1>1. Init => QInv /\ Fifo!FifoInit
    <2>1. Init => Content = <<>> /\ unpublished = <<>> /\ out = <<>>
      BY DEF Init, NoRead, Content, Bytes
    <2> QED
      BY <2>1, DataInit DEF Fifo!FifoInit, Content
  <1>2. QInv /\ [Next]_vars => QInv'
    BY QInvNext
  <1>3. QInv /\ [Next]_vars => [Fifo!FifoNext]_Fifo!fvars
    BY FifoStep DEF Fifo!fvars, Content
  <1> QED
    BY <1>1, <1>2, <1>3, PTL DEF Spec, ImplementsByteFifo, Fifo!FifoSpec

=============================================================================
